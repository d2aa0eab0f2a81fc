----------------------- MODULE CourseSessions_proofs -----------------------
(***************************************************************************)
(* Proofs about CourseSessions for every set of invocations, days,         *)
(* meetings and payloads.  The inductive invariant is TypeOK with          *)
(* Knowledge, what the invocations under way have read and decided; beside *)
(* it stand StoredValid, that attendance fits its lessons, and, for the    *)
(* refusals, Timely, that nothing is later than the clock it was read by.  *)
(***************************************************************************)
EXTENDS CourseSessions, FiniteSetTheorems, TLAPS

-----------------------------------------------------------------------------
(* What the documents a call computes look like. *)
LEMMA SlotType ==
  ASSUME NEW day \in Day, NEW c \in Config
  PROVE  SlotOf(day, c) \in Slot
BY DEF Slot

LEMMA SlotNumbers ==
  ASSUME NEW slot \in Slot
  PROVE  /\ slot.lessons \in {1, 2, 4} /\ slot.calls \in {1, 2}
         /\ slot.calls = 2 => slot.lessons # 1
<1>1. PICK day \in Day, c \in Config : slot = SlotOf(day, c)
  BY DEF Slot
<1>2. c.lessons \in {1, 2, 4} /\ c.calls \in {1, 2} /\ <<c.lessons, c.calls>> # <<1, 2>>
  BY ConfigAssumption DEF Configuration
<1>3. slot.lessons = c.lessons /\ slot.calls = c.calls
  BY <1>1 DEF SlotOf
<1> QED BY <1>2, <1>3

LEMMA BlankType ==
  ASSUME NEW slot \in Slot, NEW at \in Time
  PROVE  Blank(slot, at) \in SessionDoc
BY DEF Blank, SessionDoc, CalendarStatus, None, Unset

LEMMA AbsencesType ==
  ASSUME NEW lessons \in {1, 2, 4}, NEW calls, NEW situation
  PROVE  Absences(lessons, calls, situation) \in {Unset} \cup 0..4
<1>1. lessons \div 2 \in 0..4
  OBVIOUS
<1> QED BY <1>1 DEF Absences, Unset

LEMMA VerdictType ==
  ASSUME NEW slot \in Slot, NEW evidence \in Evidence, NEW now
  PROVE  LET verdict == Verdict(slot, evidence, now) IN
         /\ verdict.first \in Ping /\ verdict.second \in Ping
         /\ verdict.status \in Situation
         /\ verdict.absences \in {Unset} \cup 0..4
<1> DEFINE first == Trusted(slot, Expected(slot).first, evidence.first, now)
           second == Trusted(slot, Expected(slot).second, evidence.second, now)
<1>1. first \in Ping /\ second \in Ping
  BY EvidenceAssumption DEF Trusted, Report, Ping
<1>2. Classify(slot.calls, first, second) \in Situation
  BY DEF Classify, ByPattern, Situation
<1>3. Absences(slot.lessons, slot.calls, Classify(slot.calls, first, second))
        \in {Unset} \cup 0..4
  BY SlotNumbers, AbsencesType
<1> QED BY <1>1, <1>2, <1>3 DEF Verdict

(* An edit the rules let through is a session document. *)
LEMMA EditedType ==
  ASSUME NEW old \in SessionDoc, NEW l, l.change \in Change, l.at \in Time,
         SessionAllowed(old, Edited(old, l))
  PROVE  Edited(old, l) \in SessionDoc
<1>1. CASE l.change.kind = "calendar"
  <2>1. l.change.status \in CalendarStatus
    BY <1>1, ChangeAssumption DEF EditableStatus, CalendarStatus
  <2> QED BY <1>1, <2>1 DEF Edited, SessionDoc
<1>2. CASE l.change.kind # "calendar"
  <2> DEFINE a == EditedAbsences(l.seen, l.change)
  <2>1. l.change.status \in Situation
    BY <1>2, ChangeAssumption
  <2>2. /\ Edited(old, l).slot = old.slot /\ Edited(old, l).absences = a
        /\ Edited(old, l).status = l.change.status
    BY <1>2 DEF Edited, SessionDoc
  <2>3. ValidAttendance(old.slot.lessons, l.change.status, a)
    BY <2>2 DEF SessionAllowed
  <2>4. a \in {Unset} \cup 0..4
    BY <2>3, SlotNumbers DEF ValidAttendance, SessionDoc
  <2> QED BY <1>2, <2>1, <2>4 DEF Edited, SessionDoc
<1> QED BY <1>1, <1>2

LEMMA ClassifiedType ==
  ASSUME NEW old \in SessionDoc, NEW l, l.seen \in SessionDoc,
         l.evidence \in Evidence, l.at \in Time
  PROVE  Classified(old, l) \in SessionDoc
<1> DEFINE verdict == Verdict(l.seen.slot, l.evidence, l.at)
<1>1. /\ verdict.first \in Ping /\ verdict.second \in Ping
      /\ verdict.status \in Situation /\ verdict.absences \in {Unset} \cup 0..4
  BY VerdictType DEF SessionDoc
<1> HIDE DEF verdict
<1>2. [old EXCEPT !.first = verdict.first, !.second = verdict.second,
                  !.status = verdict.status, !.absences = verdict.absences,
                  !.updated = l.at, !.byHand = FALSE] \in SessionDoc
  BY <1>1 DEF SessionDoc
<1> QED BY <1>2 DEF Classified, verdict

LEMMA DesiredType ==
  ASSUME NEW ask \in Schedule, NEW s \in Desired(ask)
  PROVE  DesiredSlot(ask, s) \in Slot
<1>1. s[1] \in Day /\ s[2] \in DOMAIN ask.meetings
  BY DEF Desired, Session
<1>2. ask.meetings[s[2]] \in Config
  BY <1>1 DEF Schedule
<1> QED BY <1>1, <1>2, SlotType DEF DesiredSlot

LEMMA GeneratedType ==
  ASSUME NEW l, l.ask \in Schedule, l.docs \in Docs, l.at \in Time,
         NEW s \in Upserts(l)
  PROVE  Generated(l, s) \in SessionDoc
<1>1. s \in Session /\ s \in Desired(l.ask)
  BY DEF Upserts, Desired
<1> DEFINE new == Blank(DesiredSlot(l.ask, s), l.at)
<1>2. new \in SessionDoc
  BY <1>1, DesiredType, BlankType
<1> HIDE DEF new
<1>3. CASE l.docs[s] = NoDoc
  BY <1>2, <1>3 DEF Generated, new
<1>4. CASE l.docs[s] # NoDoc
  <2>1. l.docs[s] \in SessionDoc
    BY <1>1, <1>4 DEF Docs
  <2>2. [new EXCEPT !.calendar = l.docs[s].calendar, !.created = l.docs[s].created]
          \in SessionDoc
    BY <1>2, <2>1 DEF SessionDoc
  <2> QED BY <1>4, <2>2 DEF Generated, new
<1> QED BY <1>3, <1>4

LEMMA MeetingType ==
  ASSUME NEW l, l.ask \in Schedule, l.grade \in Grade, l.at \in Time,
         NEW m \in MeetingUpserts(l)
  PROVE  MeetingWritten(l, m) \in MeetingDoc
<1>1. m \in Meeting /\ l.ask.meetings[m] \in Config
  BY DEF MeetingUpserts, Schedule
<1>2. l.grade[m] # NoDoc => l.grade[m].created \in Time
  BY <1>1 DEF Grade, MeetingDoc
<1> QED BY <1>1, <1>2 DEF MeetingWritten, MeetingDoc

LEMMA OnHolidayType ==
  ASSUME NEW l, NEW s, l.seen[s] \in SessionDoc, l.at \in Time
  PROVE  OnHoliday(l, s) \in SessionDoc
BY DEF OnHoliday, SessionDoc, CalendarStatus

-----------------------------------------------------------------------------
Known == TypeOK /\ Knowledge

LEMMA TimeType == 0 \in Time /\ Time \subseteq Nat
BY NumbersAssumption DEF Time

LEMMA InitKnown == Init => Known
<1> SUFFICES ASSUME Init PROVE Known
  OBVIOUS
<1>1. PICK ask \in Saved :
        /\ docs = [s \in Session |-> IF s \in Desired(ask)
                                     THEN Blank(DesiredSlot(ask, s), 0) ELSE NoDoc]
        /\ grade = [m \in Meeting |->
                      IF m \in DOMAIN ask.meetings
                      THEN [config |-> ask.meetings[m], created |-> 0, updated |-> 0]
                      ELSE NoDoc]
        /\ course = [days |-> ask.days, updated |-> 0]
  BY DEF Init
<1>2. ask \in Schedule
  BY SavedAssumption
<1>3. docs \in Docs
  BY <1>1, <1>2, DesiredType, BlankType, TimeType DEF Docs
<1>4. grade \in Grade
  BY <1>1, <1>2, TimeType DEF Grade, MeetingDoc, Schedule
<1>5. course \in CourseDoc
  BY <1>1, <1>2, TimeType DEF CourseDoc, Schedule, Period
<1>6. IdleEditor \in EditorState /\ IdleDelivery \in DeliveryState
      /\ IdleSaver \in SaverState /\ IdleHoliday \in HolidayState({})
  BY TimeType DEF IdleEditor, EditorState, IdleDelivery, DeliveryState,
     IdleSaver, SaverState, IdleHoliday, HolidayState
<1>7. TypeOK
  BY <1>3, <1>4, <1>5, <1>6, TimeType DEF Init, TypeOK
<1>8. Knowledge
  BY DEF Init, Knowledge, EditorKnows, DeliveryKnows, SaverKnows, HolidayKnows, Informed,
     FreshIsCurrent, IdleEditor, IdleDelivery, IdleSaver, IdleHoliday
<1> QED BY <1>7, <1>8 DEF Known

(* A write ends the freshness of the deliveries that read what it wrote. *)
LEMMA WriteKeepsFresh ==
  ASSUME Known, NEW W, fresh' = fresh \ Stale(W), UNCHANGED delivery,
         \A s \in Session \ W : docs'[s] = docs[s]
  PROVE  fresh' \subseteq Delivery /\ FreshIsCurrent'
<1>1. \A d \in fresh' : /\ delivery[d].session \in Session \ W
                        /\ docs[delivery[d].session] = delivery[d].seen
                        /\ delivery[d].pc # "idle"
  BY DEF Known, TypeOK, Knowledge, DeliveryKnows, FreshIsCurrent, Stale
<1> QED BY <1>1 DEF FreshIsCurrent, Known, TypeOK

-----------------------------------------------------------------------------
LEMMA EditorKnown ==
  ASSUME Known, NEW e \in Editor, EditorStep(e)
  PROVE  Known'
<1> USE DEF Known
<1>0. editor[e] \in EditorState
  BY DEF TypeOK
<1>1. ASSUME NEW s \in Session, NEW c \in Change, EditGet(e, s, c) PROVE Known'
  <2>1. docs[s] \in SessionDoc
    BY <1>1 DEF EditGet, TypeOK, Docs
  <2>2. [pc |-> "decide", session |-> s, change |-> c, seen |-> docs[s], at |-> 0]
          \in EditorState
    BY <2>1, TimeType DEF EditorState
  <2>3. TypeOK'
    BY <1>1, <2>2 DEF EditGet, TypeOK
  <2>4. EditorKnows'
    BY <1>1, <2>1 DEF EditGet, Knowledge, EditorKnows, TypeOK
  <2> QED BY <1>1, <2>3, <2>4 DEF EditGet, Knowledge, DeliveryKnows,
          SaverKnows, HolidayKnows, Informed, FreshIsCurrent
<1>2. CASE EditDecide(e)
  <2>1. clock \in Time
    BY DEF TypeOK
  <2>2. PICK l \in EditorState :
          /\ editor' = [editor EXCEPT ![e] = l]
          /\ l.pc # "idle" => /\ l.session = editor[e].session
                              /\ l.change = editor[e].change
                              /\ l.seen = editor[e].seen /\ editor[e].pc # "idle"
    <3>1. CASE EditAccepted(editor[e].seen, editor[e].change)
      <4>1. [editor[e] EXCEPT !.pc = "patch", !.at = clock] \in EditorState
        BY <1>0, <2>1 DEF EditorState
      <4> QED BY <1>0, <1>2, <3>1, <4>1 DEF EditDecide, EditorState
    <3>2. CASE ~EditAccepted(editor[e].seen, editor[e].change)
      <4>1. IdleEditor \in EditorState /\ IdleEditor.pc = "idle"
        BY TimeType DEF IdleEditor, EditorState
      <4>2. editor' = [editor EXCEPT ![e] = IdleEditor]
        BY <1>2, <3>2 DEF EditDecide
      <4> QED BY <4>1, <4>2
    <3> QED BY <3>1, <3>2
  <2>3. TypeOK'
    BY <1>2, <2>2 DEF EditDecide, TypeOK
  <2>4. EditorKnows'
    BY <2>2 DEF Knowledge, EditorKnows, TypeOK
  <2> QED BY <1>2, <2>3, <2>4 DEF EditDecide, Knowledge, DeliveryKnows,
          SaverKnows, HolidayKnows, Informed, FreshIsCurrent
<1>3. CASE EditPatch(e)
  <2> DEFINE l == editor[e]
             s == l.session
  <2>1. IdleEditor \in EditorState
    BY TimeType DEF IdleEditor, EditorState
  <2>2. editor' \in [Editor -> EditorState] /\ EditorKnows'
    BY <1>3, <2>1 DEF EditPatch, TypeOK, Knowledge, EditorKnows, IdleEditor
  <2>3. docs' \in Docs /\ fresh' \subseteq Delivery /\ FreshIsCurrent'
    <3>1. CASE docs[s] # NoDoc /\ SessionAllowed(docs[s], Edited(docs[s], l))
      <4>1. /\ s \in Session /\ l.change \in Change /\ l.at \in Time
            /\ docs[s] \in SessionDoc
        BY <1>0, <1>3, <3>1 DEF EditPatch, Knowledge, EditorKnows, EditorState,
           TypeOK, Docs
      <4>2. Edited(docs[s], l) \in SessionDoc
        BY <3>1, <4>1, EditedType
      <4>3. docs' = [docs EXCEPT ![s] = Edited(docs[s], l)]
            /\ fresh' = fresh \ Stale({s})
        BY <1>3, <3>1 DEF EditPatch
      <4>4. docs' \in Docs
        BY <4>2, <4>3 DEF TypeOK, Docs
      <4>5. \A t \in Session \ {s} : docs'[t] = docs[t]
        BY <4>3 DEF TypeOK, Docs
      <4>6. UNCHANGED delivery
        BY <1>3 DEF EditPatch
      <4> QED BY <4>3, <4>4, <4>5, <4>6, WriteKeepsFresh
    <3>2. CASE ~(docs[s] # NoDoc /\ SessionAllowed(docs[s], Edited(docs[s], l)))
      BY <1>3, <3>2 DEF EditPatch, TypeOK, Knowledge, FreshIsCurrent
    <3> QED BY <3>1, <3>2
  <2> QED BY <1>3, <2>2, <2>3 DEF EditPatch, TypeOK, Knowledge, DeliveryKnows,
          SaverKnows, HolidayKnows, Informed
<1> QED BY <1>1, <1>2, <1>3 DEF EditorStep

LEMMA DeliveryKnown ==
  ASSUME Known, NEW d \in Delivery, DeliveryStep(d)
  PROVE  Known'
<1> USE DEF Known
<1>0. delivery[d] \in DeliveryState
  BY DEF TypeOK
<1>i. IdleDelivery \in DeliveryState /\ IdleDelivery.pc = "idle"
  BY TimeType DEF IdleDelivery, DeliveryState
<1>1. ASSUME NEW s \in Session, NEW x \in Evidence, CheckpointGet(d, s, x) PROVE Known'
  <2>1. docs[s] \in SessionDoc
    BY <1>1 DEF CheckpointGet, TypeOK, Docs
  <2> DEFINE l == [pc |-> "decide", session |-> s, evidence |-> x,
                   seen |-> docs[s], at |-> 0]
  <2>2. l \in DeliveryState
    BY <2>1, TimeType DEF DeliveryState
  <2>3. delivery' = [delivery EXCEPT ![d] = l] /\ fresh' = fresh \cup {d}
        /\ UNCHANGED docs
    BY <1>1 DEF CheckpointGet
  <2>4. TypeOK'
    BY <1>1, <2>2, <2>3 DEF CheckpointGet, TypeOK
  <2>5. delivery'[d] = l /\ \A f \in Delivery \ {d} : delivery'[f] = delivery[f]
    BY <2>3 DEF TypeOK
  <2>6. DeliveryKnows'
    BY <2>1, <2>5 DEF Knowledge, DeliveryKnows
  <2>7. FreshIsCurrent'
    BY <2>3, <2>5 DEF Knowledge, FreshIsCurrent, TypeOK
  <2> QED BY <1>1, <2>4, <2>6, <2>7 DEF CheckpointGet, Knowledge, EditorKnows,
          SaverKnows, HolidayKnows, Informed
<1>2. CASE CheckpointDecide(d)
  <2> DEFINE l == delivery[d]
             o == Outcome(l.seen, l.evidence, clock)
  <2>1. CASE o = "applied"
    <3> DEFINE n == [l EXCEPT !.pc = "patch", !.at = clock]
    <3>1. n \in DeliveryState
      BY <1>0 DEF DeliveryState, TypeOK
    <3>2. delivery' = [delivery EXCEPT ![d] = n] /\ UNCHANGED <<fresh, docs>>
      BY <1>2, <2>1 DEF CheckpointDecide
    <3>3. /\ n.pc = "patch" /\ n.at = clock /\ n.seen = l.seen
          /\ n.evidence = l.evidence /\ n.session = l.session
      BY <1>0 DEF DeliveryState
    <3>4. delivery'[d] = n /\ \A f \in Delivery \ {d} : delivery'[f] = delivery[f]
      BY <3>2 DEF TypeOK
    <3>5. l.pc # "idle"
      BY <1>2 DEF CheckpointDecide
    <3> HIDE DEF n
    <3>6. TypeOK'
      BY <1>2, <3>1, <3>2 DEF CheckpointDecide, TypeOK
    <3>7. DeliveryKnows'
      BY <2>1, <3>3, <3>4, <3>5 DEF Knowledge, DeliveryKnows
    <3>8. FreshIsCurrent'
      BY <3>2, <3>3, <3>4, <3>5 DEF Knowledge, FreshIsCurrent, TypeOK
    <3> QED BY <1>2, <3>6, <3>7, <3>8 DEF CheckpointDecide, Knowledge, EditorKnows,
            SaverKnows, HolidayKnows, Informed
  <2>2. CASE o # "applied"
    <3>1. delivery' = [delivery EXCEPT ![d] = IdleDelivery] /\ fresh' = fresh \ {d}
          /\ UNCHANGED docs
      BY <1>2, <2>2 DEF CheckpointDecide
    <3>2. TypeOK' /\ DeliveryKnows' /\ FreshIsCurrent'
      BY <1>2, <1>i, <3>1 DEF CheckpointDecide, TypeOK, Knowledge, DeliveryKnows,
         FreshIsCurrent
    <3> QED BY <1>2, <3>2 DEF CheckpointDecide, Knowledge, EditorKnows,
            SaverKnows, HolidayKnows, Informed
  <2> QED BY <2>1, <2>2
<1>3. CASE CheckpointPatch(d)
  <2> DEFINE l == delivery[d]
             s == l.session
  <2>1. delivery' = [delivery EXCEPT ![d] = IdleDelivery]
    BY <1>3 DEF CheckpointPatch
  <2>2. delivery' \in [Delivery -> DeliveryState] /\ DeliveryKnows'
    BY <2>1, <1>i DEF TypeOK, Knowledge, DeliveryKnows
  <2>3. /\ s \in Session /\ l.evidence \in Evidence /\ l.seen \in SessionDoc
        /\ l.at \in Time
    BY <1>0, <1>3 DEF CheckpointPatch, Knowledge, DeliveryKnows, DeliveryState
  <2>4. \A f \in Delivery \ {d} : delivery'[f] = delivery[f]
    BY <2>1 DEF TypeOK
  <2>5. docs' \in Docs /\ fresh' \subseteq Delivery /\ FreshIsCurrent'
    <3> DEFINE writes == /\ RevisionHolds(d) /\ docs[s] # NoDoc
                         /\ SessionAllowed(docs[s], Classified(docs[s], l))
    <3>1. CASE writes
      <4>1. docs[s] \in SessionDoc
        BY <2>3, <3>1 DEF TypeOK, Docs
      <4>2. Classified(docs[s], l) \in SessionDoc
        BY <2>3, <4>1, ClassifiedType
      <4>3. docs' = [docs EXCEPT ![s] = Classified(docs[s], l)]
            /\ fresh' = fresh \ Stale({s})
        BY <1>3, <3>1 DEF CheckpointPatch
      <4>4. docs' \in Docs
        BY <4>2, <4>3 DEF TypeOK, Docs
      <4>5. \A t \in Session \ {s} : docs'[t] = docs[t]
        BY <4>3 DEF TypeOK, Docs
      <4>6. \A f \in fresh' : /\ f \in Delivery \ {d} /\ f \in fresh
                              /\ delivery[f].session \in Session \ {s}
        BY <4>3 DEF Stale, TypeOK, Knowledge, FreshIsCurrent, DeliveryKnows
      <4>7. FreshIsCurrent'
        BY <2>4, <4>5, <4>6 DEF Knowledge, FreshIsCurrent
      <4> QED BY <4>3, <4>4, <4>7 DEF TypeOK
    <3>2. CASE ~writes
      <4>1. fresh' = fresh \ {d} /\ UNCHANGED docs
        BY <1>3, <3>2 DEF CheckpointPatch
      <4> QED BY <2>4, <4>1 DEF TypeOK, Knowledge, FreshIsCurrent
    <3> QED BY <3>1, <3>2
  <2> QED BY <1>3, <2>2, <2>5 DEF CheckpointPatch, TypeOK, Knowledge, EditorKnows,
          SaverKnows, HolidayKnows, Informed
<1> QED BY <1>1, <1>2, <1>3 DEF DeliveryStep

(* A saver whose new state is well informed keeps what the others know. *)
LEMMA SaverMoves ==
  ASSUME Known, NEW v \in Saver, NEW l \in SaverState,
         saver' = [saver EXCEPT ![v] = l],
         l.pc # "idle" =>
           /\ l.ask \in Schedule /\ l.course \in CourseDoc
           /\ l.pc # "meetings" => l.grade \in Grade
           /\ l.pc \in {"decide", "commit"} => l.docs \in Docs
           /\ l.pc = "commit" => Destructive(l) = {} \/ l.confirm
  PROVE  saver' \in [Saver -> SaverState] /\ SaverKnows'
BY DEF Known, TypeOK, Knowledge, SaverKnows

LEMMA SaverKnown ==
  ASSUME Known, NEW v \in Saver, SaverStep(v)
  PROVE  Known'
<1> USE DEF Known
<1> DEFINE l == saver[v]
<1>0. l \in SaverState /\ docs \in Docs /\ grade \in Grade /\ course \in CourseDoc
      /\ clock \in Time
  BY DEF TypeOK
<1>i. IdleSaver \in SaverState /\ IdleSaver.pc = "idle"
  BY TimeType DEF IdleSaver, SaverState
<1>1. ASSUME NEW ask \in Schedule, NEW b \in BOOLEAN, SaveGetCourse(v, ask, b)
      PROVE  Known'
  <2> DEFINE n == [IdleSaver EXCEPT !.pc = "meetings", !.ask = ask, !.confirm = b,
                                    !.course = course]
  <2>1. n \in SaverState /\ n.ask = ask /\ n.course = course /\ n.pc = "meetings"
    BY <1>0, TimeType DEF IdleSaver, SaverState
  <2>2. saver' = [saver EXCEPT ![v] = n]
    BY <1>1 DEF SaveGetCourse
  <2> HIDE DEF n
  <2>3. saver' \in [Saver -> SaverState] /\ SaverKnows'
    BY <1>0, <2>1, <2>2, SaverMoves
  <2> QED BY <1>1, <2>3 DEF SaveGetCourse, TypeOK, Knowledge, EditorKnows,
          DeliveryKnows, HolidayKnows, Informed, FreshIsCurrent
<1>2. CASE SaveListMeetings(v)
  <2> DEFINE n == [l EXCEPT !.pc = "sessions", !.grade = grade]
  <2>1. /\ n \in SaverState /\ n.ask = l.ask /\ n.course = l.course
        /\ n.pc = "sessions" /\ n.grade = grade
    BY <1>0 DEF SaverState
  <2>2. saver' = [saver EXCEPT ![v] = n]
    BY <1>0, <1>2 DEF SaveListMeetings, TypeOK, SaverState
  <2>3. l.ask \in Schedule /\ l.course \in CourseDoc
    BY <1>2 DEF SaveListMeetings, Knowledge, SaverKnows
  <2> HIDE DEF n
  <2>4. saver' \in [Saver -> SaverState] /\ SaverKnows'
    BY <1>0, <2>1, <2>2, <2>3, SaverMoves
  <2> QED BY <1>2, <2>4 DEF SaveListMeetings, TypeOK, Knowledge, EditorKnows,
          DeliveryKnows, HolidayKnows, Informed, FreshIsCurrent
<1>3. CASE SaveListSessions(v)
  <2> DEFINE n == [l EXCEPT !.pc = "decide", !.docs = docs]
  <2>1. /\ n \in SaverState /\ n.ask = l.ask /\ n.course = l.course
        /\ n.pc = "decide" /\ n.grade = l.grade /\ n.docs = docs
    BY <1>0 DEF SaverState
  <2>2. saver' = [saver EXCEPT ![v] = n]
    BY <1>0, <1>3 DEF SaveListSessions, TypeOK, SaverState
  <2>3. l.ask \in Schedule /\ l.course \in CourseDoc /\ l.grade \in Grade
    BY <1>3 DEF SaveListSessions, Knowledge, SaverKnows
  <2> HIDE DEF n
  <2>4. saver' \in [Saver -> SaverState] /\ SaverKnows'
    BY <1>0, <2>1, <2>2, <2>3, SaverMoves
  <2> QED BY <1>3, <2>4 DEF SaveListSessions, TypeOK, Knowledge, EditorKnows,
          DeliveryKnows, HolidayKnows, Informed, FreshIsCurrent
<1>4. CASE SaveDecide(v)
  <2>1. saver' \in [Saver -> SaverState] /\ SaverKnows'
    <3> DEFINE refuses == ~Consistent(l.ask) \/ (Destructive(l) # {} /\ ~l.confirm)
    <3>1. CASE refuses
      <4>1. saver' = [saver EXCEPT ![v] = IdleSaver]
        BY <1>4, <3>1 DEF SaveDecide
      <4> QED BY <1>i, <4>1, SaverMoves
    <3>2. CASE ~refuses
      <4> DEFINE n == [l EXCEPT !.pc = "commit", !.at = clock]
      <4>1. /\ n \in SaverState /\ n.ask = l.ask /\ n.course = l.course
            /\ n.grade = l.grade /\ n.docs = l.docs /\ n.confirm = l.confirm
            /\ n.pc = "commit"
        BY <1>0 DEF SaverState
      <4>2. saver' = [saver EXCEPT ![v] = n]
        BY <1>4, <3>2 DEF SaveDecide
      <4>3. /\ l.ask \in Schedule /\ l.course \in CourseDoc /\ l.grade \in Grade
            /\ l.docs \in Docs
        BY <1>4 DEF SaveDecide, Knowledge, SaverKnows
      <4> HIDE DEF n
      <4>4. Destructive(n) = {} \/ n.confirm
        BY <3>2, <4>1 DEF Destructive, Obsolete
      <4> QED BY <1>0, <4>1, <4>2, <4>3, <4>4, SaverMoves
    <3> QED BY <3>1, <3>2
  <2> QED BY <1>4, <2>1 DEF SaveDecide, TypeOK, Knowledge, EditorKnows,
          DeliveryKnows, HolidayKnows, Informed, FreshIsCurrent
<1>5. CASE SaveCommit(v)
  <2>1. saver' \in [Saver -> SaverState] /\ SaverKnows'
    <3>1. saver' = [saver EXCEPT ![v] = IdleSaver]
      BY <1>5 DEF SaveCommit
    <3> QED BY <1>i, <3>1, SaverMoves
  <2>2. /\ l.ask \in Schedule /\ l.course \in CourseDoc /\ l.grade \in Grade
        /\ l.docs \in Docs /\ l.at \in Time
    BY <1>0, <1>5 DEF SaveCommit, Knowledge, SaverKnows, SaverState
  <2>3. CASE CommitAllowed(l)
    <3> DEFINE W == Upserts(l) \cup Obsolete(l)
    <3>1. docs' = [s \in Session |-> IF s \in Upserts(l) THEN Generated(l, s)
                                     ELSE IF s \in Obsolete(l) THEN NoDoc ELSE docs[s]]
      BY <1>5, <2>3 DEF SaveCommit
    <3>2. docs' \in Docs
      BY <1>0, <2>2, <3>1, GeneratedType DEF Docs
    <3>3. grade' = [m \in Meeting |->
                      IF m \in MeetingUpserts(l) THEN MeetingWritten(l, m)
                      ELSE IF m \in MeetingDeletes(l) THEN NoDoc ELSE grade[m]]
      BY <1>5, <2>3 DEF SaveCommit
    <3>4. grade' \in Grade
      BY <1>0, <2>2, <3>3, MeetingType DEF Grade
    <3>5. course' \in CourseDoc
      BY <1>0, <1>5, <2>2, <2>3 DEF SaveCommit, CourseDoc, Schedule, Period
    <3>6. fresh' = fresh \ Stale(W) /\ UNCHANGED delivery
      BY <1>5, <2>3 DEF SaveCommit
    <3>7. \A s \in Session \ W : docs'[s] = docs[s]
      BY <3>1
    <3>8. fresh' \subseteq Delivery /\ FreshIsCurrent'
      BY <3>6, <3>7, WriteKeepsFresh
    <3>9. mixed' \in BOOLEAN
      BY <1>5, <2>3 DEF SaveCommit
    <3> QED BY <1>5, <2>1, <3>2, <3>4, <3>5, <3>8, <3>9 DEF SaveCommit, TypeOK, Knowledge,
            EditorKnows, DeliveryKnows, HolidayKnows, Informed
  <2>4. CASE ~CommitAllowed(l)
    BY <1>5, <2>1, <2>4 DEF SaveCommit, TypeOK, Knowledge, EditorKnows,
       DeliveryKnows, HolidayKnows, Informed, FreshIsCurrent
  <2> QED BY <2>3, <2>4
<1> QED BY <1>1, <1>2, <1>3, <1>4, <1>5 DEF SaverStep

(* The same for the application of holidays. *)
LEMMA HolidayMoves ==
  ASSUME Known, NEW h \in Holiday, NEW l, holiday' = [holiday EXCEPT ![h] = l],
         NEW S \in SUBSET Session, l \in HolidayState(S), Informed(l)
  PROVE  /\ holiday' = [g \in Holiday |-> holiday'[g]]
         /\ \A g \in Holiday : \E R \in SUBSET Session : holiday'[g] \in HolidayState(R)
         /\ HolidayKnows'
<1>1. holiday = [g \in Holiday |-> holiday[g]]
  BY DEF Known, TypeOK
<1>2. holiday'[h] = l /\ \A g \in Holiday \ {h} : holiday'[g] = holiday[g]
  BY <1>1
<1>3. holiday' = [g \in Holiday |-> holiday'[g]]
  BY <1>1
<1>4. \A g \in Holiday : \E R \in SUBSET Session : holiday'[g] \in HolidayState(R)
  BY <1>2 DEF Known, TypeOK
<1>5. \A g \in Holiday : Informed(holiday[g])
  BY DEF Known, Knowledge, HolidayKnows, Informed
<1>6. \A g \in Holiday : Informed(holiday'[g])
  BY <1>2, <1>5
<1>7. HolidayKnows'
  BY <1>6 DEF HolidayKnows, Informed
<1> QED BY <1>3, <1>4, <1>7

LEMMA HolidayKnown ==
  ASSUME Known, NEW h \in Holiday, HolidayStep(h)
  PROVE  Known'
<1> USE DEF Known
<1> DEFINE l == holiday[h]
<1>0. docs \in Docs /\ clock \in Time
  BY DEF TypeOK
<1>i. IdleHoliday \in HolidayState({}) /\ Informed(IdleHoliday)
  BY TimeType DEF IdleHoliday, HolidayState, Informed
<1>j. PICK R \in SUBSET Session : l \in HolidayState(R)
  BY DEF TypeOK
<1>r. holiday = [g \in Holiday |-> holiday[g]]
  BY DEF TypeOK
<1>1. ASSUME NEW S \in SUBSET Session, HolidayPreview(h, S) PROVE Known'
  <2> DEFINE n == [IdleHoliday EXCEPT !.pc = "now", !.todo = S]
  <2>1. n \in HolidayState({}) /\ Informed(n)
    BY TimeType DEF IdleHoliday, HolidayState, Informed
  <2>2. holiday' = [holiday EXCEPT ![h] = n]
    BY <1>1 DEF HolidayPreview
  <2> HIDE DEF n
  <2> QED BY <1>1, <2>1, <2>2, HolidayMoves DEF HolidayPreview, TypeOK, Knowledge,
          EditorKnows, DeliveryKnows, SaverKnows, FreshIsCurrent
<1>2. CASE HolidayNow(h)
  <2> DEFINE seen == [s \in l.todo |-> NoDoc]
             n == [l EXCEPT !.pc = "get", !.at = clock, !.seen = seen]
  <2>1. l.todo \in SUBSET Session /\ seen \in [l.todo -> SessionDoc \cup {NoDoc}]
    BY <1>j DEF HolidayState
  <2>2. /\ n \in HolidayState(l.todo) /\ n.seen = seen /\ n.todo = l.todo
        /\ n.pc = "get" /\ DOMAIN seen = l.todo
    BY <1>0, <1>j, <2>1 DEF HolidayState
  <2>3. Informed(n)
    BY <2>1, <2>2 DEF Informed
  <2>4. holiday' = [holiday EXCEPT ![h] = n]
    BY <1>2, <1>j, <1>r DEF HolidayNow, HolidayState
  <2> HIDE DEF n
  <2> QED BY <1>2, <2>1, <2>2, <2>3, <2>4, HolidayMoves DEF HolidayNow, TypeOK,
          Knowledge, EditorKnows, DeliveryKnows, SaverKnows, FreshIsCurrent
<1>3. ASSUME NEW s \in Session, HolidayGet(h, s) PROVE Known'
  <2>1. PICK n : /\ holiday' = [holiday EXCEPT ![h] = n]
                 /\ \E S \in SUBSET Session : n \in HolidayState(S)
                 /\ Informed(n)
    <3>1. CASE docs[s] # NoDoc /\ docs[s].calendar = "scheduled"
      <4> DEFINE pc == IF l.todo = {s} THEN "commit" ELSE "get"
                 n == [l EXCEPT !.todo = @ \ {s}, !.seen[s] = docs[s], !.pc = pc]
                 seen == [l.seen EXCEPT ![s] = docs[s]]
      <4>1. docs[s] \in SessionDoc
        BY <1>0, <3>1 DEF Docs
      <4>2. Informed(l) /\ l.pc = "get" /\ s \in l.todo
        BY <1>3 DEF HolidayGet, Knowledge, HolidayKnows, Informed
      <4>3. /\ DOMAIN seen = DOMAIN l.seen
            /\ seen \in [DOMAIN seen -> SessionDoc \cup {NoDoc}]
            /\ \A t \in DOMAIN seen \ (l.todo \ {s}) : seen[t] \in SessionDoc
        BY <4>1, <4>2 DEF Informed
      <4>4. /\ n \in HolidayState(DOMAIN seen) /\ n.pc = pc /\ n.seen = seen
            /\ n.todo = l.todo \ {s}
        BY <1>j, <4>3 DEF HolidayState
      <4>5. DOMAIN seen \in SUBSET Session /\ DOMAIN seen = DOMAIN l.seen
        BY <4>2, <4>3 DEF Informed
      <4>6. holiday' = [holiday EXCEPT ![h] = n]
        BY <1>3, <3>1 DEF HolidayGet
      <4> HIDE DEF n, seen
      <4>7. Informed(n)
        BY <4>2, <4>3, <4>4, <4>5 DEF Informed
      <4> QED BY <4>4, <4>5, <4>6, <4>7
    <3>2. CASE ~(docs[s] # NoDoc /\ docs[s].calendar = "scheduled")
      <4>1. holiday' = [holiday EXCEPT ![h] = IdleHoliday]
        BY <1>3, <3>2 DEF HolidayGet
      <4> QED BY <1>i, <4>1
    <3> QED BY <3>1, <3>2
  <2> QED BY <1>3, <2>1, HolidayMoves DEF HolidayGet, TypeOK, Knowledge,
          EditorKnows, DeliveryKnows, SaverKnows, FreshIsCurrent
<1>4. CASE HolidayCommit(h)
  <2> DEFINE W == DOMAIN l.seen
  <2>1. holiday' = [holiday EXCEPT ![h] = IdleHoliday]
    BY <1>4 DEF HolidayCommit
  <2>2. /\ holiday' = [g \in Holiday |-> holiday'[g]]
        /\ \A g \in Holiday : \E S \in SUBSET Session : holiday'[g] \in HolidayState(S)
        /\ HolidayKnows'
    BY <1>i, <2>1, HolidayMoves
  <2>3. \A s \in W : l.seen[s] \in SessionDoc
    BY <1>4 DEF HolidayCommit, Knowledge, HolidayKnows, Informed
  <2>4. l.at \in Time
    BY <1>j DEF HolidayState
  <2>5. CASE \A s \in W : SessionAllowed(docs[s], OnHoliday(l, s))
    <3>1. /\ docs' = [s \in Session |-> IF s \in W THEN OnHoliday(l, s) ELSE docs[s]]
          /\ fresh' = fresh \ Stale(W) /\ UNCHANGED delivery
      BY <1>4, <2>5 DEF HolidayCommit
    <3>2. docs' \in Docs
      BY <1>0, <2>3, <2>4, <3>1, OnHolidayType DEF Docs
    <3>3. \A s \in Session \ W : docs'[s] = docs[s]
      BY <3>1
    <3>4. fresh' \subseteq Delivery /\ FreshIsCurrent'
      BY <3>1, <3>3, WriteKeepsFresh
    <3>5. mixed' \in BOOLEAN
      BY <1>4, <2>5 DEF HolidayCommit
    <3> QED BY <1>4, <2>2, <3>2, <3>4, <3>5 DEF HolidayCommit, TypeOK, Knowledge,
            EditorKnows, DeliveryKnows, SaverKnows
  <2>6. CASE ~(\A s \in W : SessionAllowed(docs[s], OnHoliday(l, s)))
    BY <1>4, <2>2, <2>6 DEF HolidayCommit, TypeOK, Knowledge, EditorKnows,
       DeliveryKnows, SaverKnows, FreshIsCurrent
  <2> QED BY <2>5, <2>6
<1> QED BY <1>1, <1>2, <1>3, <1>4 DEF HolidayStep

LEMMA AbortKnown ==
  ASSUME Known, Abort
  PROVE  Known'
<1> USE DEF Known
<1>1. ASSUME NEW e \in Editor, editor' = [editor EXCEPT ![e] = IdleEditor],
             UNCHANGED <<delivery, saver, holiday, fresh>>
      PROVE  Known'
  <2>1. IdleEditor \in EditorState /\ IdleEditor.pc = "idle"
    BY TimeType DEF IdleEditor, EditorState
  <2>2. editor' \in [Editor -> EditorState] /\ EditorKnows'
    BY <1>1, <2>1 DEF TypeOK, Knowledge, EditorKnows
  <2> QED BY <1>1, <2>2 DEF Abort, TypeOK, Knowledge, DeliveryKnows, SaverKnows,
          HolidayKnows, Informed, FreshIsCurrent
<1>2. ASSUME NEW d \in Delivery, delivery' = [delivery EXCEPT ![d] = IdleDelivery],
             fresh' = fresh \ {d}, UNCHANGED <<editor, saver, holiday>>
      PROVE  Known'
  <2>1. IdleDelivery \in DeliveryState /\ IdleDelivery.pc = "idle"
    BY TimeType DEF IdleDelivery, DeliveryState
  <2>2. UNCHANGED docs
    BY DEF Abort
  <2>3. delivery' \in [Delivery -> DeliveryState] /\ DeliveryKnows'
        /\ fresh' \subseteq Delivery /\ FreshIsCurrent'
    BY <1>2, <2>1, <2>2 DEF TypeOK, Knowledge, DeliveryKnows, FreshIsCurrent
  <2> QED BY <1>2, <2>3 DEF Abort, TypeOK, Knowledge, EditorKnows, SaverKnows,
          HolidayKnows, Informed
<1>3. ASSUME NEW v \in Saver, saver' = [saver EXCEPT ![v] = IdleSaver],
             UNCHANGED <<editor, delivery, holiday, fresh>>
      PROVE  Known'
  <2>1. IdleSaver \in SaverState /\ IdleSaver.pc = "idle"
    BY TimeType DEF IdleSaver, SaverState
  <2>2. saver' \in [Saver -> SaverState] /\ SaverKnows'
    BY <1>3, <2>1, SaverMoves
  <2> QED BY <1>3, <2>2 DEF Abort, TypeOK, Knowledge, EditorKnows, DeliveryKnows,
          HolidayKnows, Informed, FreshIsCurrent
<1>4. ASSUME NEW h \in Holiday, holiday' = [holiday EXCEPT ![h] = IdleHoliday],
             UNCHANGED <<editor, delivery, saver, fresh>>
      PROVE  Known'
  <2>1. IdleHoliday \in HolidayState({}) /\ Informed(IdleHoliday)
    BY TimeType DEF IdleHoliday, HolidayState, Informed
  <2> QED BY <1>4, <2>1, HolidayMoves DEF Abort, TypeOK, Knowledge, EditorKnows,
          DeliveryKnows, SaverKnows, FreshIsCurrent
<1> QED BY <1>1, <1>2, <1>3, <1>4 DEF Abort

LEMMA NextKnown == Known /\ [Next]_vars => Known'
<1> SUFFICES ASSUME Known, [Next]_vars PROVE Known'
  OBVIOUS
<1>1. CASE Tick
  <2>1. clock' \in Time
    BY <1>1, NumbersAssumption DEF Tick, Known, TypeOK, Time
  <2> QED BY <1>1, <2>1 DEF Tick, Known, TypeOK, Knowledge, EditorKnows,
          DeliveryKnows, SaverKnows, HolidayKnows, Informed, FreshIsCurrent
<1>2. CASE UNCHANGED vars
  BY <1>2 DEF vars, Known, TypeOK, Knowledge, EditorKnows, DeliveryKnows,
     SaverKnows, HolidayKnows, Informed, FreshIsCurrent
<1> QED BY <1>1, <1>2, EditorKnown, DeliveryKnown, SaverKnown, HolidayKnown,
        AbortKnown DEF Next

LEMMA AlwaysKnown == Spec => []Known
BY InitKnown, NextKnown, PTL DEF Spec

(* Every document, and everything an invocation holds, keeps its type. *)
THEOREM SessionsTypeCorrect == Spec => []TypeOK
<1>1. Known => TypeOK
  BY DEF Known
<1> QED BY <1>1, AlwaysKnown, PTL
-----------------------------------------------------------------------------
(* Every write of a session was let through by the rules. *)
LEMMA RulesDecide ==
  ASSUME Known, [Next]_vars, NEW s \in Session
  PROVE  docs'[s] \in {docs[s], NoDoc} \/ SessionAllowed(docs[s], docs'[s])
<1> USE DEF Known
<1>0. docs \in Docs
  BY DEF TypeOK
<1>1. ASSUME NEW e \in Editor, EditorStep(e)
      PROVE  docs'[s] = docs[s] \/ SessionAllowed(docs[s], docs'[s])
  <2>1. CASE EditPatch(e)
    BY <1>0, <2>1 DEF EditPatch, Docs
  <2> QED BY <1>1, <2>1 DEF EditorStep, EditGet, EditDecide
<1>2. ASSUME NEW d \in Delivery, DeliveryStep(d)
      PROVE  docs'[s] = docs[s] \/ SessionAllowed(docs[s], docs'[s])
  <2>1. CASE CheckpointPatch(d)
    BY <1>0, <2>1 DEF CheckpointPatch, Docs
  <2> QED BY <1>2, <2>1 DEF DeliveryStep, CheckpointGet, CheckpointDecide
<1>3. ASSUME NEW v \in Saver, SaverStep(v)
      PROVE  docs'[s] \in {docs[s], NoDoc} \/ SessionAllowed(docs[s], docs'[s])
  <2>1. CASE SaveCommit(v)
    BY <1>0, <2>1 DEF SaveCommit, CommitAllowed
  <2> QED BY <1>3, <2>1 DEF SaverStep, SaveGetCourse, SaveListMeetings,
          SaveListSessions, SaveDecide
<1>4. ASSUME NEW h \in Holiday, HolidayStep(h)
      PROVE  docs'[s] = docs[s] \/ SessionAllowed(docs[s], docs'[s])
  <2>1. CASE HolidayCommit(h)
    BY <1>0, <2>1 DEF HolidayCommit
  <2> QED BY <1>4, <2>1 DEF HolidayStep, HolidayPreview, HolidayNow, HolidayGet
<1>5. CASE Abort \/ Tick \/ UNCHANGED vars
  BY <1>5 DEF Abort, Tick, vars
<1> QED BY <1>1, <1>2, <1>3, <1>4, <1>5 DEF Next

(* A stored session's attendance fits its situation and its lessons. *)
StoredValid ==
  \A s \in Session : Stored(s) =>
    /\ ValidAttendance(docs[s].slot.lessons, docs[s].status, docs[s].absences)
    /\ docs[s].updated >= docs[s].created

LEMMA AlwaysValid == Spec => []StoredValid
<1>1. Init => StoredValid
  BY TimeType DEF Init, StoredValid, Stored, Blank, ValidAttendance, None
<1>2. Known /\ StoredValid /\ [Next]_vars => StoredValid'
  BY RulesDecide DEF StoredValid, Stored, SessionAllowed
<1> QED BY <1>1, <1>2, AlwaysKnown, PTL DEF Spec

-----------------------------------------------------------------------------
(* What "applied" says of the session the decision was made on. *)
LEMMA AppliedToBlank ==
  ASSUME NEW doc, NEW evidence, NEW at, Outcome(doc, evidence, at) = "applied"
  PROVE  /\ evidence.slot = doc.slot /\ doc.calendar \in RollCallStatus
         /\ doc.status = None /\ doc.first = None /\ doc.second = None
         /\ Verdict(doc.slot, evidence, at).status # "pendente"
BY DEF Outcome

LEMMA PatchOnFresh ==
  ASSUME Known, StoredValid, NEW d \in Delivery, CheckpointPatch(d),
         NEW s \in Session, docs'[s] # docs[s]
  PROVE  /\ s = delivery[d].session /\ docs[s] = delivery[d].seen
         /\ docs[s] \in SessionDoc /\ Stored(s) /\ ~HasEvidence(docs[s])
         /\ docs[s].calendar \in RollCallStatus
         /\ docs[s].slot = delivery[d].evidence.slot
         /\ docs'[s] = Classified(docs[s], delivery[d])
<1> DEFINE l == delivery[d]
<1>1. /\ s = l.session /\ RevisionHolds(d) /\ Stored(s)
      /\ docs'[s] = Classified(docs[s], l)
  BY DEF CheckpointPatch, Known, TypeOK, Docs, Stored
<1>2. docs[s] = l.seen /\ docs[s] \in SessionDoc
  BY <1>1 DEF RevisionHolds, Known, TypeOK, Knowledge, FreshIsCurrent, Docs, Stored
<1>3. Outcome(l.seen, l.evidence, l.at) = "applied"
  BY DEF CheckpointPatch, Known, Knowledge, DeliveryKnows
<1>4. /\ l.evidence.slot = docs[s].slot /\ docs[s].calendar \in RollCallStatus
      /\ docs[s].status = None /\ docs[s].first = None /\ docs[s].second = None
  BY <1>2, <1>3, AppliedToBlank
<1>5. docs[s].absences = Unset
  BY <1>1, <1>4 DEF StoredValid, ValidAttendance
<1> QED BY <1>1, <1>2, <1>4, <1>5 DEF HasEvidence

(* A checkpoint only ever fills a blank session it was told about. *)
THEOREM SessionsCheckpointFillsBlank == Spec => CheckpointFillsBlank
<1>1. Known /\ StoredValid /\ [Next]_vars => CheckpointIsFirstStep
  <2>1. ASSUME Known, StoredValid, [Next]_vars, NEW d \in Delivery,
               delivery[d].pc = "patch", delivery'[d] # delivery[d],
               NEW s \in Session, docs'[s] # docs[s]
        PROVE  /\ Stored(s) /\ ~HasEvidence(docs[s])
               /\ docs[s].calendar \in RollCallStatus
               /\ docs[s].slot = delivery[d].evidence.slot
    <3>1. \E f \in Delivery : DeliveryStep(f)
      BY <2>1 DEF Next, vars, EditorStep, EditGet, EditDecide, EditPatch,
         SaverStep, SaveGetCourse, SaveListMeetings, SaveListSessions, SaveDecide,
         SaveCommit, HolidayStep, HolidayPreview, HolidayNow, HolidayGet,
         HolidayCommit, Abort, Tick
    <3>2. PICK f \in Delivery : CheckpointPatch(f)
      BY <2>1, <3>1 DEF DeliveryStep, CheckpointGet, CheckpointDecide
    <3>3. delivery' = [delivery EXCEPT ![f] = IdleDelivery]
      BY <3>2 DEF CheckpointPatch
    <3>4. f = d
      BY <2>1, <3>3 DEF Known, TypeOK
    <3> QED BY <2>1, <3>2, <3>4, PatchOnFresh
  <2> QED BY <2>1 DEF CheckpointIsFirstStep, CheckpointIsFirst, Changes
<1> QED BY <1>1, AlwaysKnown, AlwaysValid, PTL DEF Spec, CheckpointFillsBlank

(* What a schedule or a holiday takes from a session with attendance was   *)
(* stored after the call had read it, or its deletion was confirmed.       *)
THEOREM SessionsLossHasCause == Spec => LossHasCause
<1>1. Known /\ StoredValid /\ [Next]_vars => LossStep
  <2> SUFFICES ASSUME Known, StoredValid, [Next]_vars,
                      NEW s \in Session, Stored(s), HasEvidence(docs[s])
               PROVE  \/ SameAttendance(docs[s], docs'[s])
                      \/ \E e \in Editor : Edits(e, s)
                      \/ \E v \in Saver : SaverMayLose(v, s)
                      \/ \E h \in Holiday : HolidayMayLose(h, s)
    BY DEF LossStep
  <2>0. docs[s] \in SessionDoc /\ docs \in Docs
    BY DEF Known, TypeOK, Docs, Stored
  <2>s. docs'[s] = docs[s] => SameAttendance(docs[s], docs'[s])
    BY DEF SameAttendance, Stored
  <2>1. ASSUME NEW e \in Editor, EditorStep(e), docs'[s] # docs[s]
        PROVE  Edits(e, s)
    <3>1. EditPatch(e)
      BY <2>1 DEF EditorStep, EditGet, EditDecide
    <3>2. editor[e].session = s
      BY <2>0, <2>1, <3>1 DEF EditPatch, Docs
    <3>3. editor'[e].pc = "idle"
      BY <3>1 DEF EditPatch, IdleEditor, Known, TypeOK
    <3> QED BY <3>1, <3>2, <3>3 DEF Edits, EditPatch
  <2>2. ASSUME NEW d \in Delivery, DeliveryStep(d)
        PROVE  docs'[s] = docs[s]
    BY <2>2, PatchOnFresh DEF DeliveryStep, CheckpointGet, CheckpointDecide
  <2>3. ASSUME NEW v \in Saver, SaverStep(v), docs'[s] # docs[s]
        PROVE  SaverMayLose(v, s)
    <3> DEFINE l == saver[v]
    <3>1. SaveCommit(v)
      BY <2>3 DEF SaverStep, SaveGetCourse, SaveListMeetings, SaveListSessions,
         SaveDecide
    <3>2. l.pc = "commit" /\ saver'[v].pc = "idle"
      BY <3>1 DEF SaveCommit, IdleSaver, Known, TypeOK
    <3>3. CASE s \in Upserts(l)
      <4>1. l.docs[s] # docs[s]
        BY <3>3 DEF Upserts, Kept, Stored
      <4> QED BY <3>2, <4>1 DEF SaverMayLose
    <3>4. CASE s \notin Upserts(l)
      <4>1. s \in Obsolete(l) /\ docs'[s] = NoDoc
        BY <2>3, <3>1, <3>4 DEF SaveCommit
      <4>2. CASE l.docs[s] = docs[s]
        <5>1. s \in Destructive(l)
          BY <4>1, <4>2 DEF Destructive, Protected
        <5>2. l.confirm
          BY <3>2, <5>1 DEF Known, Knowledge, SaverKnows
        <5> QED BY <3>2, <4>1, <5>2 DEF SaverMayLose
      <4> QED BY <3>2, <4>2 DEF SaverMayLose
    <3> QED BY <3>3, <3>4
  <2>4. ASSUME NEW h \in Holiday, HolidayStep(h)
        PROVE  SameAttendance(docs[s], docs'[s]) \/ HolidayMayLose(h, s)
    <3> DEFINE l == holiday[h]
    <3>1. CASE HolidayCommit(h) /\ docs'[s] # docs[s]
      <4>1. docs'[s] = OnHoliday(l, s)
        BY <3>1 DEF HolidayCommit
      <4>2. l.pc = "commit" /\ holiday'[h].pc = "idle"
        BY <3>1 DEF HolidayCommit, IdleHoliday, Known, TypeOK
      <4>3. CASE l.seen[s] = docs[s]
        <5>1. OnHoliday(l, s) \in SessionDoc
          <6>1. \E S \in SUBSET Session : l \in HolidayState(S)
            BY DEF Known, TypeOK
          <6>2. l.at \in Time
            BY <6>1 DEF HolidayState
          <6> QED BY <2>0, <4>3, <6>2, OnHolidayType
        <5>2. OnHoliday(l, s) # NoDoc
          BY <5>1, NoDocAssumption
        <5>3. \A f \in {"first", "second", "status", "absences"} :
                docs[s][f] = OnHoliday(l, s)[f]
          BY <2>0, <4>3 DEF OnHoliday, SessionDoc
        <5> QED BY <4>1, <5>2, <5>3 DEF SameAttendance
      <4> QED BY <4>2, <4>3 DEF HolidayMayLose
    <3> QED BY <2>4, <2>s, <3>1 DEF HolidayStep, HolidayPreview, HolidayNow, HolidayGet
  <2>5. CASE Abort \/ Tick \/ UNCHANGED vars
    BY <2>5, <2>s DEF Abort, Tick, vars
  <2> QED BY <2>s, <2>1, <2>2, <2>3, <2>4, <2>5 DEF Next
<1> QED BY <1>1, AlwaysKnown, AlwaysValid, PTL DEF Spec, LossHasCause
-----------------------------------------------------------------------------
(* The pings captured off campus, counted. *)
LEMMA AwayCount ==
  ASSUME NEW doc \in SessionDoc
  PROVE  Cardinality(AwayPings(doc)) =
           (IF doc.first = "fora" THEN 1 ELSE 0) + (IF doc.second = "fora" THEN 1 ELSE 0)
<1>1. /\ doc["first"] = doc.first /\ doc["second"] = doc.second
  OBVIOUS
<1>2. Cardinality({}) = 0 /\ IsFiniteSet({})
  BY FS_EmptySet
<1>3. Cardinality({"first"}) = 1 /\ Cardinality({"second"}) = 1 /\ IsFiniteSet({"first"})
  BY FS_Singleton
<1>4. Cardinality({"first"} \cup {"second"}) = 2
  BY <1>3, FS_AddElement
<1>5. CASE doc.first = "fora" /\ doc.second = "fora"
  <2>1. AwayPings(doc) = {"first"} \cup {"second"}
    BY <1>1, <1>5 DEF AwayPings
  <2> QED BY <1>4, <1>5, <2>1
<1>6. CASE doc.first = "fora" /\ doc.second # "fora"
  <2>1. AwayPings(doc) = {"first"}
    BY <1>1, <1>6 DEF AwayPings
  <2> QED BY <1>3, <1>6, <2>1
<1>7. CASE doc.first # "fora" /\ doc.second = "fora"
  <2>1. AwayPings(doc) = {"second"}
    BY <1>1, <1>7 DEF AwayPings
  <2> QED BY <1>3, <1>7, <2>1
<1>8. CASE doc.first # "fora" /\ doc.second # "fora"
  <2>1. AwayPings(doc) = {}
    BY <1>1, <1>8 DEF AwayPings
  <2> QED BY <1>2, <1>8, <2>1
<1> QED BY <1>5, <1>6, <1>7, <1>8

(* What a classification writes is backed by its pings. *)
LEMMA ClassifiedBacked ==
  ASSUME NEW old \in SessionDoc, NEW l, l.seen = old, l.evidence \in Evidence,
         l.at \in Time, Verdict(old.slot, l.evidence, l.at).status # "pendente"
  PROVE  EvidenceBacked(Classified(old, l))
<1> DEFINE new == Classified(old, l)
           verdict == Verdict(old.slot, l.evidence, l.at)
           n == old.slot.lessons
           calls == old.slot.calls
<1>1. /\ verdict.first \in Ping /\ verdict.second \in Ping
      /\ verdict.status = Classify(calls, verdict.first, verdict.second)
      /\ verdict.absences = Absences(n, calls, verdict.status)
  BY VerdictType DEF SessionDoc, Verdict
<1>2. n \in {1, 2, 4} /\ calls \in {1, 2} /\ (calls = 2 => n # 1)
  BY SlotNumbers DEF SessionDoc
<1>3. /\ new.first = verdict.first /\ new.second = verdict.second
      /\ new.absences = verdict.absences /\ new.slot = old.slot
  BY DEF Classified, SessionDoc
<1>4. new \in SessionDoc
  BY ClassifiedType
<1>5. Cardinality(AwayPings(new)) =
        (IF verdict.first = "fora" THEN 1 ELSE 0) + (IF verdict.second = "fora" THEN 1 ELSE 0)
  BY <1>3, <1>4, AwayCount
<1> HIDE DEF new, verdict
<1>6. CASE calls = 2
  <2>1. "indisponivel" \notin {verdict.first, verdict.second}
    BY <1>1, <1>6 DEF Classify, verdict
  <2>2. verdict.absences =
          (n \div 2) * ((IF verdict.first = "fora" THEN 1 ELSE 0)
                        + (IF verdict.second = "fora" THEN 1 ELSE 0))
    <3>1. n = (n \div 2) * 2 /\ n \div 2 \in Nat
      BY <1>2, <1>6
    <3> QED BY <1>1, <1>6, <2>1, <3>1 DEF Classify, ByPattern, Absences, Ping
  <2>3. EvidenceBacked(new)
    BY <1>3, <1>5, <1>6, <2>1, <2>2 DEF EvidenceBacked
  <2> QED BY <2>3 DEF new
<1>7. CASE calls = 1
  <2> DEFINE away == verdict.first = "fora" /\ verdict.second = "fora"
  <2>1. verdict.status # "pendente"
    BY DEF verdict
  <2>2. CASE away
    <3>1. verdict.status = "ausente"
      BY <1>1, <2>2 DEF Classify, ByPattern
    <3>2. verdict.absences = n
      BY <1>1, <3>1 DEF Absences
    <3> QED BY <1>3, <1>5, <1>7, <2>2, <3>2 DEF EvidenceBacked, new
  <2>3. CASE ~away
    <3>1. "no_campus" \in {verdict.first, verdict.second}
      BY <1>1, <1>7, <2>1, <2>3 DEF Classify, Ping
    <3>2. verdict.status # "ausente"
      BY <1>1, <1>7, <3>1 DEF Classify, ByPattern
    <3>3. verdict.absences = 0
      BY <1>1, <1>7, <2>1, <3>2 DEF Absences
    <3> QED BY <1>3, <1>5, <1>7, <2>3, <3>3 DEF EvidenceBacked, new
  <2> QED BY <2>2, <2>3
<1> QED BY <1>2, <1>6, <1>7

(* What a holiday is about to write back was backed when it was read. *)
BackedBy(l) ==
  l.pc \in {"get", "commit"} =>
    \A s \in DOMAIN l.seen \ l.todo : EvidenceBacked(l.seen[s])
ReadBacked == \A h \in Holiday : BackedBy(holiday[h])

LEMMA ReadBackedNext ==
  ASSUME \A h \in Holiday : BackedBy(holiday'[h])
  PROVE  ReadBacked'
BY DEF ReadBacked, BackedBy, EvidenceBacked, AwayPings

LEMMA DocsBacked ==
  ASSUME Known, StoredValid, AbsenceHasEvidence, ReadBacked, [Next]_vars
  PROVE  AbsenceHasEvidence'
<1> SUFFICES ASSUME NEW s \in Session, docs'[s] # NoDoc, docs'[s] # docs[s]
             PROVE  EvidenceBacked(docs'[s])
  BY DEF AbsenceHasEvidence, Stored, EvidenceBacked, AwayPings
<1>0. docs \in Docs
  BY DEF Known, TypeOK
<1>1. ASSUME NEW e \in Editor, EditorStep(e) PROVE EvidenceBacked(docs'[s])
  <2> DEFINE l == editor[e]
  <2>1. EditPatch(e)
    BY <1>1 DEF EditorStep, EditGet, EditDecide
  <2>2. docs[s] # NoDoc /\ docs'[s] = Edited(docs[s], l)
    BY <1>0, <2>1 DEF EditPatch, Docs
  <2>3. docs[s] \in SessionDoc /\ EvidenceBacked(docs[s])
    BY <1>0, <2>2 DEF Docs, AbsenceHasEvidence, Stored
  <2>4. CASE l.change.kind = "calendar"
    <3>1. \A f \in {"slot", "first", "second", "status", "absences", "byHand"} :
            Edited(docs[s], l)[f] = docs[s][f]
      BY <2>3, <2>4 DEF Edited, SessionDoc
    <3> QED BY <2>2, <2>3, <3>1 DEF EvidenceBacked, AwayPings
  <2>5. CASE l.change.kind # "calendar"
    <3>1. Edited(docs[s], l).byHand = TRUE
      BY <2>3, <2>5 DEF Edited, SessionDoc
    <3> QED BY <2>2, <3>1 DEF EvidenceBacked
  <2> QED BY <2>4, <2>5
<1>2. ASSUME NEW d \in Delivery, DeliveryStep(d) PROVE EvidenceBacked(docs'[s])
  <2> DEFINE l == delivery[d]
  <2>1. CheckpointPatch(d)
    BY <1>2 DEF DeliveryStep, CheckpointGet, CheckpointDecide
  <2>2. docs[s] = l.seen /\ docs[s] \in SessionDoc /\ docs'[s] = Classified(docs[s], l)
    BY <2>1, PatchOnFresh
  <2>3. Outcome(l.seen, l.evidence, l.at) = "applied" /\ l.evidence \in Evidence
    BY <2>1 DEF CheckpointPatch, Known, Knowledge, DeliveryKnows
  <2>4. l.at \in Time
    BY DEF Known, TypeOK, DeliveryState
  <2> QED BY <2>2, <2>3, <2>4, AppliedToBlank, ClassifiedBacked
<1>3. ASSUME NEW v \in Saver, SaverStep(v) PROVE EvidenceBacked(docs'[s])
  <2> DEFINE l == saver[v]
  <2>1. SaveCommit(v)
    BY <1>3 DEF SaverStep, SaveGetCourse, SaveListMeetings, SaveListSessions, SaveDecide
  <2>2. s \in Upserts(l) /\ docs'[s] = Generated(l, s)
    BY <2>1 DEF SaveCommit
  <2>3. Generated(l, s).status = None
    BY DEF Generated, Blank
  <2> QED BY <2>2, <2>3 DEF EvidenceBacked
<1>4. ASSUME NEW h \in Holiday, HolidayStep(h) PROVE EvidenceBacked(docs'[s])
  <2> DEFINE l == holiday[h]
  <2>1. HolidayCommit(h)
    BY <1>4 DEF HolidayStep, HolidayPreview, HolidayNow, HolidayGet
  <2>2. s \in DOMAIN l.seen /\ docs'[s] = OnHoliday(l, s)
    BY <2>1 DEF HolidayCommit
  <2>3. l.seen[s] \in SessionDoc /\ EvidenceBacked(l.seen[s])
    BY <2>1, <2>2 DEF HolidayCommit, Known, Knowledge, HolidayKnows, Informed,
       ReadBacked, BackedBy
  <2>4. \A f \in {"slot", "first", "second", "status", "absences", "byHand"} :
          OnHoliday(l, s)[f] = l.seen[s][f]
    BY <2>3 DEF OnHoliday, SessionDoc
  <2> QED BY <2>2, <2>3, <2>4 DEF EvidenceBacked, AwayPings
<1>5. ~(Abort \/ Tick \/ UNCHANGED vars)
  BY DEF Abort, Tick, vars
<1> QED BY <1>1, <1>2, <1>3, <1>4, <1>5 DEF Next

LEMMA ReadsBacked ==
  ASSUME Known, AbsenceHasEvidence, ReadBacked, [Next]_vars
  PROVE  ReadBacked'
<1>0. holiday = [h \in Holiday |-> holiday[h]] /\ docs \in Docs
  BY DEF Known, TypeOK
<1>1. ASSUME NEW h \in Holiday, HolidayStep(h) PROVE ReadBacked'
  <2> DEFINE l == holiday[h]
  <2>0. \E S \in SUBSET Session : l \in HolidayState(S)
    BY DEF Known, TypeOK
  <2>1. \A g \in Holiday \ {h} : holiday'[g] = holiday[g]
    BY <1>0, <1>1 DEF HolidayStep, HolidayPreview, HolidayNow, HolidayGet, HolidayCommit
  <2>2. SUFFICES ASSUME holiday'[h].pc \in {"get", "commit"},
                        NEW s \in DOMAIN holiday'[h].seen \ holiday'[h].todo
                 PROVE  EvidenceBacked(holiday'[h].seen[s])
    <3>1. SUFFICES BackedBy(holiday'[h])
      BY <2>1, ReadBackedNext DEF ReadBacked
    <3> QED BY DEF BackedBy
  <2>3. ASSUME NEW S \in SUBSET Session, HolidayPreview(h, S) PROVE FALSE
    <3>1. holiday'[h].pc = "now"
      BY <1>0, <2>3 DEF HolidayPreview, IdleHoliday
    <3> QED BY <2>2, <3>1
  <2>4. ASSUME HolidayNow(h) PROVE FALSE
    <3>1. /\ holiday'[h].seen = [t \in l.todo |-> NoDoc] /\ holiday'[h].todo = l.todo
      BY <1>0, <2>0, <2>4 DEF HolidayNow, HolidayState
    <3> QED BY <2>2, <3>1
  <2>5. ASSUME HolidayCommit(h) PROVE FALSE
    <3>1. holiday'[h].pc = "idle"
      BY <1>0, <2>5 DEF HolidayCommit, IdleHoliday
    <3> QED BY <2>2, <3>1
  <2>6. ASSUME NEW t \in Session, HolidayGet(h, t)
        PROVE  EvidenceBacked(holiday'[h].seen[s])
    <3>1. docs[t] # NoDoc /\ docs[t].calendar = "scheduled"
      BY <1>0, <2>2, <2>6 DEF HolidayGet, IdleHoliday
    <3> DEFINE pc == IF l.todo = {t} THEN "commit" ELSE "get"
               n == [l EXCEPT !.todo = @ \ {t}, !.seen[t] = docs[t], !.pc = pc]
    <3>2. holiday'[h] = n
      BY <1>0, <2>6, <3>1 DEF HolidayGet
    <3>3. n.todo = l.todo \ {t} /\ n.seen = [l.seen EXCEPT ![t] = docs[t]]
      BY <2>0 DEF HolidayState
    <3>4. /\ l.pc = "get" /\ t \in l.todo /\ l.todo \subseteq DOMAIN l.seen
          /\ l.seen \in [DOMAIN l.seen -> SessionDoc \cup {NoDoc}]
      BY <2>6 DEF HolidayGet, Known, Knowledge, HolidayKnows, Informed
    <3>5. CASE s = t
      <4>1. holiday'[h].seen[s] = docs[t]
        BY <3>2, <3>3, <3>4, <3>5
      <4> QED BY <3>1, <4>1 DEF AbsenceHasEvidence, Stored
    <3>6. CASE s # t
      <4>1. holiday'[h].seen[s] = l.seen[s] /\ s \in DOMAIN l.seen \ l.todo
        BY <2>2, <3>2, <3>3, <3>4, <3>6
      <4> QED BY <3>4, <4>1 DEF ReadBacked, BackedBy
    <3> QED BY <3>5, <3>6
  <2> QED BY <1>1, <2>3, <2>4, <2>5, <2>6 DEF HolidayStep
<1>2. ASSUME Abort PROVE ReadBacked'
  <2>1. CASE UNCHANGED holiday
    BY <2>1, ReadBackedNext DEF ReadBacked
  <2>2. ASSUME NEW h \in Holiday, holiday' = [holiday EXCEPT ![h] = IdleHoliday]
        PROVE  ReadBacked'
    <3>1. holiday'[h].pc = "idle" /\ \A g \in Holiday \ {h} : holiday'[g] = holiday[g]
      BY <1>0, <2>2 DEF IdleHoliday
    <3>2. BackedBy(holiday'[h])
      BY <3>1 DEF BackedBy
    <3> QED BY <3>1, <3>2, ReadBackedNext DEF ReadBacked
  <2> QED BY <1>2, <2>1, <2>2 DEF Abort
<1>3. CASE UNCHANGED holiday
  BY <1>3, ReadBackedNext DEF ReadBacked
<1>4. ASSUME NEW e \in Editor, EditorStep(e) PROVE UNCHANGED holiday
  BY <1>4 DEF EditorStep, EditGet, EditDecide, EditPatch
<1>5. ASSUME NEW d \in Delivery, DeliveryStep(d) PROVE UNCHANGED holiday
  BY <1>5 DEF DeliveryStep, CheckpointGet, CheckpointDecide, CheckpointPatch
<1>6. ASSUME NEW v \in Saver, SaverStep(v) PROVE UNCHANGED holiday
  BY <1>6 DEF SaverStep, SaveGetCourse, SaveListMeetings, SaveListSessions,
     SaveDecide, SaveCommit
<1> QED BY <1>1, <1>2, <1>3, <1>4, <1>5, <1>6 DEF Next, Tick, vars

(* An absence the device settled counts only pings captured off campus. *)
THEOREM SessionsAbsenceHasEvidence == Spec => []AbsenceHasEvidence
<1>1. Init => AbsenceHasEvidence /\ ReadBacked
  BY DEF Init, AbsenceHasEvidence, Stored, Blank, EvidenceBacked, ReadBacked,
     BackedBy, IdleHoliday
<1>2. Known /\ StoredValid /\ AbsenceHasEvidence /\ ReadBacked /\ [Next]_vars
        => AbsenceHasEvidence' /\ ReadBacked'
  BY DocsBacked, ReadsBacked
<1> QED BY <1>1, <1>2, AlwaysKnown, AlwaysValid, PTL DEF Spec

-----------------------------------------------------------------------------
(* A session's document stands where its meeting puts it, or where its     *)
(* attendance keeps it.                                                    *)
InPlace(s, doc) == HasEvidence(doc) \/ doc.slot = SlotOf(s[1], grade[s[2]].config)

(* What a replacement alone with edits and checkpoints has read is still   *)
(* so, but for attendance stored since.                                    *)
SaverCurrent(l) ==
  /\ l.pc # "idle" => l.course = course
  /\ l.pc \in {"sessions", "decide", "commit"} => l.grade = grade
  /\ l.pc \in {"decide", "commit"} => \A s \in Session :
       /\ l.docs[s] = NoDoc <=> docs[s] = NoDoc
       /\ docs[s] # NoDoc => /\ l.docs[s].slot = docs[s].slot
                             /\ HasEvidence(l.docs[s]) => HasEvidence(docs[s])
  /\ l.pc = "commit" => Consistent(l.ask)

HolidayCurrent(l) ==
  l.pc \in {"get", "commit"} => \A s \in DOMAIN l.seen : l.seen[s] # NoDoc =>
    docs[s] # NoDoc /\ l.seen[s].slot = docs[s].slot /\ InPlace(s, l.seen[s])

Generates ==
  /\ Complete
  /\ \A v \in Saver : SaverCurrent(saver[v])
  /\ \A h \in Holiday : HolidayCurrent(holiday[h])

(* A write of one session that leaves its slot and only adds attendance.   *)
Patched(s) ==
  docs'[s] # docs[s] =>
    /\ docs[s] # NoDoc /\ docs'[s] # NoDoc /\ docs'[s].slot = docs[s].slot
    /\ HasEvidence(docs[s]) => HasEvidence(docs'[s])

LEMMA PatchGenerates ==
  ASSUME Known, Generates, UNCHANGED <<grade, course, saver, holiday>>,
         \A s \in Session : Patched(s)
  PROVE  Generates'
<1>1. Complete'
  <2>1. Timetable' = Timetable /\ Timetable \subseteq Session
    BY DEF Timetable
  <2>2. \A s \in Session : Stored(s)' <=> Stored(s)
    BY DEF Patched, Stored
  <2>3. ASSUME NEW s \in Timetable
        PROVE  HasEvidence(docs'[s]) \/ docs'[s].slot = SlotOf(s[1], grade'[s[2]].config)
    BY <2>1 DEF Generates, Complete, Patched
  <2> QED BY <2>1, <2>2, <2>3 DEF Generates, Complete
<1>2. ASSUME NEW v \in Saver PROVE SaverCurrent(saver[v])'
  <2>1. SaverCurrent(saver[v]) /\ saver'[v] = saver[v]
    BY DEF Generates
  <2> QED BY <2>1 DEF SaverCurrent, Patched
<1>3. ASSUME NEW h \in Holiday, holiday[h].pc \in {"get", "commit"}
      PROVE  HolidayCurrent(holiday[h])'
  <2>1. HolidayCurrent(holiday[h]) /\ holiday'[h] = holiday[h]
    BY DEF Generates
  <2>2. DOMAIN holiday[h].seen \subseteq Session
    BY <1>3 DEF Known, Knowledge, HolidayKnows, Informed
  <2> QED BY <1>3, <2>1, <2>2 DEF HolidayCurrent, Patched, InPlace
<1>4. ASSUME NEW h \in Holiday, holiday[h].pc \notin {"get", "commit"}
      PROVE  HolidayCurrent(holiday[h])'
  BY <1>4 DEF HolidayCurrent
<1> QED BY <1>1, <1>2, <1>3, <1>4 DEF Generates

(* A step that writes no document and is of one saver, or of one holiday.  *)
LEMMA SaverReadGenerates ==
  ASSUME Known, Generates, UNCHANGED <<docs, grade, course, holiday>>,
         NEW v \in Saver, NEW l, saver' = [saver EXCEPT ![v] = l], SaverCurrent(l)
  PROVE  Generates'
<1>1. Complete'
  BY DEF Generates, Complete, Timetable, Stored
<1>2. \A w \in Saver : saver'[w] = IF w = v THEN l ELSE saver[w]
  BY DEF Known, TypeOK
<1>3. ASSUME NEW w \in Saver PROVE SaverCurrent(saver[w])'
  <2>1. SaverCurrent(saver'[w])
    BY <1>2 DEF Generates
  <2> QED BY <2>1 DEF SaverCurrent
<1>4. ASSUME NEW h \in Holiday PROVE HolidayCurrent(holiday[h])'
  BY DEF Generates, HolidayCurrent, InPlace
<1> QED BY <1>1, <1>3, <1>4 DEF Generates

LEMMA HolidayReadGenerates ==
  ASSUME Known, Generates, UNCHANGED <<docs, grade, course, saver>>,
         NEW h \in Holiday, NEW l, holiday' = [holiday EXCEPT ![h] = l], HolidayCurrent(l)
  PROVE  Generates'
<1>1. Complete'
  BY DEF Generates, Complete, Timetable, Stored
<1>2. \A g \in Holiday : holiday'[g] = IF g = h THEN l ELSE holiday[g]
  BY DEF Known, TypeOK
<1>3. ASSUME NEW g \in Holiday PROVE HolidayCurrent(holiday[g])'
  <2>1. HolidayCurrent(holiday'[g])
    BY <1>2 DEF Generates
  <2> QED BY <2>1 DEF HolidayCurrent, InPlace
<1>4. ASSUME NEW v \in Saver PROVE SaverCurrent(saver[v])'
  BY DEF Generates, SaverCurrent
<1> QED BY <1>1, <1>3, <1>4 DEF Generates

(* The calls whose write is of one session.                                *)
LEMMA EditorGenerates ==
  ASSUME Known, Generates, NEW e \in Editor, EditorStep(e)
  PROVE  Generates'
<1>1. UNCHANGED <<grade, course, saver, holiday>>
  BY DEF EditorStep, EditGet, EditDecide, EditPatch
<1>2. ASSUME NEW s \in Session PROVE Patched(s)
  <2> SUFFICES ASSUME docs'[s] # docs[s]
               PROVE  /\ docs[s] # NoDoc /\ docs'[s] # NoDoc /\ docs'[s].slot = docs[s].slot
                      /\ HasEvidence(docs[s]) => HasEvidence(docs'[s])
    BY DEF Patched
  <2> DEFINE l == editor[e]
  <2>1. EditPatch(e)
    BY DEF EditorStep, EditGet, EditDecide
  <2>2. /\ docs[s] # NoDoc /\ docs'[s] = Edited(docs[s], l)
        /\ SessionAllowed(docs[s], Edited(docs[s], l))
    BY <2>1 DEF EditPatch, Known, TypeOK, Docs
  <2>3. docs[s] \in SessionDoc
    BY <2>2 DEF Known, TypeOK, Docs
  <2>4. l.change \in Change /\ l.at \in Time
    BY <2>1 DEF EditPatch, Known, Knowledge, EditorKnows, TypeOK, EditorState
  <2>5. docs'[s] # NoDoc
    BY <2>2, <2>3, <2>4, EditedType, NoDocAssumption
  <2>6. CASE l.change.kind = "calendar"
    BY <2>2, <2>3, <2>5, <2>6 DEF Edited, SessionDoc, HasEvidence
  <2>7. CASE l.change.kind # "calendar"
    <3>1. l.change.status \in Situation
      BY <2>4, <2>7, ChangeAssumption
    <3>2. docs'[s].slot = docs[s].slot /\ docs'[s].status = l.change.status
      BY <2>2, <2>3, <2>7 DEF Edited, SessionDoc
    <3> QED BY <2>2, <2>5, <3>1, <3>2 DEF HasEvidence, Situation, None
  <2> QED BY <2>6, <2>7
<1> QED BY <1>1, <1>2, PatchGenerates

LEMMA DeliveryGenerates ==
  ASSUME Known, Generates, NEW d \in Delivery, DeliveryStep(d)
  PROVE  Generates'
<1>1. UNCHANGED <<grade, course, saver, holiday>>
  BY DEF DeliveryStep, CheckpointGet, CheckpointDecide, CheckpointPatch
<1>2. ASSUME NEW s \in Session PROVE Patched(s)
  <2> SUFFICES ASSUME docs'[s] # docs[s]
               PROVE  /\ docs[s] # NoDoc /\ docs'[s] # NoDoc /\ docs'[s].slot = docs[s].slot
                      /\ HasEvidence(docs'[s])
    BY DEF Patched
  <2> DEFINE l == delivery[d]
  <2>1. CheckpointPatch(d)
    BY DEF DeliveryStep, CheckpointGet, CheckpointDecide
  <2>2. docs[s] # NoDoc /\ docs'[s] = Classified(docs[s], l)
    BY <2>1 DEF CheckpointPatch, Known, TypeOK, Docs
  <2>3. docs[s] \in SessionDoc
    BY <2>2 DEF Known, TypeOK, Docs
  <2>4. l.seen \in SessionDoc /\ l.evidence \in Evidence /\ l.at \in Time
    BY <2>1 DEF CheckpointPatch, Known, Knowledge, DeliveryKnows, TypeOK, DeliveryState
  <2>5. docs'[s] \in SessionDoc
    BY <2>2, <2>3, <2>4, ClassifiedType
  <2>6. Verdict(l.seen.slot, l.evidence, l.at).first \in Ping
    BY <2>4, VerdictType DEF SessionDoc
  <2>7. /\ docs'[s].slot = docs[s].slot
        /\ docs'[s].first = Verdict(l.seen.slot, l.evidence, l.at).first
    BY <2>2, <2>3 DEF Classified, SessionDoc
  <2>8. HasEvidence(docs'[s])
    BY <2>6, <2>7 DEF HasEvidence, Ping, None
  <2> QED BY <2>2, <2>5, <2>7, <2>8, NoDocAssumption
<1> QED BY <1>1, <1>2, PatchGenerates

(* The commit of the only replacement under way, no holiday beside it:     *)
(* what it leaves alone and what it writes are the schedule it was asked.  *)
LEMMA CommitGenerates ==
  ASSUME Known, Generates, ~mixed', NEW v \in Saver, SaveCommit(v)
  PROVE  Generates'
<1> DEFINE l == saver[v]
           ask == l.ask
<1>1. /\ l.pc = "commit" /\ saver' = [saver EXCEPT ![v] = IdleSaver] /\ UNCHANGED holiday
  BY DEF SaveCommit
<1>6. CASE ~CommitAllowed(l)
  <2>1. UNCHANGED <<docs, grade, course>>
    BY <1>6 DEF SaveCommit
  <2>2. SaverCurrent(IdleSaver)
    BY DEF SaverCurrent, IdleSaver
  <2> QED BY <1>1, <2>1, <2>2, SaverReadGenerates
<1>7. CASE CommitAllowed(l)
  <2>a. Replacing \ {v} = {} /\ OnHolidays = {}
    BY <1>7 DEF SaveCommit
  <2>b. \A w \in Saver : saver'[w].pc = "idle"
    BY <1>1, <2>a DEF Replacing, IdleSaver, Known, TypeOK
  <2>c. \A h \in Holiday : holiday'[h].pc \notin {"get", "commit"}
    BY <1>1, <2>a DEF OnHolidays
  <2>d. \A w \in Saver : SaverCurrent(saver[w])'
    BY <2>b DEF SaverCurrent
  <2>e. \A h \in Holiday : HolidayCurrent(holiday[h])'
    BY <2>c DEF HolidayCurrent
  <2>1. SaverCurrent(l)
    BY DEF Generates
  <2>2. l.course = course /\ l.grade = grade /\ Consistent(ask)
    BY <2>1, <1>1 DEF SaverCurrent
  <2>3. \A s \in Session :
          /\ l.docs[s] = NoDoc <=> docs[s] = NoDoc
          /\ docs[s] # NoDoc => /\ l.docs[s].slot = docs[s].slot
                                /\ HasEvidence(l.docs[s]) => HasEvidence(docs[s])
    BY <2>1, <1>1 DEF SaverCurrent
  <2>4. /\ ask \in Schedule /\ l.grade \in Grade /\ l.docs \in Docs /\ l.at \in Time
    BY <1>1 DEF Known, Knowledge, SaverKnows, TypeOK, SaverState
  <2>5. course'.days = ask.days
    BY <1>7, <2>2 DEF SaveCommit, CourseChanged
  <2>6. grade' = [m \in Meeting |->
                    IF m \in MeetingUpserts(l) THEN MeetingWritten(l, m)
                    ELSE IF m \in MeetingDeletes(l) THEN NoDoc ELSE grade[m]]
    BY <1>7 DEF SaveCommit
  <2>7. docs' = [s \in Session |-> IF s \in Upserts(l) THEN Generated(l, s)
                                   ELSE IF s \in Obsolete(l) THEN NoDoc ELSE docs[s]]
    BY <1>7 DEF SaveCommit
  <2>8. DOMAIN ask.meetings \subseteq Meeting
    BY <2>4 DEF Schedule
  <2>9. ASSUME NEW m \in Meeting, m \in DOMAIN ask.meetings
        PROVE  grade'[m] # NoDoc /\ grade'[m].config = ask.meetings[m]
    <3>1. CASE m \in MeetingUpserts(l)
      <4>1. grade'[m] = MeetingWritten(l, m)
        BY <2>6, <3>1
      <4>2. MeetingWritten(l, m) \in MeetingDoc
        BY <2>4, <3>1, MeetingType
      <4> QED BY <4>1, <4>2, NoDocAssumption DEF MeetingWritten
    <3>2. CASE m \notin MeetingUpserts(l)
      <4>1. ~MeetingChanged(l, m) /\ m \notin MeetingDeletes(l)
        BY <2>9, <3>2 DEF MeetingUpserts, MeetingDeletes
      <4> QED BY <2>2, <2>6, <3>2, <4>1 DEF MeetingChanged
    <3> QED BY <3>1, <3>2
  <2>10. ASSUME NEW m \in Meeting, m \notin DOMAIN ask.meetings
         PROVE  grade'[m] = NoDoc
    BY <2>2, <2>6, <2>10 DEF MeetingUpserts, MeetingDeletes
  <2>11. Timetable' = Desired(ask)
    <3>1. \A s \in Session : s[2] \in Meeting
      BY DEF Session
    <3> QED BY <2>5, <2>9, <2>10, <3>1 DEF Timetable, Desired
  <2>12. ASSUME NEW s \in Desired(ask)
         PROVE  /\ docs'[s] # NoDoc
                /\ HasEvidence(docs'[s]) \/ docs'[s].slot = DesiredSlot(ask, s)
    <3>1. s \in Session
      BY DEF Desired
    <3>2. CASE s \in Upserts(l)
      <4>1. docs'[s] = Generated(l, s)
        BY <2>7, <3>1, <3>2
      <4>2. Generated(l, s) \in SessionDoc
        BY <2>4, <3>2, GeneratedType
      <4>3. Generated(l, s).slot = DesiredSlot(ask, s)
        BY DEF Generated, Blank
      <4> QED BY <4>1, <4>2, <4>3, NoDocAssumption
    <3>3. CASE s \notin Upserts(l)
      <4>1. Kept(l, s) /\ s \notin Obsolete(l)
        BY <3>3 DEF Upserts, Obsolete
      <4>2. docs'[s] = docs[s]
        BY <2>7, <3>1, <3>3, <4>1
      <4> QED BY <2>3, <3>1, <4>1, <4>2 DEF Kept
    <3> QED BY <3>2, <3>3
  <2>13. ASSUME NEW s \in Session, s \notin Desired(ask) PROVE docs'[s] = NoDoc
    BY <2>3, <2>7, <2>13 DEF Upserts, Obsolete
  <2>14. {s \in Session : Stored(s)}' = Timetable'
    <3>1. Desired(ask) \subseteq Session
      BY DEF Desired
    <3> QED BY <2>11, <2>12, <2>13, <3>1 DEF Stored
  <2>15. ASSUME NEW s \in Timetable'
         PROVE  HasEvidence(docs'[s]) \/ docs'[s].slot = SlotOf(s[1], grade'[s[2]].config)
    <3>1. s \in Desired(ask) /\ s[2] \in DOMAIN ask.meetings /\ s[2] \in Meeting
      BY <2>8, <2>11, <2>15 DEF Desired
    <3>2. DesiredSlot(ask, s) = SlotOf(s[1], grade'[s[2]].config)
      BY <3>1, <2>9 DEF DesiredSlot
    <3> QED BY <2>12, <3>1, <3>2
  <2>16. ASSUME NEW m1 \in Meeting, NEW m2 \in Meeting, m1 # m2,
                grade'[m1] # NoDoc, grade'[m2] # NoDoc
         PROVE  ~Overlap(grade'[m1].config, grade'[m2].config)
    <3>1. m1 \in DOMAIN ask.meetings /\ m2 \in DOMAIN ask.meetings
      BY <2>10, <2>16
    <3> QED BY <2>2, <2>9, <2>16, <3>1 DEF Consistent
  <2>17. Complete'
    BY <2>14, <2>15, <2>16 DEF Complete
  <2> QED BY <2>17, <2>d, <2>e DEF Generates
<1> QED BY <1>6, <1>7

LEMMA SaverGenerates ==
  ASSUME Known, Generates, ~mixed', NEW v \in Saver, SaverStep(v)
  PROVE  Generates'
<1> DEFINE l == saver[v]
<1>0. l \in SaverState /\ SaverCurrent(l)
  BY DEF Known, TypeOK, Generates
<1>i. SaverCurrent(IdleSaver)
  BY DEF SaverCurrent, IdleSaver
<1>1. ASSUME NEW ask \in Schedule, NEW b \in BOOLEAN, SaveGetCourse(v, ask, b)
      PROVE  Generates'
  <2> DEFINE n == [IdleSaver EXCEPT !.pc = "meetings", !.ask = ask, !.confirm = b,
                                    !.course = course]
  <2>1. n.pc = "meetings" /\ n.course = course
    BY DEF IdleSaver
  <2>2. saver' = [saver EXCEPT ![v] = n] /\ UNCHANGED <<docs, grade, course, holiday>>
    BY <1>1 DEF SaveGetCourse
  <2> HIDE DEF n
  <2>3. SaverCurrent(n)
    BY <2>1 DEF SaverCurrent
  <2> QED BY <2>2, <2>3, SaverReadGenerates
<1>2. CASE SaveListMeetings(v)
  <2> DEFINE n == [l EXCEPT !.pc = "sessions", !.grade = grade]
  <2>1. n.course = l.course /\ n.pc = "sessions" /\ n.grade = grade
    BY <1>0 DEF SaverState
  <2>2. saver' = [saver EXCEPT ![v] = n] /\ UNCHANGED <<docs, grade, course, holiday>>
    BY <1>0, <1>2 DEF SaveListMeetings, Known, TypeOK, SaverState
  <2>3. l.course = course
    BY <1>0, <1>2 DEF SaveListMeetings, SaverCurrent
  <2> HIDE DEF n
  <2>4. SaverCurrent(n)
    BY <2>1, <2>3 DEF SaverCurrent
  <2> QED BY <2>2, <2>4, SaverReadGenerates
<1>3. CASE SaveListSessions(v)
  <2> DEFINE n == [l EXCEPT !.pc = "decide", !.docs = docs]
  <2>1. /\ n.course = l.course /\ n.pc = "decide" /\ n.grade = l.grade /\ n.docs = docs
    BY <1>0 DEF SaverState
  <2>2. saver' = [saver EXCEPT ![v] = n] /\ UNCHANGED <<docs, grade, course, holiday>>
    BY <1>0, <1>3 DEF SaveListSessions, Known, TypeOK, SaverState
  <2>3. l.course = course /\ l.grade = grade
    BY <1>0, <1>3 DEF SaveListSessions, SaverCurrent
  <2> HIDE DEF n
  <2>4. SaverCurrent(n)
    BY <2>1, <2>3 DEF SaverCurrent
  <2> QED BY <2>2, <2>4, SaverReadGenerates
<1>4. CASE SaveDecide(v)
  <2>1. UNCHANGED <<docs, grade, course, holiday>>
    BY <1>4 DEF SaveDecide
  <2> DEFINE refuses == ~Consistent(l.ask) \/ (Destructive(l) # {} /\ ~l.confirm)
  <2>2. CASE refuses
    <3>1. saver' = [saver EXCEPT ![v] = IdleSaver]
      BY <1>4, <2>2 DEF SaveDecide
    <3> QED BY <1>i, <2>1, <3>1, SaverReadGenerates
  <2>3. CASE ~refuses
    <3> DEFINE n == [l EXCEPT !.pc = "commit", !.at = clock]
    <3>1. /\ n.ask = l.ask /\ n.course = l.course /\ n.grade = l.grade /\ n.docs = l.docs
          /\ n.pc = "commit"
      BY <1>0 DEF SaverState
    <3>2. saver' = [saver EXCEPT ![v] = n]
      BY <1>4, <2>3 DEF SaveDecide
    <3>3. l.pc = "decide" /\ Consistent(l.ask)
      BY <1>4, <2>3 DEF SaveDecide
    <3> HIDE DEF n
    <3>4. SaverCurrent(n)
      BY <1>0, <3>1, <3>3 DEF SaverCurrent
    <3> QED BY <2>1, <3>2, <3>4, SaverReadGenerates
  <2> QED BY <2>2, <2>3
<1>5. CASE SaveCommit(v)
  BY <1>5, CommitGenerates
<1> QED BY <1>1, <1>2, <1>3, <1>4, <1>5 DEF SaverStep

LEMMA HolidayGenerates ==
  ASSUME Known, Generates, ~mixed', NEW h \in Holiday, HolidayStep(h)
  PROVE  Generates'
<1> DEFINE l == holiday[h]
<1>0. HolidayCurrent(l)
  BY DEF Generates
<1>t. PICK R \in SUBSET Session : l \in HolidayState(R)
  BY DEF Known, TypeOK
<1>i. HolidayCurrent(IdleHoliday)
  BY DEF HolidayCurrent, IdleHoliday
<1>1. ASSUME NEW S \in SUBSET Session, HolidayPreview(h, S)
      PROVE  Generates'
  <2> DEFINE n == [IdleHoliday EXCEPT !.pc = "now", !.todo = S]
  <2>1. n.pc = "now"
    BY DEF IdleHoliday
  <2>2. holiday' = [holiday EXCEPT ![h] = n] /\ UNCHANGED <<docs, grade, course, saver>>
    BY <1>1 DEF HolidayPreview
  <2> HIDE DEF n
  <2>3. HolidayCurrent(n)
    BY <2>1 DEF HolidayCurrent
  <2> QED BY <2>2, <2>3, HolidayReadGenerates
<1>2. CASE HolidayNow(h)
  <2> DEFINE blank == [s \in l.todo |-> NoDoc]
             n == [l EXCEPT !.pc = "get", !.at = clock, !.seen = blank]
  <2>1. n.seen = blank
    BY <1>t DEF HolidayState
  <2>2. holiday' = [holiday EXCEPT ![h] = n] /\ UNCHANGED <<docs, grade, course, saver>>
    BY <1>2, <1>t DEF HolidayNow, HolidayState
  <2>3. \A s \in DOMAIN blank : blank[s] = NoDoc
    OBVIOUS
  <2> HIDE DEF n, blank
  <2>4. HolidayCurrent(n)
    BY <2>1, <2>3 DEF HolidayCurrent
  <2> QED BY <2>2, <2>4, HolidayReadGenerates
<1>3. ASSUME NEW s \in Session, HolidayGet(h, s)
      PROVE  Generates'
  <2>1. UNCHANGED <<docs, grade, course, saver>>
    BY <1>3 DEF HolidayGet
  <2>2. CASE docs[s] = NoDoc \/ docs[s].calendar # "scheduled"
    <3>1. holiday' = [holiday EXCEPT ![h] = IdleHoliday]
      BY <1>3, <2>2 DEF HolidayGet
    <3> QED BY <1>i, <2>1, <3>1, HolidayReadGenerates
  <2>3. CASE ~(docs[s] = NoDoc \/ docs[s].calendar # "scheduled")
    <3> DEFINE n == [l EXCEPT !.todo = @ \ {s}, !.seen[s] = docs[s],
                              !.pc = IF l.todo = {s} THEN "commit" ELSE "get"]
    <3>1. holiday' = [holiday EXCEPT ![h] = n]
      BY <1>3, <2>3 DEF HolidayGet
    <3>2. n.seen = [l.seen EXCEPT ![s] = docs[s]]
      BY <1>t DEF HolidayState
    <3> HIDE DEF n
    <3>3. l.pc = "get" /\ s \in l.todo
      BY <1>3 DEF HolidayGet
    <3>4. DOMAIN l.seen \subseteq Session /\ s \in DOMAIN l.seen
          /\ l.seen \in [DOMAIN l.seen -> SessionDoc \cup {NoDoc}]
      BY <3>3 DEF Known, Knowledge, HolidayKnows, Informed
    <3>5. InPlace(s, docs[s])
      BY <2>3 DEF Generates, Complete, Stored, InPlace
    <3>6. HolidayCurrent(n)
      <4>1. DOMAIN n.seen = DOMAIN l.seen
        BY <3>2
      <4>2. \A z \in DOMAIN l.seen : n.seen[z] = IF z = s THEN docs[s] ELSE l.seen[z]
        BY <3>2, <3>4
      <4> QED BY <1>0, <2>3, <3>3, <3>5, <4>1, <4>2 DEF HolidayCurrent
    <3> QED BY <2>1, <3>1, <3>6, HolidayReadGenerates
  <2> QED BY <2>2, <2>3
<1>4. CASE HolidayCommit(h)
  <2> DEFINE W == DOMAIN l.seen
  <2>1. /\ l.pc = "commit" /\ holiday' = [holiday EXCEPT ![h] = IdleHoliday]
        /\ UNCHANGED <<grade, course, saver>>
    BY <1>4 DEF HolidayCommit
  <2>2. /\ W \subseteq Session /\ \A s \in W : l.seen[s] \in SessionDoc
    BY <2>1 DEF Known, Knowledge, HolidayKnows, Informed
  <2>3. \A s \in W : docs[s] # NoDoc /\ l.seen[s].slot = docs[s].slot /\ InPlace(s, l.seen[s])
    BY <1>0, <2>1, <2>2, NoDocAssumption DEF HolidayCurrent
  <2>4. l.at \in Time
    BY <1>t DEF HolidayState
  <2>5. ASSUME NEW s \in W
        PROVE  /\ OnHoliday(l, s) # NoDoc /\ OnHoliday(l, s).slot = docs[s].slot
               /\ InPlace(s, OnHoliday(l, s))
    <3>1. OnHoliday(l, s) \in SessionDoc
      BY <2>2, <2>4, OnHolidayType
    <3>2. /\ OnHoliday(l, s).slot = l.seen[s].slot
          /\ HasEvidence(l.seen[s]) => HasEvidence(OnHoliday(l, s))
      BY <2>2 DEF OnHoliday, SessionDoc, HasEvidence
    <3> QED BY <2>3, <3>1, <3>2, NoDocAssumption DEF InPlace
  <2>6. docs' = docs \/ docs' = [s \in Session |-> IF s \in W THEN OnHoliday(l, s) ELSE docs[s]]
    BY <1>4 DEF HolidayCommit
  <2>7. \A s \in Session :
          /\ docs'[s] = NoDoc <=> docs[s] = NoDoc
          /\ docs[s] # NoDoc => docs'[s].slot = docs[s].slot
          /\ docs'[s] = docs[s] \/ InPlace(s, docs'[s])
    BY <2>3, <2>5, <2>6
  <2>8. Complete'
    <3>1. Timetable' = Timetable /\ Timetable \subseteq Session
      BY <2>1 DEF Timetable
    <3>2. \A s \in Session : Stored(s)' <=> Stored(s)
      BY <2>7 DEF Stored
    <3>3. ASSUME NEW s \in Timetable
          PROVE  HasEvidence(docs'[s]) \/ docs'[s].slot = SlotOf(s[1], grade'[s[2]].config)
      BY <2>1, <2>7, <3>1 DEF Generates, Complete, InPlace
    <3> QED BY <2>1, <3>1, <3>2, <3>3 DEF Generates, Complete
  <2>9. ASSUME NEW v \in Saver PROVE SaverCurrent(saver[v])'
    <3>1. CASE saver[v].pc = "idle"
      BY <2>1, <3>1 DEF SaverCurrent
    <3>2. CASE saver[v].pc # "idle"
      <4>1. UNCHANGED docs
        BY <1>4, <3>2 DEF HolidayCommit, Replacing
      <4> QED BY <2>1, <4>1 DEF Generates, SaverCurrent
    <3> QED BY <3>1, <3>2
  <2>10. ASSUME NEW g \in Holiday PROVE HolidayCurrent(holiday[g])'
    <3>1. CASE g = h
      <4>1. holiday'[g] = IdleHoliday
        BY <2>1, <3>1 DEF Known, TypeOK
      <4> QED BY <4>1 DEF HolidayCurrent, IdleHoliday
    <3>2. CASE g # h /\ holiday[g].pc \in {"get", "commit"}
      <4>1. holiday'[g] = holiday[g] /\ HolidayCurrent(holiday[g])
        BY <2>1, <3>2 DEF Known, TypeOK, Generates
      <4>2. DOMAIN holiday[g].seen \subseteq Session
        BY <3>2 DEF Known, Knowledge, HolidayKnows, Informed
      <4> QED BY <2>1, <2>7, <3>2, <4>1, <4>2 DEF HolidayCurrent, InPlace
    <3>3. CASE g # h /\ holiday[g].pc \notin {"get", "commit"}
      <4>1. holiday'[g] = holiday[g]
        BY <2>1, <3>3 DEF Known, TypeOK
      <4> QED BY <3>3, <4>1 DEF HolidayCurrent
    <3> QED BY <3>1, <3>2, <3>3
  <2> QED BY <2>8, <2>9, <2>10 DEF Generates
<1> QED BY <1>1, <1>2, <1>3, <1>4 DEF HolidayStep

LEMMA AbortGenerates ==
  ASSUME Known, Generates, Abort
  PROVE  Generates'
<1>1. UNCHANGED <<docs, grade, course>>
  BY DEF Abort
<1>2. ASSUME NEW v \in Saver, saver' = [saver EXCEPT ![v] = IdleSaver], UNCHANGED holiday
      PROVE  Generates'
  <2>1. SaverCurrent(IdleSaver)
    BY DEF SaverCurrent, IdleSaver
  <2> QED BY <1>1, <1>2, <2>1, SaverReadGenerates
<1>3. ASSUME NEW h \in Holiday, holiday' = [holiday EXCEPT ![h] = IdleHoliday], UNCHANGED saver
      PROVE  Generates'
  <2>1. HolidayCurrent(IdleHoliday)
    BY DEF HolidayCurrent, IdleHoliday
  <2> QED BY <1>1, <1>3, <2>1, HolidayReadGenerates
<1>4. CASE UNCHANGED <<saver, holiday>>
  BY <1>1, <1>4, PatchGenerates DEF Patched
<1> QED BY <1>2, <1>3, <1>4 DEF Abort

LEMMA NextGenerates ==
  Known /\ (mixed \/ Generates) /\ [Next]_vars => (mixed \/ Generates)'
<1> SUFFICES ASSUME Known, mixed \/ Generates, [Next]_vars, ~mixed' PROVE Generates'
  OBVIOUS
<1>0. Generates
  <2>1. ASSUME NEW e \in Editor, EditorStep(e) PROVE ~mixed
    BY <2>1 DEF EditorStep, EditGet, EditDecide, EditPatch
  <2>2. ASSUME NEW d \in Delivery, DeliveryStep(d) PROVE ~mixed
    BY <2>2 DEF DeliveryStep, CheckpointGet, CheckpointDecide, CheckpointPatch
  <2>3. ASSUME NEW v \in Saver, SaverStep(v) PROVE ~mixed
    BY <2>3 DEF SaverStep, SaveGetCourse, SaveListMeetings, SaveListSessions,
       SaveDecide, SaveCommit
  <2>4. ASSUME NEW h \in Holiday, HolidayStep(h) PROVE ~mixed
    BY <2>4 DEF HolidayStep, HolidayPreview, HolidayNow, HolidayGet, HolidayCommit
  <2>5. CASE Abort \/ Tick \/ UNCHANGED vars
    BY <2>5 DEF Abort, Tick, vars
  <2> QED BY <2>1, <2>2, <2>3, <2>4, <2>5 DEF Next
<1>1. CASE Tick \/ UNCHANGED vars
  BY <1>0, <1>1, PatchGenerates DEF Tick, vars, Patched
<1> QED BY <1>0, <1>1, EditorGenerates, DeliveryGenerates, SaverGenerates,
        HolidayGenerates, AbortGenerates DEF Next

LEMMA InitGenerates == Init => Generates
<1> SUFFICES ASSUME Init PROVE Generates
  OBVIOUS
<1>1. PICK ask \in Saved :
        /\ docs = [s \in Session |-> IF s \in Desired(ask)
                                     THEN Blank(DesiredSlot(ask, s), 0) ELSE NoDoc]
        /\ grade = [m \in Meeting |->
                      IF m \in DOMAIN ask.meetings
                      THEN [config |-> ask.meetings[m], created |-> 0, updated |-> 0]
                      ELSE NoDoc]
        /\ course = [days |-> ask.days, updated |-> 0]
  BY DEF Init
<1>2. ask \in Schedule /\ Consistent(ask)
  BY SavedAssumption
<1>3. ASSUME NEW m \in Meeting
      PROVE  /\ grade[m] # NoDoc <=> m \in DOMAIN ask.meetings
             /\ m \in DOMAIN ask.meetings => grade[m].config = ask.meetings[m]
  <2>1. m \in DOMAIN ask.meetings =>
          [config |-> ask.meetings[m], created |-> 0, updated |-> 0] \in MeetingDoc
    BY <1>2, TimeType DEF MeetingDoc, Schedule
  <2> QED BY <1>1, <2>1, NoDocAssumption
<1>4. ASSUME NEW s \in Session
      PROVE  /\ docs[s] # NoDoc <=> s \in Desired(ask)
             /\ s \in Desired(ask) => docs[s].slot = DesiredSlot(ask, s)
  <2>1. s \in Desired(ask) => Blank(DesiredSlot(ask, s), 0) \in SessionDoc
    BY <1>2, DesiredType, BlankType, TimeType
  <2> QED BY <1>1, <2>1, NoDocAssumption DEF Blank
<1>5. Timetable = Desired(ask)
  <2>1. \A s \in Session : s[2] \in Meeting
    BY DEF Session
  <2> QED BY <1>1, <1>3, <2>1 DEF Timetable, Desired
<1>6. {s \in Session : Stored(s)} = Timetable
  BY <1>4, <1>5 DEF Stored, Desired
<1>7. ASSUME NEW s \in Timetable
      PROVE  docs[s].slot = SlotOf(s[1], grade[s[2]].config)
  <2>1. s \in Session /\ s \in Desired(ask) /\ s[2] \in DOMAIN ask.meetings /\ s[2] \in Meeting
    BY <1>2, <1>5 DEF Timetable, Desired, Session
  <2> QED BY <1>3, <1>4, <2>1 DEF DesiredSlot
<1>8. ASSUME NEW m1 \in Meeting, NEW m2 \in Meeting, m1 # m2,
             grade[m1] # NoDoc, grade[m2] # NoDoc
      PROVE  ~Overlap(grade[m1].config, grade[m2].config)
  BY <1>2, <1>3, <1>8 DEF Consistent
<1>9. Complete
  BY <1>6, <1>7, <1>8 DEF Complete
<1>10. /\ \A v \in Saver : SaverCurrent(saver[v])
       /\ \A h \in Holiday : HolidayCurrent(holiday[h])
  BY DEF Init, SaverCurrent, HolidayCurrent, IdleSaver, IdleHoliday
<1> QED BY <1>9, <1>10 DEF Generates

(* schedule_service.py save_schedule: the sessions are those the period    *)
(* and the meetings generate, whatever edits, checkpoints, refusals and    *)
(* deaths fall between its reads and its commit, as long as no replacement *)
(* or holiday was committed beside a replacement that may have read.       *)
THEOREM SessionsScheduleComplete == Spec => []ScheduleComplete
<1>1. mixed \/ Generates => ScheduleComplete
  BY DEF Generates, ScheduleComplete
<1>2. Init => mixed \/ Generates
  BY InitGenerates
<1> QED BY <1>1, <1>2, NextGenerates, AlwaysKnown, PTL DEF Spec
-----------------------------------------------------------------------------
(* Nothing stored, and nothing an invocation has read, is later than the   *)
(* clock, and what a write was decided on is not later than the write.     *)
Before(doc, t) == doc # NoDoc => doc.updated <= t
EditorPast(l, t) ==
  l.pc # "idle" =>
    /\ l.seen.updated <= t
    /\ l.pc = "patch" => /\ l.seen.updated <= l.at /\ l.at <= t
                         /\ EditAccepted(l.seen, l.change)
DeliveryPast(l, t) ==
  l.pc # "idle" =>
    /\ l.seen.updated <= t
    /\ l.pc = "patch" => l.seen.updated <= l.at /\ l.at <= t
ReadBy(l, t) ==
  /\ l.pc # "idle" => l.course.updated <= t
  /\ l.pc \in {"sessions", "decide", "commit"} => \A m \in Meeting : Before(l.grade[m], t)
  /\ l.pc \in {"decide", "commit"} => \A s \in Session : Before(l.docs[s], t)
SaverPast(l, t) == ReadBy(l, t) /\ (l.pc = "commit" => l.at <= t /\ ReadBy(l, l.at))
HolidayPast(l, t) == l.pc \in {"get", "commit"} => l.at <= t

StoredPast == /\ \A s \in Session : Before(docs[s], clock)
              /\ \A m \in Meeting : Before(grade[m], clock)
              /\ course.updated <= clock
Timely == /\ StoredPast
          /\ \A e \in Editor : EditorPast(editor[e], clock)
          /\ \A d \in Delivery : DeliveryPast(delivery[d], clock)
          /\ \A v \in Saver : SaverPast(saver[v], clock)
          /\ \A h \in Holiday : HolidayPast(holiday[h], clock)

LEMMA TimelyNext ==
  ASSUME \A s \in Session : Before(docs'[s], clock'),
         \A m \in Meeting : Before(grade'[m], clock'),
         course'.updated <= clock',
         \A e \in Editor : EditorPast(editor'[e], clock'),
         \A d \in Delivery : DeliveryPast(delivery'[d], clock'),
         \A v \in Saver : SaverPast(saver'[v], clock'),
         \A h \in Holiday : HolidayPast(holiday'[h], clock')
  PROVE  Timely'
BY DEF Timely, StoredPast, Before, EditorPast, DeliveryPast, SaverPast, ReadBy,
   HolidayPast, EditAccepted

LEMMA InitTimely == Init => Timely
<1> SUFFICES ASSUME Init PROVE Timely
  OBVIOUS
<1>1. \A s \in Session : Before(docs[s], clock)
  BY DEF Init, Before, Blank
<1>2. \A m \in Meeting : Before(grade[m], clock)
  BY DEF Init, Before
<1>3. course.updated <= clock
  BY DEF Init
<1> QED BY <1>1, <1>2, <1>3 DEF Init, Timely, StoredPast, EditorPast, DeliveryPast,
        SaverPast, ReadBy, HolidayPast, IdleEditor, IdleDelivery, IdleSaver, IdleHoliday

LEMMA EditorTimely ==
  ASSUME Known, Timely, NEW e \in Editor, EditorStep(e)
  PROVE  Timely'
<1> DEFINE l == editor[e]
<1>0. /\ l \in EditorState /\ docs \in Docs /\ clock \in Nat
      /\ editor \in [Editor -> EditorState] /\ EditorPast(l, clock)
  BY TimeType DEF Known, TypeOK, Timely
<1>1. UNCHANGED <<grade, course, clock, delivery, saver, holiday>>
  BY DEF EditorStep, EditGet, EditDecide, EditPatch
<1>2. ASSUME NEW s \in Session PROVE Before(docs'[s], clock)
  <2>1. CASE docs'[s] = docs[s]
    BY <2>1 DEF Timely, StoredPast
  <2>2. CASE docs'[s] # docs[s]
    <3>1. EditPatch(e)
      BY <2>2 DEF EditorStep, EditGet, EditDecide
    <3>2. docs[s] # NoDoc /\ docs'[s] = Edited(docs[s], l)
      BY <1>0, <2>2, <3>1 DEF EditPatch, Docs
    <3>3. docs[s] \in SessionDoc
      BY <1>0, <3>2 DEF Docs
    <3>4. Edited(docs[s], l).updated = l.at
      BY <3>3 DEF Edited, SessionDoc
    <3>5. l.at <= clock
      BY <1>0, <3>1 DEF EditPatch, EditorPast
    <3> QED BY <3>2, <3>4, <3>5 DEF Before
  <2> QED BY <2>1, <2>2
<1>3. \A f \in Editor \ {e} : editor'[f] = editor[f]
  BY <1>0 DEF EditorStep, EditGet, EditDecide, EditPatch
<1>4. EditorPast(editor'[e], clock)
  <2>1. ASSUME NEW s \in Session, NEW c \in Change, EditGet(e, s, c)
        PROVE  EditorPast(editor'[e], clock)
    <3>1. editor'[e].pc = "decide" /\ editor'[e].seen = docs[s] /\ docs[s] # NoDoc
      BY <1>0, <2>1 DEF EditGet
    <3> QED BY <3>1 DEF Timely, StoredPast, Before, EditorPast
  <2>2. CASE EditDecide(e)
    <3>1. CASE EditAccepted(l.seen, l.change)
      <4>1. editor'[e] = [l EXCEPT !.pc = "patch", !.at = clock]
        BY <1>0, <2>2, <3>1 DEF EditDecide
      <4>2. /\ editor'[e].pc = "patch" /\ editor'[e].at = clock
            /\ editor'[e].seen = l.seen /\ editor'[e].change = l.change
        BY <1>0, <4>1 DEF EditorState
      <4>3. l.pc # "idle"
        BY <2>2 DEF EditDecide
      <4> QED BY <1>0, <3>1, <4>2, <4>3 DEF EditorPast
    <3>2. CASE ~EditAccepted(l.seen, l.change)
      BY <1>0, <2>2, <3>2 DEF EditDecide, EditorPast, IdleEditor
    <3> QED BY <3>1, <3>2
  <2>3. CASE EditPatch(e)
    BY <1>0, <2>3 DEF EditPatch, EditorPast, IdleEditor
  <2> QED BY <2>1, <2>2, <2>3 DEF EditorStep
<1> QED BY <1>1, <1>2, <1>3, <1>4, TimelyNext DEF Timely, StoredPast

LEMMA DeliveryTimely ==
  ASSUME Known, Timely, NEW d \in Delivery, DeliveryStep(d)
  PROVE  Timely'
<1> DEFINE l == delivery[d]
<1>0. /\ l \in DeliveryState /\ docs \in Docs /\ clock \in Nat
      /\ delivery \in [Delivery -> DeliveryState] /\ DeliveryPast(l, clock)
  BY TimeType DEF Known, TypeOK, Timely
<1>1. UNCHANGED <<grade, course, clock, editor, saver, holiday>>
  BY DEF DeliveryStep, CheckpointGet, CheckpointDecide, CheckpointPatch
<1>2. ASSUME NEW s \in Session PROVE Before(docs'[s], clock)
  <2>1. CASE docs'[s] = docs[s]
    BY <2>1 DEF Timely, StoredPast
  <2>2. CASE docs'[s] # docs[s]
    <3>1. CheckpointPatch(d)
      BY <2>2 DEF DeliveryStep, CheckpointGet, CheckpointDecide
    <3>2. docs[s] # NoDoc /\ docs'[s] = Classified(docs[s], l)
      BY <1>0, <2>2, <3>1 DEF CheckpointPatch, Docs
    <3>3. docs[s] \in SessionDoc
      BY <1>0, <3>2 DEF Docs
    <3>4. Classified(docs[s], l).updated = l.at
      BY <3>3 DEF Classified, SessionDoc
    <3>5. l.at <= clock
      BY <1>0, <3>1 DEF CheckpointPatch, DeliveryPast
    <3> QED BY <3>2, <3>4, <3>5 DEF Before
  <2> QED BY <2>1, <2>2
<1>3. \A f \in Delivery \ {d} : delivery'[f] = delivery[f]
  BY <1>0 DEF DeliveryStep, CheckpointGet, CheckpointDecide, CheckpointPatch
<1>4. DeliveryPast(delivery'[d], clock)
  <2>1. ASSUME NEW s \in Session, NEW x \in Evidence, CheckpointGet(d, s, x)
        PROVE  DeliveryPast(delivery'[d], clock)
    <3>1. delivery'[d].pc = "decide" /\ delivery'[d].seen = docs[s] /\ docs[s] # NoDoc
      BY <1>0, <2>1 DEF CheckpointGet
    <3> QED BY <3>1 DEF Timely, StoredPast, Before, DeliveryPast
  <2>2. CASE CheckpointDecide(d)
    <3>1. CASE Outcome(l.seen, l.evidence, clock) = "applied"
      <4>1. delivery'[d] = [l EXCEPT !.pc = "patch", !.at = clock]
        BY <1>0, <2>2, <3>1 DEF CheckpointDecide
      <4>2. /\ delivery'[d].pc = "patch" /\ delivery'[d].at = clock
            /\ delivery'[d].seen = l.seen
        BY <1>0, <4>1 DEF DeliveryState
      <4>3. l.pc # "idle"
        BY <2>2 DEF CheckpointDecide
      <4> QED BY <1>0, <4>2, <4>3 DEF DeliveryPast
    <3>2. CASE Outcome(l.seen, l.evidence, clock) # "applied"
      BY <1>0, <2>2, <3>2 DEF CheckpointDecide, DeliveryPast, IdleDelivery
    <3> QED BY <3>1, <3>2
  <2>3. CASE CheckpointPatch(d)
    BY <1>0, <2>3 DEF CheckpointPatch, DeliveryPast, IdleDelivery
  <2> QED BY <2>1, <2>2, <2>3 DEF DeliveryStep
<1> QED BY <1>1, <1>2, <1>3, <1>4, TimelyNext DEF Timely, StoredPast

LEMMA SaverTimely ==
  ASSUME Known, Timely, NEW v \in Saver, SaverStep(v)
  PROVE  Timely'
<1> DEFINE l == saver[v]
<1>0. /\ l \in SaverState /\ docs \in Docs /\ grade \in Grade /\ course \in CourseDoc
      /\ clock \in Nat /\ saver \in [Saver -> SaverState] /\ SaverPast(l, clock)
  BY TimeType DEF Known, TypeOK, Timely
<1>1. UNCHANGED <<clock, editor, delivery, holiday>>
  BY DEF SaverStep, SaveGetCourse, SaveListMeetings, SaveListSessions, SaveDecide, SaveCommit
<1>2. \A f \in Saver \ {v} : saver'[f] = saver[f]
  BY <1>0 DEF SaverStep, SaveGetCourse, SaveListMeetings, SaveListSessions,
     SaveDecide, SaveCommit
<1>3. SaverPast(IdleSaver, clock)
  BY DEF SaverPast, ReadBy, IdleSaver
<1>4. ASSUME UNCHANGED <<docs, grade, course>>, SaverPast(saver'[v], clock)
      PROVE  Timely'
  BY <1>1, <1>2, <1>4, TimelyNext DEF Timely, StoredPast
<1>5. ASSUME NEW ask \in Schedule, NEW b \in BOOLEAN, SaveGetCourse(v, ask, b)
      PROVE  Timely'
  <2>1. saver'[v].pc = "meetings" /\ saver'[v].course = course
    BY <1>0, <1>5 DEF SaveGetCourse, IdleSaver
  <2>2. SaverPast(saver'[v], clock)
    BY <2>1 DEF SaverPast, ReadBy, Timely, StoredPast
  <2> QED BY <1>4, <1>5, <2>2 DEF SaveGetCourse
<1>6. CASE SaveListMeetings(v)
  <2>1. saver'[v] = [l EXCEPT !.pc = "sessions", !.grade = grade]
    BY <1>0, <1>6 DEF SaveListMeetings, SaverState
  <2>2. /\ saver'[v].pc = "sessions" /\ saver'[v].grade = grade
        /\ saver'[v].course = l.course /\ l.pc # "idle"
    BY <1>0, <1>6, <2>1 DEF SaveListMeetings, SaverState
  <2>3. SaverPast(saver'[v], clock)
    BY <1>0, <2>2 DEF SaverPast, ReadBy, Timely, StoredPast
  <2> QED BY <1>4, <1>6, <2>3 DEF SaveListMeetings
<1>7. CASE SaveListSessions(v)
  <2>1. saver'[v] = [l EXCEPT !.pc = "decide", !.docs = docs]
    BY <1>0, <1>7 DEF SaveListSessions, SaverState
  <2>2. /\ saver'[v].pc = "decide" /\ saver'[v].docs = docs
        /\ saver'[v].course = l.course /\ saver'[v].grade = l.grade
        /\ l.pc = "sessions"
    BY <1>0, <1>7, <2>1 DEF SaveListSessions, SaverState
  <2>3. SaverPast(saver'[v], clock)
    BY <1>0, <2>2 DEF SaverPast, ReadBy, Timely, StoredPast
  <2> QED BY <1>4, <1>7, <2>3 DEF SaveListSessions
<1>8. CASE SaveDecide(v)
  <2>1. CASE saver'[v] = IdleSaver
    BY <1>3, <1>4, <1>8, <2>1 DEF SaveDecide
  <2>2. CASE saver'[v] # IdleSaver
    <3>1. saver'[v] = [l EXCEPT !.pc = "commit", !.at = clock]
      BY <1>0, <1>8, <2>2 DEF SaveDecide
    <3>2. /\ saver'[v].pc = "commit" /\ saver'[v].at = clock /\ l.pc = "decide"
          /\ saver'[v].course = l.course /\ saver'[v].grade = l.grade
          /\ saver'[v].docs = l.docs
      BY <1>0, <1>8, <3>1 DEF SaveDecide, SaverState
    <3>3. SaverPast(saver'[v], clock)
      BY <1>0, <3>2 DEF SaverPast, ReadBy
    <3> QED BY <1>4, <1>8, <3>3 DEF SaveDecide
  <2> QED BY <2>1, <2>2
<1>9. CASE SaveCommit(v)
  <2>1. saver'[v] = IdleSaver /\ l.pc = "commit"
    BY <1>0, <1>9 DEF SaveCommit
  <2>2. CASE UNCHANGED <<docs, grade, course>>
    BY <1>3, <1>4, <2>1, <2>2
  <2>3. CASE CommitAllowed(l)
    <3>1. l.at <= clock
      BY <1>0, <2>1 DEF SaverPast
    <3>2. ASSUME NEW s \in Session PROVE Before(docs'[s], clock)
      <4>1. CASE docs'[s] \in {docs[s], NoDoc}
        BY <4>1 DEF Timely, StoredPast, Before
      <4>2. CASE docs'[s] = Generated(l, s)
        <5>1. Generated(l, s).updated = l.at
          BY DEF Generated, Blank
        <5> QED BY <3>1, <4>2, <5>1 DEF Before
      <4> QED BY <1>9, <2>3, <4>1, <4>2 DEF SaveCommit
    <3>3. ASSUME NEW m \in Meeting PROVE Before(grade'[m], clock)
      <4>1. CASE grade'[m] \in {grade[m], NoDoc}
        BY <4>1 DEF Timely, StoredPast, Before
      <4>2. CASE grade'[m] = MeetingWritten(l, m)
        BY <3>1, <4>2 DEF Before, MeetingWritten
      <4> QED BY <1>9, <2>3, <4>1, <4>2 DEF SaveCommit
    <3>4. course'.updated <= clock
      BY <1>9, <2>3, <3>1 DEF SaveCommit, Timely, StoredPast
    <3> QED BY <1>1, <1>2, <1>3, <2>1, <3>2, <3>3, <3>4, TimelyNext DEF Timely
  <2> QED BY <1>9, <2>2, <2>3 DEF SaveCommit
<1> QED BY <1>5, <1>6, <1>7, <1>8, <1>9 DEF SaverStep

LEMMA HolidayTimely ==
  ASSUME Known, Timely, NEW h \in Holiday, HolidayStep(h)
  PROVE  Timely'
<1> DEFINE l == holiday[h]
<1>0. /\ holiday = [g \in Holiday |-> holiday[g]] /\ docs \in Docs /\ clock \in Nat
      /\ HolidayPast(l, clock)
  BY TimeType DEF Known, TypeOK, Timely
<1>t. PICK R \in SUBSET Session : l \in HolidayState(R)
  BY DEF Known, TypeOK
<1>1. UNCHANGED <<grade, course, clock, editor, delivery, saver>>
  BY DEF HolidayStep, HolidayPreview, HolidayNow, HolidayGet, HolidayCommit
<1>2. \A g \in Holiday \ {h} : holiday'[g] = holiday[g]
  BY <1>0 DEF HolidayStep, HolidayPreview, HolidayNow, HolidayGet, HolidayCommit
<1>3. ASSUME NEW s \in Session PROVE Before(docs'[s], clock)
  <2>1. CASE docs'[s] = docs[s]
    BY <2>1 DEF Timely, StoredPast
  <2>2. CASE docs'[s] # docs[s]
    <3>1. HolidayCommit(h)
      BY <2>2 DEF HolidayStep, HolidayPreview, HolidayNow, HolidayGet
    <3>2. s \in DOMAIN l.seen /\ docs'[s] = OnHoliday(l, s)
      BY <2>2, <3>1 DEF HolidayCommit
    <3>3. l.seen[s] \in SessionDoc
      BY <3>1, <3>2 DEF HolidayCommit, Known, Knowledge, HolidayKnows, Informed
    <3>4. OnHoliday(l, s).updated = l.at
      BY <3>3 DEF OnHoliday, SessionDoc
    <3>5. l.at <= clock
      BY <1>0, <3>1 DEF HolidayCommit, HolidayPast
    <3> QED BY <3>2, <3>4, <3>5 DEF Before
  <2> QED BY <2>1, <2>2
<1>4. HolidayPast(holiday'[h], clock)
  <2>1. ASSUME NEW S \in SUBSET Session, HolidayPreview(h, S)
        PROVE  HolidayPast(holiday'[h], clock)
    BY <1>0, <2>1 DEF HolidayPreview, IdleHoliday, HolidayPast
  <2>2. CASE HolidayNow(h)
    <3>1. holiday'[h].at = clock
      BY <1>0, <1>t, <2>2 DEF HolidayNow, HolidayState
    <3> QED BY <1>0, <3>1 DEF HolidayPast
  <2>3. ASSUME NEW s \in Session, HolidayGet(h, s)
        PROVE  HolidayPast(holiday'[h], clock)
    <3>1. CASE holiday'[h] = IdleHoliday
      BY <3>1 DEF HolidayPast, IdleHoliday
    <3>2. CASE holiday'[h] # IdleHoliday
      <4> DEFINE pc == IF l.todo = {s} THEN "commit" ELSE "get"
      <4>1. holiday'[h] = [l EXCEPT !.todo = @ \ {s}, !.seen[s] = docs[s], !.pc = pc]
        BY <1>0, <2>3, <3>2 DEF HolidayGet
      <4>2. holiday'[h].at = l.at
        BY <1>t, <4>1 DEF HolidayState
      <4>3. l.pc = "get"
        BY <2>3 DEF HolidayGet
      <4> QED BY <1>0, <4>2, <4>3 DEF HolidayPast
    <3> QED BY <3>1, <3>2
  <2>4. CASE HolidayCommit(h)
    BY <1>0, <2>4 DEF HolidayCommit, HolidayPast, IdleHoliday
  <2> QED BY <2>1, <2>2, <2>3, <2>4 DEF HolidayStep
<1> QED BY <1>1, <1>2, <1>3, <1>4, TimelyNext DEF Timely, StoredPast

LEMMA RestTimely ==
  ASSUME Known, Timely, Abort \/ Tick \/ UNCHANGED vars
  PROVE  Timely'
<1>1. UNCHANGED <<docs, grade, course>> /\ clock \in Nat /\ clock' \in {clock, clock + 1}
  BY TimeType DEF Known, TypeOK, Abort, Tick, vars
<1>2. \A s \in Session : Before(docs[s], clock')
  <2>1. \A s \in Session : docs[s] # NoDoc => docs[s].updated \in Nat
    BY TimeType DEF Known, TypeOK, Docs, SessionDoc
  <2> QED BY <1>1, <2>1 DEF Timely, StoredPast, Before
<1>3. \A m \in Meeting : Before(grade[m], clock')
  <2>1. \A m \in Meeting : grade[m] # NoDoc => grade[m].updated \in Nat
    BY TimeType DEF Known, TypeOK, Grade, MeetingDoc
  <2> QED BY <1>1, <2>1 DEF Timely, StoredPast, Before
<1>4. course.updated <= clock'
  <2>1. course.updated \in Nat
    BY TimeType DEF Known, TypeOK, CourseDoc
  <2> QED BY <1>1, <2>1 DEF Timely, StoredPast
<1>5. ASSUME NEW e \in Editor PROVE EditorPast(editor'[e], clock')
  <2>1. CASE editor'[e] = IdleEditor
    BY <2>1 DEF EditorPast, IdleEditor
  <2>2. CASE editor'[e] = editor[e]
    <3>1. editor[e].pc # "idle" => editor[e].seen.updated \in Nat /\ editor[e].at \in Nat
      BY TimeType DEF Known, TypeOK, Knowledge, EditorKnows, SessionDoc, EditorState
    <3> QED BY <1>1, <2>2, <3>1 DEF Timely, EditorPast
  <2> QED BY <2>1, <2>2 DEF Abort, Tick, vars, Known, TypeOK
<1>6. ASSUME NEW d \in Delivery PROVE DeliveryPast(delivery'[d], clock')
  <2>1. CASE delivery'[d] = IdleDelivery
    BY <2>1 DEF DeliveryPast, IdleDelivery
  <2>2. CASE delivery'[d] = delivery[d]
    <3>1. delivery[d].pc # "idle" =>
            delivery[d].seen.updated \in Nat /\ delivery[d].at \in Nat
      BY TimeType DEF Known, TypeOK, Knowledge, DeliveryKnows, SessionDoc, DeliveryState
    <3> QED BY <1>1, <2>2, <3>1 DEF Timely, DeliveryPast
  <2> QED BY <2>1, <2>2 DEF Abort, Tick, vars, Known, TypeOK
<1>7. ASSUME NEW v \in Saver PROVE SaverPast(saver'[v], clock')
  <2> DEFINE l == saver[v]
  <2>1. CASE saver'[v] = IdleSaver
    BY <2>1 DEF SaverPast, ReadBy, IdleSaver
  <2>2. CASE saver'[v] = saver[v]
    <3>0. /\ l \in SaverState /\ SaverPast(l, clock)
          /\ l.pc # "idle" =>
               /\ l.course \in CourseDoc
               /\ l.pc # "meetings" => l.grade \in Grade
               /\ l.pc \in {"decide", "commit"} => l.docs \in Docs
      BY DEF Known, TypeOK, Timely, Knowledge, SaverKnows
    <3>r. \A x \in Nat : x <= clock => x <= clock'
      BY <1>1
    <3>1. l.pc # "idle" => l.course.updated <= clock'
      <4>1. l.pc # "idle" => l.course.updated \in Nat
        BY <3>0, TimeType DEF CourseDoc
      <4> QED BY <3>0, <3>r, <4>1 DEF SaverPast, ReadBy
    <3>2. ASSUME l.pc \in {"sessions", "decide", "commit"}, NEW m \in Meeting
          PROVE  Before(l.grade[m], clock')
      <4>1. l.grade[m] # NoDoc => l.grade[m].updated \in Nat
        BY <3>0, <3>2, TimeType DEF Grade, MeetingDoc
      <4> QED BY <3>0, <3>r, <3>2, <4>1 DEF SaverPast, ReadBy, Before
    <3>3. ASSUME l.pc \in {"decide", "commit"}, NEW s \in Session
          PROVE  Before(l.docs[s], clock')
      <4>1. l.docs[s] # NoDoc => l.docs[s].updated \in Nat
        BY <3>0, <3>3, TimeType DEF Docs, SessionDoc
      <4> QED BY <3>0, <3>r, <3>3, <4>1 DEF SaverPast, ReadBy, Before
    <3>4. ReadBy(l, clock')
      BY <3>1, <3>2, <3>3 DEF ReadBy
    <3>5. l.pc = "commit" => l.at <= clock'
      <4>1. l.at \in Nat
        BY <3>0, TimeType DEF SaverState
      <4> QED BY <3>0, <3>r, <4>1 DEF SaverPast
    <3> QED BY <2>2, <3>0, <3>4, <3>5 DEF SaverPast
  <2> QED BY <2>1, <2>2 DEF Abort, Tick, vars, Known, TypeOK
<1>8. ASSUME NEW h \in Holiday PROVE HolidayPast(holiday'[h], clock')
  <2>1. CASE holiday'[h] = IdleHoliday
    BY <2>1 DEF HolidayPast, IdleHoliday
  <2>2. CASE holiday'[h] = holiday[h]
    <3>1. holiday[h].at \in Nat
      BY TimeType DEF Known, TypeOK, HolidayState
    <3> QED BY <1>1, <2>2, <3>1 DEF Timely, HolidayPast
  <2> QED BY <2>1, <2>2 DEF Abort, Tick, vars, Known, TypeOK
<1> QED BY <1>1, <1>2, <1>3, <1>4, <1>5, <1>6, <1>7, <1>8, TimelyNext

LEMMA NextTimely == Known /\ Timely /\ [Next]_vars => Timely'
BY EditorTimely, DeliveryTimely, SaverTimely, HolidayTimely, RestTimely DEF Next

(* The situations of replace_attendance and of the classification count    *)
(* absences the rules accept.                                              *)
LEMMA AbsencesValid ==
  ASSUME NEW lessons \in {1, 2, 4}, NEW calls, NEW situation \in Situation
  PROVE  ValidAttendance(lessons, situation, Absences(lessons, calls, situation))
<1>1. lessons \div 2 \in 0..lessons /\ lessons \in 0..lessons /\ 0 \in 0..lessons
  OBVIOUS
<1>2. situation # None
  BY DEF Situation, None
<1> QED BY <1>1, <1>2 DEF ValidAttendance, Absences

(* What replaces the document that was read keeps its creation and is not  *)
(* older: the rules decide by its attendance alone.                        *)
LEMMA AllowedOnRead ==
  ASSUME StoredValid, Known, NEW s \in Session, Stored(s), NEW new,
         new.created = docs[s].created, new.updated \in Nat,
         docs[s].updated <= new.updated,
         ValidAttendance(new.slot.lessons, new.status, new.absences)
  PROVE  SessionAllowed(docs[s], new)
<1>1. docs[s].updated \in Nat /\ docs[s].created \in Nat
  BY TimeType DEF Known, TypeOK, Docs, SessionDoc, Stored
<1>2. docs[s].updated >= docs[s].created
  BY DEF StoredValid
<1> QED BY <1>1, <1>2 DEF SessionAllowed, AuditKept

LEMMA EditsAllowed ==
  ASSUME Known, StoredValid, Timely, NEW e \in Editor
  PROVE  EditRefusedForCause(editor[e])
<1> DEFINE l == editor[e]
           s == l.session
           old == docs[s]
           new == Edited(old, l)
<1> SUFFICES ASSUME l.pc = "patch", old = l.seen
             PROVE  SessionAllowed(old, new)
  BY DEF EditRefusedForCause
<1>1. /\ s \in Session /\ old \in SessionDoc /\ l.change \in Change /\ l.at \in Nat
  BY TimeType DEF Known, TypeOK, Knowledge, EditorKnows, EditorState
<1>2. old # NoDoc
  BY <1>1, NoDocAssumption
<1>3. old.updated <= l.at /\ EditAccepted(old, l.change)
  BY DEF Timely, EditorPast
<1>4. new.created = old.created /\ new.updated = l.at /\ new.slot = old.slot
  BY <1>1 DEF Edited, SessionDoc
<1>5. ValidAttendance(old.slot.lessons, new.status, new.absences)
  <2>1. CASE l.change.kind = "calendar"
    <3>1. new.status = old.status /\ new.absences = old.absences
      BY <1>1, <2>1 DEF Edited, SessionDoc
    <3> QED BY <1>1, <1>2, <3>1 DEF StoredValid, Stored
  <2>2. CASE l.change.kind # "calendar"
    <3>1. new.status = l.change.status /\ new.absences = EditedAbsences(old, l.change)
      BY <1>1, <2>2 DEF Edited, SessionDoc
    <3>2. CASE l.change.absences = Omitted
      <4>1. l.change.status \in Situation /\ old.slot.lessons \in {1, 2, 4}
        BY <1>1, <2>2, ChangeAssumption, SlotNumbers DEF SessionDoc
      <4> QED BY <3>1, <3>2, <4>1, AbsencesValid DEF EditedAbsences
    <3>3. CASE l.change.absences # Omitted
      BY <1>3, <2>2, <3>1, <3>3 DEF EditAccepted, EditedAbsences
    <3> QED BY <3>2, <3>3
  <2> QED BY <2>1, <2>2
<1> HIDE DEF new
<1> QED BY <1>1, <1>2, <1>3, <1>4, <1>5, AllowedOnRead DEF Stored

LEMMA CheckpointsAllowed ==
  ASSUME Known, StoredValid, Timely, NEW d \in Delivery
  PROVE  CheckpointRefusedForCause(d)
<1> DEFINE l == delivery[d]
           s == l.session
           old == docs[s]
           new == Classified(old, l)
           verdict == Verdict(old.slot, l.evidence, l.at)
<1> SUFFICES ASSUME l.pc = "patch", RevisionHolds(d)
             PROVE  old # NoDoc /\ SessionAllowed(old, new)
  BY DEF CheckpointRefusedForCause
<1>1. /\ s \in Session /\ l.seen = old /\ old \in SessionDoc /\ l.evidence \in Evidence
      /\ l.at \in Nat /\ Outcome(old, l.evidence, l.at) = "applied"
  BY TimeType DEF Known, TypeOK, Knowledge, DeliveryKnows, DeliveryState,
     RevisionHolds, FreshIsCurrent
<1>2. old # NoDoc
  BY <1>1, NoDocAssumption
<1>3. old.updated <= l.at
  BY <1>1 DEF Timely, DeliveryPast
<1>4. /\ new.created = old.created /\ new.updated = l.at /\ new.slot = old.slot
      /\ new.status = verdict.status /\ new.absences = verdict.absences
  BY <1>1 DEF Classified, SessionDoc
<1>5. ValidAttendance(old.slot.lessons, new.status, new.absences)
  <2>1. old.slot \in Slot /\ old.slot.lessons \in {1, 2, 4}
    BY <1>1, SlotNumbers DEF SessionDoc
  <2>2. verdict.status \in Situation
    BY <1>1, <2>1, VerdictType
  <2>3. verdict.absences = Absences(old.slot.lessons, old.slot.calls, verdict.status)
    BY DEF Verdict
  <2> QED BY <1>4, <2>1, <2>2, <2>3, AbsencesValid
<1> HIDE DEF new
<1> QED BY <1>1, <1>2, <1>3, <1>4, <1>5, AllowedOnRead DEF Stored

LEMMA SavesAllowed ==
  ASSUME Known, StoredValid, Timely, NEW v \in Saver
  PROVE  SaveRefusedForCause(saver[v])
<1> DEFINE l == saver[v]
<1> SUFFICES ASSUME l.pc = "commit" PROVE SaveRefusedForCause(l)
  BY DEF SaveRefusedForCause
<1>1. /\ l.ask \in Schedule /\ l.course \in CourseDoc /\ l.grade \in Grade
      /\ l.docs \in Docs /\ l.at \in Nat
  BY TimeType DEF Known, TypeOK, Knowledge, SaverKnows, SaverState
<1>2. ReadBy(l, l.at)
  BY DEF Timely, SaverPast
<1>3. ASSUME NEW s \in Upserts(l), docs[s] = l.docs[s]
      PROVE  SessionAllowed(docs[s], Generated(l, s))
  <2> DEFINE new == Generated(l, s)
  <2>0. s \in Session
    BY DEF Upserts, Desired
  <2>1. new.status = None /\ new.absences = Unset /\ new.updated = l.at
    BY DEF Generated, Blank
  <2>2. ValidAttendance(new.slot.lessons, new.status, new.absences)
    BY <2>1 DEF ValidAttendance
  <2>3. CASE docs[s] = NoDoc
    <3>1. new.created = l.at
      BY <1>3, <2>3 DEF Generated, Blank
    <3> QED BY <1>1, <2>1, <2>2, <2>3, <3>1 DEF SessionAllowed
  <2>4. CASE docs[s] # NoDoc
    <3>1. new.created = docs[s].created
      BY <1>3, <2>4 DEF Generated, Blank
    <3>2. docs[s].updated <= l.at
      BY <1>2, <1>3, <2>0, <2>4 DEF ReadBy, Before
    <3> HIDE DEF new
    <3>3. SessionAllowed(docs[s], new)
      BY <1>1, <2>0, <2>1, <2>2, <2>4, <3>1, <3>2, AllowedOnRead DEF Stored
    <3> QED BY <3>3 DEF new
  <2> QED BY <2>3, <2>4
<1>4. ASSUME NEW m \in MeetingUpserts(l), grade[m] = l.grade[m]
      PROVE  MeetingAllowed(grade[m], MeetingWritten(l, m))
  <2>1. m \in Meeting
    BY <1>1 DEF MeetingUpserts, Schedule
  <2> QED BY <1>2, <1>4, <2>1 DEF MeetingAllowed, AuditKept, MeetingWritten, ReadBy, Before
<1>5. CourseChanged(l) /\ course = l.course => l.at >= course.updated
  BY <1>2 DEF ReadBy
<1> QED BY <1>3, <1>4, <1>5 DEF SaveRefusedForCause

LEMMA HolidaysAllowed ==
  ASSUME Known, StoredValid, NEW h \in Holiday
  PROVE  HolidayRefusedForCause(holiday[h])
<1> DEFINE l == holiday[h]
<1> SUFFICES ASSUME l.pc = "commit", NEW s \in DOMAIN l.seen,
                    docs[s] = l.seen[s], docs[s].updated <= l.at
             PROVE  SessionAllowed(docs[s], OnHoliday(l, s))
  BY DEF HolidayRefusedForCause
<1> DEFINE new == OnHoliday(l, s)
<1>1. s \in Session /\ docs[s] \in SessionDoc
  BY DEF Known, Knowledge, HolidayKnows, Informed
<1>2. l.at \in Nat
  BY TimeType DEF Known, TypeOK, HolidayState
<1>3. /\ new.created = docs[s].created /\ new.updated = l.at /\ new.slot = docs[s].slot
      /\ new.status = docs[s].status /\ new.absences = docs[s].absences
  BY <1>1 DEF OnHoliday, SessionDoc
<1>4. Stored(s)
  BY <1>1, NoDocAssumption DEF Stored
<1>5. ValidAttendance(docs[s].slot.lessons, docs[s].status, docs[s].absences)
  BY <1>1, <1>4 DEF StoredValid
<1> HIDE DEF new
<1>6. SessionAllowed(docs[s], new)
  BY <1>1, <1>2, <1>3, <1>4, <1>5, AllowedOnRead
<1> QED BY <1>6 DEF new

(* session_repository.py and firestore.rules: what an edit, a checkpoint,  *)
(* a schedule or a holiday writes on what it read is never refused.        *)
THEOREM SessionsRefusalHasCause == Spec => []RefusalHasCause
<1>1. Known /\ StoredValid /\ Timely => RefusalHasCause
  BY EditsAllowed, CheckpointsAllowed, SavesAllowed, HolidaysAllowed DEF RefusalHasCause
<1> QED BY <1>1, InitTimely, NextTimely, AlwaysKnown, AlwaysValid, PTL DEF Spec

=============================================================================

---------------------------- MODULE Attendance ----------------------------
(***************************************************************************)
(* The attendance domain: how two pings classify a session, how many       *)
(* absences a situation counts, which attendance a stored session may      *)
(* have, and what the evidence a device delivers decides.  Operators only; *)
(* CourseSessions is the state machine built from them.                    *)
(***************************************************************************)
EXTENDS Integers

CONSTANTS
  OFFSET,  \* from the session's start (end) to the first (second) checkpoint
  WINDOW,  \* how long after it is expected a ping may be captured
  SKEW     \* how far ahead of the server a device's clock may be

ASSUME WindowAssumption == {OFFSET, WINDOW, SKEW} \subseteq Nat

-----------------------------------------------------------------------------
None == "none"    \* a null string
Unset == -1       \* a null integer
Omitted == -2     \* an integer the payload leaves out

Ping == {"no_campus", "fora", "indisponivel"}
Situation == {"presente", "chegou_atrasado", "saiu_mais_cedo", "ausente", "pendente"}
CalendarStatus == {"scheduled", "cancelled", "holiday", "no_call", "makeup"}
RollCallStatus == {"scheduled", "makeup"}
EditableStatus == {"scheduled", "cancelled", "holiday", "no_call"}

(* _classificar_pings_validos: the pattern of two available pings. *)
ByPattern(first, second) ==
  CASE first = "no_campus" /\ second = "no_campus" -> "presente"
    [] first = "no_campus" /\ second # "no_campus" -> "saiu_mais_cedo"
    [] first # "no_campus" /\ second = "no_campus" -> "chegou_atrasado"
    [] OTHER -> "ausente"

(* Mutant: a missing ping of a two-call session is taken for an absence. *)
ClassifyMissingAsAway(calls, first, second) == ByPattern(first, second)

(* PoliticaChamadaUnica and PoliticaDuasChamadas: one ping on campus       *)
(* settles a single call; two calls need both pings.                       *)
Classify(calls, first, second) ==
  IF "indisponivel" \notin {first, second} THEN ByPattern(first, second)
  ELSE IF calls = 1 /\ "no_campus" \in {first, second} THEN "presente"
  ELSE "pendente"

(* calcular_faltas *)
Absences(lessons, calls, situation) ==
  IF situation = "pendente" THEN Unset
  ELSE IF situation = "ausente" THEN lessons
  ELSE IF situation = "presente" \/ calls = 1 THEN 0
  ELSE lessons \div 2

(* ConfiguracaoSessao, hasValidConfiguration *)
Configuration == {c \in {1, 2, 4} \X {1, 2} : c # <<1, 2>>}

(* isValidAttendance: absences are set exactly when the situation is       *)
(* resolved, and never exceed the session's lessons.                       *)
ValidAttendance(lessons, situation, absences) ==
  IF situation \in {None, "pendente"} THEN absences = Unset
                                      ELSE absences \in 0..lessons
-----------------------------------------------------------------------------
(* A session's attendance with the parts that decide it: its slot (start,  *)
(* end, lessons, calls), calendar status, pings, situation and absences.   *)
HasEvidence(doc) ==
  doc.first # None \/ doc.second # None \/ doc.status # None \/ doc.absences # Unset

Expected(slot) == [first |-> slot.start + OFFSET, second |-> slot.end - OFFSET]

(* A report without captured time says why no ping was captured. *)
Report == [ping : Ping, expected : Int, captured : Nat \cup {Unset}]
NoReport == [ping |-> "indisponivel", expected |-> Unset, captured |-> Unset]

(* The checkpoint may still be captured: nothing is decided yet. *)
WindowOpen(slot, expected, report, now) ==
  report = NoReport /\ now <= expected + WINDOW /\ now < slot.end

(* The ping a report is worth. *)
Trusted(slot, expected, report, now) ==
  IF /\ report.expected = expected
     /\ report.captured \in expected..(expected + WINDOW)
     /\ report.captured < slot.end
     /\ report.captured <= now + SKEW
  THEN report.ping ELSE "indisponivel"

Waiting(slot, evidence, now) ==
  \/ WindowOpen(slot, Expected(slot).first, evidence.first, now)
  \/ WindowOpen(slot, Expected(slot).second, evidence.second, now)

(* What the evidence says of a session of this slot. *)
Verdict(slot, evidence, now) ==
  LET first == Trusted(slot, Expected(slot).first, evidence.first, now)
      second == Trusted(slot, Expected(slot).second, evidence.second, now)
      status == Classify(slot.calls, first, second)
  IN  [first |-> first, second |-> second, status |-> status,
       absences |-> Absences(slot.lessons, slot.calls, status)]

(* checkpoint_decision: "applied" is the only outcome that writes. *)
Outcome(doc, evidence, now) ==
  LET verdict == Verdict(doc.slot, evidence, now)
      repeated == /\ doc.first = verdict.first /\ doc.second = verdict.second
                  /\ doc.status = verdict.status /\ doc.absences = verdict.absences
      settled == doc.status # None \/ doc.first # None \/ doc.second # None
  IN  IF evidence.slot # doc.slot THEN "session_changed"
      ELSE IF doc.calendar \notin RollCallStatus THEN "session_without_roll_call"
      ELSE IF Waiting(doc.slot, evidence, now) THEN "waiting"
      ELSE IF repeated THEN "already_applied"
      ELSE IF settled THEN "existing_attendance"
      ELSE IF verdict.status = "pendente" THEN "unresolved"
      ELSE "applied"

(* replace_attendance: the absences a manual edit stores, the default for  *)
(* the situation when the payload leaves them out.                         *)
EditedAbsences(doc, edit) ==
  IF edit.absences = Omitted
  THEN Absences(doc.slot.lessons, doc.slot.calls, edit.status) ELSE edit.absences
=============================================================================

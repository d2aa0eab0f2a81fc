------------------------- MODULE MCCourseDocuments -------------------------
(* Values for TLC of CourseDocuments' constants. *)
EXTENDS CourseDocuments, TLC

CONSTANTS m1, m2, m3, u1, d1, p1, t1, t2, k1, k2

OnePlan == p1 :> {d1}
DuesOfTerm == t1 :> {1, 2} @@ t2 :> {3}

(* One event, of one course, of both, of none, moved or of the other       *)
(* semester; one beside an ambiguous one; two in the place of the first.   *)
Event(i, term, names, due) == [id |-> i, term |-> term, names |-> names, due |-> due]
Calendars == {{}, {Event(m1, t1, {1, 2}, 1)}, {Event(m1, t1, {}, 1)},
              {Event(m1, t1, {2}, 1)}, {Event(m1, t2, {2}, 3)},
              {Event(m1, t1, {1}, 2), Event(m2, t1, {1, 2}, 1)},
              {Event(m2, t1, {1}, 1), Event(m3, t1, {1}, 1)}}
Said == {<<{t2}, {}>>} \union ({Terms} \X Calendars)

Start == {<<t1, t1>>, <<t1, t2>>}
Materials == {<<0, 2>>, <<2, 0>>, <<2, 2>>}

Pair(a, b) == k1 :> a @@ k2 :> b
Races == {Pair({"moodle"}, {"save", m1}), Pair({"moodle"}, {"moodle"}),
          Pair({"moodle"}, {"delete", "edit"}), Pair({"diario"}, {"diario", "save", d1}),
          Pair({"save", u1}, {"delete", "remove", u1, "store"}),
          Pair({"discover"}, {"discover"}), Pair({"discover"}, {"delete", "edit"})}

=============================================================================

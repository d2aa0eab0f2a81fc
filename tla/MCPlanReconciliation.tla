----------------------- MODULE MCPlanReconciliation -----------------------
(* Values for TLC of PlanReconciliation's constants. *)
EXTENDS PlanReconciliation, TLC

CONSTANTS m1, m2, k1, k2

(* Two classes one after the other, and one as long as both. *)
H(a, b) == [start |-> a, end |-> b]
Early == H(0, 2)
Late == H(2, 4)
Long == H(0, 4)
ClassHours == {Early, Late, Long}

Weeks == {m1 :> Early, m1 :> Long}
Ask(weekly, confirm) == [weekly |-> weekly, confirm |-> confirm]
Schedules == {Ask(m1 :> Long, FALSE), Ask(m1 :> Late @@ m2 :> Early, TRUE)}

(* Day 0 is in the course's period, day 10 is not. *)
Exam(at) == [title |-> "exam", at |-> at]
Test(at) == [title |-> "test", at |-> at]
Portal == {[schedule |-> {<<0, Late>>, <<10, Early>>, <<10, Long>>}, assessments |-> {Exam(13)}],
           [schedule |-> {<<0, Early>>}, assessments |-> {Test(2), Exam(0)}]}

Kinds == {[online |-> FALSE], [online |-> TRUE]}
Changes == {[kind |-> "attendance", status |-> "presente"],
            [kind |-> "calendar", status |-> "cancelled"]}
Sessions == {<<0, m1>>, <<10, Early>>}

Pair(a, b) == k1 :> a @@ k2 :> b
Races == {Pair({"reconcile"}, {"reconcile", "plan"}), Pair({"reconcile", "edit"}, {"schedule"}),
          Pair({"reconcile"}, {"edit"})}

=============================================================================

---------------------------- MODULE MCTimetable ----------------------------
(* Values for TLC of Timetable's constants. *)
EXTENDS Timetable, TLC

CONSTANTS o1, k1, k2

H(a, b) == [start |-> a, end |-> b]
Early == H(0, 2)
Late == H(2, 4)
ClassHours == {Early, Late}

(* Semester 1 is days 3 to 5 and semester 2 days 6 to 8. *)
P(a, b) == [first |-> a, last |-> b]
Imported == <<1, 1>> :> 1 @@ <<2, 1>> :> 1 @@ <<1, 2>> :> 2 @@ <<2, 2>> :> 2

Doc(code, term, workload, online, period) ==
    [code |-> code, term |-> term, workload |-> workload, online |-> online, period |-> period]
Nothing == [n \in {o1} \union ClassHours |-> None]
With(n, h) == [Nothing EXCEPT ![n] = h]

(* Two courses of the semester; one of them alone, with a placeholder; and *)
(* one whose imported meeting the user moved.                              *)
Start == {[courses |-> <<Doc(1, 1, 60, FALSE, P(3, 5)), Doc(2, 1, 60, FALSE, None), None>>,
           meetings |-> <<With(Early, Early), Nothing, Nothing>>],
          [courses |-> <<Doc(1, 1, 1, FALSE, None), None, None>>,
           meetings |-> <<Nothing, Nothing, Nothing>>],
          [courses |-> <<Doc(1, 1, 60, FALSE, P(3, 4)), Doc(2, 1, 60, FALSE, P(5, 5)), None>>,
           meetings |-> <<With(Early, Late), With(o1, Late), Nothing>>]}

Siga(code, hours, period) == [code |-> code, term |-> 1, workload |-> 60, hours |-> hours, period |-> period]
Seen == {{Siga(1, {Early}, P(3, 4)), Siga(2, {Late}, P(3, 4))},
         {Siga(1, {Late}, P(3, 4)), Siga(2, {}, P(4, 5))}}

At1(id, doc) == [id |-> id, doc |-> doc]
Forms == {At1(3, Doc(2, 1, 60, FALSE, None)), At1(1, Doc(2, 1, 60, FALSE, P(3, 5))),
          At1(1, Doc(1, 1, 60, TRUE, P(3, 5)))}

Ask(id, weekly, period) == [id |-> id, asked |-> [weekly |-> weekly, period |-> period]]
Wishes == {Ask(1, o1 :> Late, P(3, 4)), Ask(2, o1 :> Early, P(4, 5)), Ask(2, <<>>, None),
           Ask(1, Early :> Late, P(3, 5))}

Pair(a, b) == k1 :> a @@ k2 :> b
Races == {Pair({"siga"}, {"siga"}), Pair({"siga"}, {"schedule"}), Pair({"siga"}, {"course"}),
          Pair({"schedule"}, {"schedule"}), Pair({"course"}, {"course", "schedule"})}

=============================================================================

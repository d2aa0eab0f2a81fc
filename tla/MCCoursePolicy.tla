--------------------------- MODULE MCCoursePolicy ---------------------------
(* Instances of CoursePolicy for TLC.                                      *)
EXTENDS CoursePolicy, TLC

(* A plan with everything, and one whose schedule is not there yet.        *)
AnswersDef == {Fields, Fields \ {"schedule"}}

Symmetry == Permutations(Terms) \union Permutations(Runs)
=============================================================================

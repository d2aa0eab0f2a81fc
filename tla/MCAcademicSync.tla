--------------------------- MODULE MCAcademicSync ---------------------------
(* An instance of AcademicSync for TLC. *)
EXTENDS AcademicSync, TLC

Symmetry == Permutations(Runs)
=============================================================================

------------------------- MODULE MCCheckpointDevice -------------------------
(* Instances of CheckpointDevice for TLC.                                  *)
EXTENDS CheckpointDevice, TLC

OneCall == [start |-> 0, end |-> 3, lessons |-> 2, calls |-> 1]
TwoCalls == [start |-> 0, end |-> 3, lessons |-> 2, calls |-> 2]
OneCallSlot == {OneCall}
BothSlots == {OneCall, TwoCalls}
One == 1..1
Two == 1..2

Symmetry == Permutations(Worker) \cup Permutations(Account)
=============================================================================

----------------------------- MODULE MCSyncJob -----------------------------
(* Instances of SyncJob for TLC.                                           *)
EXTENDS SyncJob, TLC

CONSTANTS a, b

(* One operation is asked for with force and the other without.            *)
OneForced == {<<a, TRUE>>, <<b, FALSE>>}

Symmetry == Permutations(Worker)

=============================================================================

--------------------------- MODULE MCCredentials ---------------------------
(* Instances of Credentials for TLC. *)
EXTENDS Credentials, TLC

(* Before a rotation the deployment knows one key; after it, both. *)
Rotation == {[keys |-> {1}, active |-> 1], [keys |-> {1, 2}, active |-> 2]}
LifeDef == [session |-> 1, tokens |-> 2]
ChosenRoutes == {"connect", "disconnect", "files", "sync", "status"}

Symmetry == Permutations(Calls)
=============================================================================

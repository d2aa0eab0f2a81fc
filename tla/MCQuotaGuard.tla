---------------------------- MODULE MCQuotaGuard ----------------------------
(* Instances of QuotaGuard for TLC.                                        *)
EXTENDS QuotaGuard, TLC

CONSTANTS t1, t2

(* One token outlives the first window, the other does not.                *)
ExpiryDef == (t1 :> 2) @@ (t2 :> 4)

Symmetry == Permutations(Requests)

=============================================================================

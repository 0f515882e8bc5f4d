---------------------------- MODULE MCRunRegistry ----------------------------
(* Instances of RunRegistry: two tenants who may use the same run IDs, and  *)
(* two IDs of which one starts the container names of the other ("a" and    *)
(* "a-b").                                                                  *)
EXTENDS RunRegistry, TLC

CONSTANTS t1, t2, a, ab

TenantsDef == {t1, t2}
RunIdsDef  == {a, ab}
PrefixDef  == {<<a, a>>, <<ab, ab>>, <<a, ab>>}

(* The first tenant may have one run at a time, the second as many as it    *)
(* likes.                                                                   *)
MaxRunsDef == [t \in TenantsDef |-> IF t = t1 THEN 1 ELSE 0]

RequestSymmetry == Permutations(Requests)

=============================================================================

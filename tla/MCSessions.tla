------------------------------- MODULE MCSessions -------------------------------
(* Two commands at a time, two tenants and two levels.                      *)
EXTENDS Sessions, TLC

CONSTANTS t1, t2, c1, c2

TwoTenants  == {t1, t2}
TwoCommands == {c1, c2}
AnyLevel    == {1, 2}

Symmetry == Permutations(TwoTenants) \cup Permutations(TwoCommands)
================================================================================

------------------------------ MODULE MCSessions ------------------------------
(* Sessions for TLC: tabs are alike. *)
EXTENDS Sessions, TLC

Symmetry == Permutations(Tab)
===============================================================================

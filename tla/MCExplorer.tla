----------------------------- MODULE MCExplorer -----------------------------
(* Explorer for TLC: y, as lib.rs.bak, begins with x, as lib.rs; workspaces  *)
(* are interchangeable.                                                      *)
EXTENDS Explorer, TLC

CONSTANTS x, y

YBeginsWithX == [n \in Names |-> IF n = x THEN {y} ELSE {}]
Symmetry == Permutations(Workspaces)
=============================================================================

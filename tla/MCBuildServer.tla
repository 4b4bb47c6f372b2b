---------------------------- MODULE MCBuildServer ----------------------------
(* BuildServer for TLC.  Requests and programs are interchangeable.          *)
EXTENDS BuildServer, TLC

Symmetry == Permutations(Requests) \cup Permutations(Programs)
=============================================================================

------------------------------- MODULE MCDiscovery -------------------------------
(* Instances of Discovery for TLC; the cfgs give the constants. *)
EXTENDS Discovery, TLC

Symmetry == Permutations(Scan) \cup Permutations(Content)
================================================================================

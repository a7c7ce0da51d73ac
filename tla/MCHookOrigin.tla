---------------------------- MODULE MCHookOrigin ----------------------------
(* Instance of HookOrigin for TLC. *)
EXTENDS HookOrigin, TLC

CONSTANTS d1, d2, d3, n1, n2

Symmetry == Permutations(Dirs) \cup Permutations(Names)
=============================================================================

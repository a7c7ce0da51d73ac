---------------------------- MODULE MCSupervisor ----------------------------
(***************************************************************************)
(* An instance of Supervisor for TLC.                                      *)
(***************************************************************************)
EXTENDS Supervisor

\* Two commands of the new build, one of the old.
TwoBuilds == [c \in Commands |-> IF c = "c3" THEN "old" ELSE "new"]
=============================================================================

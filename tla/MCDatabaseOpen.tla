---------------------------- MODULE MCDatabaseOpen ----------------------------
(***************************************************************************)
(* An instance of DatabaseOpen for TLC.                                    *)
(***************************************************************************)
EXTENDS DatabaseOpen

\* One process is of the build before the newest.
TwoBuilds == [p \in Processes |-> IF p = "p2" THEN Newest - 1 ELSE Newest]
=============================================================================

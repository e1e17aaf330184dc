--------------------------- MODULE MCJobSchedule ---------------------------
(***************************************************************************)
(* From a Thursday to the Sunday after it.  GitHub delivers the crons      *)
(* named in the .cfg; every other job reaches the runner only through      *)
(* catch_up.                                                               *)
(***************************************************************************)
EXTENDS JobSchedule

ThursdayToSunday == (3 * 48) + 47
=============================================================================

--------------------------- MODULE MCAlertPipeline ---------------------------
(***************************************************************************)
(* AlertPipeline with one player and a clock of a few ticks.  A cfg cannot *)
(* write a set of sets of model values, so the view a run has of the       *)
(* league is named here.                                                   *)
(***************************************************************************)
EXTENDS AlertPipeline

CONSTANTS lamb

WholeRoster == {{lamb}}
=============================================================================

----------------------------- MODULE LeagueSlots ----------------------------
(***************************************************************************)
(* Which position may start in which slot of a fantasy team: the tables    *)
(* and slot_accepts of src/lineup_solver.py.  Slot names are in capitals,  *)
(* as slot_accepts makes them.                                             *)
(***************************************************************************)

Superflex == {"Q/W/R/T", "W/R/T/Q", "OP", "SUPERFLEX"}
FLEX_ELIGIBILITY ==
  [s \in {"W/R", "W/T", "R/T", "W/R/T"} \cup Superflex |->
     CASE s = "W/R"      -> {"WR", "RB"}
       [] s = "W/T"      -> {"WR", "TE"}
       [] s = "R/T"      -> {"RB", "TE"}
       [] s = "W/R/T"    -> {"WR", "RB", "TE"}
       [] s \in Superflex -> {"QB", "WR", "RB", "TE"}]
DEFENSIVE_SLOTS == {"DEF", "DST", "D"}
BENCH_SLOTS == {"BN", "IR", "IR+", "NA"}

slot_accepts(slot, position) ==
  /\ slot \notin BENCH_SLOTS
  /\ \/ slot \in DOMAIN FLEX_ELIGIBILITY /\ position \in FLEX_ELIGIBILITY[slot]
     \/ slot \in DEFENSIVE_SLOTS /\ position \in DEFENSIVE_SLOTS
     \/ /\ slot \notin DOMAIN FLEX_ELIGIBILITY \cup DEFENSIVE_SLOTS
        /\ slot = position
=============================================================================

--------------------------- MODULE MCLineupSolver ---------------------------
(***************************************************************************)
(* Every list of up to four players of six kinds: points that tie, cost,   *)
(* or count for more than one position; leagues of up to three slots.      *)
(***************************************************************************)
EXTENDS LineupSolver

Kind(points, positions) == [points |-> points, positions |-> positions]

Kinds ==
  {Kind(3, {"WR"}), Kind(1, {"WR"}), Kind(2, {"RB"}), Kind(-1, {"RB"}),
   Kind(2, {"WR", "RB"}), Kind(1, {"DST"})}

RostersOfFour == UNION {[1..n -> Kinds] : n \in 0..4}

Leagues ==
  {<<>>, <<"WR">>, <<"W/R/T", "WR">>, <<"RB", "WR", "W/R">>,
   <<"WR", "SUPERFLEX", "DEF">>}
=============================================================================

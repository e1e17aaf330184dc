----------------------------- MODULE RecapAdvice ----------------------------
(***************************************************************************)
(* The Monday recap (src/season/recap.py): what the lineup scored, what    *)
(* the best one would have, and which starts cost points.                  *)
(*                                                                         *)
(* A case has `players`: key -> [pos, slot, points], points Unscored when  *)
(* no score was recorded and slot "" when none is known; `slots`.          *)
(***************************************************************************)
EXTENDS Advice

Unscored == -100

RECAP_BENCH == {"BN", "IR", "IR+", "NA"}

WasStarted(slot) == slot # "" /\ slot \notin RECAP_BENCH

Scored(c, k) == IF c.players[k].points = Unscored THEN 0 ELSE c.players[k].points

WereStarted(c) == {k \in DOMAIN c.players : WasStarted(c.players[k].slot)}

HasScores(c) == \E k \in DOMAIN c.players : c.players[k].points # Unscored

Scores(c) == [k \in DOMAIN c.players |-> Scored(c, k)]

(***************************************************************************)
(* The mistakes, slot after slot of the best lineup: the first of those    *)
(* who held a slot of that name and is not its best player is displaced,   *)
(* and costs points if he scored less.                                     *)
(***************************************************************************)
CostsAnything(gained, lost) == TRUE

CostsPoints(gained, lost) == gained > lost

Holders(c, lineup, done, s) ==
  {k \in WereStarted(c) \ done.displaced : c.players[k].slot = c.slots[s] /\ k # lineup[s]}

Blame(c, lineup, done, s, k) ==
  [displaced |-> done.displaced \cup {k},
   found |-> done.found \cup
     (IF CostsPoints(Scored(c, lineup[s]), Scored(c, k))
        THEN {[benched |-> lineup[s], started |-> k]} ELSE {})]

AfterSlot(c, lineup, done, s) ==
  IF lineup[s] = Nobody \/ Holders(c, lineup, done, s) = {} THEN {done}
  ELSE {Blame(c, lineup, done, s, k) : k \in Holders(c, lineup, done, s)}

Mistakes(c, lineup) ==
  LET walks[s \in 0..Len(c.slots)] ==
        IF s = 0 THEN {[displaced |-> {}, found |-> {}]}
        ELSE UNION {AfterSlot(c, lineup, done, s) : done \in walks[s - 1]}
  IN {done.found : done \in walks[Len(c.slots)]}

RecapReport(c, lineup, wrong) ==
  [said |-> IF wrong = {} THEN "you started the optimal lineup" ELSE "what it cost",
   actual |-> Total(Scores(c), WereStarted(c)),
   optimal |-> Total(Scores(c), Starters(lineup)),
   mistakes |-> wrong]

RecapReports(c) ==
  IF ~HasScores(c) THEN {[said |-> "no scores recorded"]}
  ELSE UNION {{RecapReport(c, lineup, wrong) : wrong \in Mistakes(c, lineup)} :
                lineup \in BestLineups(c.players, c.slots, Scores(c))}

\* A case as run makes it of the roster and of what was scored.
IsRecapCase(c) ==
  /\ IsFiniteSet(DOMAIN c.players) /\ Nobody \notin DOMAIN c.players
  /\ c.slots \in Seq(STRING)
  /\ \A k \in DOMAIN c.players : c.players[k] \in [pos : STRING, slot : STRING, points : Int]

RecapInit == IsRecapCase(case) /\ report = Unanswered

RecapRun == Answer("recap", RecapReports(case))

RecapSpec == RecapInit /\ [][RecapRun]_adviceVars

-----------------------------------------------------------------------------
(***************************************************************************)
(* Every mistake could have been avoided: the benched player fits the slot *)
(* the other one held and would have scored more there; no start is blamed *)
(* twice; and of a full lineup nothing is lost exactly when no mistake is  *)
(* found (run, src/season/recap.py:186).                                   *)
(***************************************************************************)
RecapIsSound ==
  Answered("recap") /\ HasScores(case) /\ StartedLegally(case, WereStarted(case)) =>
    /\ \A m \in report.mistakes :
         /\ slot_accepts(case.players[m.started].slot, case.players[m.benched].pos)
         /\ Scored(case, m.benched) > Scored(case, m.started)
         /\ m.started \in WereStarted(case)
         /\ \A n \in report.mistakes : n # m => n.started # m.started /\ n.benched # m.benched
    /\ Cardinality(WereStarted(case)) = Len(case.slots) =>
         /\ report.optimal >= report.actual
         /\ report.mistakes = {} => report.optimal = report.actual
=============================================================================

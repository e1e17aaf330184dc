------------------------------- MODULE Advice -------------------------------
(***************************************************************************)
(* What the advice jobs of src/season and the value models share: a job is *)
(* handed a case (the roster, the wire, the week), computes a report from  *)
(* it and changes nothing; and the best lineup a roster can field, as the  *)
(* relation LineupSolver is shown to compute.                              *)
(***************************************************************************)
EXTENDS Integers, FiniteSetsExt, SequencesExt, Functions, LeagueSlots

CONSTANTS
  Nobody,     \* who is in an empty slot: no player
  Unanswered  \* no report: no value a job reports

VARIABLES
  case,       \* what the job was handed; case.job names it
  report      \* what it reported, or Unanswered

adviceVars == <<case, report>>

Asked(job) == case.job = job /\ report = Unanswered
Answered(job) == case.job = job /\ report # Unanswered

Answer(job, reports) ==
  /\ Asked(job)
  /\ \E r \in reports : report' = r
  /\ UNCHANGED case

-----------------------------------------------------------------------------
(***************************************************************************)
(* A lineup puts players, or Nobody, in the slots of a list.  best_lineup  *)
(* fills the most slots it can, with the most points (LineupSolver).       *)
(* `players` maps the players on offer to records with their `pos`.        *)
(***************************************************************************)
Starters(lineup) == Range(lineup) \ {Nobody}

Total(f, S) == MapThenSumSet(LAMBDA x : f[x], S)

Lineups(players, slots) ==
  {lineup \in [DOMAIN slots -> DOMAIN players \cup {Nobody}] :
     \A s \in DOMAIN slots : lineup[s] # Nobody =>
       /\ slot_accepts(slots[s], players[lineup[s]].pos)
       /\ \A t \in DOMAIN slots \ {s} : lineup[t] # lineup[s]}

BestLineups(players, slots, points) ==
  LET legal == Lineups(players, slots)
      most  == Max({Cardinality(Starters(l)) : l \in legal})
      full  == {l \in legal : Cardinality(Starters(l)) = most}
      best  == Max({Total(points, Starters(l)) : l \in full})
  IN {l \in full : Total(points, Starters(l)) = best}

LineupTotal(players, slots, points) ==
  Total(points, Starters(CHOOSE l \in BestLineups(players, slots, points) : TRUE))

\* split_slots: how many slots are a position's own; the rest are flex slots.
Dedicated(slots) ==
  LET name(s) == IF s \in DEFENSIVE_SLOTS THEN "DEF" ELSE s
      own == {i \in DOMAIN slots : slots[i] \notin DOMAIN FLEX_ELIGIBILITY \cup BENCH_SLOTS}
  IN [pos \in {name(slots[i]) : i \in own} |->
        Cardinality({i \in own : name(slots[i]) = pos})]

\* Python's round(n / d) for whole n and d > 0: halves go to the even number.
RoundHalfEven(n, d) ==
  LET q == n \div d
      r == 2 * (n % d)
  IN IF r > d \/ (r = d /\ q % 2 = 1) THEN q + 1 ELSE q

Least(a, b) == IF a < b THEN a ELSE b
Most(a, b) == IF a > b THEN a ELSE b

IsComplete(lineup) == Nobody \notin Range(lineup)

\* ORDER BY points DESC: the players of S, most points first, equals in any order.
Orders(players, S) ==
  {q \in [1 .. Cardinality(S) -> S] :
     \A i, j \in DOMAIN q : i < j =>
       q[i] # q[j] /\ players[q[i]].points >= players[q[j]].points}

\* A lineup the league allows: every starter of his own in a slot of the
\* name he is listed in, which takes him.
StartedLegally(c, started) ==
  \E l \in Lineups(c.players, c.slots) :
     /\ Starters(l) = started
     /\ \A s \in DOMAIN l : l[s] # Nobody => c.players[l[s]].slot = c.slots[s]
=============================================================================

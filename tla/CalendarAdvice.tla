--------------------------- MODULE CalendarAdvice ---------------------------
(***************************************************************************)
(* What the weeks ahead hold: the bye planner (src/season/byes.py), and    *)
(* the ranking of a position one changes every week                        *)
(* (src/season/streamers.py, with the noise of src/analytics/              *)
(* uncertainty.py).                                                        *)
(*                                                                         *)
(* A case has `players`: key -> [pos, points, bye, status, team], a bye of *)
(* 0 being none; `roster`; and                                             *)
(*   byes:   `wire`, `slots`, `week`, `games` (of the cached schedule)     *)
(*   stream: `position`, `shown`; points in hundredths, NoPoints for none. *)
(***************************************************************************)
EXTENDS Advice

CONSTANTS
  BYE_HORIZON,     \* run's horizon: the weeks looked at after this one
  PLAYOFF_WEEKS,   \* its playoff_weeks
  WIRE_LIMIT       \* how many free agents _best_available_for_slot reads

ASSUME HorizonAssumption == BYE_HORIZON \in Nat /\ WIRE_LIMIT \in Nat

-----------------------------------------------------------------------------
(* byes.run                                                                 *)

BYE_OUT == {"IR", "PUP", "Out", "Suspended"}

OnBye(c, week) == {k \in c.roster : c.players[k].bye = week}

OutThatWeek(c, week) == {k \in c.roster \ OnBye(c, week) : c.players[k].status \in BYE_OUT}

Around(c, week) == c.roster \ (OnBye(c, week) \cup OutThatWeek(c, week))

ByeLineups(c, S) ==
  BestLineups(Restrict(c.players, S), c.slots, [k \in S |-> c.players[k].points])

\* lineup.empty_slots, as a set of names.
EmptySlots(c, lineup) == {c.slots[i] : i \in {j \in DOMAIN c.slots : lineup[j] = Nobody}}

AroundTheBye(c, k, week) == TRUE

OffTheBye(c, k, week) == c.players[k].bye # week

(***************************************************************************)
(* _best_available_for_slot: the first who can play that week and fits, of *)
(* the best on the wire.  Injuries are not looked at.                      *)
(***************************************************************************)
FixFor(c, wire, slot, week) ==
  LET able == {i \in 1 .. Least(WIRE_LIMIT, Len(wire)) :
                 /\ OffTheBye(c, wire[i], week)
                 /\ slot_accepts(slot, c.players[wire[i]].pos)}
  IN IF able = {} THEN Nobody ELSE wire[Min(able)]

Outlook(c, wire, week, lineup) ==
  [week |-> week, bye |-> OnBye(c, week), out |-> OutThatWeek(c, week),
   lineup |-> lineup,
   covered |-> IsComplete(lineup),
   fixes |-> [slot \in EmptySlots(c, lineup) |-> FixFor(c, wire, slot, week)]]

Opponent(c, k, week) ==
  {IF g.home = c.players[k].team THEN g.away ELSE g.home :
     g \in {h \in c.games : h.week = week /\ c.players[k].team \in {h.home, h.away}}}

\* _playoff_outlook: "unknown" without a cached schedule of those weeks.
PlayoffOpponents(c) ==
  IF \A g \in c.games : g.week \notin PLAYOFF_WEEKS THEN "unknown"
  ELSE [k \in {r \in c.roster : \E w \in PLAYOFF_WEEKS : Opponent(c, r, w) # {}} |->
          [w \in {x \in PLAYOFF_WEEKS : Opponent(c, k, x) # {}} |-> Opponent(c, k, w)]]

\* An empty roster is reported as missing data, never as weeks of gaps.
NoRoster == [said |-> "no roster", weeks |-> <<>>]

ComingWeeks(c) == c.week + 1 .. c.week + BYE_HORIZON

ComingLineups(c) ==
  {f \in [ComingWeeks(c) -> UNION {ByeLineups(c, Around(c, w)) : w \in ComingWeeks(c)}] :
     \A w \in ComingWeeks(c) : f[w] \in ByeLineups(c, Around(c, w))}

Outlooks(c, wire, f) ==
  [i \in 1..BYE_HORIZON |-> Outlook(c, wire, c.week + i, f[c.week + i])]

ByeReport(c, wire, f) ==
  [said |-> IF \A w \in ComingWeeks(c) : IsComplete(f[w]) THEN "covered" ELSE "gaps",
   weeks |-> Outlooks(c, wire, f),
   playoff |-> PlayoffOpponents(c)]

ByeReports(c) ==
  IF c.roster = {} THEN {NoRoster}
  ELSE {ByeReport(c, wire, f) : wire \in Orders(c.players, c.wire), f \in ComingLineups(c)}

\* A case as run makes it: a free agent is on nobody's roster.
IsByeCase(c) ==
  /\ IsFiniteSet(DOMAIN c.players) /\ Nobody \notin DOMAIN c.players
  /\ c.roster \subseteq DOMAIN c.players /\ c.wire \subseteq DOMAIN c.players \ c.roster
  /\ c.slots \in Seq(STRING) /\ c.week \in Nat
  /\ \A k \in DOMAIN c.players : c.players[k].points \in Int

ByesRun == Answer("byes", ByeReports(case))

-----------------------------------------------------------------------------
(* streamers.rank and describe                                              *)

NoPoints == -1

\* The spread of a projection, in hundredths of a point.
MEASURED_WEEKLY_SD ==
  ("QB" :> 724) @@ ("RB" :> 586) @@ ("WR" :> 548) @@ ("TE" :> 450) @@ ("DEF" :> 544)

POOLED_WEEKLY_SD == 561

weekly_sd(pos) ==
  IF pos \in DOMAIN MEASURED_WEEKLY_SD THEN MEASURED_WEEKLY_SD[pos] ELSE POOLED_WEEKLY_SD

\* is_meaningful(gap, difference_sd(pos, pos)): the two spreads add in variance.
is_meaningful(gap, pos) == gap * gap >= 2 * weekly_sd(pos) * weekly_sd(pos)

StreamField(c) ==
  {k \in DOMAIN c.players : c.players[k].pos = c.position /\ c.players[k].points # NoPoints}

\* The list stops at `shown`, but never before one's own player.
IsShown(c, i, k) == i <= c.shown \/ k \in c.roster

Ranking(c, ranked) ==
  LET shown == {i \in DOMAIN ranked : IsShown(c, i, ranked[i])}
      mine  == {i \in DOMAIN ranked : ranked[i] \in c.roster}
      gap   == c.players[ranked[Min(shown)]].points - c.players[ranked[Min(mine)]].points
  IN [options |-> {[key |-> ranked[i], rank |-> i] : i \in shown},
      mine |-> IF mine = {} THEN Nobody ELSE ranked[Min(mine)],
      field |-> Len(ranked),
      said |-> IF ranked = <<>> THEN "no projections"
               ELSE IF mine = {} THEN "availability unknown"
               ELSE IF gap <= 0 THEN "yours is the best"
               ELSE IF is_meaningful(gap, c.position) THEN "a better one exists"
               ELSE "inside the noise"]

\* A case as my_keys_at and the store make it; rank's limit is at least one.
IsStreamCase(c) ==
  /\ IsFiniteSet(DOMAIN c.players) /\ Nobody \notin DOMAIN c.players
  /\ c.shown \in Nat \ {0}
  /\ \A k \in DOMAIN c.players : c.players[k].points \in Int

Rankings(c) == {Ranking(c, ranked) : ranked \in Orders(c.players, StreamField(c))}

StreamRun == Answer("stream", Rankings(case))

CalendarInit ==
  /\ case.job = "byes" => IsByeCase(case)
  /\ case.job = "stream" => IsStreamCase(case)
  /\ report = Unanswered

CalendarSpec == CalendarInit /\ [][ByesRun \/ StreamRun]_adviceVars

-----------------------------------------------------------------------------
Filled(c, S) == Cardinality(Starters(CHOOSE l \in ByeLineups(c, S) : TRUE))

(***************************************************************************)
(* A week called covered can be fielded, one called a gap cannot, and      *)
(* adding any one suggested player fills one slot more that week, were he  *)
(* as fit as the job takes him to be (run, src/season/byes.py:142).        *)
(***************************************************************************)
FixesFill ==
  report.said # "no roster" =>
    \A i \in DOMAIN report.weeks :
      LET w == report.weeks[i]
          now == Filled(case, Around(case, w.week))
          plays(k) == case.players[k].bye # w.week
      IN /\ w.covered <=> now = Len(case.slots)
         /\ \A slot \in DOMAIN w.fixes :
              LET fix == w.fixes[slot] IN
              fix # Nobody =>
                Filled(case, Around(case, w.week) \cup (IF plays(fix) THEN {fix} ELSE {})) = now + 1

(***************************************************************************)
(* The player one owns is ranked in the whole field however far down he    *)
(* is, and is called the best only when nobody projects more               *)
(* (rank, src/season/streamers.py:153).                                    *)
(***************************************************************************)
MineIsRanked ==
  LET mine == case.roster \cap StreamField(case)
      better(k) == {o \in StreamField(case) : case.players[o].points > case.players[k].points}
  IN
  /\ mine # {} => /\ report.mine \in mine
                  /\ \A k \in mine : case.players[report.mine].points >= case.players[k].points
  /\ \A o \in report.options : o.rank > Cardinality(better(o.key))
  /\ report.said = "yours is the best" => better(report.mine) = {}

CalendarIsSound ==
  /\ Answered("byes") => FixesFill
  /\ Answered("stream") => MineIsRanked
=============================================================================

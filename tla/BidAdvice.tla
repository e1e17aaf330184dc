------------------------------ MODULE BidAdvice -----------------------------
(***************************************************************************)
(* What to bid on a free agent (src/analytics/faab.py), for the waiver job *)
(* and for `fcc faab` (cmd_faab of src/cli.py): each manager's dollars per *)
(* point, learned from Yahoo's transaction log, against what the player is *)
(* worth to the manager.                                                   *)
(*                                                                         *)
(* A case has `log`, a sequence of [team, player, status, source, bid,     *)
(* week], `value` (player -> points of a whole season over replacement),   *)
(* `pos` (player -> position), `teams`, `budgets` (team -> dollars, for    *)
(* those known), `mine`, `target`, `week`, and `command`.  Money per point *)
(* is in thousandths of a dollar, a chance in hundredths of a percent.     *)
(***************************************************************************)
EXTENDS Advice

LEAGUE_PRIOR_BETA == 1200
PROFILE_STABILISATION == 6
NUISANCE_BUDGET == 2
DEFAULT_PARTICIPATION == 25
ELITE_CLAIM_VALUE == 55
POSITION_MARKET_MIN == 3
SEASON_WEEKS == 17
NoBid == -1

\* ros_fraction, in seventeenths.
WeeksAhead(week) == Most(1, SEASON_WEEKS - week + 1)

-----------------------------------------------------------------------------
(* parse_bids, attach_values, learn_profiles                                *)

\* Only a claim that went through, off waivers, says what wins.
IsWinningBid(e) ==
  /\ e.status \in {"", "successful"} /\ e.source \in {"", "waivers"}
  /\ e.bid # NoBid

Bids(c) == SelectSeq(c.log, IsWinningBid)

\* What was still ahead of the buyer when he bid, in seventeenths of a point.
WorthThen(c, b) == c.value[b.player] * WeeksAhead(b.week)

Valued(c, b) == c.value[b.player] > 0

Beta(c, b) == (1000 * SEASON_WEEKS * b.bid) \div WorthThen(c, b)

Mean(s) == FoldLeft(+, 0, s) \div Len(s)

Betas(c, bids) ==
  LET priced == SelectSeq(bids, LAMBDA b : Valued(c, b) /\ b.bid > 0)
  IN [i \in DOMAIN priced |-> Beta(c, priced[i])]

LeagueBeta(c) == IF Betas(c, Bids(c)) = <<>> THEN LEAGUE_PRIOR_BETA ELSE Mean(Betas(c, Bids(c)))

\* Few bids mean the league's average is the better guess.
Shrunk(c, betas) ==
  IF betas = <<>> THEN LeagueBeta(c)
  ELSE (Len(betas) * Mean(betas) + PROFILE_STABILISATION * LeagueBeta(c))
         \div (Len(betas) + PROFILE_STABILISATION)

Profiles(c) ==
  [t \in c.teams \cup {Bids(c)[i].team : i \in DOMAIN Bids(c)} |->
     LET his == SelectSeq(Bids(c), LAMBDA b : b.team = t) IN
     [observations |-> Len(his), beta |-> Shrunk(c, Betas(c, his)),
      budget |-> IF t \in DOMAIN c.budgets THEN c.budgets[t] ELSE NoBid]]

Rivals(c) == DOMAIN Profiles(c) \ {c.mine}

\* position_market: with too few bids at the position nothing is claimed.
PositionMarket(c) ==
  LET at == SelectSeq(Bids(c), LAMBDA b : c.pos[b.player] = c.pos[c.target])
  IN IF Len(at) < POSITION_MARKET_MIN THEN <<>>
     ELSE SortSeq([i \in DOMAIN at |-> at[i].bid], <)

\* The nearest-rank quantile, q in tenths.
Quantile(s, q) == s[Least(Len(s), Most(1, (q * Len(s) + 9) \div 10))]

-----------------------------------------------------------------------------
(* win_probability, worth_to_you, recommend                                 *)

IsOut(p) == p.budget # NoBid /\ p.budget <= NUISANCE_BUDGET

\* The log-normal about the expected bid, in steps: quarters of it, percent below.
LogNormal ==
  <<<<1, 3>>, <<2, 18>>, <<3, 35>>, <<4, 50>>, <<6, 71>>, <<8, 82>>, <<12, 93>>, <<16, 97>>>>

BidsBelow(p, amount, value) ==
  LET expected == Most(1, (p.beta * Most(value, 0)) \div 1000)
      passed == {i \in DOMAIN LogNormal : LogNormal[i][1] * expected <= 4 * amount}
  IN IF (p.budget # NoBid /\ p.budget < amount) \/ IsOut(p) THEN 100
     ELSE IF passed = {} THEN 0 ELSE LogNormal[Max(passed)][2]

\* Nothing learned from the log says how often a manager bids at all.
Participation(p) == IF IsOut(p) THEN 0 ELSE DEFAULT_PARTICIPATION

WinChance(profiles, rivals, amount, value) ==
  FoldSet(LAMBDA t, chance :
            (chance * (10000 - Participation(profiles[t])
                               * (100 - BidsBelow(profiles[t], amount, value)))) \div 10000,
          10000, rivals)

worth_to_you(value, budget, weeksLeft) ==
  Most(1, RoundHalfEven(budget * 6 * value * (170 + 6 * Most(0, SEASON_WEEKS - weeksLeft)),
                        1700 * (value + ELITE_CLAIM_VALUE)))

MyBudget(c) == IF c.mine \in DOMAIN c.budgets THEN c.budgets[c.mine] ELSE 100

\* The waiver job counts to the last week and looks at the position's own bids.
WeeksLeft(c) == IF c.command = "faab" THEN Most(1, 15 - c.week) ELSE WeeksAhead(c.week)
Market(c) == IF c.command = "faab" THEN <<>> ELSE PositionMarket(c)

NoAdvice == [recommended |-> 0, price |-> 0, worth |-> 0, chance |-> 0, walk |-> FALSE]

Recommend(c, rivals, value) ==
  LET budget   == MyBudget(c)
      worth    == worth_to_you(value, budget, WeeksLeft(c))
      chance(b) == WinChance(Profiles(c), rivals, b, value)
      clears   == {b \in 1 .. budget : chance(b) >= 7000}
      model    == IF clears = {} THEN budget ELSE Min(clears)
      paid     == Market(c)
      capped   == paid # <<>> /\ model > Quantile(paid, 7) + 1
      price    == IF capped THEN Quantile(paid, 7) + 1 ELSE model
      bid      == Most(1, Least(price, worth))
  IN IF value <= 0 \/ budget <= 0 THEN NoAdvice
     ELSE [recommended |-> bid, price |-> price, worth |-> worth,
           chance |-> IF capped /\ bid >= price THEN Most(chance(bid), 7000) ELSE chance(bid),
           walk |-> price > 2 * worth]

BidRun == Answer("bid", {Recommend(case, Rivals(case), case.value[case.target])})

-----------------------------------------------------------------------------
Won == {i \in DOMAIN case.log : /\ case.log[i].status = "successful"
                                /\ case.log[i].source = "waivers"}

(***************************************************************************)
(* In a league that has only ever paid one price for this player in this   *)
(* week, every manager is expected to pay that price, to the dollar,       *)
(* whatever was bid in vain (attach_values, src/analytics/faab.py:443).    *)
(***************************************************************************)
ExpectsWhatItSaw ==
  LET same(i, j) == case.log[i].bid = case.log[j].bid
      there(i)   == case.log[i].player = case.target /\ case.log[i].week = case.week
      ahead      == case.value[case.target] * WeeksAhead(case.week)
  IN Won # {} /\ ahead > 0 /\ (\A i, j \in Won : there(i) /\ same(i, j) /\ case.log[i].bid > 0) =>
       \A t \in Rivals(case), i \in Won :
         LET paid == (Profiles(case)[t].beta * ahead) \div (1000 * SEASON_WEEKS)
         IN paid \in case.log[i].bid - 1 .. case.log[i].bid

(***************************************************************************)
(* The bid is one the manager can pay and never more than the player is    *)
(* worth to him; the price to win clears the target, and nothing cheaper   *)
(* does; and a rival who is out of money moves none of it                  *)
(* (recommend, src/analytics/faab.py:648).                                 *)
(***************************************************************************)
BidFits ==
  LET value == case.value[case.target]
      chance(b) == WinChance(Profiles(case), Rivals(case), b, value)
      solvent == {t \in Rivals(case) : ~IsOut(Profiles(case)[t])}
  IN report # NoAdvice =>
       /\ report.recommended \in 1 .. MyBudget(case)
       /\ report.recommended <= report.worth
       /\ Market(case) = <<>> =>
            /\ report.price = MyBudget(case) \/ chance(report.price) >= 7000
            /\ \A b \in 1 .. report.price - 1 : chance(b) < 7000
       /\ report = Recommend(case, solvent, value)

BidIsSound == Answered("bid") => ExpectsWhatItSaw /\ BidFits
=============================================================================

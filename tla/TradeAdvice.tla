----------------------------- MODULE TradeAdvice ----------------------------
(***************************************************************************)
(* The trade scout (src/season/trades.py), which looks for one-for-one     *)
(* trades that help both teams, and the judge of an offered trade          *)
(* (src/season/trade_offer.py and `fcc offer`, src/cli.py).                *)
(*                                                                         *)
(* A case has `players`: key -> [pos, points, known]; `slots`; and         *)
(*   scout: `rosters`, team -> list of players, `mine`, `minGain`, `ideas` *)
(*   offer: `roster`, `give`, `get`, `theirs` (<<>>: not said), as typed.  *)
(* Rosters are lists: a player listed twice is loaded twice.               *)
(***************************************************************************)
EXTENDS Advice

\* An empty slot holds no place of a list either.
ASSUME NobodyAssumption == Nobody \notin Nat

\* What the players of a list, each one at his place in it, make as a lineup.
Listing(c, list) == [i \in DOMAIN list |-> c.players[list[i]]]
ListPoints(c, list) == [i \in DOMAIN list |-> c.players[list[i]].points]

Worth(c, list) == LineupTotal(Listing(c, list), c.slots, ListPoints(c, list))

ArePlayers(c) ==
  /\ IsFiniteSet(DOMAIN c.players) /\ Nobody \notin DOMAIN c.players
  /\ c.slots \in Seq(STRING)
  /\ \A k \in DOMAIN c.players : c.players[k].points \in Int

\* A list without those sent and with those received after them.
After(list, sent, received) ==
  LET all == list \o received
  IN Restrict(all, {i \in DOMAIN all : i > Len(list) \/ all[i] \notin sent})

-----------------------------------------------------------------------------
(* trades.run                                                               *)

\* Who comes before the i-th of a list sorted by points, of equals the one listed first.
ListedBefore(c, list, i) ==
  LET points(j) == c.players[list[j]].points IN
  {j \in DOMAIN list : points(j) > points(i) \/ (points(j) = points(i) /\ j < i)}

\* Nobody trades his best player; seven more are considered.
TradeCandidates(c, list) ==
  {list[i] : i \in {j \in DOMAIN list : Cardinality(ListedBefore(c, list, j)) \in 1..7}}

Deal(c, team, give, get) ==
  LET mine   == c.rosters[c.mine]
      theirs == c.rosters[team]
  IN [team |-> team, give |-> give, get |-> get,
      myGain |-> Worth(c, After(mine, {give}, <<get>>)) - Worth(c, mine),
      theirGain |-> Worth(c, After(theirs, {get}, <<give>>)) - Worth(c, theirs)]

HelpsBoth(deal, min) == deal.myGain >= min /\ deal.theirGain >= min

Joint(deal) == Least(deal.myGain, deal.theirGain)

Deals(c, team) ==
  {deal \in {Deal(c, team, give, get) :
               give \in TradeCandidates(c, c.rosters[c.mine]),
               get \in TradeCandidates(c, c.rosters[team])} :
     c.players[deal.give].pos # c.players[deal.get].pos /\ HelpsBoth(deal, c.minGain)}

\* One idea per partner, the best; of the partners, the best few.
Partners(c) ==
  {t \in DOMAIN c.rosters \ {c.mine} : c.rosters[t] # <<>> /\ Deals(c, t) # {}}

BestDeal(c, t) == CHOOSE d \in Deals(c, t) : \A o \in Deals(c, t) : Joint(d) >= Joint(o)

Sooner(d, o) == Joint(d) > Joint(o) \/ (Joint(d) = Joint(o) /\ d.team < o.team)

Ideas(c, order) ==
  [i \in 1..Least(c.ideas, Cardinality(Partners(c))) |-> BestDeal(c, order[i])]

IdeaLists(c) ==
  IF c.rosters[c.mine] = <<>> THEN {<<>>}
  ELSE {Ideas(c, order) : order \in
          {q \in [1..Cardinality(Partners(c)) -> Partners(c)] :
             \A i, j \in DOMAIN q : i < j => Sooner(BestDeal(c, q[i]), BestDeal(c, q[j]))}}

\* A case as the store makes it: a roster lists nobody twice.
IsScoutCase(c) ==
  /\ ArePlayers(c)
  /\ c.mine \in DOMAIN c.rosters /\ DOMAIN c.rosters \subseteq Int /\ IsFiniteSet(DOMAIN c.rosters)
  /\ c.ideas \in Nat /\ c.minGain \in Int
  /\ \A t \in DOMAIN c.rosters : c.rosters[t] \in Seq(DOMAIN c.players) /\ IsInjective(c.rosters[t])

ScoutRun == Answer("scout", IdeaLists(case))

-----------------------------------------------------------------------------
(* trade_offer.evaluate                                                     *)

Unknown(c, list) == \E k \in ToSet(list) : ~c.players[k].known

Impossible(c) ==
  \/ ToSet(c.get) \cap ToSet(c.roster) # {}
  \/ ~(ToSet(c.give) \subseteq ToSet(c.roster))

NoVerdict(why) == [verdict |-> "none", why |-> why]

Verdict(c) ==
  IF Unknown(c, c.roster \o c.give \o c.get) THEN NoVerdict("unmatched")
  ELSE IF Impossible(c) THEN NoVerdict("impossible")
  ELSE IF Unknown(c, c.theirs) THEN NoVerdict("unmatched")
  ELSE LET gain  == Worth(c, After(c.roster, ToSet(c.give), c.get)) - Worth(c, c.roster)
           their == Worth(c, After(c.theirs, ToSet(c.get), c.give)) - Worth(c, c.theirs)
       IN [verdict |-> IF gain > 0 THEN "take it" ELSE "decline",
           gain |-> gain,
           over |-> Len(c.get) - Len(c.give),
           weakensThem |-> c.theirs # <<>> /\ their < 0 /\ gain > 0]

\* cmd_offer: without a roster, or with one side empty, nothing is judged.
Judged(c) ==
  IF c.roster = <<>> \/ c.give = <<>> \/ c.get = <<>>
  THEN NoVerdict("incomplete") ELSE Verdict(c)

IsOfferCase(c) ==
  /\ ArePlayers(c)
  /\ \A list \in {c.roster, c.give, c.get, c.theirs} : list \in Seq(DOMAIN c.players)

OfferRun == Answer("offer", {Judged(case)})

-----------------------------------------------------------------------------
Listed(list) == IsInjective(list)   \* nobody is listed twice

(***************************************************************************)
(* Every idea can be proposed: both lineups gain, neither manager gives    *)
(* his best player, each gives one he has, partners differ and the best    *)
(* idea comes first (run, src/season/trades.py:147).                       *)
(***************************************************************************)
IdeasCanBeProposed ==
  LET best(t) == {k \in ToSet(case.rosters[t]) : \A o \in ToSet(case.rosters[t]) :
                    case.players[k].points >= case.players[o].points}
  IN
  /\ \A i \in DOMAIN report :
       LET d == report[i] IN
       /\ d.myGain >= case.minGain /\ d.theirGain >= case.minGain
       /\ best(case.mine) # {d.give} /\ best(d.team) # {d.get}
       /\ d.give \in ToSet(case.rosters[case.mine]) /\ d.get \in ToSet(case.rosters[d.team])
  /\ \A i, j \in DOMAIN report : i < j =>
       /\ report[i].team # report[j].team
       /\ Joint(report[i]) >= Joint(report[j])

(***************************************************************************)
(* "take it" is said only of a trade that could happen and that improves   *)
(* the lineup of players one would really own: nobody unknown, nobody      *)
(* received whom one has, nobody sent whom one has not                     *)
(* (evaluate, src/season/trade_offer.py:126).                              *)
(***************************************************************************)
OnlyRealTradesAreTaken ==
  report.verdict # "none" /\ Listed(case.get) /\ Listed(case.roster) =>
    LET kept == ToSet(case.roster) \ ToSet(case.give)
        points == [k \in DOMAIN case.players |-> case.players[k].points]
        worth(S) == LineupTotal(Restrict(case.players, S), case.slots, Restrict(points, S))
    IN
    /\ ~Unknown(case, case.roster \o case.give \o case.get \o case.theirs)
    /\ ToSet(case.give) \subseteq ToSet(case.roster)
    /\ kept \cap ToSet(case.get) = {}
    /\ (report.verdict = "take it") <=>
         worth(kept \cup ToSet(case.get)) > worth(ToSet(case.roster))

TradesAreSound ==
  /\ Answered("scout") => IdeasCanBeProposed
  /\ Answered("offer") => OnlyRealTradesAreTaken
=============================================================================

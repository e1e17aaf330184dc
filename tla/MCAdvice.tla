------------------------------ MODULE MCAdvice ------------------------------
(* The advice jobs, each on the cases that make its rules meet: ties,      *)
(* empty rosters, players who cannot play, negative points, unknown        *)
(* numbers.  Beside them the two parts of the program that a person at the *)
(* screen or at the mail meets: the draft page and the reminders.          *)
EXTENDS LineupAdvice, MarketAdvice, CalendarAdvice, RecapAdvice,
        DraftValue, Scoring, BidAdvice, Reminders, DraftPage

-----------------------------------------------------------------------------
\* Three starters, two of them perhaps out or locked, and a bench of two.
LineupPlayer(pos, slot, points, tag, bye, locked) ==
  [pos |-> pos, slot |-> slot, points |-> points, floor |-> 0, ceiling |-> 3 * points,
   feed |-> "Healthy", tag |-> tag, bye |-> bye, locked |-> locked]

LineupCases ==
  {[job |-> "lineup", slots |-> <<"RB", "WR", "W/R/T">>,
    mode |-> resolve_risk_mode("auto", margin), stakes |-> margin = "favourite",
    players |->
     [a |-> LineupPlayer("RB", "RB", pa, ta, FALSE, la),
      b |-> LineupPlayer("WR", "WR", 2, "", bb, FALSE),
      c |-> LineupPlayer("RB", "W/R/T", 1, tc, FALSE, lc),
      d |-> LineupPlayer(pd, "BN", 2, "untagged", FALSE, FALSE),
      e |-> LineupPlayer("RB", "BN", pe, "", FALSE, FALSE)]] :
     margin \in {"unknown", "favourite"}, pa \in {1, 5}, ta \in {"", "O"}, la \in BOOLEAN,
     bb \in BOOLEAN, tc \in {"", "NA"}, lc \in BOOLEAN, pd \in {"WR", "TE"}, pe \in {-1, 1, 6}}

WaiverPlayer(pos, points, status, depth) ==
  [pos |-> pos, points |-> points, baseline |-> 1, status |-> status, trending |-> 50,
   depth |-> depth]

WaiverCases ==
  {[job |-> "waivers", roster |-> r, wire |-> {"x1", "x2", "x3"},
    owned |-> r \cup (IF taken THEN {"x1"} ELSE {}), free |-> {"x3"},
    slots |-> <<"QB", "RB", "W/R/T">>, limit |-> limit, margin |-> 2, budget |-> 10,
    faab |-> TRUE, week |-> 12, typed |-> taken, chart |-> ~taken,
    players |->
     [r1 |-> WaiverPlayer("RB", 3, "", 1), r2 |-> WaiverPlayer("RB", p2, "", 2),
      q1 |-> WaiverPlayer("QB", pq, "", 0), w1 |-> WaiverPlayer("TE", 2, "", 0),
      x1 |-> WaiverPlayer("RB", p1, st, 2), x2 |-> WaiverPlayer("QB", 9, IF st = "" THEN "Out" ELSE "", 0),
      x3 |-> WaiverPlayer("WR", 8, "", 0)]] :
     r \in {{"r1", "r2", "q1", "w1"}, {}, {"r1", "q1", "w1"}}, limit \in {4, 5},
     taken \in BOOLEAN, p1 \in {1, 8, 12}, p2 \in {2, 6}, pq \in {0, 4}, st \in {"", "IR"}}

TradePlayer(pos, points, known) == [pos |-> pos, points |-> points, known |-> known]

TradePlayers(a, b, x, known) ==
  [a1 |-> TradePlayer("RB", 9, TRUE), a2 |-> TradePlayer("RB", a, TRUE),
   a3 |-> TradePlayer("RB", b, TRUE), a4 |-> TradePlayer("WR", 2, TRUE),
   b1 |-> TradePlayer("WR", 9, TRUE), b2 |-> TradePlayer("WR", x, known),
   b3 |-> TradePlayer("WR", 5, TRUE), b4 |-> TradePlayer("RB", 1, TRUE),
   c1 |-> TradePlayer("TE", 12, TRUE), c2 |-> TradePlayer("WR", 8, TRUE)]

ScoutCases ==
  {[job |-> "scout", players |-> TradePlayers(a, b, x, TRUE), slots |-> <<"RB", "WR", "W/R/T">>,
    mine |-> 1, minGain |-> 2, ideas |-> n,
    rosters |-> <<<<"a1", "a2", "a3", "a4">>, <<"b1", "b2", "b3", "b4">>, third>>] :
     a \in {4, 8}, b \in {3, 7}, x \in {4, 8}, n \in {1, 2}, third \in {<<>>, <<"c1", "c2">>}}

OfferCases ==
  {[job |-> "offer", players |-> TradePlayers(8, 7, 8, known), slots |-> <<"RB", "WR", "W/R/T">>,
    roster |-> r, give |-> give, get |-> get, theirs |-> theirs] :
     known \in BOOLEAN, r \in {<<>>, <<"a1", "a2", "a3", "a4">>, <<"a1", "b2", "a4", "a3">>},
     give \in {<<>>, <<"a2">>, <<"a3", "a4">>},
     get \in {<<"b2">>, <<"c1">>, <<"b2", "b2">>, <<>>}, theirs \in {<<>>, <<"b1", "b2", "b3">>}}

RecapCases ==
  {[job |-> "recap", slots |-> slots,
    players |-> [k \in {"a", "b", "c", "d"} |->
      [pos |-> IF k = "c" THEN "WR" ELSE "RB", slot |-> at[k], points |-> points[k]]]] :
     slots \in {<<"RB", "W/R/T">>, <<"RB", "RB">>},
     at \in [{"a", "b", "c", "d"} -> {"RB", "W/R/T", "BN"}],
     points \in {[a |-> 3, b |-> 5, c |-> 9, d |-> -100], [a |-> 5, b |-> 5, c |-> -100, d |-> 3],
                 [a |-> 9, b |-> 3, c |-> 5, d |-> 3]}}

ByePlayer(pos, points, bye, status) ==
  [pos |-> pos, points |-> points, bye |-> bye, status |-> status, team |-> "KC"]

ByeCases ==
  {[job |-> "byes", slots |-> <<"RB", "W/R/T">>, week |-> 13, roster |-> r, wire |-> {"x", "y", "z"},
    games |-> games,
    players |->
     [a |-> ByePlayer("RB", 5, ba, sa), b |-> ByePlayer("WR", 7, bb, "Healthy"),
      c |-> ByePlayer("RB", 5, 15, "Out"), x |-> ByePlayer("RB", 6, bx, "Healthy"),
      y |-> ByePlayer("WR", py, 0, "IR"), z |-> ByePlayer("QB", 20, 0, "")]] :
     r \in {{}, {"a", "b"}, {"a", "b", "c"}},
     games \in {{}, {[week |-> 15, home |-> "KC", away |-> "SF"], [week |-> 3, home |-> "LV", away |-> "KC"]}},
     ba \in {0, 14, 15}, bb \in {14, 16}, sa \in {"Out", "Q"}, bx \in {0, 14, 15},
     py \in {4, 9}}

StreamCases ==
  {[job |-> "stream", position |-> "DEF", shown |-> 2, roster |-> r,
    players |-> [k \in {"a", "b", "c", "d"} |->
      [pos |-> IF k = "d" THEN "TE" ELSE "DEF", points |-> points[k]]]] :
     r \in SUBSET {"a", "b", "d"}, points \in [{"a", "b", "c", "d"} -> {-1, 500, 900}]}

BoardPlayer(pos, blended, sleeper, shift) ==
  [pos |-> pos, blended |-> blended, sleeper |-> sleeper, adp |-> ("sleeper" :> 2), shift |-> shift]

Slot(name, n) == [slot |-> name, count |-> n]

BoardCases ==
  {[job |-> "board", teams |-> 2, applied |-> applied, slots |-> slots,
    players |->
     [a |-> BoardPlayer("RB", 20, 3, IF applied THEN -12 ELSE 3), b |-> BoardPlayer("RB", -1, pb, 0),
      d |-> BoardPlayer("RB", 12, 8, 4), e |-> BoardPlayer("WR", pe, 14, 0),
      f |-> BoardPlayer("WR", 10, 1, 0), g |-> BoardPlayer("QB", pg, 1, 0),
      h |-> BoardPlayer("QB", 9, -1, 5)]] :
     applied \in BOOLEAN, pb \in {-1, 15}, pe \in {-1, 25}, pg \in {11, 30},
     slots \in {<<Slot("RB", 1), Slot("WR", 1)>>, <<Slot("RB", 1), Slot("W/R", 1), Slot("OP", 1)>>,
                <<Slot("QB", 1), Slot("W/R/T", 2), Slot("BN", 5)>>,
                <<Slot("QB", 1), Slot("OP", 1), Slot("W/R", 1)>>}}

Label(key, base, range) == [key |-> key, base |-> base, range |-> range, fg |-> "none"]

Stat(id, label, type) == [id |-> id, label |-> label, type |-> type, display |-> FALSE]

MCStats ==
  <<Stat(1, Label("int", "int", <<>>), "O"), Stat(2, Label("int", "int", <<>>), "DT"),
    Stat(3, Label("pts allow 0", "pts allow", <<0, 0>>), "DT"),
    Stat(4, Label("pts allow 1-6", "pts allow", <<1, 6>>), "DT"),
    Stat(5, Label("pts allow 7+", "pts allow", <<7>>), "DT"),
    Stat(6, Label("rec", "rec", <<>>), "O")>>

Stated(stat, n) == IF n = -1 THEN <<>> ELSE stat :> n

ScoreCases ==
  {[job |-> "score", stats |-> MCStats, bonuses |-> <<[id |-> 6, target |-> 5, points |-> 3]>>,
    mods |-> <<-2, 2, 10, 7, last, 1>>, type |-> type,
    line |-> Stated("rec", rec) @@ Stated("pass_int", ints) @@ Stated("def_int", 4)
               @@ Stated("def_pts_allowed", allowed)] :
     last \in {-4, 1}, rec \in {-1, 10}, ints \in {-1, 2}, allowed \in {-1, 0, 1, 2, 12, 13, 14, 30},
     type \in {"*", "O", "DT"}}

BidOf(team, player, status, bid, week) ==
  [team |-> team, player |-> player, status |-> status, source |-> "waivers", bid |-> bid,
   week |-> week]

BidCases ==
  {[job |-> "bid", log |-> <<BidOf("t2", "x", "successful", b2, w), BidOf("t3", "x", s3, 20, w),
                             BidOf("t3", "y", "successful", b4, 2)>>,
    value |-> [x |-> vx, y |-> 30], pos |-> [x |-> "RB", y |-> "RB"],
    teams |-> {"t1", "t2", "t3", "t4"}, budgets |-> budgets, mine |-> "t1", target |-> "x",
    week |-> 10, command |-> command] :
     b2 \in {8, 20}, w \in {3, 10}, s3 \in {"successful", "failed"}, b4 \in {-1, 20},
     vx \in {0, 20, 60}, command \in {"faab", "waivers"},
     budgets \in {<<>>, ("t1" :> 40) @@ ("t2" :> 1) @@ ("t4" :> 10)}}
  \cup
  {[job |-> "bid", log |-> <<BidOf("t2", "x", "successful", 3, 4), BidOf("t3", "x", "successful", 5, 3),
                             BidOf("t3", "y", "successful", 2, 2)>>,
    value |-> [x |-> vx, y |-> 30], pos |-> [x |-> "DEF", y |-> "DEF"], teams |-> {"t1", "t2"},
    budgets |-> ("t1" :> 70), mine |-> "t1", target |-> "x", week |-> 14, command |-> command] :
     vx \in {20, 60}, command \in {"faab", "waivers"}}
  \cup
  {[job |-> "bid", log |-> <<BidOf("t2", "x", "successful", 12, w), BidOf("t3", "x", s3, b3, w)>>,
    value |-> [x |-> 40, y |-> 30], pos |-> [x |-> "RB", y |-> "RB"], teams |-> {"t1", "t2", "t4"},
    budgets |-> ("t1" :> 70), mine |-> "t1", target |-> "x", week |-> w, command |-> command] :
     w \in {4, 10}, s3 \in {"successful", "failed"}, b3 \in {12, 30}, command \in {"faab", "waivers"}}

IsMCCase ==
  \/ case \in LineupCases \/ case \in WaiverCases \/ case \in ScoutCases \/ case \in OfferCases
  \/ case \in RecapCases \/ case \in ByeCases \/ case \in StreamCases
  \/ case \in BoardCases \/ case \in ScoreCases \/ case \in BidCases

\* The cases are such as the theorems speak of.
ASSUME CasesAreCases ==
  /\ \A c \in LineupCases : IsLineupCase(c)
  /\ \A c \in RecapCases : IsRecapCase(c)
  /\ \A c \in ByeCases : IsByeCase(c)
  /\ \A c \in StreamCases : IsStreamCase(c)
  /\ \A c \in WaiverCases : IsWaiverCase(c)
  /\ \A c \in ScoutCases : IsScoutCase(c)
  /\ \A c \in OfferCases : IsOfferCase(c)

-----------------------------------------------------------------------------
VARIABLE part

MCVars == <<adviceVars, reminderVars, pageVars, part>>

SomeCase == CHOOSE c \in OfferCases : TRUE

MCInit ==
  /\ RemindersInit /\ PageInit /\ report = Unanswered
  /\ \/ part = "advice" /\ IsMCCase /\ keeps
     \/ part = "reminders" /\ case = SomeCase /\ keeps
     \/ part = "page" /\ case = SomeCase

AdviceNext ==
  \/ LineupRun \/ WaiverRun \/ ScoutRun \/ OfferRun \/ ByesRun \/ StreamRun
  \/ RecapRun \/ BoardRun \/ ScoreRun \/ BidRun

MCNext ==
  \/ part = "advice" /\ AdviceNext /\ UNCHANGED <<reminderVars, pageVars, part>>
  \/ part = "reminders" /\ RemindersNext /\ UNCHANGED <<adviceVars, pageVars, part>>
  \/ part = "page" /\ PageNext /\ UNCHANGED <<adviceVars, reminderVars, part>>

MCSpec == MCInit /\ [][MCNext]_MCVars

-----------------------------------------------------------------------------
(***************************************************************************)
(* The numbers under the advice are sound: the value over replacement, the *)
(* league's own scoring and the bid a claim is priced at (src/vorp.py,     *)
(* src/scoring.py, src/analytics/faab.py).                                 *)
(***************************************************************************)
ValuesAreSound == BoardIsSound /\ ScoreIsSound /\ BidIsSound
=============================================================================

----------------------------- MODULE DraftValue -----------------------------
(***************************************************************************)
(* The valued draft board (src/vorp.py): what a player is worth over the   *)
(* one a team could have for nothing, counted by walking the whole league's *)
(* starting slots.                                                         *)
(*                                                                         *)
(* A case has `players`: key -> [pos, blended, sleeper, adp, shift], the   *)
(* points NoNumber where nothing is stored, adp mapping sources to picks,  *)
(* shift what last season's flag takes off or adds; `slots`, a sequence of *)
(* [slot, count]; `teams`; and whether the season's flags are `applied`.   *)
(***************************************************************************)
EXTENDS Advice

CONSTANTS
  MIN_TIER_SIZE,   \* the fewest players of a tier that ends at a gap
  MarketDepth,     \* market_disagreement's depth: how far down it looks
  MarketSample     \* and how many of a position it wants to see

REAL_POSITIONS == {"QB", "RB", "WR", "TE", "K", "DEF"}
NoNumber == -1

\* split_slots: the positions' own slots, and the flex slots in their order.
OwnSlots(c) == SelectSeq(c.slots, LAMBDA s :
                 s.slot \notin BENCH_SLOTS \cup DOMAIN FLEX_ELIGIBILITY /\ s.count > 0)
FlexSlots(c) == SelectSeq(c.slots, LAMBDA s : s.slot \in DOMAIN FLEX_ELIGIBILITY /\ s.count > 0)

OwnPosition(slot) == IF slot \in DEFENSIVE_SLOTS THEN "DEF" ELSE slot

Owned(c, pos) ==
  FoldLeft(LAMBDA n, s : n + IF OwnPosition(s.slot) = pos THEN s.count ELSE 0, 0, OwnSlots(c))

\* positions_from_slots: every real position when the slots name none.
BoardPositions(c) ==
  LET covered == {OwnPosition(s.slot) : s \in Range(OwnSlots(c))}
                   \cup UNION {FLEX_ELIGIBILITY[s.slot] : s \in Range(FlexSlots(c))}
  IN IF covered \cap REAL_POSITIONS = {} THEN REAL_POSITIONS ELSE covered \cap REAL_POSITIONS

\* _BOARD_QUERY: the blend, else Sleeper's own projection, else not on the board.
Number(p) == IF p.blended # NoNumber THEN p.blended ELSE p.sleeper

\* Expert consensus first, then Sleeper's, then whatever there is.
AdpOf(p) ==
  LET known == SelectSeq(<<"fantasypros", "sleeper", "other">>, LAMBDA s : s \in DOMAIN p.adp)
  IN IF known = <<>> THEN NoNumber ELSE p.adp[Head(known)]

OnBoard(c) == {k \in DOMAIN c.players : /\ Number(c.players[k]) # NoNumber
                                        /\ c.players[k].pos \in BoardPositions(c)}

\* _apply_prior_season, and whether it moved anyone.
BoardPoints(c) ==
  [k \in OnBoard(c) |->
     Number(c.players[k]) + IF c.applied THEN c.players[k].shift ELSE 0]

Descending(S, f) == SetToSortSeq(S, LAMBDA x, y : f[x] > f[y])

AsRead(c, pos) ==
  Descending({k \in OnBoard(c) : c.players[k].pos = pos},
             [k \in OnBoard(c) |-> Number(c.players[k])])

\* A pool is sorted once more when an adjustment moved someone.
Pool(c, pos) == SortSeq(AsRead(c, pos), LAMBDA x, y : BoardPoints(c)[x] > BoardPoints(c)[y])

-----------------------------------------------------------------------------
(* compute_replacement_levels                                               *)

Pools(c) == [pos \in {p \in BoardPositions(c) : AsRead(c, p) # <<>>} |-> Pool(c, pos)]

(***************************************************************************)
(* The flex spots of the whole league, one after the other: the best next  *)
(* player at a position the slot takes claims it, of equals the position   *)
(* first in the alphabet.  `cursor` counts the starters of each position.  *)
(***************************************************************************)
Alphabet == <<"QB", "RB", "TE", "WR">>

Claim(c, pools, cursor, slot) ==
  LET next(pos) == pools[pos][cursor[pos] + 1]
      left == {pos \in FLEX_ELIGIBILITY[slot] \cap DOMAIN pools : cursor[pos] < Len(pools[pos])}
      best == {pos \in left : \A o \in left :
                 BoardPoints(c)[next(pos)] >= BoardPoints(c)[next(o)]}
      first == Alphabet[Min({i \in DOMAIN Alphabet : Alphabet[i] \in best})]
  IN IF left = {} THEN cursor ELSE [cursor EXCEPT ![first] = @ + 1]

FlexSpots(c) ==
  FlattenSeq([i \in DOMAIN FlexSlots(c) |->
                [j \in 1 .. c.teams * FlexSlots(c)[i].count |-> FlexSlots(c)[i].slot]])

StarterCounts(c) ==
  FoldLeft(LAMBDA cursor, slot : Claim(c, Pools(c), cursor, slot),
           [pos \in DOMAIN Pools(c) |-> c.teams * Owned(c, pos)], FlexSpots(c))

\* The place in the pool of the first man off the bench; beyond its end the
\* position is scarce and the last man of the pool stands in.
LastStarter(rank) == Most(rank, 1)
FirstOffTheBench(rank) == Most(rank, 1) + 1

ReplacementLevels(c) ==
  [pos \in DOMAIN Pools(c) |->
     LET pool == Pools(c)[pos]
         at   == FirstOffTheBench(StarterCounts(c)[pos])
     IN [rank |-> at, scarce |-> at > Len(pool),
         points |-> BoardPoints(c)[pool[Least(at, Len(pool))]]]]

-----------------------------------------------------------------------------
(* assign_tiers, scarcity_curve and market_disagreement                     *)

Gaps(c, pool) ==
  [i \in 1 .. Len(pool) - 1 |-> BoardPoints(c)[pool[i]] - BoardPoints(c)[pool[i + 1]]]

\* The middle of the steps that are not zero, or 0.
TypicalGap(gaps) ==
  LET positive == SortSeq(SelectSeq(gaps, LAMBDA g : g > 0), <)
  IN IF positive = <<>> THEN 0 ELSE positive[Len(positive) \div 2 + 1]

\* A gap 1.6 times the typical one and 1.5 points; or 3 points and 8 % of the player.
BreaksTier(gap, points, typical) ==
  LET size == Most(points, -points) IN
  \/ 10 * gap >= Most(16 * typical, 15)
  \/ gap >= 3 /\ 100 * gap >= 8 * (IF size = 0 THEN 1 ELSE size)

assign_tiers(c, pool) ==
  LET gaps == Gaps(c, pool)
      Place(tiers, i) ==
        LET last == Append(Last(tiers), pool[i])
            ends == /\ i < Len(pool)
                    /\ Len(last) >= MIN_TIER_SIZE
                    /\ BreaksTier(gaps[i], BoardPoints(c)[pool[i]], TypicalGap(gaps))
        IN Append(Front(tiers), last) \o IF ends THEN <<<<>>>> ELSE <<>>
  IN FoldLeft(Place, <<<<>>>>, [i \in DOMAIN pool |-> i])

\* The drop over the players the next round takes, and how many steps it spans.
scarcity_curve(c, pool) ==
  LET window == Most(2, Least(c.teams, Len(pool))) IN
  IF Len(pool) < 2 THEN [drop |-> 0, steps |-> 1]
  ELSE [drop |-> BoardPoints(c)[pool[1]] - BoardPoints(c)[pool[window]], steps |-> window - 1]

\* Of each position seen often enough: how many the room drafts later than the board.
market_disagreement(c, order) ==
  LET top == {i \in DOMAIN order : i <= MarketDepth /\ AdpOf(c.players[order[i]]) > 0}
      of(pos) == {i \in top : c.players[order[i]].pos = pos}
  IN [pos \in {p \in REAL_POSITIONS : Cardinality(of(p)) >= MarketSample} |->
        [n |-> Cardinality(of(pos)),
         ahead |-> Cardinality({i \in of(pos) : AdpOf(c.players[order[i]]) > i})]]

-----------------------------------------------------------------------------
(* build_board                                                              *)

Board(c) ==
  LET levels == ReplacementLevels(c)
      vorp   == [k \in OnBoard(c) |-> BoardPoints(c)[k] - levels[c.players[k].pos].points]
      order  == Descending(OnBoard(c), vorp)
  IN [points |-> BoardPoints(c), pools |-> Pools(c), levels |-> levels,
      starters |-> StarterCounts(c), vorp |-> vorp, order |-> order,
      tiers |-> [pos \in DOMAIN levels |-> assign_tiers(c, Pools(c)[pos])],
      scarcity |-> [pos \in DOMAIN levels |-> scarcity_curve(c, Pools(c)[pos])],
      market |-> market_disagreement(c, order)]

BoardRun == Answer("board", {Board(case)})

-----------------------------------------------------------------------------
\* The players the count says the league starts.
Counted ==
  UNION {{report.pools[pos][i] : i \in 1 .. Least(report.starters[pos], Len(report.pools[pos]))} :
           pos \in DOMAIN report.pools}

\* What the league could start: its own slots first, the rest in flex spots.
CanStart(S) ==
  LET spots == FlexSpots(case)
      over(pos) == Most(0, Cardinality({k \in S : case.players[k].pos = pos})
                             - case.teams * Owned(case, pos))
      take(P) == Cardinality({i \in DOMAIN spots : FLEX_ELIGIBILITY[spots[i]] \cap P # {}})
  IN \A P \in SUBSET REAL_POSITIONS :
       MapThenSumSet(over, P) <= take(P)

\* No flex slot comes after one that takes more positions.
NarrowFirst ==
  \A i, j \in DOMAIN FlexSlots(case) : i < j =>
    FLEX_ELIGIBILITY[FlexSlots(case)[i].slot] \subseteq FLEX_ELIGIBILITY[FlexSlots(case)[j].slot]

(***************************************************************************)
(* Replacement stands where the league's own choices put it: the players   *)
(* counted as starters could all start together, and no other choice of    *)
(* starters is worth more; a starter is never worth less than replacement, *)
(* the best man a position leaves on the bench is worth nothing, and where *)
(* the league starts everybody nobody is worth less than nothing           *)
(* (compute_replacement_levels, src/vorp.py:155).                          *)
(***************************************************************************)
BoardIsSound ==
  Answered("board") =>
    LET worth(S) == Total(report.points, S)
    IN /\ CanStart(Counted)
       /\ NarrowFirst => \A S \in SUBSET DOMAIN report.points :
                           CanStart(S) => worth(S) <= worth(Counted)
       /\ \A k \in DOMAIN report.points :
            LET pos == case.players[k].pos
                spare == {o \in DOMAIN report.points :
                            case.players[o].pos = pos /\ o \notin Counted}
            IN /\ k \in Counted \/ report.levels[pos].scarce => report.vorp[k] >= 0
               /\ k \in spare /\ report.starters[pos] > 0
                    /\ (\A o \in spare : report.points[o] <= report.points[k])
                  => report.vorp[k] = 0
=============================================================================

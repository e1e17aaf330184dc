---------------------------- MODULE LineupAdvice ----------------------------
(***************************************************************************)
(* The weekly lineup job (src/season/lineup.py): the roster as it is set,  *)
(* the best lineup of the players whose game has not begun, and the swaps  *)
(* that lead from one to the other.                                        *)
(*                                                                         *)
(* A case has `players`: key -> [pos, slot, points, floor, ceiling, feed,  *)
(* tag, bye, locked]; `slots`, the starting slots in order; `mode`.  A     *)
(* typed roster has the tag Untagged.  Points are whole numbers.           *)
(***************************************************************************)
EXTENDS Advice

CONSTANT Threshold   \* what a swap must gain to be worth saying

UNSTARTABLE == {"Out", "IR", "PUP", "Suspended", "NA", "DNR"}

Untagged == "untagged"

\* "" is Yahoo's healthy; a code this table does not know is not startable.
yahoo_status(code) ==
  CASE code = "" -> "Healthy"
    [] code = "Q" -> "Questionable"
    [] code = "O" -> "Out"
    [] code \in {"IR", "IR-R"} -> "IR"
    [] code = "P" -> "Probable"
    [] OTHER -> "NA"

\* Yahoo's tag beats the injury feed; only a typed roster has none.
Status(p) == IF p.tag = Untagged THEN p.feed ELSE yahoo_status(p.tag)

Startable(p) == ~p.bye /\ Status(p) \notin UNSTARTABLE

\* risk_adjusted_points, doubled to stay whole.
Effective(p, mode) ==
  CASE mode = "ceiling" -> 2 * p.points + (p.ceiling - p.points)
    [] mode = "floor"   -> 2 * p.points - (p.points - p.floor)
    [] mode = "neutral" -> 2 * p.points

resolve_risk_mode(configured, margin) ==
  IF configured # "auto" THEN configured
  ELSE CASE margin = "underdog" -> "ceiling"
         [] margin = "favourite" -> "floor"
         [] OTHER -> "neutral"

-----------------------------------------------------------------------------
(* The players on a case's roster.                                          *)

Team(c) == DOMAIN c.players

Started(c) == {k \in Team(c) : c.players[k].slot \notin BENCH_SLOTS}

LockedStarters(c) == {k \in Started(c) : c.players[k].locked}

Playable(c, k) == Startable(c.players[k]) /\ ~c.players[k].locked

\* A settled starter's slot comes off the list: the one he is in, or his own.
WithoutSlotOf(slots, p) ==
  RemoveFirst(slots, IF Contains(slots, p.slot) THEN p.slot ELSE p.pos)

OpenSlots(c) ==
  LET held == SetToSeq(LockedStarters(c))
      left[n \in 0..Len(held)] ==
        IF n = 0 THEN c.slots ELSE WithoutSlotOf(left[n - 1], c.players[held[n]])
  IN left[Len(held)]

Solved(c) ==
  LET pool == Restrict(c.players, {k \in Team(c) : Playable(c, k)}) IN
  BestLineups(pool, OpenSlots(c), [k \in DOMAIN pool |-> Effective(pool[k], c.mode)])

(***************************************************************************)
(* The swaps, slot after slot of the optimal lineup: who comes in was not  *)
(* starting; who goes out is the weakest starter the lineup does not want, *)
(* of those the slot accepts if there are any.                             *)
(***************************************************************************)
OnlyForTheSlot(fits, all) == fits

Candidates(fits, all) == IF fits # {} THEN fits ELSE all

Weakest(c, S) == CHOOSE k \in S : \A other \in S : c.players[k].points <= c.players[other].points

WorthSaying(c, gain, out) ==
  \/ gain >= Threshold
  \/ out # Nobody /\ ~Startable(c.players[out])

Wanted(c, lineup) == Starters(lineup) \cup LockedStarters(c)

Displaced(c, lineup, starting) == starting \ Wanted(c, lineup)

Out(c, lineup, starting, slot) ==
  LET all  == Displaced(c, lineup, starting)
      from == Candidates({k \in all : slot_accepts(slot, c.players[k].pos)}, all)
  IN IF from = {} THEN Nobody ELSE Weakest(c, from)

Swap(c, in, out) ==
  [in |-> in, out |-> out,
   gain |-> c.players[in].points - (IF out = Nobody THEN 0 ELSE c.players[out].points)]

Fill(c, lineup, slot, in, done) ==
  IF in = Nobody \/ in \in done.starting THEN done
  ELSE LET out  == Out(c, lineup, done.starting, slot)
           swap == Swap(c, in, out)
       IN [starting |-> (done.starting \ {out}) \cup {in},
           swaps |-> IF WorthSaying(c, swap.gain, out) THEN Append(done.swaps, swap)
                     ELSE done.swaps]

Swaps(c, lineup) ==
  LET slots == OpenSlots(c)
      done[s \in 0..Len(slots)] ==
        IF s = 0 THEN [starting |-> Started(c), swaps |-> <<>>]
        ELSE Fill(c, lineup, slots[s], lineup[s], done[s - 1])
  IN done[Len(slots)].swaps

ByeWarnings(c) == {k \in Started(c) : c.players[k].bye}

Points(c, S) == Total([k \in Team(c) |-> c.players[k].points], S)

Projected(c) == {k \in Team(c) : c.players[k].points > 0}

\* to_notification: a note of missing data, silence, or the swaps.
Said(c, lineup, swaps) ==
  IF Projected(c) = {} THEN "no data"
  ELSE IF /\ swaps = <<>> /\ IsComplete(lineup) /\ ByeWarnings(c) = {}
          /\ ~(c.stakes /\ c.mode # "neutral") THEN "nothing"
  ELSE "swaps"

LineupReport(c, lineup) ==
  LET swaps == Swaps(c, lineup) IN
  [lineup |-> lineup, swaps |-> swaps, said |-> Said(c, lineup, swaps)]

\* A case as load_roster and the snapshot make it.
IsLineupCase(c) ==
  /\ IsFiniteSet(Team(c)) /\ Nobody \notin Team(c)
  /\ c.slots \in Seq(STRING)
  /\ c.mode \in {"ceiling", "floor", "neutral"}
  /\ \A k \in Team(c) :
       c.players[k] \in [pos : STRING, slot : STRING, points : Int, floor : Int, ceiling : Int,
                        feed : STRING, tag : STRING, bye : BOOLEAN, locked : BOOLEAN]

LineupInit == IsLineupCase(case) /\ report = Unanswered

LineupRun == Answer("lineup", {LineupReport(case, lineup) : lineup \in Solved(case)})

LineupSpec == LineupInit /\ [][LineupRun]_adviceVars

-----------------------------------------------------------------------------
(***************************************************************************)
(* The swaps can be followed, in order: who comes in is on the bench, has  *)
(* not played and can play; who goes out starts, has not played, is not    *)
(* wanted elsewhere; nobody is moved twice.                                *)
(***************************************************************************)
SwapsCanBeMade ==
  LET swaps == report.swaps
      wanted == Starters(report.lineup)
  IN
  /\ \A i \in DOMAIN swaps :
       /\ Startable(case.players[swaps[i].in]) /\ ~case.players[swaps[i].in].locked
       /\ swaps[i].in \notin Started(case)
       /\ swaps[i].out # Nobody =>
            /\ swaps[i].out \in Started(case) \ wanted
            /\ ~case.players[swaps[i].out].locked
  /\ \A i, j \in DOMAIN swaps : i # j =>
       /\ swaps[i].in # swaps[j].in
       /\ swaps[i].out # Nobody => swaps[i].out # swaps[j].out

(***************************************************************************)
(* A starter who cannot play is taken out whenever the roster can field a  *)
(* full lineup without him, however small the gain, and is never met with  *)
(* silence (run and to_notification, src/season/lineup.py:380).            *)
(***************************************************************************)
NoDeadStarterIsKept ==
  LET dead == {k \in Started(case) : ~Startable(case.players[k]) /\ ~case.players[k].locked}
  IN
  /\ IsComplete(report.lineup) =>
       \A k \in dead : \E i \in DOMAIN report.swaps : report.swaps[i].out = k
  /\ dead # {} => report.said # "nothing"

(***************************************************************************)
(* The lineup fits: with the settled starters it never has more players    *)
(* than the league has slots.  In neutral mode they never have fewer       *)
(* points than those now in the lineup will score; but the fullest lineup  *)
(* is taken before the best, so a player projected below zero may be asked *)
(* to start for the sake of filling his slot (run, src/season/lineup.py).  *)
(***************************************************************************)
NeverWorse ==
  LET wanted == Wanted(case, report.lineup)
      scoring == {k \in Started(case) :
                    case.players[k].locked \/ Startable(case.players[k])}
  IN
  /\ Cardinality(wanted) <= Len(case.slots)
  /\ /\ case.mode = "neutral"
     /\ \A k \in Team(case) : Playable(case, k) => case.players[k].points >= 0
     => Points(case, wanted) >= Points(case, scoring)

\* The last two are said of a roster that is legal as it is set.
LineupIsSound ==
  Answered("lineup") =>
    /\ SwapsCanBeMade
    /\ StartedLegally(case, Started(case)) => NoDeadStarterIsKept /\ NeverWorse
=============================================================================

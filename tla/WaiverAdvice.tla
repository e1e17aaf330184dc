---------------------------- MODULE WaiverAdvice ----------------------------
(***************************************************************************)
(* The Tuesday waiver job (src/season/waivers.py): whom to claim, whom to  *)
(* drop for him, what to bid, whom to stash, and who backs up the          *)
(* manager's running backs.                                                *)
(*                                                                         *)
(* A case has `players`: key -> [pos, points, baseline, status, trending,  *)
(* depth], with `depth` the rank on the team's depth chart, 0 for none;    *)
(* `roster`, `wire`, `owned` (by anybody), `free` (added without a bid):   *)
(* sets of keys; `slots`, `limit`, `margin`, `budget`, `faab`, `week`,      *)
(* `typed`, `chart` (whether a depth chart was synced).  All players are   *)
(* of one NFL team.                                                        *)
(***************************************************************************)
EXTENDS Advice

CONSTANT TopN   \* how many claims are reported

ASSUME TopNAssumption == TopN \in Nat

STASH_STATUSES == {"IR", "PUP", "Out", "Doubtful", "Suspended"}

FINAL_WEEK == 17

Weeks(week) == Most(1, FINAL_WEEK - week + 1)

\* Points above what is freely available at the position.  ros_fraction scales
\* every player alike, which no comparison here sees.
Value(c, k) == c.players[k].points - c.players[k].baseline

IsStash(c, k) == c.players[k].status \in STASH_STATUSES
Healthy(c) == {k \in c.wire : ~IsStash(c, k)}

\* _lineup_total
Fields(c, S) ==
  LineupTotal(Restrict(c.players, S), c.slots, [k \in S |-> c.players[k].points])

\* gain_for: what a claim does to the starting lineup.
Gain(c, add, drop) == Fields(c, (c.roster \ {drop}) \cup {add}) - Fields(c, c.roster)

Holds(c, S, pos) == {k \in S : c.players[k].pos = pos}

ProtectedOffByOne(c, S) ==
  UNION {Holds(c, S, pos) : pos \in
    {p \in DOMAIN Dedicated(c.slots) :
       Cardinality(Holds(c, S, p)) < Dedicated(c.slots)[p]}}

\* _protected_keys: the last players at a position that has slots of its own.
Protected(c, S) ==
  UNION {Holds(c, S, pos) : pos \in
    {p \in DOMAIN Dedicated(c.slots) :
       Cardinality(Holds(c, S, p)) <= Dedicated(c.slots)[p]}}

(***************************************************************************)
(* best_drop: nobody while the roster has room; else, of those not         *)
(* protected once the claim is made and not dropped for an earlier one,    *)
(* the drop that leaves the best lineup, then the man he replaces, then    *)
(* the least valuable.                                                     *)
(***************************************************************************)
Options(c, add, used) == c.roster \ (Protected(c, c.roster \cup {add}) \cup used)

SamePosition(c, add, d) == IF c.players[d].pos = c.players[add].pos THEN 1 ELSE 0

DropRank(c, add, d) == <<Gain(c, add, d), SamePosition(c, add, d), -Value(c, d)>>

NotBelow(a, b) ==
  \/ a[1] > b[1]
  \/ a[1] = b[1] /\ a[2] > b[2]
  \/ a[1] = b[1] /\ a[2] = b[2] /\ a[3] >= b[3]

LeastMissed(rank) ==
  CHOOSE d \in DOMAIN rank : \A other \in DOMAIN rank : NotBelow(rank[d], rank[other])

BestDrop(c, add, used) ==
  IF Cardinality(c.roster) < c.limit \/ Options(c, add, used) = {} THEN Nobody
  ELSE LeastMissed([d \in Options(c, add, used) |-> DropRank(c, add, d)])

(***************************************************************************)
(* suggest_bid: [low, recommended, high], from the share of the best gain  *)
(* on the wire, the heat (adds, in percent of 50,000) and the weeks left.  *)
(***************************************************************************)
Bid(gain, heat, budget, weeksLeft, maxGain) ==
  IF maxGain <= 0 \/ budget <= 0 THEN <<0, 0, 0>>
  ELSE LET share   == Most(0, Least(maxGain, gain))
           urgency == 170 + 6 * Most(0, FINAL_WEEK - weeksLeft)
           core    == RoundHalfEven(budget * share * (3500 + 45 * heat) * urgency,
                                    maxGain * 10000 * 170)
           rec     == Most(IF gain > 0 THEN 1 ELSE 0, Least(core, budget))
       IN <<Least(rec, RoundHalfEven(55 * rec, 100)), rec,
            Least(budget, Most(rec, RoundHalfEven(18 * rec, 10)))>>

Free == <<>>   \* no bid: a free agent, or a league without FAAB

Price(c, add, gain, maxGain) ==
  IF add \in c.free \/ ~c.faab THEN Free
  ELSE Bid(gain, c.players[add].trending, c.budget, Weeks(c.week), maxGain)

UsedNow(used, drop) == used \cup ({drop} \ {Nobody})

(***************************************************************************)
(* run: the claims in the wire's order, each against the roster of today;  *)
(* a claim below the margin is not made.                                   *)
(***************************************************************************)
MaxGain(c) == Max({0} \cup {Gain(c, k, Nobody) : k \in Healthy(c)})

Worthwhile(c, add, gain) == gain >= c.margin /\ Gain(c, add, Nobody) >= c.margin

Considered(c, done, add, drop) ==
  LET gain == Gain(c, add, drop) IN
  IF ~Worthwhile(c, add, gain) THEN done
  ELSE [used |-> UsedNow(done.used, drop),
        made |-> Append(done.made, [add |-> add, drop |-> drop, gain |-> gain,
                                    bid |-> Price(c, add, gain, MaxGain(c))])]

ClaimsMade(c, healthy) ==
  LET done[n \in 0..Len(healthy)] ==
        IF n = 0 THEN [used |-> {}, made |-> <<>>]
        ELSE Considered(c, done[n - 1], healthy[n], BestDrop(c, healthy[n], done[n - 1].used))
  IN done[Len(healthy)].made

\* The first few of the claims, most gained first, of equals the one made first.
Before(made, i, j) ==
  made[i].gain > made[j].gain \/ (made[i].gain = made[j].gain /\ i < j)

BestFirst(made) ==
  {order \in [DOMAIN made -> DOMAIN made] :
     \A p, q \in DOMAIN made : p < q => Before(made, order[p], order[q])}

Top(made, order) == [p \in 1..Least(TopN, Len(made)) |-> made[order[p]]]

ClaimLists(c) ==
  UNION {{Top(made, order) : order \in BestFirst(made)} :
           made \in {ClaimsMade(c, healthy) : healthy \in Orders(c.players, Healthy(c))}}

Stashes(c) == {k \in c.wire : IsStash(c, k) /\ c.players[k].points > 0}

(***************************************************************************)
(* find_handcuffs: the next running back on the depth chart, and without   *)
(* one the back with the highest projection; who is owned is left out, and *)
(* after a typed roster who is not on the wire.                            *)
(***************************************************************************)
Backs(c) == Holds(c, DOMAIN c.players, "RB")

Behind(c, rb) ==
  {k \in Backs(c) : c.players[rb].depth > 0 /\ c.players[k].depth > c.players[rb].depth}

BackupOf(c, rb) ==
  IF c.chart /\ Behind(c, rb) # {}
  THEN {k \in Behind(c, rb) : \A o \in Behind(c, rb) : c.players[k].depth <= c.players[o].depth}
  ELSE {k \in Backs(c) \ {rb} :
          \A o \in Backs(c) \ {rb} : c.players[k].points >= c.players[o].points}

OpenBackup(c, k) == k \notin c.owned /\ (c.typed => k \in c.wire)

Handcuffs(c) ==
  {h \in (Backs(c) \cap c.roster) \X Backs(c) : h[2] \in BackupOf(c, h[1]) /\ OpenBackup(c, h[2])}

WaiverReport(c, claims) ==
  [claims |-> claims, stashes |-> Stashes(c), handcuffs |-> Handcuffs(c)]

NothingToReport == [claims |-> <<>>, stashes |-> {}, handcuffs |-> {}]

WaiverReports(c) ==
  IF c.roster = {} THEN {NothingToReport}
  ELSE {WaiverReport(c, claims) : claims \in ClaimLists(c)}

\* A case as the snapshot and the store make it: nobody on the roster is on the wire.
IsWaiverCase(c) ==
  /\ IsFiniteSet(DOMAIN c.players) /\ Nobody \notin DOMAIN c.players
  /\ c.roster \subseteq DOMAIN c.players /\ c.wire \subseteq DOMAIN c.players \ c.roster
  /\ c.slots \in Seq(STRING) /\ c.limit \in Nat /\ c.week \in Nat
  /\ c.budget \in Nat /\ c.margin \in Nat \ {0}
  /\ \A k \in DOMAIN c.players : c.players[k].points \in Int /\ c.players[k].baseline \in Int
                                /\ c.players[k].trending \in Nat

WaiverRun == Answer("waivers", WaiverReports(case))

-----------------------------------------------------------------------------
(***************************************************************************)
(* Making one claim never empties a slot: each dedicated position keeps as *)
(* many players as it needs, or as it had, and no two claims drop the same *)
(* player (best_drop, src/season/waivers.py:530).                          *)
(***************************************************************************)
CoverageIsKept ==
  \A i \in DOMAIN report.claims :
    LET claim == report.claims[i]
        after == (case.roster \ {claim.drop}) \cup {claim.add}
    IN /\ \A pos \in DOMAIN Dedicated(case.slots) :
            Cardinality(Holds(case, after, pos)) >=
              Least(Dedicated(case.slots)[pos], Cardinality(Holds(case, case.roster, pos)))
       /\ \A j \in DOMAIN report.claims \ {i} :
            claim.drop # Nobody => report.claims[j].drop # claim.drop

(***************************************************************************)
(* The three numbers of a bid bracket each other within the budget, and a  *)
(* claim worth making is bid at least a dollar (suggest_bid,               *)
(* src/season/waivers.py:240).                                             *)
(***************************************************************************)
BidsBracket ==
  \A i \in DOMAIN report.claims :
    LET b == report.claims[i].bid IN
    b # Free =>
      /\ 0 <= b[1] /\ b[1] <= b[2] /\ b[2] <= b[3] /\ b[3] <= case.budget
      /\ case.budget > 0 => b[2] >= 1

(***************************************************************************)
(* Nobody is offered as a backup whom another team owns, or who may be     *)
(* owned, and no claim is made on a roster that could not be read.         *)
(***************************************************************************)
OnlyTheAvailable ==
  /\ \A h \in report.handcuffs :
       h[2] \notin case.owned /\ (case.typed => h[2] \in case.wire)
  /\ \A i \in DOMAIN report.claims : report.claims[i].add \in case.wire
  /\ case.roster = {} => report.claims = <<>>

WaiversAreSound ==
  Answered("waivers") => CoverageIsKept /\ BidsBracket /\ OnlyTheAvailable
=============================================================================

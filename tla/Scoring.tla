------------------------------- MODULE Scoring ------------------------------
(***************************************************************************)
(* The league's scoring rules, built from Yahoo's settings, and what a     *)
(* stat line earns under them (src/scoring.py).                            *)
(*                                                                         *)
(* A case has `stats`, the league's categories as Yahoo lists them:        *)
(* [id, label, type, display], a label being what the parsers read in the  *)
(* name: [key, base, range, fg], its range <<>>, <<low>> for "low+" or     *)
(* <<low, high>>; `mods`: id -> value; `bonuses`: [id, target, points];    *)
(* `line`: stat -> value; and `type`, the player's position type or AnyType.   *)
(* Values are in halves, as projections are not whole numbers.             *)
(***************************************************************************)
EXTENDS Advice

AnyType == "*"
Nothing == "none"
BUCKET_BASES == {"def_pts_allowed", "def_yds_allowed"}

\* The same word means different things to an offence and a defence.
ALIASES ==
  (<<"O", "int">> :> "pass_int") @@ (<<"DT", "int">> :> "def_int")
    @@ (<<"O", "rec">> :> "rec") @@ (<<"K", "fg made">> :> "fg_made")
    @@ (<<"DT", "pts allow">> :> "def_pts_allowed")

\* The type's own alias first, then anybody's; the whole name, then without its range.
resolve_canonical(label, type) ==
  LET probes == <<<<type, label.key>>, <<type, label.base>>, <<AnyType, label.key>>, <<AnyType, label.base>>>>
      hits   == SelectSeq(probes, LAMBDA p : p \in DOMAIN ALIASES)
  IN IF hits # <<>> THEN ALIASES[Head(hits)] ELSE label.fg

\* build_from_yahoo: a category is enabled when the league gives it a modifier.
Category(c, stat) ==
  LET canonical == resolve_canonical(stat.label, stat.type) IN
  [name |-> stat.label.key, type |-> stat.type, canonical |-> canonical, display |-> stat.display,
   enabled |-> stat.id \in DOMAIN c.mods,
   modifier |-> IF stat.id \in DOMAIN c.mods THEN c.mods[stat.id] ELSE 0,
   bucket |-> IF canonical \in BUCKET_BASES THEN stat.label.range ELSE <<>>]

Categories(c) == [i \in DOMAIN c.stats |-> Category(c, c.stats[i])]

\* A bonus of a category nobody could name is left out.
Bonuses(c) ==
  LET of(b) == {i \in DOMAIN c.stats : c.stats[i].id = b.id}
      named == SelectSeq(c.bonuses, LAMBDA b :
                 of(b) # {} /\ Categories(c)[Max(of(b))].canonical # Nothing)
  IN [j \in DOMAIN named |-> [canonical |-> Categories(c)[Max(of(named[j]))].canonical,
                              target |-> named[j].target, points |-> named[j].points]]

-----------------------------------------------------------------------------
\* matches_bucket, of a value in halves: the brackets are whole numbers.
UpToTheNextBracket(range, value) == 2 * range[1] <= value /\ value < 2 * (range[2] + 1)

matches_bucket(range, value) ==
  IF Len(range) = 1 THEN value >= 2 * range[1] ELSE UpToTheNextBracket(range, value)

Pays(cat, type) ==
  /\ cat.enabled /\ ~cat.display /\ cat.canonical # Nothing
  /\ type = AnyType \/ cat.type \in {AnyType, type}

\* breakdown: which categories write a line, and what it says, in halves.
Writes(c, cat) ==
  /\ Pays(cat, c.type) /\ cat.canonical \in DOMAIN c.line
  /\ IF cat.bucket # <<>> THEN matches_bucket(cat.bucket, c.line[cat.canonical])
                          ELSE c.line[cat.canonical] # 0

Earned(c, cat) ==
  IF ~Writes(c, cat) THEN 0
  ELSE IF cat.bucket # <<>> THEN 2 * cat.modifier ELSE c.line[cat.canonical] * cat.modifier

BonusEarned(c, b) ==
  IF b.canonical \in DOMAIN c.line /\ c.line[b.canonical] >= 2 * b.target THEN 2 * b.points ELSE 0

\* Two categories of one name are one line of the breakdown: the later one's.
Lines(c) ==
  LET cats == Categories(c) IN
  {i \in DOMAIN cats : Writes(c, cats[i]) /\ \A j \in DOMAIN cats :
     j > i /\ cats[j].name = cats[i].name => ~Writes(c, cats[j])}

score(c) ==
  MapThenSumSet(LAMBDA i : Earned(c, Categories(c)[i]), Lines(c))
    + MapThenSumSet(LAMBDA j : BonusEarned(c, Bonuses(c)[j]), DOMAIN Bonuses(c))

\* What the league pays this type for and a source that fills `line` never supplies.
scoring_gaps(c) ==
  {Categories(c)[i].canonical :
     i \in {j \in DOMAIN c.stats : /\ Pays(Categories(c)[j], c.type)
                                   /\ Categories(c)[j].modifier # 0
                                   /\ Categories(c)[j].canonical \notin DOMAIN c.line}}

ScoreRun ==
  Answer("score", {[score |-> score(case), gaps |-> scoring_gaps(case),
                    earned |-> [i \in DOMAIN case.stats |-> Earned(case, Categories(case)[i])]]})

-----------------------------------------------------------------------------
\* Yahoo's brackets of a stat: adjacent, from nothing to "and more".
Brackets(base) ==
  {i \in DOMAIN case.stats : /\ case.stats[i].label.base = base /\ case.stats[i].label.range # <<>>
                             /\ Pays(Categories(case)[i], case.type)
                             /\ Categories(case)[i].modifier # 0}

Adjacent(B) ==
  /\ \E i \in B : case.stats[i].label.range[1] = 0
  /\ \A i \in B : LET r == case.stats[i].label.range IN
       Len(r) = 2 => \E j \in B : case.stats[j].label.range[1] = r[2] + 1

(***************************************************************************)
(* Of a table of adjacent brackets a game earns exactly one, whole number  *)
(* or not (matches_bucket, src/scoring.py:136); and what one side of the   *)
(* ball does is never paid under the other side's rule of the same name    *)
(* (resolve_canonical, src/scoring.py:286).                                *)
(***************************************************************************)
ScoreIsSound ==
  Answered("score") =>
    /\ LET B == Brackets("pts allow") IN
       Adjacent(B) /\ "def_pts_allowed" \in DOMAIN case.line =>
         Cardinality({i \in B : report.earned[i] # 0}) = 1
    /\ \A i \in DOMAIN case.stats :
         report.earned[i] # 0 =>
           \E a \in DOMAIN ALIASES : /\ ALIASES[a] \in DOMAIN case.line
                                     /\ a[1] = case.stats[i].type
                                     /\ a[2] \in {case.stats[i].label.key, case.stats[i].label.base}
    /\ report.gaps = {} =>
         \A i \in DOMAIN case.stats :
           LET cat == Categories(case)[i] IN
           Pays(cat, case.type) /\ cat.modifier # 0 => cat.canonical \in DOMAIN case.line
=============================================================================

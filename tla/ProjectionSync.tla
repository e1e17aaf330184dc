--------------------------- MODULE ProjectionSync ---------------------------
(***************************************************************************)
(* `fcc sync` (cmd_sync of src/cli.py): a run fetches one source after the *)
(* other, stores their projections, and blends them into the numbers the   *)
(* advice is made of (src/projections.py), with weights earned on the      *)
(* weeks already played (src/analytics/accuracy.py).                       *)
(*                                                                         *)
(* One player of one position stands for all.  What a row holds is         *)
(* abstracted to where it came from: a projection is Absent, Old, or New   *)
(* when this run stored it; a blend is the rows it was made of.  The       *)
(* season's projections go the same way under week 0, with the configured  *)
(* weights alone; here their legs store nothing.                           *)
(***************************************************************************)
EXTENDS Integers, FiniteSetsExt, SequencesExt, Functions

CONSTANTS
  LastWeek,          \* the season is this many weeks long
  MIN_OBSERVATIONS   \* the weeks a source must have been graded on to be scored

ASSUME ProjectionSyncAssumption ==
  LastWeek \in Nat \ {0} /\ MIN_OBSERVATIONS \in Nat \ {0}

ProjectionSources == {"sleeper", "espn", "fantasypros"}
Absent == "absent"
Old == "old"
New == "new"

VARIABLES
  settings,  \* config.yaml: the sources switched on, and those with a weight above zero
  week,      \* the NFL week; 0 before the season
  played,    \* the weeks whose results are stored
  proj,      \* projections: source -> week -> Absent, Old or New
  earned,    \* whether the weights of this run's weekly blends are earned ones
  blend,     \* projections_blended of this week: what it was made of
  leg,       \* the leg the run is at, 0 between runs
  raised,    \* whether the consensus of this run raised
  ended      \* how the last run ended: "ok", "failed", or "" after a week or a result

syncVars == <<settings, week, played, proj, earned, blend, leg, raised, ended>>

AllWeeks == 1 .. LastWeek
NoBlend == [parts |-> <<>>, graded |-> {}]

Settings == [on : SUBSET {"espn", "fantasypros"}, weighted : SUBSET ProjectionSources]

-----------------------------------------------------------------------------
(***************************************************************************)
(* The legs of a run in their order, those that store nothing of the week  *)
(* as one where they follow each other: "season" is the players, the       *)
(* injuries, the trending, the season's projections, the defenses and the  *)
(* ADP; "optional" ESPN's season, the expert ranks and the byes.  A        *)
(* mandatory leg that raises ends the run; an optional one is reported,    *)
(* and the run goes on.                                                    *)
(***************************************************************************)
Legs ==
  <<"season", "optional", "weekly proj", "espn week", "season blend", "back-fill",
    "weekly blend", "consensus", "blend again", "yahoo">>

Mandatory == {"season", "weekly proj", "season blend", "weekly blend"}

InSeason == {"weekly proj", "espn week", "back-fill", "weekly blend", "consensus", "blend again"}

SwitchedOn(l) ==
  /\ l \in InSeason => week > 0
  /\ l \in {"espn week", "back-fill"} => "espn" \in settings.on
  /\ l \in {"consensus", "blend again"} => "fantasypros" \in settings.on
  /\ l = "blend again" => ~raised

At(l) == leg > 0 /\ Legs[leg] = l

GoOn ==
  IF leg = Len(Legs) THEN leg' = 0 /\ ended' = "ok" ELSE leg' = leg + 1 /\ UNCHANGED ended

Raise ==
  IF Legs[leg] \in Mandatory
    THEN leg' = 0 /\ ended' = "failed"
    ELSE GoOn

-----------------------------------------------------------------------------
(* The weights a blend uses: derive_weights, normalize_weights              *)

\* The completed weeks a source is graded on, those before week w.
GradedBefore(w) == 1 .. w - 1

GradedOn(s, w) == {v \in GradedBefore(w) \cap played : proj[s][v] # Absent}

Scored(w) == {s \in ProjectionSources : Cardinality(GradedOn(s, w)) >= MIN_OBSERVATIONS}

\* Earned weights are all above zero, and there are none for fewer than two sources.
Earns(w) == Cardinality(Scored(w)) >= 2

Stored(w) == {s \in ProjectionSources : proj[s][w] # Absent}

\* Beside earned weights, a source that earned none gets that of an unconfigured one.
Usable(w, earns) == IF earns THEN Stored(w) ELSE Stored(w) \cap settings.weighted

BlendOf(w, earns) ==
  [parts |-> [s \in Usable(w, earns) |-> proj[s][w]],
   graded |-> IF earns THEN UNION {GradedOn(s, w) : s \in Scored(w)} ELSE {}]

\* blend_all writes a row for every player with a projection, and deletes none.
BlendAll(w, earns) ==
  blend' = IF Stored(w) = {} THEN blend ELSE BlendOf(w, earns)

-----------------------------------------------------------------------------
SyncInit ==
  /\ settings \in Settings
  /\ week = 0 /\ played = {}
  /\ proj = [s \in ProjectionSources |-> [w \in AllWeeks |-> Absent]]
  /\ earned = FALSE /\ blend = NoBlend
  /\ leg = 0 /\ raised = FALSE /\ ended = ""

Aged(f) == [x \in DOMAIN f |-> IF f[x] = New THEN Old ELSE f[x]]

Start ==
  /\ leg = 0
  /\ leg' = 1 /\ raised' = FALSE
  /\ proj' = [s \in ProjectionSources |-> Aged(proj[s])]
  /\ blend' = [blend EXCEPT !.parts = Aged(@)]
  /\ UNCHANGED <<settings, week, played, earned, ended>>

Skip ==
  /\ leg > 0 /\ ~SwitchedOn(Legs[leg])
  /\ GoOn
  /\ UNCHANGED <<settings, week, played, proj, earned, blend, raised>>

Leg(l) == At(l) /\ SwitchedOn(l)

\* A leg that stores no projections.
Other ==
  /\ \E l \in {"season", "optional", "season blend", "yahoo"} : Leg(l)
  /\ GoOn
  /\ UNCHANGED <<settings, week, played, proj, earned, blend, raised>>

\* What a leg raises, and the job's own time limit.
LegRaises ==
  /\ leg > 0 /\ SwitchedOn(Legs[leg])
  /\ Legs[leg] \notin {"consensus", "blend again", "back-fill"}
  /\ Raise
  /\ UNCHANGED <<settings, week, played, proj, earned, blend, raised>>

Killed ==
  /\ leg > 0
  /\ leg' = 0 /\ ended' = "failed"
  /\ UNCHANGED <<settings, week, played, proj, earned, blend, raised>>

\* A source's sync for one week: its rows, or none when it has no such line.
Stores(s, w) ==
  \/ proj' = [proj EXCEPT ![s][w] = New]
  \/ UNCHANGED proj

StoreLeg(l, s, w) ==
  /\ Leg(l)
  /\ Stores(s, w)
  /\ GoOn
  /\ UNCHANGED <<settings, week, played, earned, blend, raised>>

SleeperWeek == StoreLeg("weekly proj", "sleeper", week)
EspnWeek == StoreLeg("espn week", "espn", week)

(***************************************************************************)
(* ESPN keeps its projection for every past week: the weeks not stored yet *)
(* are, in their order, up to a failure; each one is committed.            *)
(***************************************************************************)
Missing == {w \in 1 .. week - 1 : proj["espn"][w] = Absent}

BackFill ==
  /\ Leg("back-fill")
  /\ \E filled \in SUBSET Missing :
       proj' = [proj EXCEPT !["espn"] = [w \in AllWeeks |-> IF w \in filled THEN New ELSE @[w]]]
  /\ GoOn
  /\ UNCHANGED <<settings, week, played, earned, blend, raised>>

\* The weights are earned once for both blends of the week, or that fails.
BlendWeek ==
  /\ Leg("weekly blend")
  /\ earned' \in {Earns(week), FALSE}
  /\ BlendAll(week, earned')
  /\ GoOn
  /\ UNCHANGED <<settings, week, played, proj, raised>>

KeepTheFirstBlend ==
  /\ Leg("blend again")
  /\ GoOn
  /\ UNCHANGED <<settings, week, played, proj, earned, blend, raised>>

BlendAgain ==
  /\ Leg("blend again")
  /\ BlendAll(week, earned)
  /\ GoOn
  /\ UNCHANGED <<settings, week, played, proj, earned, raised>>

(***************************************************************************)
(* The expert consensus is put on this league's scale (left out here) and  *)
(* stored.  No rows: nothing happens.  When it raises, what it wrote is    *)
(* kept by the commit that ends the run.                                   *)
(***************************************************************************)
Consensus ==
  /\ Leg("consensus")
  /\ \E stores, fails \in BOOLEAN :
       /\ raised' = fails
       /\ IF stores
            THEN proj' = [proj EXCEPT !["fantasypros"][week] = New]
            ELSE UNCHANGED proj
  /\ GoOn
  /\ UNCHANGED <<settings, week, played, earned, blend>>

-----------------------------------------------------------------------------
NewWeek ==
  /\ leg = 0 /\ week < LastWeek
  /\ week' = week + 1 /\ ended' = "" /\ blend' = NoBlend
  /\ UNCHANGED <<settings, played, proj, earned, leg, raised>>

\* `fcc sync-usage` stores what was scored, on a Tuesday or in the middle of a week.
Results ==
  /\ leg = 0
  /\ \E w \in (1 .. week) \ played : played' = played \cup {w}
  /\ ended' = ""
  /\ UNCHANGED <<settings, week, proj, earned, blend, leg, raised>>

Step ==
  Skip \/ Other \/ SleeperWeek \/ EspnWeek
    \/ BackFill \/ BlendWeek \/ BlendAgain \/ Consensus

SyncNext == Start \/ Step \/ LegRaises \/ Killed \/ NewWeek \/ Results

SyncSpec == SyncInit /\ [][SyncNext]_syncVars

-----------------------------------------------------------------------------
(***************************************************************************)
(* When a run has ended well, the week's blend is made of exactly the rows *)
(* that are stored, none of them older than it; only a consensus that      *)
(* raised may be newer in the table than in the blend (src/cli.py:968-991).*)
(***************************************************************************)
BlendIsCurrent ==
  leg = 0 /\ ended = "ok" /\ week > 0 =>
    \A s \in Usable(week, earned) \ (IF raised THEN {"fantasypros"} ELSE {}) :
      s \in DOMAIN blend.parts /\ blend.parts[s] = proj[s][week]

(***************************************************************************)
(* No source is graded on the week it is blended for, even when that       *)
(* week's results are already stored (src/analytics/accuracy.py:257).      *)
(***************************************************************************)
NotOnTheAnswerKey == week \notin blend.graded

SyncIsSound == BlendIsCurrent /\ NotOnTheAnswerKey
=============================================================================

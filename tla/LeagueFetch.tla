----------------------------- MODULE LeagueFetch ----------------------------
(***************************************************************************)
(* One process asking Yahoo for the league: YahooClient._cached, the       *)
(* fetches and collect_league of src/yahoo_client.py, and what a job is    *)
(* given by Context.league_snapshot of src/cli.py: the live league, the    *)
(* typed-in roster, nothing, or an exception.                              *)
(*                                                                         *)
(* A call may fail, or answer with nothing.  Rosters and the waiver wire   *)
(* change while the process reads them, one page of the wire at a time.    *)
(***************************************************************************)
EXTENDS Naturals, Sequences

CONSTANTS
  Rosters,    \* the teams' rosters when the process starts: team -> players
  Mine,       \* the manager's own team
  Wire,       \* the available players, most relevant first
  PageSize,   \* players in one answer of Yahoo
  Asked,      \* free_agent_count: how many of them a job asks for
  Weeks,      \* the weeks the process' jobs are about
  Typed,      \* whether a roster was typed in
  MaxJobs     \* bounds the jobs of one process

\* The manager has a team, and every team has players.
ASSUME RosterAssumption ==
  Mine \in DOMAIN Rosters /\ \A team \in DOMAIN Rosters : Rosters[team] # {}

ASSUME PageAssumption == PageSize \in Nat \ {0} /\ Asked \in Nat

ASSUME WireAssumption == Wire \in Seq({Wire[i] : i \in DOMAIN Wire})

VARIABLES
  rosters,    \* the league as it is: team -> players
  wire,       \* and who is on no team
  moves,      \* how often either changed
  memo,       \* cache key -> what Yahoo answered, for the whole process
  snapshot,   \* the snapshot being collected
  kept,       \* Context._snapshot: week -> the one kept, for one week at most
  job,        \* [at, week, failure]: where league_snapshot is
  given,      \* what the jobs were given, in order
  blanks      \* cache keys Yahoo answered with nothing

leagueVars == <<rosters, wire, moves, memo, snapshot, kept, job, given, blanks>>

Team == DOMAIN Rosters

NoLeague == [teams |-> {}, rosters |-> <<>>, wire |-> <<>>, unavailable |-> {}]

LeagueInit ==
  /\ rosters = Rosters /\ wire = Wire /\ moves = 0
  /\ memo = <<>> /\ snapshot = NoLeague /\ kept = <<>>
  /\ job = [at |-> "idle", week |-> 0, failure |-> ""]
  /\ given = <<>> /\ blanks = {}

Proceed(label) == job' = [job EXCEPT !.at = label]

\* What classify_access_error makes of a failed call.
Refusals == {"not-provisioned", "stale-scope", "no-consent", "token-expired"}
Failures == {"not-provisioned", "rate-limited", "error"}

(***************************************************************************)
(* _cached: an answer is given from memory, or fetched (the truth or       *)
(* nothing) and remembered, also when it is empty.  A failure is           *)
(* remembered nowhere.                                                     *)
(***************************************************************************)
Remember(f, k, v) == [x \in DOMAIN f \cup {k} |-> IF x = k THEN v ELSE f[x]]

Forgotten(key) == FALSE

Known(key) == key \in DOMAIN memo

Answers(key, truth) == IF Known(key) THEN {memo[key]} ELSE {truth, {}}

Cached(key, answer) ==
  IF Known(key)
  THEN UNCHANGED <<memo, blanks>>
  ELSE /\ memo' = Remember(memo, key, answer)
       /\ blanks' = IF answer = {} THEN blanks \cup {key} ELSE blanks

-----------------------------------------------------------------------------
(* league_snapshot: ask, collect step by step, and settle what is given.    *)

Deliver(answer) ==
  /\ given' = Append(given, answer)
  /\ Proceed("idle")

Live(snap) == [kind |-> "live", week |-> job.week, league |-> snap]
NotLive(kind) == [kind |-> kind, week |-> job.week, why |-> job.failure]

Ask(week) ==
  /\ job.at = "idle" /\ Len(given) < MaxJobs
  /\ job' = [at |-> "asked", week |-> week, failure |-> ""]
  /\ UNCHANGED <<rosters, wire, moves, memo, snapshot, kept, given, blanks>>

Reuse ==
  /\ job.at = "asked" /\ job.week \in DOMAIN kept
  /\ Deliver(Live(kept[job.week]))
  /\ UNCHANGED <<rosters, wire, moves, memo, snapshot, kept, blanks>>

FetchFails(failure) == job' = [job EXCEPT !.at = "failed", !.failure = failure]

\* fetch_teams and collect_teams: the only call whose failure ends the fetch.
Teams ==
  /\ job.at = "asked" /\ job.week \notin DOMAIN kept
  /\ \/ \E answer \in Answers(<<"teams">>, Team) :
          /\ Cached(<<"teams">>, answer)
          /\ snapshot' = [NoLeague EXCEPT !.teams = answer] /\ Proceed("wire")
     \/ /\ ~Known(<<"teams">>)
        /\ \E failure \in Failures : FetchFails(failure)
        /\ UNCHANGED <<memo, blanks, snapshot>>
  /\ UNCHANGED <<rosters, wire, moves, kept, given>>

(***************************************************************************)
(* fetch_free_agents asks page after page, until `count` players, an empty *)
(* page or a short one; collect_snapshot goes on without the wire when a   *)
(* page fails.  The pages are one answer: nothing is remembered before the *)
(* last of them, and snapshot.wire holds those read so far.                *)
(***************************************************************************)
PageFrom(start) ==
  SubSeq(wire, start + 1, IF start + PageSize < Len(wire) THEN start + PageSize ELSE Len(wire))

StopsShort(batch, read) == Len(batch) <= PageSize \/ Len(read) + PageSize > Asked

LastPage(batch, read) == Len(batch) < PageSize \/ Len(read) + PageSize >= Asked

Collected(agents) == snapshot' = [snapshot EXCEPT !.wire = agents] /\ Proceed("roster")

FreeAgents ==
  /\ job.at = "wire"
  /\ IF Known(<<"wire">>)
     THEN Collected(memo[<<"wire">>]) /\ UNCHANGED memo
     ELSE LET read  == snapshot.wire
              batch == PageFrom(Len(read)) IN
          IF LastPage(batch, read)
          THEN /\ Collected(read \o batch)
               /\ memo' = Remember(memo, <<"wire">>, read \o batch)
          ELSE /\ snapshot' = [snapshot EXCEPT !.wire = read \o batch]
               /\ UNCHANGED <<memo, job>>
  /\ UNCHANGED <<rosters, wire, moves, kept, given, blanks>>

NoFreeAgents ==
  /\ job.at = "wire" /\ ~Known(<<"wire">>)
  /\ Collected(<<>>)
  /\ UNCHANGED <<rosters, wire, moves, memo, kept, given, blanks>>

\* The rosters, team after team; a team that fails is unavailable.
RosterOf(team) ==
  /\ job.at = "roster"
  /\ team \in snapshot.teams \ (DOMAIN snapshot.rosters \cup snapshot.unavailable)
  /\ LET key == <<"roster", team, job.week>> IN
     \/ \E answer \in Answers(key, rosters[team]) :
          /\ Cached(key, answer)
          /\ snapshot' = [snapshot EXCEPT !.rosters = Remember(@, team, answer)]
     \/ /\ ~Known(key)
        /\ snapshot' = [snapshot EXCEPT !.unavailable = @ \cup {team}]
        /\ UNCHANGED <<memo, blanks>>
  /\ UNCHANGED <<rosters, wire, moves, kept, job, given>>

AnyGap == TRUE

\* Without the manager's own roster there is no league to give.
Complete == Mine \notin snapshot.unavailable

Collect ==
  /\ job.at = "roster"
  /\ snapshot.teams = DOMAIN snapshot.rosters \cup snapshot.unavailable
  /\ IF Complete
     THEN Deliver(Live(snapshot)) /\ kept' = Remember(<<>>, job.week, snapshot)
     ELSE FetchFails("error") /\ UNCHANGED <<given, kept>>
  /\ UNCHANGED <<rosters, wire, moves, memo, snapshot, blanks>>

AnyFailure(failure) == TRUE

Refused(failure) == failure \in Refusals

\* Only a refusal earns the typed-in roster; anything else is raised.
SettleFor ==
  /\ job.at = "failed"
  /\ Deliver(NotLive(IF Refused(job.failure) /\ Typed THEN "manual" ELSE "raised"))
  /\ UNCHANGED <<rosters, wire, moves, memo, snapshot, kept, blanks>>

-----------------------------------------------------------------------------
\* A claim: a team drops a player and takes the first one of the wire.
Claim(team, dropped) ==
  /\ moves = 0 /\ dropped \in rosters[team] /\ wire # <<>>
  /\ rosters' = [rosters EXCEPT ![team] = (@ \ {dropped}) \cup {Head(wire)}]
  /\ wire' = Append(Tail(wire), dropped)
  /\ moves' = moves + 1
  /\ UNCHANGED <<memo, snapshot, kept, job, given, blanks>>

LeagueNext ==
  \/ \E week \in Weeks : Ask(week)
  \/ Reuse \/ Teams \/ FreeAgents \/ NoFreeAgents
  \/ \E team \in Team : RosterOf(team)
  \/ Collect \/ SettleFor
  \/ \E team \in Team : \E dropped \in rosters[team] : Claim(team, dropped)

LeagueSpec == LeagueInit /\ [][LeagueNext]_leagueVars

-----------------------------------------------------------------------------
IsLive(answer) == answer.kind = "live"

(***************************************************************************)
(* No job reads a lost roster as "no players": a live league has the       *)
(* manager's own roster, unless Yahoo itself answered with nothing         *)
(* (collect_league, src/yahoo_client.py:774).                              *)
(***************************************************************************)
OwnRosterOrRaise ==
  \A i \in DOMAIN given : IsLive(given[i]) =>
    \/ Mine \in DOMAIN given[i].league.rosters /\ given[i].league.rosters[Mine] # {}
    \/ {<<"teams">>, <<"roster", Mine, given[i].week>>} \cap blanks # {}

(***************************************************************************)
(* A typed roster, which may be weeks old, stands in only where Yahoo      *)
(* refuses the app, never for a rate limit or a roster lost half way, and  *)
(* never after a job of the same process was given the live league.        *)
(***************************************************************************)
ManualOnlyAtTheGate ==
  \A i \in DOMAIN given : given[i].kind = "manual" =>
    /\ given[i].why \in Refusals
    /\ \A j \in 1..(i - 1) : ~IsLive(given[j])

(***************************************************************************)
(* The jobs of one process reason from one league: whatever is claimed in  *)
(* between, two answers for a week never show a team two rosters.          *)
(***************************************************************************)
OneLeaguePerRun ==
  \A i, j \in DOMAIN given :
    IsLive(given[i]) /\ IsLive(given[j]) /\ given[i].week = given[j].week =>
      \A team \in DOMAIN given[i].league.rosters \cap DOMAIN given[j].league.rosters :
        given[i].league.rosters[team] = given[j].league.rosters[team]

(***************************************************************************)
(* If nobody moved, the wire a job reads is all of it, up to the number it *)
(* asked for, or empty because a page failed.                              *)
(***************************************************************************)
WholeWire ==
  \A i \in DOMAIN given : IsLive(given[i]) /\ moves = 0 =>
    LET read == given[i].league.wire IN
    read = <<>> \/ (read = SubSeq(Wire, 1, Len(read)) /\ (Len(read) >= Asked \/ read = Wire))
=============================================================================

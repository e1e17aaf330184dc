----------------------------- MODULE MCSources ------------------------------
(* Model values for the ways the program gets at other people's data: one  *)
(* public source and its cache, Yahoo's gates, one process reading the     *)
(* league, the legs of `fcc sync`, and the joins of the sources' players.  *)
(* They share no state, so a behaviour is of one of them.                  *)
EXTENDS SourceCache, YahooAccess, LeagueFetch, ProjectionSync, Identity

CONSTANTS mine, rival, kelce, hill, mostert, dillon, pitts, walker, waller

MCRosters == (mine :> {kelce}) @@ (rival :> {hill})

MCWire == <<mostert, dillon, pitts>>

\* Every source switched on, and two of the three given no weight, or all some.
MCSettings == [on : {{"espn", "fantasypros"}}, weighted : {ProjectionSources, {"sleeper"}}]

Row(n, p, y, e) == [name |-> n, pos |-> p, team |-> "BUF", yahoo |-> y, espn |-> e]

\* One player whose ids are learnt late and who moves to another position,
\* one with a name like his.
MCPeople == <<walker, waller>>
MCLives ==
  (walker :> {Row("walker", "WR", "y1", ""), Row("walker", "WR", "y1", "e1"),
              Row("walker", "TE", "y1", "e1")})
  @@ (waller :> {Row("waller", "WR", "", ""), Row("waller", "WR", "y2", "e2")})

Asker(s, i, n, p, t) == [source |-> s, id |-> i, name |-> n, pos |-> p, team |-> t]

\* A fuzzy match, one of another position, one by its team, an overridden one.
MCAskers ==
  {Asker("espn", "e1", "wallker", "WR", ""), Asker("espn", "e2", "walker", "RB", ""),
   Asker("nflverse", "g1", "walker", "", "BUF"), Asker("espn", "e3", "zz", "WR", "")}

MCOverrides == <<"espn", "e3">> :> <<"walker", "WR">>
MCAlike == {<<"waller", "walker">>, <<"wallker", "walker">>, <<"wallker", "waller">>}

VARIABLE part

MCInit ==
  /\ CacheInit /\ AccessInit /\ LeagueInit /\ SyncInit /\ IdentityInit
  /\ settings \in MCSettings
  /\ part \in {"cache", "access", "league", "sync", "identity"}
  /\ part # "sync" => settings.weighted = ProjectionSources

MCVars == <<cacheVars, accessVars, leagueVars, syncVars, identityVars, part>>

JobsDone == job.at = "idle" /\ Len(given) = MaxJobs

MCNext ==
  \/ /\ part = "cache" /\ CacheNext
     /\ UNCHANGED <<accessVars, leagueVars, syncVars, identityVars, part>>
  \/ /\ part = "access" /\ AccessNext
     /\ UNCHANGED <<cacheVars, leagueVars, syncVars, identityVars, part>>
  \/ /\ part = "league" /\ LeagueNext
     /\ UNCHANGED <<cacheVars, accessVars, syncVars, identityVars, part>>
  \/ /\ part = "sync" /\ SyncNext
     /\ UNCHANGED <<cacheVars, accessVars, leagueVars, identityVars, part>>
  \/ /\ part = "identity" /\ IdentityNext
     /\ UNCHANGED <<cacheVars, accessVars, leagueVars, syncVars, part>>
  \/ part = "league" /\ JobsDone /\ UNCHANGED MCVars

MCSpec == MCInit /\ [][MCNext]_MCVars
=============================================================================

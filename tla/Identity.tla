------------------------------ MODULE Identity ------------------------------
(***************************************************************************)
(* Whose data is it: the players table, the ids of each source that are    *)
(* known to be a player of ours (player_id_map), what one run remembers of *)
(* them (IdMapper of src/idmap.py), and the join of Yahoo's players to     *)
(* ours (YahooIdIndex of src/yahoo_snapshot.py).                           *)
(*                                                                         *)
(* Sleeper's dump registers the players and the ids it knows of them at    *)
(* the other sources; every other source asks who its own record is.       *)
(* Names are as normalize_name leaves them, positions and teams likewise.  *)
(***************************************************************************)
EXTENDS Integers, SequencesExt

CONSTANTS
  People,       \* the players of the league, in the dump's order: a sequence
  Lives,        \* what the dump may come to say of each: person -> records
  Askers,       \* records of the other sources: [source, id, name, pos, team]
  Overrides,    \* the manual override file: <<source, id>> -> key
  Alike,        \* pairs of names similar enough for a fuzzy match
  IdentityRuns  \* bound: runs of `fcc sync`

Unsaid == ""    \* a field without a value

(***************************************************************************)
(* The dump is a dictionary of the people the model knows, each once, and  *)
(* an ESPN id is one person's, whenever Sleeper comes to know of it.       *)
(***************************************************************************)
ASSUME LivesAssumption ==
  /\ People \in Seq(DOMAIN Lives)
  /\ \A p \in DOMAIN Lives : \E n \in DOMAIN People : People[n] = p
  /\ \A m, n \in DOMAIN People : People[m] = People[n] => m = n
  /\ \A p, q \in DOMAIN Lives : \A r \in Lives[p], s \in Lives[q] :
       r.espn = s.espn /\ r.espn # Unsaid => p = q

VARIABLES
  feed,        \* Sleeper's dump: those it lists -> record
  synced,      \* the dump as sync_players last stored it
  players,     \* players: key -> [name, pos, team, yahoo, espn]
  idmap,       \* player_id_map: <<source, id>> -> [key, method]
  durable,     \* what is committed of the two
  recalled,    \* _mapping_cache of the run: the sources loaded, and what it holds
  names,       \* _by_key of the run: its one table, or {} while dirty
  runs         \* runs so far

identityVars == <<feed, synced, players, idmap, durable, recalled, names, runs>>

\* make_player_key: the team is left out, but a defense is its team.
Key(r) ==
  IF r.pos # "DEF" THEN <<r.name, r.pos>>
  ELSE <<"DEF", IF r.team = Unsaid THEN r.name ELSE r.team>>

\* What g says, over f.
Merge(f, g) == [x \in DOMAIN f \cup DOMAIN g |-> IF x \in DOMAIN g THEN g[x] ELSE f[x]]

Single(x, y) == [z \in {x} |-> y]

Hit(key, method) == [key |-> key, method |-> method]

Forgot == [sources |-> {}, map |-> <<>>]

Committed == [players |-> players, idmap |-> idmap]

IdentityInit ==
  /\ feed = <<>> /\ synced = <<>>
  /\ players = <<>> /\ idmap = <<>> /\ durable = Committed
  /\ recalled = Forgot /\ names = {}
  /\ runs = 0

-----------------------------------------------------------------------------
(***************************************************************************)
(* _mappings_for: a source's mappings are read once a run, and written     *)
(* through.                                                                *)
(***************************************************************************)
MappingsOf(source) == {i \in DOMAIN idmap : i[1] = source}

Remembered(source) ==
  IF source \in recalled.sources THEN recalled
  ELSE [sources |-> recalled.sources \cup {source},
        map |-> Merge(recalled.map, Restrict(idmap, MappingsOf(source)))]

KeepFirstMapping(new) ==
  LET sources == {i[1] : i \in DOMAIN new}
      loaded  == UNION {MappingsOf(s) : s \in sources \ recalled.sources}
  IN /\ idmap' = Merge(new, idmap)
     /\ recalled' = [sources |-> recalled.sources \cup sources,
                 map |-> Merge(new, Merge(recalled.map, Restrict(idmap, loaded)))]

\* The store and the memory, with these ids recorded as well.
RecordMappings(new) ==
  LET sources == {i[1] : i \in DOMAIN new}
      loaded  == UNION {MappingsOf(s) : s \in sources \ recalled.sources}
  IN /\ idmap' = Merge(idmap, new)
     /\ recalled' = [sources |-> recalled.sources \cup sources,
                 map |-> Merge(Merge(recalled.map, Restrict(idmap, loaded)), new)]

-----------------------------------------------------------------------------
(***************************************************************************)
(* sync_players and upsert_players: every player of the dump gets the row  *)
(* of his key, where nothing known is blanked out, and each of his ids is  *)
(* his; one commit.                                                        *)
(***************************************************************************)
Coalesce(new, old) == IF new = Unsaid THEN old ELSE new

Upsert(table, r) ==
  Merge(table, Single(Key(r),
    IF Key(r) \notin DOMAIN table THEN r
    ELSE [f \in DOMAIN r |-> Coalesce(r[f], table[Key(r)][f])]))

Listed == {n \in DOMAIN People : People[n] \in DOMAIN feed}

\* Where an id, <<source, id>>, is in the dump: its last place counts.
Places(i) == {n \in Listed : feed[People[n]][i[1]] = i[2]}

VouchedIds ==
  {<<f, feed[People[n]][f]>> : f \in {"yahoo", "espn"}, n \in Listed}
    \ {<<"yahoo", Unsaid>>, <<"espn", Unsaid>>}

Vouched ==
  [i \in VouchedIds |-> Hit(Key(feed[People[Max(Places(i))]]), "exact")]

Dump == [n \in DOMAIN SelectSeq(People, LAMBDA p : p \in DOMAIN feed) |->
           feed[SelectSeq(People, LAMBDA p : p \in DOMAIN feed)[n]]]

SyncPlayers ==
  /\ runs > 0
  /\ players' = FoldLeft(Upsert, players, Dump)
  /\ RecordMappings(Vouched)
  /\ durable' = [players |-> players', idmap |-> idmap']
  /\ names' = {}
  /\ synced' = feed
  /\ UNCHANGED <<feed, runs>>

-----------------------------------------------------------------------------
(***************************************************************************)
(* resolve: the override, what is remembered of the id, the key itself,    *)
(* the only player of that name or of that name and team, and the most     *)
(* alike of the position.  What is found is recorded for the id.           *)
(***************************************************************************)
Indexed == IF names = {} THEN players ELSE CHOOSE t \in names : TRUE

Namesakes(index, a) == {k \in DOMAIN index : index[k].name = a.name}

Teammates(index, a) == {k \in Namesakes(index, a) : index[k].team = a.team}

\* The most alike of the position; the order of rows of equal score is open.
Similar(index, a) ==
  LET ofPos == {k \in DOMAIN index : a.pos \in {Unsaid, index[k].pos}} IN
  IF Namesakes(index, a) \cap ofPos # {} THEN Namesakes(index, a) \cap ofPos
  ELSE {k \in ofPos : <<a.name, index[k].name>> \in Alike}

Guesses(index, a) ==
  IF Key(a) \in DOMAIN index THEN {Hit(Key(a), "exact")}
  ELSE IF Cardinality(Namesakes(index, a)) = 1
    THEN {Hit(k, "alias") : k \in Namesakes(index, a)}
  ELSE IF Cardinality(Teammates(index, a)) = 1
    THEN {Hit(k, "alias") : k \in Teammates(index, a)}
  ELSE {Hit(k, "fuzzy") : k \in Similar(index, a)}

Id(a) == <<a.source, a.id>>

ByOverride(a) ==
  /\ Id(a) \in DOMAIN Overrides
  /\ RecordMappings(Single(Id(a), Hit(Overrides[Id(a)], "manual")))
  /\ UNCHANGED names

ByMemory(a) ==
  /\ Id(a) \notin DOMAIN Overrides
  /\ Id(a) \in DOMAIN Remembered(a.source).map
  /\ recalled' = Remembered(a.source)
  /\ UNCHANGED <<idmap, names>>

ByName(a) ==
  /\ Id(a) \notin DOMAIN Overrides \cup DOMAIN Remembered(a.source).map
  /\ names' = {Indexed}
  /\ IF Guesses(Indexed, a) = {} THEN recalled' = Remembered(a.source) /\ UNCHANGED idmap
     ELSE \E g \in Guesses(Indexed, a) : RecordMappings(Single(Id(a), g))

Resolve ==
  /\ runs > 0
  /\ \E a \in Askers : ByOverride(a) \/ ByMemory(a) \/ ByName(a)
  /\ UNCHANGED <<feed, synced, players, durable, runs>>

-----------------------------------------------------------------------------
\* A leg ends with its commit, or a statement fails and all since the last is lost.
EndLeg ==
  /\ durable' = Committed
  /\ UNCHANGED <<feed, synced, players, idmap, recalled, names, runs>>

LegFails ==
  /\ players' = durable.players /\ idmap' = durable.idmap
  /\ UNCHANGED <<feed, synced, durable, recalled, names, runs>>

\* The next run, after the last one ended or died.
NextIdentityRun ==
  /\ runs < IdentityRuns
  /\ runs' = runs + 1
  /\ players' = durable.players /\ idmap' = durable.idmap
  /\ recalled' = Forgot /\ names' = {}
  /\ UNCHANGED <<feed, synced, durable>>

\* Sleeper learns an id; a player is listed at another position, or signs.
FeedChanges ==
  /\ \E p \in DOMAIN Lives : \E r \in Lives[p] : feed' = Merge(feed, Single(p, r))
  /\ UNCHANGED <<synced, players, idmap, durable, recalled, names, runs>>

IdentityNext ==
  SyncPlayers \/ Resolve \/ EndLeg \/ LegFails \/ NextIdentityRun \/ FeedChanges

IdentitySpec == IdentityInit /\ [][IdentityNext]_identityVars

-----------------------------------------------------------------------------
\* YahooIdIndex, by the id: the first row read that has it.
YahooRoute(id) == {k \in DOMAIN players : players[k].yahoo = id}

(***************************************************************************)
(* An id that Sleeper vouches for is resolved to its player's key of       *)
(* today, in the table and in the run's memory, whatever was guessed of it *)
(* before, whatever failed since; a manual override stays                  *)
(* (record_mappings, src/idmap.py:341; resolve, src/idmap.py:383).         *)
(***************************************************************************)
VouchedIdsResolve ==
  \A p \in DOMAIN synced : synced[p].espn # Unsaid =>
    LET i == <<"espn", synced[p].espn>> IN
    i \notin DOMAIN Overrides =>
      /\ i \in DOMAIN idmap /\ idmap[i].key = Key(synced[p])
      /\ i \in DOMAIN durable.idmap /\ durable.idmap[i].key = Key(synced[p])
      /\ "espn" \in recalled.sources => recalled.map[i].key = Key(synced[p])

(***************************************************************************)
(* "Sleeper publishes Yahoo cross-reference ids ... where it exists the    *)
(* join is exact" (src/yahoo_snapshot.py:200-203): the id leads to the     *)
(* player's own row and to no other.                                       *)
(***************************************************************************)
TheJoinIsExact ==
  \A p \in DOMAIN synced : synced[p].yahoo # Unsaid =>
    YahooRoute(synced[p].yahoo) = {Key(synced[p])}
=============================================================================

--------------------------- MODULE SchemaUpgrade ----------------------------
(***************************************************************************)
(* src/schema.py and src/migrations/: apply(), which every process runs on *)
(* connecting, brings any database to the current schema.                  *)
(***************************************************************************)
EXTENDS Session, FiniteSetsExt

Table(t) == <<"table", t>>
Column(t) == <<"column", t>>
Version(n) == <<"version", n>>
Secured(t) == <<"rls", t>>

\* One table stands for each group a migration creates or drops together.
Kept == {"players", "job_runs", "my_roster"}
Retired == {"rosters", "matchups", "league_settings"}

Tables == Kept \cup Retired \cup {"schema_version"}

SchemaFacts ==
  {Table(t) : t \in Tables} \cup {Column("played")}
    \cup {Version(n) : n \in 1..6} \cup {Secured(t) : t \in Tables}

\* CREATE TABLE IF NOT EXISTS: nothing at all when the table is there, so a
\* column it would have is not added to one that has not got it.
Creates(t, view) ==
  IF Table(t) \in view THEN {}
  ELSE {Table(t)} \cup (IF t = "my_roster" THEN {Column("played")} ELSE {})

\* DROP TABLE IF EXISTS.
Drops(t) == {Table(t), Secured(t)}

\* src/migrations/0001 to 0006: what each adds and removes.
Adds(n, view) ==
  CASE n = 1 -> Creates("job_runs", view)
    [] n = 5 -> Creates("my_roster", view)
    [] n = 6 -> {Column("played")}
    [] OTHER -> {}

Removes(n) ==
  CASE n = 2 -> Drops("rosters")
    [] n = 3 -> Drops("matchups")
    [] n = 4 -> Drops("league_settings")
    [] OTHER -> {}

Latest == 6

UnguardedAlter == {}

\* -- if-missing-column: my_roster.played
Guarded == {6}

Baseline(view) == UNION {Creates(t, view) : t \in Kept}

Stamps(facts) == {n \in 1..Latest : Version(n) \in facts}

CurrentVersion(facts) == IF Stamps(facts) = {} THEN 0 ELSE Max(Stamps(facts))

HasStamps(facts) == Stamps(facts) # {}

HasTables(facts) == Table("players") \in facts

\* The effect of migration n is there.
Effective(n, facts) ==
  CASE n = 1 -> Table("job_runs") \in facts
    [] n = 5 -> Table("my_roster") \in facts
    [] n = 6 -> Column("played") \in facts
    [] OTHER -> Removes(n) \cap facts = {}

CreateVersionTable(c) ==
  /\ At(c, "versions")
  /\ ExecuteScript(c, {}, {Table("schema_version")})
  /\ Goto(c, "look")
  /\ Undisturbed

Look(c) ==
  /\ At(c, "look")
  /\ Query(c)
  /\ LET fresh == ~HasTables(Reads(c)) IN
     run' = [run EXCEPT ![c].fresh = fresh,
                        ![c].at = IF fresh THEN "baseline" ELSE "read"]
  /\ Undisturbed

CreateBaseline(c) ==
  /\ At(c, "baseline")
  /\ ExecuteScript(c, {}, Baseline(View(c)))
  /\ Goto(c, "read")
  /\ Undisturbed

AnyVersionWillDo(c) ==
  /\ At(c, "read")
  /\ Query(c)
  /\ run' = [run EXCEPT ![c].at = IF run[c].fresh THEN "stampall" ELSE "migrate",
                        ![c].next = IF run[c].fresh \/ Stamps(Reads(c)) = {} THEN 1
                                    ELSE Latest + 1]
  /\ Undisturbed

ReadVersion(c) ==
  /\ At(c, "read")
  /\ Query(c)
  /\ run' = [run EXCEPT ![c].at = IF run[c].fresh THEN "stampall" ELSE "migrate",
                        ![c].next = IF run[c].fresh THEN 1
                                    ELSE CurrentVersion(Reads(c)) + 1]
  /\ Undisturbed

\* INSERT ... ON CONFLICT(version) DO NOTHING.
InsertStamp(c, n) == Execute(c, {}, {Version(n)})

StampAll(c) ==
  /\ At(c, "stampall")
  /\ run[c].next <= Latest
  /\ InsertStamp(c, run[c].next)
  /\ run' = [run EXCEPT ![c].next = @ + 1,
                        ![c].at = IF run[c].next = Latest THEN "stamped" ELSE @]
  /\ Undisturbed

CommitStamps(c) ==
  /\ At(c, "stamped")
  /\ Commit(c)
  /\ Goto(c, "rls")
  /\ Undisturbed

\* should_run: a guarded migration asks whether its column is there.
ShouldRun(c) ==
  /\ At(c, "migrate")
  /\ run[c].next <= Latest
  /\ IF run[c].next \in Guarded THEN Query(c) ELSE UNCHANGED dbVars
  /\ Goto(c, IF run[c].next \in Guarded /\ Column("played") \in Reads(c)
             THEN "stamp" ELSE "script")
  /\ Undisturbed

\* ADD COLUMN is an error on a table that has the column, or is not there.
ScriptRefused(c) ==
  /\ run[c].next = 6
  /\ Column("played") \in View(c) \/ Table("my_roster") \notin View(c)

RunMigration(c) ==
  /\ At(c, "script")
  /\ ~ScriptRefused(c)
  /\ ExecuteScript(c, Removes(run[c].next), Adds(run[c].next, View(c)))
  /\ Goto(c, "stamp")
  /\ Undisturbed

MigrationFails(c) ==
  /\ At(c, "script")
  /\ conn[c].up
  /\ ScriptRefused(c)
  /\ StartupFails(c)
  /\ Undisturbed

Stamp(c) ==
  /\ At(c, "stamp")
  /\ InsertStamp(c, run[c].next)
  /\ run' = [run EXCEPT ![c].next = @ + 1, ![c].at = "migrate"]
  /\ Undisturbed

\* The baseline again, for the tables a newer one has, and the last commit.
Replay(c) ==
  /\ At(c, "migrate")
  /\ run[c].next > Latest
  /\ ExecuteScript(c, {}, Baseline(View(c)))
  /\ Goto(c, "rls")
  /\ Undisturbed

\* ORDER BY tablename.
ByName == <<"job_runs", "league_settings", "matchups", "my_roster", "players",
            "rosters", "schema_version">>

Rank(t) == CHOOSE i \in DOMAIN ByName : ByName[i] = t

Open(facts) == {t \in Tables : Table(t) \in facts /\ Secured(t) \notin facts}

\* enforce_rls: the tables without row-level security, read once.
FindOpen(c) ==
  /\ At(c, "rls")
  /\ Query(c)
  /\ LET found == IF dialect = "postgres" THEN Open(Reads(c)) ELSE {} IN
     run' = [run EXCEPT ![c].aim = found,
                        ![c].at = IF found = {} THEN "ready" ELSE "secure"]
  /\ Undisturbed

\* ALTER TABLE ... ENABLE ROW LEVEL SECURITY, one table at a time.  One that
\* fails is logged and skipped, and its rollback undoes the ones before it.
SecureTable(c) ==
  /\ At(c, "secure")
  /\ \E t \in run[c].aim :
       /\ \A u \in run[c].aim : Rank(t) <= Rank(u)
       /\ run' = [run EXCEPT ![c].aim = @ \ {t},
                             ![c].at = IF run[c].aim = {t} THEN "secured" ELSE @]
       /\ \/ /\ Table(t) \in Reads(c)
             /\ Execute(c, {}, {Secured(t)})
             /\ UNCHANGED faults
          \/ /\ Refused(c)
             /\ IF Table(t) \in Reads(c) THEN Fault ELSE UNCHANGED faults
  /\ UNCHANGED disturbed

CommitSecured(c) ==
  /\ At(c, "secured")
  /\ Commit(c)
  /\ Goto(c, "ready")
  /\ Undisturbed

ScriptLabels == {"versions", "baseline", "stamped", "script", "secured"}

\* A script or a commit on a connection that is gone is not retried.
ScriptOnDeadConnection(c) ==
  /\ ~conn[c].up
  /\ \/ run[c].at \in ScriptLabels
     \/ At(c, "migrate") /\ run[c].next > Latest
  /\ StartupFails(c)
  /\ Undisturbed

Apply(c) ==
  \/ CreateVersionTable(c) \/ Look(c) \/ CreateBaseline(c) \/ ReadVersion(c)
  \/ StampAll(c) \/ CommitStamps(c)
  \/ ShouldRun(c) \/ RunMigration(c) \/ MigrationFails(c) \/ Stamp(c) \/ Replay(c)
  \/ FindOpen(c) \/ SecureTable(c) \/ CommitSecured(c)
  \/ ScriptOnDeadConnection(c)
=============================================================================

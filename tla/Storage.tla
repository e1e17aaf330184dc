------------------------------ MODULE Storage -------------------------------
(***************************************************************************)
(* The processes that share the league database, composed: each connects,  *)
(* applies the schema, and then saves a roster, or purges Yahoo's data, or *)
(* just stops.                                                             *)
(***************************************************************************)
EXTENDS RosterStore, YahooPurge

CONSTANT StartingPoints   \* the databases a behaviour may start from

\* A database some version of the program has left: empty, from before the
\* version table, or brought up to migration n by an earlier apply().
DatabaseAt(n) ==
  {Table("schema_version"), Table("players"), Yahoo("players")}
    \cup {Version(i) : i \in 1..n}
    \cup {Table(t) : t \in {u \in Retired : \A i \in 1..n : Table(u) \notin Removes(i)}}
    \cup (IF n >= 1 THEN {Table("job_runs"), Yahoo("job_runs")} ELSE {})
    \cup (IF n >= 5 THEN {Table("my_roster")} ELSE {})
    \cup (IF n >= 6 THEN {Column("played")} ELSE {})

Unversioned == DatabaseAt(0) \ {Table("schema_version")}

\* Nothing is left of an older schema.
Clean(facts) ==
  /\ \A t \in Retired : Table(t) \notin facts
  /\ Table("my_roster") \in facts => Column("played") \in facts

(***************************************************************************)
(* No database starts with a version that is not true, or with security on *)
(* a table it has not got; without players it is a new one.  If it has a   *)
(* roster, it is one that was saved whole.  The data of retired tables is  *)
(* not among the facts: it goes with the tables.                           *)
(***************************************************************************)
ASSUME StartingAssumption ==
  \A facts \in StartingPoints :
     /\ \A n \in 1..CurrentVersion(facts) : Effective(n, facts)
     /\ \A t \in Tables : Secured(t) \in facts => Table(t) \in facts
     /\ Table("players") \in facts \/ Clean(facts)
     /\ \A t \in Retired : Yahoo(t) \notin facts
     /\ RosterIn(facts) \in {{}} \cup {Named(p) : p \in Pastes}

Init ==
  /\ dialect \in Dialects
  /\ stored \in StartingPoints
  /\ conn = [c \in Clients |-> Idle]
  /\ torn = [c \in Clients |-> FALSE]
  /\ run = [c \in Clients |-> Stopped]
  /\ faults = 0
  /\ disturbed = FALSE

Finish(c) ==
  /\ At(c, "ready")
  /\ c \notin Dashboards
  /\ Goto(c, "record")
  /\ UNCHANGED dbVars
  /\ Undisturbed

Steps(c) == Connect(c) \/ Apply(c) \/ SaveRoster(c) \/ Purge(c) \/ Finish(c) \/ RecordAndClose(c)

Next == \E c \in Clients : Steps(c) \/ Faulty(c)

Spec == Init /\ [][Next]_sessionVars

(***************************************************************************)
(* Scheduled runs start again and again, and whoever has begun a save or   *)
(* an upgrade goes on with it; faults are never owed.                      *)
(***************************************************************************)
Onwards(c) ==
  \/ Apply(c) \/ DeleteRoster(c) \/ InsertSpot(c) \/ DuplicateSpot(c) \/ CommitRoster(c)
  \/ PurgeTable(c) \/ (SkipTable(c) /\ UNCHANGED faults) \/ CommitPurge(c)
  \/ GoneAtCommit(c) \/ RecordAndClose(c)

Fairness ==
  \A c \in Clients :
     /\ WF_sessionVars(Onwards(c))
     /\ c \notin Dashboards => WF_sessionVars(Connect(c)) /\ WF_sessionVars(Finish(c))

FairSpec == Spec /\ Fairness

-----------------------------------------------------------------------------
(***************************************************************************)
(* A recorded version is true: MAX(version) is all apply() reads, so when  *)
(* it says n, everything migrations 1 to n do is done, whatever starts,    *)
(* crashes, reconnects and other clients came before (src/schema.py:171).  *)
(***************************************************************************)
VersionIsTrue ==
  \A n \in 1..CurrentVersion(stored) : Effective(n, stored)

(***************************************************************************)
(* No handler runs on an old schema: a process that has got through        *)
(* init_db finds every migration's effect in the database, also when       *)
(* another process is upgrading the same one.                              *)
(***************************************************************************)
ReadyMeansCurrent ==
  \A c \in Clients : At(c, "ready") \/ Handling(c) =>
     \A n \in 1..Latest : Effective(n, stored)

(***************************************************************************)
(* Nobody reads half a roster (save_roster, src/manual_roster.py:357): as  *)
(* long as no reconnect, Ctrl-C, page of another session or SQLite error   *)
(* has cut a transaction in two, and no two saves overlapped on Postgres,  *)
(* the stored roster is one of the pastes, or none; crashes, failed        *)
(* statements and a duplicate line on Postgres do not spoil it.            *)
(***************************************************************************)
WholeRoster ==
  ~disturbed => RosterIn(stored) \in {{}} \cup {Named(p) : p \in Pastes}

(***************************************************************************)
(* When a purge commits and nothing cut its transaction, none of Yahoo's   *)
(* data is left, although the first tables it asks for do not exist and    *)
(* each refusal rolls back what came before it (src/compliance.py:87).     *)
(***************************************************************************)
PurgeIsComplete ==
  [][\A c \in Clients :
       CommitPurge(c) /\ ~disturbed => YahooFacts \cap stored' = {}]_sessionVars

(***************************************************************************)
(* Whatever database it starts from and whatever goes wrong on the way,    *)
(* the hosted database ends up with every migration's effect and with      *)
(* row-level security on every table, and stays so: apply() and            *)
(* enforce_rls run on every connect.                                       *)
(***************************************************************************)
EndsCurrent ==
  <>[](dialect = "postgres" =>
         Open(stored) = {} /\ \A n \in 1..Latest : Effective(n, stored))
=============================================================================

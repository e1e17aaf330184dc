----------------------------- MODULE YahooPurge -----------------------------
(***************************************************************************)
(* purge_yahoo of src/compliance.py, the command `fcc purge-yahoo          *)
(* --confirm`: everything Yahoo's goes, table by table, in one             *)
(* transaction.  A table that is not there, or refuses, is counted as      *)
(* nothing to remove and the next one is tried.                            *)
(***************************************************************************)
EXTENDS SchemaUpgrade

\* The yahoo-sourced part of table t: its rows, or one of its columns.
Yahoo(t) == <<"yahoo", t>>

MissingTablesLast == <<"players", "job_runs", "rosters">>

\* In the order purge_yahoo visits them; "rosters" stands for YAHOO_TABLES,
\* which migrations 2 to 4 have dropped: their DELETE is never reached.
PurgeOrder == <<"rosters", "players", "job_runs">>

YahooFacts == {Yahoo(PurgeOrder[i]) : i \in DOMAIN PurgeOrder}

BeginPurge(c) ==
  /\ At(c, "ready")
  /\ c \notin Dashboards
  /\ run' = [run EXCEPT ![c].at = "purge", ![c].left = PurgeOrder]
  /\ UNCHANGED dbVars
  /\ Undisturbed

NextTable(c) ==
  run' = [run EXCEPT ![c].left = Tail(@),
                     ![c].at = IF Len(run[c].left) = 1 THEN "purged" ELSE @]

PurgeTable(c) ==
  /\ At(c, "purge")
  /\ Table(Head(run[c].left)) \in Reads(c)
  /\ Execute(c, {Yahoo(Head(run[c].left))}, {})
  /\ NextTable(c)
  /\ Undisturbed

\* The SELECT COUNT(*) of a table that is not there, or a statement the
\* server refuses: on Postgres the rollback takes back the tables before it.
SkipTable(c) ==
  /\ At(c, "purge")
  /\ Refused(c)
  /\ NextTable(c)
  /\ IF Table(Head(run[c].left)) \in Reads(c)
     THEN Fault /\ disturbed' = TRUE
     ELSE Undisturbed

CommitPurge(c) ==
  /\ At(c, "purged")
  /\ Commit(c)
  /\ Goto(c, Handled(c))
  /\ Undisturbed

Purge(c) == BeginPurge(c) \/ PurgeTable(c) \/ SkipTable(c) \/ CommitPurge(c)
=============================================================================

----------------------------- MODULE CopyTables -----------------------------
(***************************************************************************)
(* `fcc migrate` (src/migrate.py): the rows of a laptop's SQLite file are  *)
(* inserted into the hosted database, table after table, each batch        *)
(* committed by itself.  The hosted jobs go on recording their runs.       *)
(* Batches of one row: a crash can fall between any two.                   *)
(***************************************************************************)
EXTENDS Naturals, Sequences, SequencesExt

CONSTANTS
  Laptop,     \* the rows to copy, in the order of TABLES: [table, key, source]
  MaxCopies,  \* bounds the times the command is run
  MaxRuns     \* bounds the runs the hosted jobs record

VARIABLES
  hosted,     \* the hosted rows: [table, key, n], n counting duplicates
  drawn,      \* how many ids the hosted job_runs sequence has given out
  copying,    \* the rows the command has still to copy
  copies      \* how many times it was started

copyVars == <<hosted, drawn, copying, copies>>

CacheOnly == {"source_cache"}

\* Tables whose rows say where they came from.
Provenance == {"source_cache", "player_id_map", "projections", "projection_history"}

RowIsAllowed(r) == r.table \in Provenance => r.source # "yahoo"

\* The tables that rows of Yahoo's were ever written to, as the purge and the
\* copy list them.
YahooRows ==
  {"source_cache", "player_id_map", "projections", "projection_history", "draft_picks"}

(***************************************************************************)
(* A row is in the laptop's file once under its primary key, and only      *)
(* these tables have rows that came from Yahoo (src/compliance.py:38).     *)
(***************************************************************************)
ASSUME LaptopAssumption ==
  /\ Laptop \in Seq({Laptop[i] : i \in DOMAIN Laptop})
  /\ \A i, j \in DOMAIN Laptop :
       Laptop[i].table = Laptop[j].table /\ Laptop[i].key = Laptop[j].key => i = j
  /\ \A i \in DOMAIN Laptop :
       Laptop[i].source = "yahoo" => Laptop[i].table \in YahooRows

Hosted(r) == {h \in hosted : h.table = r.table /\ h.key = r.key}

\* `recommendations` is copied without its id and has no conflict target:
\* every copy of a row is a new row.
Keyless == {"recommendations"}

\* `job_runs` is copied with its id, and has no conflict target either.
Refusing == {"job_runs"}

Row(r, n) == [table |-> r.table, key |-> r.key, n |-> n]

JobRun(id) == [table |-> "job_runs", key |-> id, n |-> 0]

CopyInit ==
  /\ hosted = {} /\ drawn = 0 /\ copying = <<>> /\ copies = 0

StartCopy ==
  /\ copying = <<>>
  /\ copies < MaxCopies
  /\ copying' = Laptop
  /\ copies' = copies + 1
  /\ UNCHANGED <<hosted, drawn>>

InsertIntoEmptyTable(r) ==
  IF \E h \in hosted : h.table = r.table THEN hosted ELSE hosted \cup {Row(r, 0)}

Insert(r) ==
  IF r.table \in Keyless THEN hosted \cup {Row(r, Len(SetToSeq(Hosted(r))))}
  ELSE hosted \cup {Row(r, 0)}

CopyRow ==
  /\ copying # <<>>
  /\ ~(Head(copying).table \in Refusing /\ Hosted(Head(copying)) # {})
  /\ hosted' = IF RowIsAllowed(Head(copying)) THEN Insert(Head(copying)) ELSE hosted
  /\ copying' = Tail(copying)
  /\ UNCHANGED <<drawn, copies>>

\* The INSERT raises and the command ends; so does a crash.
CopyRaises ==
  /\ copying # <<>>
  /\ Head(copying).table \in Refusing /\ Hosted(Head(copying)) # {}
  /\ copying' = <<>>
  /\ UNCHANGED <<hosted, drawn, copies>>

CopyCrashes ==
  /\ copying # <<>>
  /\ copying' = <<>>
  /\ UNCHANGED <<hosted, drawn, copies>>

\* record_job_run on the hosted database: an id the copy brought along is
\* drawn all the same, its row is refused, and main logs that at debug level.
HostedRun ==
  /\ drawn < MaxRuns
  /\ drawn' = drawn + 1
  /\ hosted' = hosted \cup {JobRun(drawn + 1)}
  /\ UNCHANGED <<copying, copies>>

CopyNext == StartCopy \/ CopyRow \/ CopyRaises \/ CopyCrashes \/ HostedRun

CopySpec == CopyInit /\ [][CopyNext]_copyVars

-----------------------------------------------------------------------------
\* What is behind a copy in progress.
Passed == SubSeq(Laptop, 1, Len(Laptop) - Len(copying))

(***************************************************************************)
(* A copy leaves nothing out: whatever row it is at, each row before it    *)
(* that may cross is in the hosted database, also when an earlier copy was *)
(* cut short anywhere (copy_table in src/migrate.py:91).                   *)
(***************************************************************************)
TopsUp ==
  copying # <<>> =>
     \A i \in DOMAIN Passed : RowIsAllowed(Passed[i]) => Hosted(Passed[i]) # {}

(***************************************************************************)
(* Re-running tops up rather than duplicating, for every table with a      *)
(* conflict target, however the copies, crashes and hosted runs fall; and  *)
(* a row that is Yahoo's by provenance never crosses, except the synced    *)
(* draft picks, whose table row_is_allowed (src/migrate.py:86) overlooks.  *)
(***************************************************************************)
OnlyOursOnce ==
  \A h \in hosted :
     /\ h.table # "recommendations" => h.n = 0
     /\ \A i \in DOMAIN Laptop :
          Laptop[i].table = h.table /\ Laptop[i].key = h.key /\ Laptop[i].source = "yahoo"
            => h.table = "draft_picks"
=============================================================================

------------------------------ MODULE Session -------------------------------
(***************************************************************************)
(* A process that uses the database: `fcc <command>` (main in src/cli.py:  *)
(* connect, one handler, the row of job_runs, close) or the dashboard,     *)
(* which keeps its connection in st.cache_resource and serves one page     *)
(* event after another.                                                    *)
(*                                                                         *)
(* run[c].at names the statement c executes next:                          *)
(*   "off"      not running                                                *)
(*   "ready"    connected and upgraded, before the handler or page event   *)
(*   "record"   the handler has ended and main writes its row of job_runs  *)
(* and the rest are the labels of the modules that extend this one.        *)
(***************************************************************************)
EXTENDS Database, Sequences

CONSTANTS
  Dashboards,   \* the clients that are dashboards
  MaxFaults     \* bounds the faults of a behaviour

VARIABLES
  run,        \* client -> what it is doing
  faults,     \* how many faults there have been
  disturbed   \* history: a transaction has been committed in part

sessionVars == <<dbVars, run, faults, disturbed>>

Fault == /\ faults < MaxFaults
         /\ faults' = faults + 1

Stopped == [at |-> "off", fresh |-> FALSE, next |-> 0, left |-> <<>>, aim |-> {}]

Undisturbed == UNCHANGED <<faults, disturbed>>

At(c, label) == run[c].at = label

Goto(c, label) == run' = [run EXCEPT ![c].at = label]

\* Where an exception ends: the row of job_runs, or the page's error box.
Handled(c) == IF c \in Dashboards THEN "ready" ELSE "record"

Connect(c) ==
  /\ At(c, "off")
  /\ run' = [run EXCEPT ![c] = [Stopped EXCEPT !.at = "versions"]]
  /\ conn' = [conn EXCEPT ![c] = Idle]
  /\ torn' = [torn EXCEPT ![c] = FALSE]
  /\ UNCHANGED <<dialect, stored>>
  /\ Undisturbed

\* An error while the schema is applied: the process reports it and exits.
StartupFails(c) ==
  /\ run' = [run EXCEPT ![c] = Stopped]
  /\ Rollback(c)

(***************************************************************************)
(* main's finally block.  The INSERT into job_runs runs on the handler's   *)
(* own transaction, and its commit stores whatever the handler had written *)
(* and not committed, also when the handler raised or was interrupted.     *)
(***************************************************************************)
RecordAndClose(c) ==
  /\ At(c, "record")
  /\ stored' = Reads(c)
  /\ disturbed' = (disturbed \/ Touched(c) # {})
  /\ conn' = [conn EXCEPT ![c] = Idle]
  /\ torn' = [torn EXCEPT ![c] = FALSE]
  /\ run' = [run EXCEPT ![c] = Stopped]
  /\ UNCHANGED <<dialect, faults>>

HandlerLabels == {"delete", "insert", "commit", "purge", "purged"}

Handling(c) == run[c].at \in HandlerLabels

\* The process dies; the server, or SQLite's journal, rolls it back.
Crash(c) ==
  /\ ~At(c, "off")
  /\ Fault
  /\ run' = [run EXCEPT ![c] = Stopped]
  /\ Rollback(c)
  /\ UNCHANGED disturbed

\* Ctrl-C in a terminal: KeyboardInterrupt passes every `except Exception`.
Interrupt(c) ==
  /\ Handling(c)
  /\ c \notin Dashboards
  /\ Fault
  /\ Goto(c, "record")
  /\ UNCHANGED <<dbVars, disturbed>>

LoseConnection(c) ==
  /\ ~At(c, "off")
  /\ Fault
  /\ Drop(c)
  /\ disturbed' = (disturbed \/ Touched(c) # {})
  /\ UNCHANGED run

(***************************************************************************)
(* The dashboard's sessions share one cached connection: another person's  *)
(* page commits, or fails and rolls back, whatever is pending on it.       *)
(***************************************************************************)
PageCommits(c) ==
  /\ c \in Dashboards
  /\ At(c, "ready") \/ Handling(c)
  /\ Touched(c) # {}
  /\ Commit(c)
  /\ disturbed' = TRUE
  /\ UNCHANGED <<run, faults>>

PageFails(c) ==
  /\ c \in Dashboards
  /\ At(c, "ready") \/ Handling(c)
  /\ Fault
  /\ Refused(c)
  /\ disturbed' = (disturbed \/ (dialect = "postgres" /\ Touched(c) # {}))
  /\ UNCHANGED run

\* COMMIT on a connection that is gone is not retried.
GoneAtCommit(c) ==
  /\ ~conn[c].up
  /\ run[c].at \in {"commit", "purged"}
  /\ Goto(c, Handled(c))
  /\ UNCHANGED dbVars
  /\ Undisturbed

Faulty(c) ==
  \/ Crash(c) \/ Interrupt(c) \/ LoseConnection(c)
  \/ PageCommits(c) \/ PageFails(c) \/ GoneAtCommit(c)
=============================================================================

------------------------------ MODULE Database ------------------------------
(***************************************************************************)
(* src/storage.py: what one `Database` object promises the code above it.  *)
(*                                                                         *)
(* The contents are a set of facts: <<"table", t>> for an object of the    *)
(* schema, <<"row", t, k>> for a row of table t with primary key k.  A     *)
(* client has one connection; what it has written and not committed is a   *)
(* pair of sets of facts, which only it can see.                           *)
(*                                                                         *)
(* On Postgres a statement that finds the connection gone reopens it and   *)
(* runs again, once, on the new connection; the transaction the old one    *)
(* had open is gone and nobody is told.  Any other error rolls the         *)
(* transaction back and is raised.  SQLite has no connection to lose, and  *)
(* an error there leaves the transaction open.                             *)
(***************************************************************************)
EXTENDS Naturals, FiniteSets

CONSTANT Clients

VARIABLES
  dialect,   \* "sqlite" or "postgres"; never changes
  stored,    \* the committed facts
  conn,      \* client -> [up, ins, del]
  torn       \* client -> a reconnect has dropped part of its transaction

dbVars == <<dialect, stored, conn, torn>>

Dialects == {"sqlite", "postgres"}

Idle == [up |-> TRUE, ins |-> {}, del |-> {}]

Touched(c) == conn[c].ins \cup conn[c].del

\* What client c reads: the committed facts with its own writes applied.
View(c) == (stored \ conn[c].del) \cup conn[c].ins

\* The connection a statement of c runs on: its own, or a fresh one.
Live(c) == IF conn[c].up THEN conn[c] ELSE Idle

Reads(c) == (stored \ Live(c).del) \cup Live(c).ins

(***************************************************************************)
(* No other client holds a lock the statement needs: on Postgres the facts *)
(* it touches, on SQLite the whole file.                                   *)
(***************************************************************************)
Unlocked(c, facts) ==
  \A d \in Clients \ {c} :
     IF dialect = "sqlite" THEN Touched(d) = {} ELSE Touched(d) \cap facts = {}

Writes(c, rm, add) ==
  [up |-> TRUE, ins |-> (Live(c).ins \ rm) \cup add,
                del |-> (Live(c).del \cup rm) \ add]

\* A statement that succeeds: it removes the facts rm and adds the facts add.
Execute(c, rm, add) ==
  /\ Unlocked(c, rm \cup add)
  /\ conn' = [conn EXCEPT ![c] = Writes(c, rm, add)]
  /\ UNCHANGED <<dialect, stored, torn>>

\* A query: it only reopens a connection that is gone.
Query(c) ==
  /\ conn' = [conn EXCEPT ![c] = Live(c)]
  /\ UNCHANGED <<dialect, stored, torn>>

\* A statement the server refuses.
Refused(c) ==
  /\ conn' = [conn EXCEPT ![c] = IF dialect = "postgres" THEN Idle ELSE @]
  /\ UNCHANGED <<dialect, stored, torn>>

Commit(c) ==
  /\ conn[c].up
  /\ stored' = View(c)
  /\ conn' = [conn EXCEPT ![c] = Idle]
  /\ torn' = [torn EXCEPT ![c] = FALSE]
  /\ UNCHANGED dialect

Rollback(c) ==
  /\ conn' = [conn EXCEPT ![c] = Idle]
  /\ torn' = [torn EXCEPT ![c] = FALSE]
  /\ UNCHANGED <<dialect, stored>>

\* A script of DDL, which commits what was pending as well.  It is not
\* retried: on a connection that is gone it raises.
ExecuteScript(c, rm, add) ==
  /\ conn[c].up
  /\ Unlocked(c, rm \cup add)
  /\ stored' = (View(c) \ rm) \cup add
  /\ conn' = [conn EXCEPT ![c] = Idle]
  /\ torn' = [torn EXCEPT ![c] = FALSE]
  /\ UNCHANGED dialect

\* The pooler hangs up, or the network does: the server rolls back.
Drop(c) ==
  /\ dialect = "postgres"
  /\ conn[c].up
  /\ torn' = [torn EXCEPT ![c] = @ \/ Touched(c) # {}]
  /\ conn' = [conn EXCEPT ![c] = [up |-> FALSE, ins |-> {}, del |-> {}]]
  /\ UNCHANGED <<dialect, stored>>
=============================================================================

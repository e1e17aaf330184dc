---------------------------- MODULE RosterStore -----------------------------
(***************************************************************************)
(* save_roster of src/manual_roster.py: the week's roster is deleted and   *)
(* the pasted one inserted row by row, in one transaction.  A paste is the *)
(* sequence of the player keys its lines resolved to; nothing stops two    *)
(* lines from naming the same player.                                      *)
(***************************************************************************)
EXTENDS Session

CONSTANT Pastes

Spot(k) == <<"row", "my_roster", k>>

\* The players of a paste, as a set.
Named(p) == {p[i] : i \in DOMAIN p}

\* Neither caller saves a paste that names nobody.
ASSUME PastesAssumption == \A p \in Pastes : p # <<>> /\ p \in Seq(Named(p))

Players == UNION {Named(p) : p \in Pastes}

RosterIn(facts) == {k \in Players : Spot(k) \in facts}

SpotsIn(facts) == {Spot(k) : k \in RosterIn(facts)}

EverySpot == {Spot(k) : k \in Players}

\* The client is in the middle of a save.
Saving(c) == run[c].at \in {"delete", "insert", "commit"}

\* The DELETE finds its rows when it starts, and then waits for their locks.
\* A command saves its roster file only while the database has no roster.
BeginSave(c) ==
  /\ At(c, "ready")
  /\ c \in Dashboards \/ RosterIn(Reads(c)) = {}
  /\ \E p \in Pastes :
       run' = [run EXCEPT ![c].at = "delete", ![c].left = p,
                          ![c].aim = SpotsIn(Reads(c))]
  /\ Query(c)
  /\ disturbed' = (disturbed \/ (dialect = "postgres" /\ \E d \in Clients \ {c} : Saving(d)))
  /\ UNCHANGED faults

\* On Postgres a row inserted after the statement began is not deleted; on
\* SQLite the statement locks the file, whatever there is to delete.
Doomed(c) ==
  IF dialect = "sqlite" THEN EverySpot
  ELSE IF conn[c].up THEN run[c].aim ELSE SpotsIn(Reads(c))

DeleteRoster(c) ==
  /\ At(c, "delete")
  /\ Execute(c, Doomed(c), {})
  /\ Goto(c, "insert")
  /\ Undisturbed

InsertAndCommit(c) ==
  /\ At(c, "insert")
  /\ Spot(Head(run[c].left)) \notin Reads(c)
  /\ stored' = Reads(c) \cup {Spot(Head(run[c].left))}
  /\ conn' = [conn EXCEPT ![c] = Idle]
  /\ run' = [run EXCEPT ![c].left = Tail(@),
                        ![c].at = IF Len(run[c].left) = 1 THEN "commit" ELSE @]
  /\ UNCHANGED <<dialect, torn>>
  /\ Undisturbed

InsertSpot(c) ==
  /\ At(c, "insert")
  /\ Spot(Head(run[c].left)) \notin Reads(c)
  /\ Execute(c, {}, {Spot(Head(run[c].left))})
  /\ run' = [run EXCEPT ![c].left = Tail(@),
                        ![c].at = IF Len(run[c].left) = 1 THEN "commit" ELSE @]
  /\ Undisturbed

\* The primary key refuses a player who is on the roster already.
DuplicateSpot(c) ==
  /\ At(c, "insert")
  /\ Spot(Head(run[c].left)) \in Reads(c)
  /\ Unlocked(c, {Spot(Head(run[c].left))})
  /\ Refused(c)
  /\ Goto(c, Handled(c))
  /\ Undisturbed

CommitRoster(c) ==
  /\ At(c, "commit")
  /\ Commit(c)
  /\ Goto(c, Handled(c))
  /\ Undisturbed

SaveRoster(c) ==
  BeginSave(c) \/ DeleteRoster(c) \/ InsertSpot(c) \/ DuplicateSpot(c) \/ CommitRoster(c)
=============================================================================

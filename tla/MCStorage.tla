----------------------------- MODULE MCStorage ------------------------------
(* Model values for Storage, with one command line and one dashboard, and  *)
(* for CopyTables.  The two share no state, so a behaviour is one of       *)
(* either.                                                                 *)
EXTENDS Storage, CopyTables

VARIABLE part

MCPastes == {<<"kelce", "hill">>, <<"hill", "hill">>, <<"allen">>}

MCStart == {{}, Unversioned, DatabaseAt(5), DatabaseAt(6)}

MCLaptop ==
  << [table |-> "players", key |-> 1, source |-> "ours"],
     [table |-> "players", key |-> 2, source |-> "ours"],
     [table |-> "player_id_map", key |-> 1, source |-> "yahoo"],
     [table |-> "player_id_map", key |-> 2, source |-> "sleeper"],
     [table |-> "draft_picks", key |-> 1, source |-> "yahoo"],
     [table |-> "recommendations", key |-> 1, source |-> "ours"],
     [table |-> "job_runs", key |-> 1, source |-> "ours"],
     [table |-> "job_runs", key |-> 2, source |-> "ours"] >>

MCInit == Init /\ CopyInit /\ part \in {"storage", "copy"}

MCVars == <<sessionVars, copyVars, part>>

BoundsReached == copying = <<>> /\ copies = MaxCopies /\ drawn = MaxRuns

MCNext ==
  \/ part = "storage" /\ Next /\ UNCHANGED <<copyVars, part>>
  \/ part = "copy" /\ CopyNext /\ UNCHANGED <<sessionVars, part>>
  \/ part = "copy" /\ BoundsReached /\ UNCHANGED MCVars

MCSpec == MCInit /\ [][MCNext]_MCVars /\ Fairness
=============================================================================

--------------------------- MODULE MCDraftTracker ---------------------------
(***************************************************************************)
(* DraftTracker on small leagues.  The players whose Yahoo keys resolve    *)
(* are interchangeable; liveness runs do not use the symmetry.             *)
(***************************************************************************)
EXTENDS DraftTracker, TLC

MappedPlayers == Permutations(Players \ Unmapped)
=============================================================================

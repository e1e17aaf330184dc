----------------------------- MODULE DraftSheet -----------------------------
(***************************************************************************)
(* What the live draft promises about the stored board, whatever happens   *)
(* to the program that keeps it: one sheet of picks that changes by whole  *)
(* operations only.  A named pick written by hand leaves the player        *)
(* nowhere else; undo takes the last pick; a reset empties the sheet.      *)
(* DraftTracker, with one tracker and no database fault, implements this   *)
(* with the committed table for the sheet.                                 *)
(***************************************************************************)
EXTENDS DraftOrder

VARIABLE sheet

Init == sheet = EmptyBoard

(* record_pick and one turn of skip_to. *)
WriteDown(n, entry) ==
  /\ entry.source # "yahoo"
  /\ sheet' = [Without(sheet, Earlier(sheet, n, entry.player))
                 EXCEPT ![n] = entry]

(* One pick of sync_from_yahoo. *)
CopyFromYahoo(n, entry) ==
  /\ entry.source = "yahoo"
  /\ sheet' = [sheet EXCEPT ![n] = entry]

RubOut(n) ==
  /\ IsLast(sheet, n)
  /\ sheet' = [sheet EXCEPT ![n] = Vacant]

Clear == sheet' = EmptyBoard

Next ==
  \/ \E n \in Picks, entry \in Entries : WriteDown(n, entry)
  \/ \E n \in Picks, entry \in Entries : CopyFromYahoo(n, entry)
  \/ \E n \in Picks : RubOut(n)
  \/ Clear

Spec == Init /\ [][Next]_sheet
=============================================================================

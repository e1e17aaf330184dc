----------------------------- MODULE DraftPage -----------------------------
(***************************************************************************)
(* The draft page of dashboard.py (draft_view, pick_to_apply and           *)
(* _record_buttons): which pick the page shows, and what a tap on it does  *)
(* to the draft.                                                           *)
(*                                                                         *)
(* Streamlit runs the whole page once for every tap or change, and once    *)
(* more after a handler's st.rerun(); each such event is one action here,  *)
(* the tracker's methods in it are those of DraftOrder, done at once       *)
(* (DraftTracker has their statements and their faults).  What Streamlit   *)
(* itself does is external: the pick-number box has a key, so it keeps its *)
(* number from run to run; the releases of Streamlit that                  *)
(* requirements.txt allows differ in whether it still does when the        *)
(* page's own number has changed.                                          *)
(***************************************************************************)
EXTENDS Integers, FiniteSetsExt

CONSTANTS
  Drafted,    \* players to be drafted
  NoOne,      \* a pick whose player nobody caught
  TeamCount, RoundCount, LastPick,   \* as in DraftOrder
  MySlot      \* "Your draft slot"

ASSUME PageAssumption ==
  /\ NoOne \notin Drafted
  /\ TeamCount \in Nat \ {0} /\ RoundCount \in Nat \ {0} /\ LastPick \in Nat \ {0}
  /\ MySlot \in 1 .. TeamCount

LOCAL INSTANCE DraftOrder WITH
  Players <- Drafted, NoPlayer <- NoOne, NumTeams <- TeamCount,
  Rounds <- RoundCount, PickLimit <- LastPick

VARIABLES
  keeps,   \* whether the box keeps its number when the page's number changes
  page,    \* the draft and what the session remembers: [board: draft_picks;
           \* box: session_state["pick_number"], the number in the box;
           \* value: the number the page last gave it; applied: "_fcc_pick_applied";
           \* resumed: "_fcc_draft_resumed"; skipped: picks were marked as other teams']
  typed,   \* history: the number in the box is one a person put there
  gone,    \* history: the players last recorded with "Gone"
  phantom  \* history: picks were skipped with nobody at the box; the `typed` of those times

pageVars == <<keeps, page, typed, gone, phantom>>

None == 0

NextPick(board) == 1 + Max({n \in Picks : Occupied(board, n)} \cup {0})

EntryFor(player, team) ==
  [player |-> player, team |-> team,
   source |-> IF player = NoOne THEN "skipped" ELSE "manual"]

RecordAt(board, n, player, team) ==
  [Without(board, Earlier(board, n, player)) EXCEPT ![n] = EntryFor(player, team)]

SkipTo(board, target) ==
  [n \in Picks |-> IF n \in NextPick(board) .. target - 1
                   THEN EntryFor(NoOne, SlotOf(n)) ELSE board[n]]

-----------------------------------------------------------------------------
(* A run of the page down to its buttons.                                  *)

BoxDisagrees(widget, next, last) ==
  IF widget <= next THEN None ELSE widget

\* pick_to_apply: the pick to skip forward to, or None.
PickToApply(widget, next, last) ==
  IF last = None \/ widget = last \/ widget <= next THEN None ELSE widget

BoxShows(p) ==
  IF p.box = None \/ (~keeps /\ p.value # NextPick(p.board)) THEN NextPick(p.board) ELSE p.box

Shown(p) ==
  LET next   == NextPick(p.board)
      box    == BoxShows(p)
      last   == IF p.applied = None THEN box ELSE p.applied
      target == PickToApply(box, next, last)
      rest   == [p EXCEPT !.box = box, !.value = next]
  IN IF target # None
     THEN [rest EXCEPT !.board = SkipTo(p.board, target), !.applied = target,
                       !.value = target, !.skipped = TRUE]
     ELSE [rest EXCEPT !.applied = IF box # next THEN box ELSE last, !.skipped = FALSE]

\* The number the page works with: current_pick.
CurrentPick(p) == p.box

\* Bound: nothing is recorded at the last pick.
Going(p) == NextPick(p.board) < LastPick

-----------------------------------------------------------------------------
FreshPage(board) ==
  [board |-> board, box |-> None, value |-> None, applied |-> None,
   resumed |-> FALSE, skipped |-> FALSE]

PageInit ==
  /\ keeps \in BOOLEAN
  /\ page = Shown(FreshPage(EmptyBoard))
  /\ typed = FALSE /\ gone = {} /\ phantom = {}

\* What is shown after an event that nobody set the box in.
Settles(before, after) ==
  /\ page' = after
  /\ phantom' = phantom \cup (IF before.skipped \/ after.skipped THEN {typed} ELSE {})
  /\ typed' = (typed /\ ~before.skipped /\ ~after.skipped /\ after.box = page.box)
  /\ UNCHANGED keeps

(***************************************************************************)
(* A tap: the run up to the button, its handler, and the run after it.     *)
(* When the first has skipped picks the page starts again and the tap is   *)
(* lost.  A draft in progress asks first whether to resume it, and shows   *)
(* nothing else before that.                                               *)
(***************************************************************************)
Asking(p) == ~p.resumed /\ p.board # EmptyBoard

Seen == Shown(page)

Tap(asked, handled, marks) ==
  /\ Asking(Seen) = asked
  /\ IF Seen.skipped THEN Settles(Seen, Shown(Seen)) /\ UNCHANGED gone
     ELSE Settles(Seen, Shown(handled)) /\ gone' = marks

\* record_pick, at the next pick of the tracker, whatever number the page shows.
Recorded(player, team) ==
  [Seen EXCEPT !.board = RecordAt(@, NextPick(@), player, team)]

OnTheClock == SlotOf(NextPick(Seen.board))

Available == Drafted \ DraftedKeys(page.board)

DidntCatchIt ==
  /\ Going(page)
  /\ Tap(FALSE, Recorded(NoOne, OnTheClock), gone)

\* A name typed and tapped: the team is whose turn it is by the snake.
Mark ==
  /\ Going(page)
  /\ \E player \in Available : Tap(FALSE, Recorded(player, OnTheClock), gone \ {player})

Take ==
  /\ Going(page)
  /\ \E player \in Available : Tap(FALSE, Recorded(player, MySlot), gone \ {player})

\* Never to my own slot: 0 is the "?" of somebody else's.
SomebodyElse ==
  LET slot == SlotOf(CurrentPick(Seen)) IN IF slot = MySlot THEN 0 ELSE slot

Gone ==
  /\ Going(page)
  /\ \E player \in Available :
       Tap(FALSE, Recorded(player, SomebodyElse), gone \cup {player})

Undo ==
  Tap(FALSE,
      [Seen EXCEPT !.board = [n \in Picks |-> IF IsLast(@, n) THEN Vacant ELSE @[n]]], gone)

Continue == Tap(TRUE, [Seen EXCEPT !.resumed = TRUE], gone)

\* reset(), and the box forgets its number; what was last applied is remembered.
StartNewDraft ==
  Tap(TRUE, [Seen EXCEPT !.board = EmptyBoard, !.resumed = TRUE, !.box = None], {})

\* A person sets the box.
SetTheBox ==
  /\ \E n \in Picks \ {page.box} :
       LET p == Shown([page EXCEPT !.box = n]) IN
       /\ page' = IF p.skipped THEN Shown(p) ELSE p
       /\ typed' = ~p.skipped
  /\ UNCHANGED <<keeps, gone, phantom>>

\* The page is opened afresh, and asks whether to resume the draft it finds.
Reopen ==
  /\ page' = Shown(FreshPage(page.board))
  /\ typed' = FALSE
  /\ UNCHANGED <<keeps, gone, phantom>>

\* Another session, or `fcc draft`, records a pick or takes one back.
Elsewhere ==
  /\ \/ /\ Going(page)
        /\ page' = [page EXCEPT !.board = RecordAt(@, NextPick(@), NoOne, SlotOf(NextPick(@)))]
     \/ \E n \in Picks : /\ IsLast(page.board, n)
                          /\ page' = [page EXCEPT !.board[n] = Vacant]
  /\ UNCHANGED <<keeps, typed, gone, phantom>>

PageNext ==
  \/ DidntCatchIt \/ Mark \/ Take \/ Gone \/ Undo
  \/ Continue \/ StartNewDraft \/ SetTheBox \/ Reopen \/ Elsewhere

PageSpec == PageInit /\ [][PageNext]_pageVars

-----------------------------------------------------------------------------
(***************************************************************************)
(* A number that no person put into the box is never obeyed: not after a   *)
(* reload, a new draft, an undo or a pick made elsewhere                   *)
(* (dashboard.py:46, "never the box merely disagreeing with the draft").   *)
(***************************************************************************)
NobodysNumberIsNotObeyed == FALSE \notin phantom

(***************************************************************************)
(* "Gone" always means somebody else's (dashboard.py:534), also when the   *)
(* pick the page shows is not the one record_pick writes.                  *)
(***************************************************************************)
GoneIsNotMine == gone \cap RosterOf(page.board, MySlot) = {}

PageIsSound == NobodysNumberIsNotObeyed /\ GoneIsNotMine

(***************************************************************************)
(* "the trigger is a PERSON CHANGING THE BOX" (dashboard.py:53): picks are *)
(* skipped only in the page run in which a person changed it.              *)
(***************************************************************************)
NoPhantomPicks == phantom = {}
=============================================================================

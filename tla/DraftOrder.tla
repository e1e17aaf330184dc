----------------------------- MODULE DraftOrder -----------------------------
(***************************************************************************)
(* What a draft board is made of, shared by the tracker and by its         *)
(* abstract specification: the picks, the entries a pick can hold, the     *)
(* snake order, and the questions src/draft/live.py asks of its `picks`    *)
(* dictionary (drafted_keys, next_pick, roster_of, team_key_for_pick).     *)
(***************************************************************************)
EXTENDS Integers, FiniteSets

CONSTANTS
  Players,   \* canonical player keys
  NoPlayer,  \* the None of player_key: a pick whose player is unknown
  NumTeams,  \* teams in the league
  Rounds,    \* rounds of the draft
  PickLimit  \* bound: the highest pick number the model writes

ASSUME DraftAssumption ==
  /\ NoPlayer \notin Players
  /\ NumTeams \in Nat \ {0}
  /\ Rounds \in Nat \ {0}
  /\ PickLimit \in Nat \ {0}

Picks == 1..PickLimit
Slots == 1..NumTeams
TotalPicks == NumTeams * Rounds

(* A team key is a number here.  1..NumTeams are the strings "1", "2", ...  *)
(* that record_pick writes (draft slots); 0 is the "?" the board writes     *)
(* for "somebody else"; NumTeams + s is Yahoo's own key of the team that    *)
(* drafts at slot s, which is a different string from str(s).               *)
TeamKeys == 0..(2 * NumTeams)
YahooTeam(slot) == NumTeams + slot

Sources == {"manual", "skipped", "yahoo"}
Entries == [player: Players \cup {NoPlayer}, team: TeamKeys, source: Sources]

(* A pick number that is not a key of the dictionary. *)
Vacant == [player |-> NoPlayer, team |-> 0, source |-> "vacant"]

Boards == [Picks -> Entries \cup {Vacant}]
EmptyBoard == [n \in Picks |-> Vacant]

Occupied(board, n) == board[n] # Vacant
Named(board, n) == board[n].player # NoPlayer

DraftedKeys(board) == {board[n].player : n \in Picks} \ {NoPlayer}
RosterOf(board, team) ==
  {board[n].player : n \in {m \in Picks : board[m].team = team}} \ {NoPlayer}

(* max(picks), where there is one, and next_pick: one past it, or 1. *)
IsLast(board, n) ==
  /\ Occupied(board, n)
  /\ \A m \in Picks : m > n => ~Occupied(board, m)
IsNext(board, n) ==
  /\ \A m \in Picks : m >= n => ~Occupied(board, m)
  /\ n > 1 => Occupied(board, n - 1)

RoundOf(n) == ((n - 1) \div NumTeams) + 1

SlotWithoutWrap(n) == n

StraightSlotOf(n) == ((n - 1) % NumTeams) + 1
SlotOf(n) ==
  IF RoundOf(n) % 2 = 0
    THEN NumTeams - StraightSlotOf(n) + 1
    ELSE StraightSlotOf(n)

(* DraftPosition.picks and next_pick_after of src/draft/survival.py, which  *)
(* compute the same order the other way round: from a slot to its picks.    *)
PicksOfSlot(slot) ==
  {(r - 1) * NumTeams + (IF r % 2 = 0 THEN NumTeams - slot + 1 ELSE slot)
     : r \in 1..Rounds}
NextPickAfter(slot, n) ==
  LET later == {p \in PicksOfSlot(slot) : p > n}
  IN  IF later = {} THEN 0 ELSE CHOOSE p \in later : \A q \in later : p <= q

(* Every other pick that holds the player: what record_pick drops before    *)
(* it writes the correction.  A placeholder names nobody and drops nothing. *)
Earlier(board, n, player) ==
  IF player = NoPlayer
    THEN {}
    ELSE {m \in Picks : m # n /\ board[m].player = player}

Without(board, dropped) ==
  [m \in Picks |-> IF m \in dropped THEN Vacant ELSE board[m]]
=============================================================================

----------------------------- MODULE DraftProofs -----------------------------
(***************************************************************************)
(* Proofs about the draft: its order, and the tracker that keeps it, for   *)
(* every league size, player set and bound.  One tracker on a healthy      *)
(* database implements the sheet of picks, and its skips claim nobody; a   *)
(* green sync holds with any number of trackers and faults.                *)
(***************************************************************************)
EXTENDS DraftTracker, TLAPS

-----------------------------------------------------------------------------
(***************************************************************************)
(* The snake order is computed twice in the program: from a pick to its    *)
(* slot by the tracker (live.py: team_key_for_pick), and from a slot to    *)
(* its picks by the advice (survival.py: DraftPosition.picks).  The two    *)
(* agree for every league size and number of rounds.                       *)
(***************************************************************************)

(* Quotient and remainder by the number of teams.                           *)
LEMMA Division ==
  ASSUME NEW n \in Nat
  PROVE  /\ n \div NumTeams \in Nat
         /\ n % NumTeams \in 0..(NumTeams - 1)
         /\ n = NumTeams * (n \div NumTeams) + (n % NumTeams)
BY DraftAssumption

(* No other pair is quotient and remainder.                                 *)
LEMMA DivisionUnique ==
  ASSUME NEW q \in Nat, NEW r \in 0..(NumTeams - 1)
  PROVE  /\ (NumTeams * q + r) \div NumTeams = q
         /\ (NumTeams * q + r) % NumTeams = r
BY DraftAssumption

(* Every pick of the draft belongs to the slot the tracker gives it.        *)
THEOREM PickIsOfItsSlot ==
  ASSUME NEW n \in 1..TotalPicks
  PROVE  n \in PicksOfSlot(SlotOf(n))
<1> DEFINE q == (n - 1) \div NumTeams
           r == (n - 1) % NumTeams
<1>1. /\ q \in Nat /\ r \in 0..(NumTeams - 1) /\ n - 1 = NumTeams * q + r
      /\ n \in Nat
  BY Division, DraftAssumption DEF TotalPicks
<1>2. q < Rounds
  BY <1>1, DraftAssumption, SMTT(30) DEF TotalPicks
<1>3. RoundOf(n) = q + 1 /\ StraightSlotOf(n) = r + 1 /\ q + 1 \in 1..Rounds
  BY <1>1, <1>2, DraftAssumption DEF RoundOf, StraightSlotOf
<1>4. n = ((q + 1) - 1) * NumTeams + (r + 1)
  BY <1>1, DraftAssumption
<1>5. CASE (q + 1) % 2 = 0
  <2>1. SlotOf(n) = NumTeams - (r + 1) + 1
    BY <1>3, <1>5 DEF SlotOf
  <2>2. NumTeams - SlotOf(n) + 1 = r + 1
    BY <1>1, <2>1, DraftAssumption
  <2>3. QED
    BY <1>3, <1>4, <1>5, <2>2 DEF PicksOfSlot
<1>6. CASE (q + 1) % 2 # 0
  BY <1>3, <1>4, <1>6 DEF SlotOf, PicksOfSlot
<1>7. QED
  BY <1>5, <1>6

(* Every pick the advice counts as a slot's is one the tracker gives it.    *)
THEOREM SlotOwnsItsPicks ==
  ASSUME NEW slot \in Slots, NEW n \in PicksOfSlot(slot)
  PROVE  SlotOf(n) = slot
<1>1. PICK rnd \in 1..Rounds :
        n = (rnd - 1) * NumTeams
              + (IF rnd % 2 = 0 THEN NumTeams - slot + 1 ELSE slot)
  BY DEF PicksOfSlot
<1> DEFINE straight == IF rnd % 2 = 0 THEN NumTeams - slot + 1 ELSE slot
<1>2. /\ straight \in 1..NumTeams /\ straight - 1 \in 0..(NumTeams - 1)
      /\ rnd \in Nat /\ rnd - 1 \in Nat
  BY DraftAssumption DEF Slots
<1>a. n = (rnd - 1) * NumTeams + straight
  BY <1>1
<1> HIDE DEF straight
<1>3. n - 1 = NumTeams * (rnd - 1) + (straight - 1)
  BY <1>a, <1>2, DraftAssumption
<1>4. (n - 1) \div NumTeams = rnd - 1 /\ (n - 1) % NumTeams = straight - 1
  BY <1>2, <1>3, DivisionUnique
<1>5. RoundOf(n) = rnd /\ StraightSlotOf(n) = straight
  BY <1>2, <1>4, DraftAssumption DEF RoundOf, StraightSlotOf
<1>6. QED
  BY <1>5, DraftAssumption DEF SlotOf, Slots, straight

(* A slot's pick of round rnd, and its place among the round's picks.       *)
PlaceIn(slot, rnd) == IF rnd % 2 = 0 THEN NumTeams - slot + 1 ELSE slot
PickIn(slot, rnd) == (rnd - 1) * NumTeams + PlaceIn(slot, rnd)

(* A slot's picks come in the order of the rounds.                          *)
LEMMA RoundsInOrder ==
  ASSUME NEW slot \in Slots, NEW r \in Nat \ {0}, NEW s \in Nat \ {0}, r <= s
  PROVE  /\ PickIn(slot, r) \in Nat /\ PickIn(slot, r) <= PickIn(slot, s)
         /\ (r - 1) * NumTeams < PickIn(slot, r) /\ PickIn(slot, r) <= r * NumTeams
<1>1. PlaceIn(slot, r) \in 1..NumTeams /\ PlaceIn(slot, s) \in 1..NumTeams
  BY DraftAssumption DEF PlaceIn, Slots
<1>2. /\ (r - 1) * NumTeams \in Nat /\ r * NumTeams = (r - 1) * NumTeams + NumTeams
  BY DraftAssumption
<1>3. CASE r < s
  <2>1. (s - 1) * NumTeams = r * NumTeams + (s - 1 - r) * NumTeams
    BY DraftAssumption
  <2>2. (s - 1 - r) * NumTeams \in Nat
    BY <1>3, DraftAssumption
  <2> QED
    BY <1>1, <1>2, <2>1, <2>2, DraftAssumption DEF PickIn
<1> QED
  BY <1>1, <1>2, <1>3, DraftAssumption DEF PickIn

(* Of a slot's picks after n, where there are any, one is the earliest: the *)
(* one of the round n has reached, or the one of the round after that.      *)
LEMMA EarliestPick ==
  ASSUME NEW slot \in Slots, NEW n \in Nat, NEW P,
         P = {p \in PicksOfSlot(slot) : p > n}, P # {}
  PROVE  \E p \in P : \A q \in P : p <= q
<1> DEFINE R == n \div NumTeams + 1
           first == IF PickIn(slot, R) > n THEN R ELSE R + 1
<1>1. P = {p \in {PickIn(slot, rnd) : rnd \in 1..Rounds} : p > n}
  BY DEF PicksOfSlot, PickIn, PlaceIn
<1>2. /\ R \in Nat \ {0} /\ (R - 1) * NumTeams <= n /\ n < R * NumTeams
      /\ first \in Nat \ {0}
  <2>1. n \div NumTeams \in Nat /\ n % NumTeams \in 0..(NumTeams - 1)
        /\ n = NumTeams * (n \div NumTeams) + (n % NumTeams)
    BY Division
  <2> QED
    BY <2>1, DraftAssumption
<1>3. ASSUME NEW rnd \in 1..Rounds, PickIn(slot, rnd) > n
      PROVE  first <= rnd
  <2>1. R <= rnd
    <3> SUFFICES ASSUME rnd < R PROVE FALSE
      BY <1>2, DraftAssumption
    <3>1. PickIn(slot, rnd) <= rnd * NumTeams
      BY RoundsInOrder, DraftAssumption
    <3>2. rnd * NumTeams <= (R - 1) * NumTeams
      <4>1. (R - 1) * NumTeams = rnd * NumTeams + (R - 1 - rnd) * NumTeams
        BY <1>2, DraftAssumption
      <4>2. (R - 1 - rnd) * NumTeams \in Nat
        BY <1>2, DraftAssumption
      <4> HIDE DEF R
      <4> QED
        BY <4>1, <4>2, <1>2, DraftAssumption
    <3>3. /\ PickIn(slot, rnd) \in Nat /\ rnd * NumTeams \in Nat
          /\ (R - 1) * NumTeams \in Nat
      BY <1>2, RoundsInOrder, DraftAssumption
    <3> HIDE DEF R
    <3> QED
      BY <1>2, <1>3, <3>1, <3>2, <3>3
  <2> QED
    BY <1>2, <1>3, <2>1
<1>4. PickIn(slot, first) > n
  <2>1. CASE first = R + 1
    <3>1. (first - 1) * NumTeams < PickIn(slot, first) /\ PickIn(slot, first) \in Nat
      BY <1>2, RoundsInOrder
    <3>2. (first - 1) * NumTeams = R * NumTeams
      BY <2>1, <1>2
    <3> HIDE DEF R, first
    <3>3. R * NumTeams \in Nat
      BY <1>2, DraftAssumption
    <3> QED
      BY <1>2, <3>1, <3>2, <3>3
  <2> QED
    BY <2>1, <1>2
<1>5. \E rnd \in 1..Rounds : PickIn(slot, rnd) > n
  BY <1>1
<1> HIDE DEF first
<1>6. first \in 1..Rounds
  BY <1>2, <1>3, <1>5, DraftAssumption
<1>7. \A rnd \in 1..Rounds : PickIn(slot, rnd) > n => PickIn(slot, first) <= PickIn(slot, rnd)
  BY <1>2, <1>3, RoundsInOrder, DraftAssumption
<1> QED
  BY <1>1, <1>4, <1>6, <1>7

(* The advice's next pick is the slot's, lies ahead, and is the first such  *)
(* the tracker knows of; where there is none the tracker knows of none.     *)
THEOREM NextPickIsNext ==
  ASSUME NEW slot \in Slots, NEW n \in Nat
  PROVE  LET next == NextPickAfter(slot, n) IN
         /\ next # 0 => next > n /\ SlotOf(next) = slot
         /\ \A p \in 1..TotalPicks :
              n < p /\ SlotOf(p) = slot => next # 0 /\ next <= p
<1> DEFINE later == {p \in PicksOfSlot(slot) : p > n}
           next == NextPickAfter(slot, n)
<1>1. PicksOfSlot(slot) \subseteq Nat /\ 0 \notin later
  BY DraftAssumption DEF PicksOfSlot, Slots
<1>2. later = {} => next = 0
  BY DEF NextPickAfter
<1>3. later # {} => next \in later /\ \A q \in later : next <= q
  <2> SUFFICES ASSUME later # {}
               PROVE  next \in later /\ \A q \in later : next <= q
    OBVIOUS
  <2>1. next = CHOOSE p \in later : \A q \in later : p <= q
    BY DEF NextPickAfter
  <2>2. \E p \in later : \A q \in later : p <= q
    BY <1>1, EarliestPick
  <2> HIDE DEF later, next
  <2> QED
    BY <2>1, <2>2
<1>4. next # 0 => next > n /\ SlotOf(next) = slot
  BY <1>2, <1>3, SlotOwnsItsPicks
<1>5. ASSUME NEW p \in 1..TotalPicks, n < p, SlotOf(p) = slot
      PROVE  next # 0 /\ next <= p
  <2>1. p \in later
    BY <1>5, PickIsOfItsSlot
  <2> HIDE DEF next
  <2> QED
    BY <1>1, <1>3, <2>1
<1> QED
  BY <1>4, <1>5
-----------------------------------------------------------------------------
(* The snake order gives every pick to a team of the league.                *)
LEMMA SlotInLeague ==
  ASSUME NEW n \in Nat \ {0}
  PROVE  SlotOf(n) \in Slots
<1>1. (n - 1) % NumTeams \in 0..(NumTeams - 1)
  BY DraftAssumption
<1>2. QED
  BY <1>1, DraftAssumption DEF SlotOf, StraightSlotOf, Slots

(* What a sync is working on lies within the results it fetched, and those  *)
(* within the board.                                                        *)
SyncInBounds ==
  /\ Len(yahoo) <= PickLimit
  /\ \A t \in Trackers :
       pc[t] = "sync" \/ (pc[t] = "store" /\ caller[t] = "sync") =>
         /\ at[t] \in 1..(goal[t] + 1)
         /\ goal[t] <= Len(yahoo)
         /\ pc[t] = "store" => at[t] <= goal[t]
  /\ \A t \in Trackers : pc[t] # "store" => caller[t] = "hand"

TypeInv == TypeOK /\ SyncInBounds

(* A pick copied from Yahoo is an entry.                                    *)
LEMMA YahooEntryType ==
  ASSUME TypeOK, NEW n \in 1..Len(yahoo)
  PROVE  YahooEntry(n) \in Entries
<1>1. SlotOf(n) \in Slots /\ yahoo[n] \in Players
  BY SlotInLeague DEF TypeOK
<1>2. YahooTeam(SlotOf(n)) \in TeamKeys
  BY <1>1, DraftAssumption DEF YahooTeam, TeamKeys, Slots
<1>3. QED
  BY <1>1, <1>2 DEF YahooEntry, Entries, Resolve, Sources

(* So is a pick typed by hand.                                              *)
LEMMA HandEntryType ==
  ASSUME NEW player \in Players \cup {NoPlayer}, NEW team \in TeamKeys
  PROVE  HandEntry(player, team) \in Entries
BY DEF HandEntry, Entries, Sources

(* The slot a pick falls to is a team key.                                  *)
LEMMA SlotIsTeamKey ==
  ASSUME NEW n \in Picks
  PROVE  SlotOf(n) \in TeamKeys
<1>1. SlotOf(n) \in Slots
  BY SlotInLeague DEF Picks
<1>2. QED
  BY <1>1, DraftAssumption DEF Slots, TeamKeys

(* Boards stay boards when entries are dropped or written.                  *)
LEMMA BoardsClosed ==
  ASSUME NEW b \in Boards, NEW dropped, NEW n,
         NEW e \in Entries \cup {Vacant}
  PROVE  /\ EmptyBoard \in Boards
         /\ Without(b, dropped) \in Boards
         /\ [b EXCEPT ![n] = e] \in Boards
         /\ [Without(b, dropped) EXCEPT ![n] = e] \in Boards
BY DEF Boards, EmptyBoard, Without

(* Every step keeps the type invariant and the bounds of a sync.            *)
LEMMA TypeInvInductive == TypeInv /\ [Next]_vars => TypeInv'
<1> SUFFICES ASSUME TypeInv, [Next]_vars
             PROVE  TypeInv'
  OBVIOUS
<1> USE TrackerAssumption, DraftAssumption
<1>0. CASE UNCHANGED vars
  BY <1>0 DEF TypeInv, TypeOK, SyncInBounds, vars, control, locals, budgets
<1>1. ASSUME NEW t \in Trackers, Open(t)
      PROVE  TypeInv'
  BY <1>1 DEF TypeInv, TypeOK, SyncInBounds, Open, locals, budgets
<1>2. ASSUME NEW t \in Trackers, NEW player \in Players \cup {NoPlayer},
             NEW n \in Picks, NEW team \in HandTeams \cup {SlotOf(n)},
             RecordPick(t, player, n, team)
      PROVE  TypeInv'
  <2>1. HandEntry(player, team) \in Entries
    BY HandEntryType, SlotIsTeamKey
  <2>2. mem' \in [Trackers -> Boards] /\ rows' \in Boards
    BY <1>2, <2>1, BoardsClosed DEF TypeInv, TypeOK, RecordPick
  <2>3. TypeOK'
    BY <1>2, <2>1, <2>2
       DEF TypeInv, TypeOK, RecordPick, ByHand, Storing, Picks
  <2>4. SyncInBounds'
    BY <1>2 DEF TypeInv, TypeOK, SyncInBounds, RecordPick, ByHand, Storing
  <2>5. QED
    BY <2>3, <2>4 DEF TypeInv
<1>3. ASSUME NEW t \in Trackers, UndoLast(t)
      PROVE  TypeInv'
  <2>1. PICK n \in Picks : /\ mem' = [mem EXCEPT ![t][n] = Vacant]
                           /\ rows' = [rows EXCEPT ![n] = Vacant]
                           /\ disk' = rows'
    BY <1>3 DEF UndoLast
  <2>2. mem' \in [Trackers -> Boards] /\ rows' \in Boards /\ disk' \in Boards
    BY <2>1, BoardsClosed DEF TypeInv, TypeOK
  <2>3. QED
    BY <1>3, <2>2
       DEF TypeInv, TypeOK, SyncInBounds, UndoLast, ByHand, Return
<1>4. ASSUME NEW t \in Trackers, Reset(t)
      PROVE  TypeInv'
  <2>1. mem' \in [Trackers -> Boards] /\ rows' \in Boards /\ disk' \in Boards
    BY <1>4 DEF TypeInv, TypeOK, Reset, Boards, EmptyBoard
  <2>2. QED
    BY <1>4, <2>1 DEF TypeInv, TypeOK, SyncInBounds, Reset, ByHand, Return
<1>5. ASSUME NEW t \in Trackers, NEW target \in Picks, SkipTo(t, target)
      PROVE  TypeInv'
  BY <1>5 DEF TypeInv, TypeOK, SyncInBounds, SkipTo, ByHand, Picks
<1>6. ASSUME NEW t \in Trackers, Store(t)
      PROVE  TypeInv'
  <2>1. rows' \in Boards /\ disk' \in Boards
    BY <1>6, BoardsClosed DEF TypeInv, TypeOK, Store
  <2>2. pc[t] = "store" /\ UNCHANGED <<mem, lastSyncOk, yahoo, budgets>>
    BY <1>6 DEF Store
  <2>3. CASE caller[t] = "hand"
    <3>1. Return(t)
      BY <1>6, <2>3 DEF Store, ReturnToCaller
    <3>2. QED
      BY <2>1, <2>2, <3>1
         DEF TypeInv, TypeOK, SyncInBounds, Return, budgets
  <2>4. CASE caller[t] # "hand"
    <3>1. /\ pc' = [pc EXCEPT ![t] = caller[t]]
          /\ at' = [at EXCEPT ![t] = IF caller[t] = "sync" THEN at[t] + 1 ELSE 1]
          /\ caller' = [caller EXCEPT ![t] = "hand"]
          /\ entry' = [entry EXCEPT ![t] = Vacant]
          /\ UNCHANGED goal
      BY <1>6, <2>4 DEF Store, ReturnToCaller
    <3>2. TypeOK'
      BY <2>1, <2>2, <2>4, <3>1 DEF TypeInv, TypeOK, budgets
    <3>3. SyncInBounds'
      BY <2>2, <2>4, <3>1 DEF TypeInv, TypeOK, SyncInBounds
    <3>4. QED
      BY <3>2, <3>3 DEF TypeInv
  <2>5. QED
    BY <2>3, <2>4
<1>7. ASSUME NEW t \in Trackers, SkipTurn(t)
      PROVE  TypeInv'
  <2>1. PICK n \in Picks : SkipTurnAt(t, n)
    BY <1>7 DEF SkipTurn
  <2>2. HandEntry(NoPlayer, SlotOf(n)) \in Entries
    BY HandEntryType, SlotIsTeamKey
  <2>3. mem' \in [Trackers -> Boards]
    BY <2>1, <2>2, BoardsClosed DEF TypeInv, TypeOK, SkipTurnAt
  <2>4. QED
    BY <2>1, <2>2, <2>3
       DEF TypeInv, TypeOK, SyncInBounds, SkipTurnAt, Storing, Picks, budgets
<1>8. ASSUME NEW t \in Trackers, SkipDone(t)
      PROVE  TypeInv'
  BY <1>8 DEF TypeInv, TypeOK, SyncInBounds, SkipDone, Return, budgets
<1>9. ASSUME NEW t \in Trackers, SyncResult(t)
      PROVE  TypeInv'
  <2>1. at[t] \in 1..Len(yahoo) /\ at[t] \in Picks
    BY <1>9 DEF TypeInv, TypeOK, SyncInBounds, SyncResult, Picks
  <2>2. YahooEntry(at[t]) \in Entries
    BY <2>1, YahooEntryType DEF TypeInv
  <2>3. mem' \in [Trackers -> Boards]
    <3>1. \/ UNCHANGED mem
          \/ mem' = [mem EXCEPT ![t][at[t]] = YahooEntry(at[t])]
      BY <1>9 DEF SyncResult
    <3>2. mem \in [Trackers -> Boards]
      BY DEF TypeInv, TypeOK
    <3>3. [mem[t] EXCEPT ![at[t]] = YahooEntry(at[t])] \in Boards
      BY <2>2, <3>2, BoardsClosed
    <3>4. QED
      BY <3>1, <3>2, <3>3
  <2>4. CASE AlreadyCopied(t, at[t])
    <3>1. /\ at' = [at EXCEPT ![t] = at[t] + 1]
          /\ pc[t] = "sync" /\ at[t] <= goal[t]
          /\ UNCHANGED <<mem, pc, caller, entry, lastSyncOk, goal, rows, disk,
                         yahoo, edits, crashes, drops>>
      BY <1>9, <2>4 DEF SyncResult, budgets
    <3>2. TypeOK'
      BY <3>1 DEF TypeInv, TypeOK
    <3>3. SyncInBounds'
      BY <3>1 DEF TypeInv, TypeOK, SyncInBounds
    <3>4. QED
      BY <3>2, <3>3 DEF TypeInv
  <2>5. CASE ~AlreadyCopied(t, at[t])
    <3>1. /\ entry' = [entry EXCEPT ![t] = YahooEntry(at[t])]
          /\ at' = [at EXCEPT ![t] = at[t]]
          /\ pc' = [pc EXCEPT ![t] = "store"]
          /\ caller' = [caller EXCEPT ![t] = "sync"]
          /\ pc[t] = "sync" /\ at[t] <= goal[t]
          /\ UNCHANGED <<lastSyncOk, goal, rows, disk, yahoo, edits, crashes,
                         drops>>
      BY <1>9, <2>5 DEF SyncResult, Storing, budgets
    <3>2. TypeOK'
      BY <2>2, <2>3, <3>1 DEF TypeInv, TypeOK
    <3>3. SyncInBounds'
      BY <3>1 DEF TypeInv, TypeOK, SyncInBounds
    <3>4. QED
      BY <3>2, <3>3 DEF TypeInv
  <2>6. QED
    BY <2>4, <2>5
<1>10. ASSUME NEW t \in Trackers, SyncDone(t)
       PROVE  TypeInv'
  BY <1>10 DEF TypeInv, TypeOK, SyncInBounds, SyncDone, Return, budgets
<1>11. ASSUME NEW t \in Trackers, SyncFetch(t)
       PROVE  TypeInv'
  BY <1>11 DEF TypeInv, TypeOK, SyncInBounds, SyncFetch, budgets
<1>12. ASSUME NEW t \in Trackers, SyncFails(t)
       PROVE  TypeInv'
  BY <1>12 DEF TypeInv, TypeOK, SyncInBounds, SyncFails, Return, budgets
<1>13. ASSUME NEW t \in Trackers, StoreFails(t)
       PROVE  TypeInv'
  BY <1>13 DEF TypeInv, TypeOK, SyncInBounds, StoreFails, Return
<1>14. ASSUME YahooPick
       PROVE  TypeInv'
  BY <1>14
     DEF TypeInv, TypeOK, SyncInBounds, YahooPick, control, locals, budgets
<1>15. ASSUME Crash
       PROVE  TypeInv'
  BY <1>15 DEF TypeInv, TypeOK, SyncInBounds, Crash, Boards, EmptyBoard
<1>16. ASSUME DropConnection
       PROVE  TypeInv'
  BY <1>16 DEF TypeInv, TypeOK, SyncInBounds, DropConnection, control, locals
<1>17. QED
  BY <1>0, <1>1, <1>2, <1>3, <1>4, <1>5, <1>6, <1>7, <1>8, <1>9, <1>10, <1>11,
     <1>12, <1>13, <1>14, <1>15, <1>16 DEF Next, Hand, Carry

(* Every variable keeps its type, whatever the trackers, the faults and     *)
(* Yahoo do.                                                                *)
THEOREM TypeCorrect == Spec => []TypeOK
<1>1. Init => TypeInv
  BY DraftAssumption, TrackerAssumption
     DEF Init, TypeInv, TypeOK, SyncInBounds, Boards, EmptyBoard
<1>2. QED
  BY <1>1, TypeInvInductive, PTL DEF Spec, TypeInv

----------------------------------------------------------------------------
(* What one write does to a board on which every repeated player is typed   *)
(* once and copied once, and every copied pick is Yahoo's.                  *)
SoundBoard(board) == CopiesAreYahoos(board) /\ OneTypedOneCopied(board)

(* The empty board is sound.                                                *)
LEMMA EmptyIsSound == SoundBoard(EmptyBoard)
BY DEF SoundBoard, CopiesAreYahoos, OneTypedOneCopied, EmptyBoard, Vacant,
       Repeated, Named

(* Dropping nothing changes nothing.                                        *)
LEMMA WithoutNone ==
  ASSUME NEW b \in Boards
  PROVE  Without(b, {}) = b
BY DEF Without, Boards

(* A typed entry, with the picks it clears gone.                            *)
LEMMA TypedIsSound ==
  ASSUME NEW b \in Boards, SoundBoard(b),
         NEW n \in Picks, NEW e \in Entries, e.source # "yahoo"
  PROVE  SoundBoard([Without(b, Earlier(b, n, e.player)) EXCEPT ![n] = e])
<1> DEFINE c == Without(b, Earlier(b, n, e.player))
           new == [c EXCEPT ![n] = e]
<1>1. \A m \in Picks : new[m] = IF m = n THEN e ELSE c[m]
  BY DEF Without
<1>2. \A m \in Picks : c[m] = b[m] \/ c[m] = Vacant
  BY DEF Without
<1>3. \A m \in Picks : m # n /\ e.player # NoPlayer => c[m].player # e.player
  BY DraftAssumption DEF Without, Earlier, Vacant
<1>4. CopiesAreYahoos(new)
  BY <1>1, <1>2 DEF SoundBoard, CopiesAreYahoos, Vacant
<1>5. OneTypedOneCopied(new)
  <2> SUFFICES ASSUME NEW p \in Picks, NEW q \in Picks, Repeated(new, p, q)
               PROVE  (new[p].source = "yahoo") # (new[q].source = "yahoo")
    BY DEF OneTypedOneCopied
  <2>1. p # n /\ q # n
    BY <1>1, <1>3 DEF Repeated, Named
  <2>2. new[p] = b[p] /\ new[q] = b[q]
    BY <1>1, <1>2, <2>1 DEF Repeated, Named, Vacant
  <2>3. Repeated(b, p, q)
    BY <2>2 DEF Repeated, Named
  <2>4. QED
    BY <2>2, <2>3 DEF SoundBoard, OneTypedOneCopied
<1>6. QED
  BY <1>4, <1>5 DEF SoundBoard

(* A pick copied from Yahoo, where no player has two picks.                 *)
LEMMA CopiedIsSound ==
  ASSUME NEW b \in Boards, SoundBoard(b), YahooOn,
         NEW n \in Picks, n \in 1..Len(yahoo),
         \A i, j \in 1..Len(yahoo) : yahoo[i] = yahoo[j] => i = j
  PROVE  SoundBoard([b EXCEPT ![n] = YahooEntry(n)])
<1> DEFINE new == [b EXCEPT ![n] = YahooEntry(n)]
<1>1. \A m \in Picks : new[m] = IF m = n THEN YahooEntry(n) ELSE b[m]
  BY DEF Boards
<1>2. YahooEntry(n).source = "yahoo" /\ YahooEntry(n).player = Resolve(yahoo[n])
  BY DEF YahooEntry
<1>3. CopiesAreYahoos(new)
  BY <1>1, <1>2 DEF SoundBoard, CopiesAreYahoos
<1>4. OneTypedOneCopied(new)
  <2> SUFFICES ASSUME NEW p \in Picks, NEW q \in Picks, Repeated(new, p, q)
               PROVE  (new[p].source = "yahoo") # (new[q].source = "yahoo")
    BY DEF OneTypedOneCopied
  <2>1. CASE p # n /\ q # n
    BY <1>1, <2>1 DEF Repeated, Named, SoundBoard, OneTypedOneCopied
  <2>2. CASE p = n \/ q = n
    <3>1. ~(new[p].source = "yahoo" /\ new[q].source = "yahoo")
      BY <1>3 DEF CopiesAreYahoos, Repeated, Named, Resolve
    <3>2. QED
      BY <1>1, <1>2, <2>2, <3>1
  <2>3. QED
    BY <2>1, <2>2
<1>5. QED
  BY <1>3, <1>4 DEF SoundBoard

(* A sound board stays sound when a pick is rubbed out.                     *)
LEMMA RubbedOutIsSound ==
  ASSUME NEW b \in Boards, SoundBoard(b), NEW n \in Picks
  PROVE  SoundBoard([b EXCEPT ![n] = Vacant])
<1> DEFINE new == [b EXCEPT ![n] = Vacant]
<1>1. \A m \in Picks : new[m] = IF m = n THEN Vacant ELSE b[m]
  BY DEF Boards
<1>2. QED
  BY <1>1 DEF SoundBoard, CopiesAreYahoos, OneTypedOneCopied, Repeated, Named,
              Vacant

----------------------------------------------------------------------------
(* SoloInv is inductive: one lemma per kind of step.  `me` is the only      *)
(* tracker, and the database never fails it.                                *)
LEMMA SoloOpen ==
  ASSUME NEW me, Trackers = {me}, TypeOK, OneWriter(me), Open(me)
  PROVE  OneWriter(me)'
BY DEF OneWriter, Open, TypeOK, locals, budgets, CopiesAreYahoos,
       OneTypedOneCopied, Repeated, Named, Resolve

(* record_pick up to its call of _store.                                    *)
LEMMA SoloRecord ==
  ASSUME NEW me, Trackers = {me}, TypeInv, OneWriter(me),
         NEW player \in Players \cup {NoPlayer}, NEW n \in Picks,
         NEW team \in HandTeams \cup {SlotOf(n)},
         RecordPick(me, player, n, team)
  PROVE  OneWriter(me)'
<1> DEFINE e == HandEntry(player, team)
<1>1. e \in Entries /\ e.source # "yahoo" /\ e.player = player
  <2>1. team \in TeamKeys
    BY SlotIsTeamKey, TrackerAssumption
  <2>2. QED
    BY <2>1, HandEntryType DEF HandEntry
<1>2. rows = disk /\ mem[me] = disk /\ disk \in Boards /\ caller[me] = "hand"
  BY DEF OneWriter, RecordPick, ByHand, TypeInv, TypeOK, SyncInBounds
<1>3. /\ mem'[me] = [rows' EXCEPT ![n] = e]
      /\ rows' = Without(disk, Earlier(disk, n, e.player))
      /\ at'[me] = n /\ entry'[me] = e /\ caller'[me] = "hand"
      /\ pc'[me] = "store"
      /\ UNCHANGED <<disk, yahoo>>
  BY <1>1, <1>2 DEF RecordPick, Storing, ByHand, TypeInv, TypeOK
<1>4. Storable(me)'
  BY <1>1, <1>3 DEF Storable
<1>5. CopiesAreYahoos(disk)' /\ OneTypedOneCopied(disk)'
  BY <1>3 DEF OneWriter, CopiesAreYahoos, OneTypedOneCopied, Repeated, Named,
              Resolve
<1>6. QED
  BY <1>3, <1>4, <1>5 DEF OneWriter

(* _store: the one step that commits an entry.                              *)
LEMMA SoloStore ==
  ASSUME NEW me, Trackers = {me}, TypeInv, OneWriter(me), Store(me)
  PROVE  OneWriter(me)'
<1> DEFINE n == at[me]
           e == entry[me]
<1>1. /\ Storable(me) /\ disk \in Boards /\ n \in Picks /\ e \in Entries
      /\ SoundBoard(disk)
  BY DEF OneWriter, Store, TypeInv, TypeOK, SoundBoard, Storable
<1>2. /\ disk' = [rows EXCEPT ![n] = e] /\ rows' = disk' /\ mem'[me] = disk'
      /\ UNCHANGED yahoo
  BY <1>1 DEF Store, Storable
<1>3. SoundBoard([rows EXCEPT ![n] = e])
  <2>1. CASE caller[me] # "sync"
    <3>1. e.source # "yahoo" /\ rows = Without(disk, Earlier(disk, n, e.player))
      BY <1>1, <2>1 DEF Storable
    <3>2. QED
      BY <1>1, <3>1, TypedIsSound
  <2>2. CASE caller[me] = "sync"
    <3>1. YahooOn /\ n \in 1..Len(yahoo) /\ e = YahooEntry(n) /\ rows = disk
      BY <1>1, <2>2 DEF Storable
    <3>2. QED
      BY <1>1, <3>1, CopiedIsSound DEF OneWriter
  <2>3. QED
    BY <2>1, <2>2
<1>4. CopiesAreYahoos(disk)' /\ OneTypedOneCopied(disk)'
  BY <1>2, <1>3 DEF SoundBoard, CopiesAreYahoos, OneTypedOneCopied, Repeated,
                    Named, Resolve
<1>5. pc'[me] \in {"idle", "skip", "sync"}
  BY DEF Store, ReturnToCaller, Return, TypeInv, TypeOK
<1>6. pc'[me] = "sync" => YahooOn
  BY <1>1 DEF Store, ReturnToCaller, Return, TypeInv, TypeOK, Storable
<1>7. QED
  BY <1>2, <1>4, <1>5, <1>6 DEF OneWriter

(* A turn of skip_to.                                                       *)
LEMMA SoloSkipTurn ==
  ASSUME NEW me, Trackers = {me}, TypeInv, OneWriter(me), SkipTurn(me)
  PROVE  OneWriter(me)'
<1>1. PICK n \in Picks : SkipTurnAt(me, n)
  BY DEF SkipTurn
<1> DEFINE e == HandEntry(NoPlayer, SlotOf(n))
<1>2. e \in Entries /\ e.source # "yahoo" /\ e.player = NoPlayer
  BY HandEntryType, SlotIsTeamKey DEF HandEntry
<1>3. rows = disk /\ mem[me] = disk /\ disk \in Boards
  BY <1>1 DEF OneWriter, SkipTurnAt, TypeInv, TypeOK
<1>4. /\ mem'[me] = [rows' EXCEPT ![n] = e]
      /\ at'[me] = n /\ entry'[me] = e /\ caller'[me] = "skip"
      /\ pc'[me] = "store"
      /\ UNCHANGED <<rows, disk, yahoo>>
  BY <1>1, <1>3 DEF SkipTurnAt, Storing, TypeInv, TypeOK
<1>5. rows' = Without(disk', Earlier(disk', n, e.player))
  BY <1>2, <1>3, <1>4, WithoutNone DEF Earlier
<1>6. Storable(me)'
  BY <1>2, <1>4, <1>5 DEF Storable
<1>7. CopiesAreYahoos(disk)' /\ OneTypedOneCopied(disk)'
  BY <1>4 DEF OneWriter, CopiesAreYahoos, OneTypedOneCopied, Repeated, Named,
              Resolve
<1>8. QED
  BY <1>4, <1>6, <1>7 DEF OneWriter

(* One result of sync_from_yahoo.                                           *)
LEMMA SoloSyncResult ==
  ASSUME NEW me, Trackers = {me}, TypeInv, OneWriter(me), SyncResult(me)
  PROVE  OneWriter(me)'
<1> DEFINE n == at[me]
<1>1. /\ n \in 1..Len(yahoo) /\ n \in Picks /\ YahooOn
      /\ rows = disk /\ mem[me] = disk /\ pc[me] = "sync"
      /\ UNCHANGED <<rows, disk, yahoo>>
  <2>1. pc[me] = "sync" /\ n <= goal[me] /\ UNCHANGED <<rows, disk, yahoo>>
    BY DEF SyncResult
  <2>2. n \in 1..Len(yahoo) /\ n \in Picks
    <3>1. /\ n \in 1..(goal[me] + 1) /\ goal[me] <= Len(yahoo)
          /\ goal[me] \in Nat /\ Len(yahoo) \in Nat /\ Len(yahoo) <= PickLimit
      BY <2>1 DEF TypeInv, TypeOK, SyncInBounds
    <3>2. QED
      BY <2>1, <3>1, DraftAssumption DEF Picks
  <2>3. QED
    BY <2>1, <2>2 DEF OneWriter
<1>2. CopiesAreYahoos(disk)' /\ OneTypedOneCopied(disk)'
  BY <1>1 DEF OneWriter, CopiesAreYahoos, OneTypedOneCopied, Repeated, Named,
              Resolve
<1>3. CASE AlreadyCopied(me, n)
  BY <1>1, <1>2, <1>3 DEF SyncResult, OneWriter
<1>4. CASE ~AlreadyCopied(me, n)
  <2>1. /\ mem'[me] = [rows' EXCEPT ![n] = YahooEntry(n)]
        /\ at'[me] = n /\ entry'[me] = YahooEntry(n) /\ caller'[me] = "sync"
        /\ pc'[me] = "store"
    BY <1>1, <1>4 DEF SyncResult, Storing, TypeInv, TypeOK
  <2>2. YahooEntry(n) \in Entries /\ YahooEntry(n)' = YahooEntry(n)
    <3>1. YahooEntry(n) \in Entries
      BY <1>1, YahooEntryType DEF TypeInv
    <3>2. YahooEntry(n)' = YahooEntry(n)
      BY <1>1, <2>1 DEF YahooEntry, Resolve
    <3>3. QED
      BY <3>1, <3>2
  <2>3. Storable(me)'
    BY <1>1, <2>1, <2>2 DEF Storable
  <2>4. QED
    BY <1>1, <1>2, <2>1, <2>3 DEF OneWriter
<1>5. QED
  BY <1>3, <1>4

(* undo_last.                                                               *)
LEMMA SoloUndo ==
  ASSUME NEW me, Trackers = {me}, TypeInv, OneWriter(me), UndoLast(me)
  PROVE  OneWriter(me)'
<1>1. PICK n \in Picks : /\ mem' = [mem EXCEPT ![me][n] = Vacant]
                         /\ rows' = [rows EXCEPT ![n] = Vacant]
                         /\ disk' = rows'
                         /\ pc[me] \in {"fresh", "idle"}
                         /\ pc' = [pc EXCEPT ![me] = "idle"]
                         /\ UNCHANGED yahoo
  BY DEF UndoLast, ByHand, Return
<1>2. mem[me] = disk /\ rows = disk /\ disk \in Boards /\ SoundBoard(disk)
  BY <1>1 DEF OneWriter, SoundBoard, TypeInv, TypeOK
<1>3. mem'[me] = disk' /\ pc'[me] = "idle"
  BY <1>1, <1>2 DEF TypeInv, TypeOK
<1>4. SoundBoard([disk EXCEPT ![n] = Vacant])
  BY <1>2, RubbedOutIsSound
<1>5. CopiesAreYahoos(disk)' /\ OneTypedOneCopied(disk)'
  BY <1>1, <1>2, <1>4 DEF SoundBoard, CopiesAreYahoos, OneTypedOneCopied,
                          Repeated, Named, Resolve
<1>6. QED
  BY <1>1, <1>3, <1>5 DEF OneWriter

(* reset.                                                                   *)
LEMMA SoloReset ==
  ASSUME NEW me, Trackers = {me}, TypeInv, OneWriter(me), Reset(me)
  PROVE  OneWriter(me)'
<1>1. /\ mem'[me] = EmptyBoard /\ disk' = EmptyBoard /\ rows' = EmptyBoard
      /\ pc'[me] = "idle" /\ UNCHANGED yahoo
  BY DEF Reset, ByHand, Return, TypeInv, TypeOK
<1>2. CopiesAreYahoos(disk)' /\ OneTypedOneCopied(disk)'
  BY <1>1, EmptyIsSound DEF SoundBoard, CopiesAreYahoos, OneTypedOneCopied,
                            Repeated, Named, Resolve
<1>3. QED
  BY <1>1, <1>2 DEF OneWriter

(* A pick made at Yahoo.                                                    *)
LEMMA SoloYahooPick ==
  ASSUME NEW me, Trackers = {me}, TypeInv, OneWriter(me), YahooPick
  PROVE  OneWriter(me)'
<1>1. PICK player \in Players \ Range(yahoo) : yahoo' = Append(yahoo, player)
  BY DEF YahooPick
<1>2. UNCHANGED <<mem, pc, caller, at, goal, entry, rows, disk>>
  BY DEF YahooPick, control, locals
<1>3. /\ Len(yahoo') = Len(yahoo) + 1
      /\ \A i \in 1..Len(yahoo) : yahoo'[i] = yahoo[i]
      /\ yahoo'[Len(yahoo) + 1] = player
      /\ Len(yahoo) \in Nat
      /\ \A i \in 1..Len(yahoo) : yahoo[i] # player
  BY <1>1 DEF TypeInv, TypeOK, Range
<1>4. \A m, n \in 1..Len(yahoo') : yahoo'[m] = yahoo'[n] => m = n
  BY <1>3 DEF OneWriter
<1>5. CopiesAreYahoos(disk)' /\ OneTypedOneCopied(disk)'
  <2>1. CopiesAreYahoos(disk)'
    BY <1>2, <1>3 DEF OneWriter, CopiesAreYahoos, Resolve
  <2>2. OneTypedOneCopied(disk)'
    BY <1>2 DEF OneWriter, OneTypedOneCopied, Repeated, Named
  <2>3. QED
    BY <2>1, <2>2
<1>6. pc[me] = "store" => Storable(me)'
  <2> SUFFICES ASSUME pc[me] = "store"
               PROVE  Storable(me)'
    OBVIOUS
  <2>1. Storable(me)
    BY DEF OneWriter
  <2>2. CASE caller[me] # "sync"
    BY <1>2, <2>1, <2>2 DEF Storable
  <2>3. CASE caller[me] = "sync"
    <3>1. at[me] \in 1..Len(yahoo) /\ entry[me] = YahooEntry(at[me])
      BY <2>1, <2>3 DEF Storable
    <3>2. YahooEntry(at[me])' = YahooEntry(at[me])
      BY <1>2, <1>3, <3>1 DEF YahooEntry, Resolve
    <3>3. at'[me] \in 1..Len(yahoo')
      BY <1>2, <1>3, <3>1
    <3>4. QED
      BY <1>2, <2>1, <2>3, <3>1, <3>2, <3>3 DEF Storable
  <2>4. QED
    BY <2>2, <2>3
<1>7. QED
  BY <1>2, <1>4, <1>5, <1>6 DEF OneWriter

(* The steps that store nothing.                                            *)
LEMMA SoloQuietStep ==
  ASSUME NEW me, Trackers = {me}, TypeInv, OneWriter(me),
         \/ \E target \in Picks : SkipTo(me, target)
         \/ SkipDone(me) \/ SyncDone(me) \/ SyncFetch(me) \/ SyncFails(me)
         \/ Crash
         \/ UNCHANGED vars
  PROVE  OneWriter(me)'
<1>1. UNCHANGED <<disk, yahoo>>
  BY DEF SkipTo, ByHand, SkipDone, SyncDone, SyncFetch, SyncFails, Crash, vars,
         Return
<1>2. CopiesAreYahoos(disk)' /\ OneTypedOneCopied(disk)'
  BY <1>1 DEF OneWriter, CopiesAreYahoos, OneTypedOneCopied, Repeated, Named,
              Resolve
<1>3. ASSUME NEW target \in Picks, SkipTo(me, target)
      PROVE  OneWriter(me)'
  BY <1>1, <1>2, <1>3 DEF OneWriter, SkipTo, ByHand, TypeInv, TypeOK
<1>4. CASE SkipDone(me)
  BY <1>1, <1>2, <1>4 DEF OneWriter, SkipDone, Return, TypeInv, TypeOK
<1>5. CASE SyncDone(me)
  BY <1>1, <1>2, <1>5 DEF OneWriter, SyncDone, Return, TypeInv, TypeOK
<1>6. CASE SyncFetch(me)
  BY <1>1, <1>2, <1>6 DEF OneWriter, SyncFetch, TypeInv, TypeOK
<1>7. CASE SyncFails(me)
  BY <1>1, <1>2, <1>7 DEF OneWriter, SyncFails, Return, TypeInv, TypeOK
<1>8. CASE Crash
  BY <1>1, <1>2, <1>8 DEF OneWriter, Crash, TypeInv, TypeOK
<1>9. CASE UNCHANGED vars
  <2>1. UNCHANGED <<mem, pc, caller, at, goal, entry, rows, disk, yahoo>>
    BY <1>9 DEF vars, control, locals
  <2>2. Storable(me) => Storable(me)'
    BY <2>1 DEF Storable, YahooEntry, Resolve, Earlier, Without
  <2>3. QED
    BY <1>2, <2>1, <2>2 DEF OneWriter
<1>10. QED
  BY <1>3, <1>4, <1>5, <1>6, <1>7, <1>8, <1>9

(* So every step of the only tracker keeps its invariant.                   *)
LEMMA SoloInductive ==
  ASSUME NEW me, Trackers = {me}, MaxDrops = 0,
         TypeInv, OneWriter(me), [Next]_vars
  PROVE  OneWriter(me)'
<1>1. drops \in 0..0
  BY DEF TypeInv, TypeOK
<1>2. ~StoreFails(me) /\ ~DropConnection
  BY <1>1 DEF StoreFails, DropConnection
<1>3. CASE UNCHANGED vars
  BY <1>3, SoloQuietStep
<1>4. CASE Next
  BY <1>2, <1>4, SoloOpen, SoloRecord, SoloStore, SoloSkipTurn, SoloSyncResult,
     SoloUndo, SoloReset, SoloYahooPick, SoloQuietStep
     DEF Next, Hand, Carry, TypeInv
<1>5. QED
  BY <1>3, <1>4

(* With one tracker and a healthy database, memory, table and commit differ *)
(* only while one entry is being stored, and then by that entry.            *)
THEOREM SoloInvariant ==
  ASSUME NEW me, Trackers = {me}, MaxDrops = 0
  PROVE  Spec => [](TypeInv /\ OneWriter(me))
<1>1. Init => TypeInv /\ OneWriter(me)
  <2>1. Init => TypeInv
    BY DraftAssumption, TrackerAssumption
       DEF Init, TypeInv, TypeOK, SyncInBounds, Boards, EmptyBoard
  <2>2. Init => OneWriter(me)
    BY EmptyIsSound DEF Init, OneWriter, SoundBoard
  <2>3. QED
    BY <2>1, <2>2
<1>2. TypeInv /\ OneWriter(me) /\ [Next]_vars => (TypeInv /\ OneWriter(me))'
  BY TypeInvInductive, SoloInductive
<1>3. QED
  BY <1>1, <1>2, PTL DEF Spec

----------------------------------------------------------------------------
(* With one tracker and no database fault, a player holds two picks only    *)
(* when one was typed and the other copied from Yahoo.                      *)
THEOREM RepeatsOnlyMixSources ==
  ASSUME NEW me, Trackers = {me}, MaxDrops = 0
  PROVE  Spec => []RepeatsMixSources
<1>1. TypeInv /\ OneWriter(me) => RepeatsMixSources
  <2> SUFFICES ASSUME TypeInv, OneWriter(me)
               PROVE  OneTypedOneCopied(disk) /\ OneTypedOneCopied(mem[me])
    BY DEF RepeatsMixSources
  <2>1. SoundBoard(disk) /\ disk \in Boards
    BY DEF OneWriter, SoundBoard, TypeInv, TypeOK
  <2>2. CASE pc[me] = "store"
    <3>1. Storable(me)
      BY <2>2 DEF OneWriter
    <3>2. CASE caller[me] # "sync"
      BY <2>1, <3>1, <3>2, TypedIsSound DEF Storable, SoundBoard
    <3>3. CASE caller[me] = "sync"
      BY <2>1, <3>1, <3>3, CopiedIsSound DEF Storable, SoundBoard, OneWriter
    <3>4. QED
      BY <2>1, <3>2, <3>3 DEF SoundBoard
  <2>3. CASE pc[me] = "down"
    BY <2>1, <2>3, EmptyIsSound DEF OneWriter, SoundBoard
  <2>4. CASE pc[me] \in {"fresh", "idle", "skip", "sync"}
    BY <2>1, <2>4 DEF OneWriter, SoundBoard
  <2>5. QED
    BY <2>2, <2>3, <2>4 DEF TypeInv, TypeOK
<1>2. QED
  BY <1>1, SoloInvariant, PTL

(* Drafting by hand alone, no player ever holds two picks: the promise of   *)
(* record_pick's comment.                                                   *)
THEOREM OnePlayerOnePickByHand ==
  ASSUME NEW me, Trackers = {me}, MaxDrops = 0, ~YahooOn
  PROVE  Spec => []OnePlayerOnePick
<1>1. TypeInv /\ OneWriter(me) => OnePlayerOnePick
  BY DEF OneWriter, OnePlayerOnePick, OneTypedOneCopied, CopiesAreYahoos
<1>2. QED
  BY <1>1, SoloInvariant, PTL

(* Between operations the only tracker's memory is the stored draft.        *)
THEOREM MemoryStaysStored ==
  ASSUME NEW me, Trackers = {me}, MaxDrops = 0
  PROVE  Spec => []MemoryIsStored
<1>1. TypeInv /\ OneWriter(me) => MemoryIsStored
  BY DEF OneWriter, MemoryIsStored
<1>2. QED
  BY <1>1, SoloInvariant, PTL

(* The committed table takes only the steps of the abstract sheet.          *)
LEMMA StepOnSheet ==
  ASSUME NEW me, Trackers = {me}, MaxDrops = 0,
         TypeInv, OneWriter(me), [Next]_vars
  PROVE  [Sheet!Next]_disk
<1>1. drops \in 0..0
  BY DEF TypeInv, TypeOK
<1>2. CASE Store(me)
  <2>1. Storable(me) /\ disk' = [rows EXCEPT ![at[me]] = entry[me]]
    BY <1>2 DEF Store, OneWriter
  <2>2. CASE caller[me] # "sync"
    <3>1. Sheet!WriteDown(at[me], entry[me])
      BY <2>1, <2>2
         DEF Storable, Sheet!WriteDown, Sheet!Without, Sheet!Earlier,
             Without, Earlier, Sheet!Picks, Picks, Sheet!Vacant, Vacant
    <3>2. QED
      BY <2>1, <3>1
         DEF Storable, Sheet!Next, Picks, Sheet!Picks, Entries, Sheet!Entries,
             TeamKeys, Sheet!TeamKeys, Sources, Sheet!Sources
  <2>3. CASE caller[me] = "sync"
    <3>1. Sheet!CopyFromYahoo(at[me], entry[me])
      BY <2>1, <2>3 DEF Storable, YahooEntry, Sheet!CopyFromYahoo
    <3>2. QED
      BY <2>1, <3>1
         DEF Storable, Sheet!Next, Picks, Sheet!Picks, Entries, Sheet!Entries,
             TeamKeys, Sheet!TeamKeys, Sources, Sheet!Sources
  <2>4. QED
    BY <2>2, <2>3
<1>3. CASE UndoLast(me)
  <2>1. PICK n \in Picks : /\ IsLast(mem[me], n)
                           /\ disk' = [rows EXCEPT ![n] = Vacant]
                           /\ pc[me] \in {"fresh", "idle"}
    BY <1>3 DEF UndoLast, ByHand
  <2>2. mem[me] = disk /\ rows = disk
    BY <2>1 DEF OneWriter
  <2>3. Sheet!RubOut(n)
    BY <2>1, <2>2 DEF IsLast, Occupied, Sheet!RubOut, Sheet!IsLast,
                      Sheet!Occupied, Vacant, Sheet!Vacant, Picks, Sheet!Picks
  <2>4. QED
    BY <2>3 DEF Sheet!Next, Picks, Sheet!Picks
<1>4. CASE Reset(me)
  BY <1>4 DEF Reset, Sheet!Next, Sheet!Clear, EmptyBoard, Sheet!EmptyBoard,
              Vacant, Sheet!Vacant, Picks, Sheet!Picks
<1>5. CASE UNCHANGED disk
  BY <1>5
<1>6. ~Store(me) /\ ~UndoLast(me) /\ ~Reset(me) => UNCHANGED disk
  BY <1>1 DEF Next, Hand, Carry, vars, Open, RecordPick, SkipTo, SkipTurn,
     SkipTurnAt, SkipDone, SyncResult, SyncDone, SyncFetch, SyncFails,
     StoreFails, YahooPick, Crash, DropConnection, ByHand
<1>7. QED
  BY <1>2, <1>3, <1>4, <1>5, <1>6

(* DraftTracker with one tracker and no database fault implements the       *)
(* abstract sheet, process deaths and all.                                  *)
THEOREM TrackerImplementsSheet ==
  ASSUME NEW me, Trackers = {me}, MaxDrops = 0
  PROVE  Spec => StoredByWholeOperations
<1>1. Init => Sheet!Init
  BY DEF Init, Sheet!Init, EmptyBoard, Sheet!EmptyBoard, Vacant, Sheet!Vacant,
         Picks, Sheet!Picks
<1>2. TypeInv /\ OneWriter(me) /\ [Next]_vars => [Sheet!Next]_disk
  BY StepOnSheet
<1>3. QED
  BY <1>1, <1>2, SoloInvariant, PTL
     DEF Spec, StoredByWholeOperations, Sheet!Spec

----------------------------------------------------------------------------
(* skip_to.  While it runs, the next pick lies before its target or is it;  *)
(* and what it is storing names nobody and goes to the next pick.           *)
SkipInv(t) ==
  /\ pc[t] = "skip" =>
       /\ goal[t] \in Picks
       /\ \E n \in Picks : IsNext(mem[t], n) /\ n <= goal[t]
  /\ pc[t] = "store" /\ caller[t] = "skip" =>
       /\ goal[t] \in Picks /\ at[t] \in Picks /\ at[t] < goal[t]
       /\ entry[t].player = NoPlayer /\ entry[t] # Vacant
       /\ IsNext(disk, at[t])

(* A placeholder at a vacant pick changes nobody's being drafted.           *)
LEMMA NobodyDrafted ==
  ASSUME NEW b \in Boards, NEW n \in Picks, ~Occupied(b, n),
         NEW e, e.player = NoPlayer
  PROVE  DraftedKeys([b EXCEPT ![n] = e]) = DraftedKeys(b)
<1> DEFINE c == [b EXCEPT ![n] = e]
<1>1. b[n].player = NoPlayer
  BY DEF Occupied, Vacant
<1>2. \A m \in Picks : c[m].player = b[m].player
  BY <1>1 DEF Boards
<1> HIDE DEF c
<1>3. DraftedKeys(c) = DraftedKeys(b)
  BY <1>2 DEF DraftedKeys
<1>4. QED
  BY <1>3 DEF c

(* The board after a placeholder at its next pick, and the next one then.   *)
LEMMA NextMovesOn ==
  ASSUME NEW b \in Boards, NEW n \in Picks, IsNext(b, n), NEW e, e # Vacant,
         n + 1 \in Picks
  PROVE  IsNext([b EXCEPT ![n] = e], n + 1)
<1> DEFINE c == [b EXCEPT ![n] = e]
<1>1. \A m \in Picks : c[m] = IF m = n THEN e ELSE b[m]
  BY DEF Boards
<1> HIDE DEF c
<1>2. ASSUME NEW m \in Picks, m >= n + 1
      PROVE  ~Occupied(c, m)
  <2>1. m # n /\ m >= n
    BY <1>2 DEF Picks
  <2>2. QED
    BY <1>1, <2>1 DEF IsNext, Occupied
<1>3. Occupied(c, n)
  BY <1>1 DEF Occupied
<1>4. PICK k : k = n + 1
  OBVIOUS
<1>5. IsNext(c, n + 1)
  <2>1. k - 1 = n /\ \A m \in Picks : m >= k => ~Occupied(c, m)
    BY <1>2, <1>4 DEF Picks
  <2>2. Occupied(c, k - 1)
    BY <1>3, <2>1, Zenon
  <2>3. IsNext(c, k)
    BY <2>1, <2>2, Zenon DEF IsNext
  <2>4. QED
    BY <1>4, <2>3, Zenon
<1>6. QED
  BY <1>5 DEF c

(* A step after which the tracker is neither skipping nor storing a skip.   *)
LEMMA SkipOver ==
  ASSUME NEW me, pc'[me] # "skip", pc'[me] = "store" => caller'[me] # "skip"
  PROVE  SkipInv(me)'
BY DEF SkipInv

LEMMA SkipInductive ==
  ASSUME NEW me, Trackers = {me}, MaxDrops = 0,
         TypeInv, OneWriter(me), SkipInv(me), [Next]_vars
  PROVE  SkipInv(me)'
<1>0. drops \in 0..0 /\ me \in Trackers
  BY DEF TypeInv, TypeOK
<1> USE DEF TypeInv, TypeOK
<1>1. CASE Open(me)
  <2>1. pc'[me] = "fresh"
    BY <1>0, <1>1 DEF Open
  <2>2. QED
    BY <2>1, SkipOver
<1>2. ASSUME NEW player, NEW n, NEW team, RecordPick(me, player, n, team)
      PROVE  SkipInv(me)'
  <2>1. pc'[me] = "store" /\ caller'[me] = "hand"
    BY <1>0, <1>2 DEF RecordPick, ByHand, Storing, SyncInBounds
  <2>2. QED
    BY <2>1, SkipOver
<1>3. CASE UndoLast(me) \/ Reset(me) \/ SkipDone(me) \/ SyncDone(me) \/ SyncFails(me)
  <2>1. Return(me)
    BY <1>3 DEF UndoLast, Reset, SkipDone, SyncDone, SyncFails
  <2>2. pc'[me] = "idle"
    BY <1>0, <2>1 DEF Return
  <2>3. QED
    BY <2>2, SkipOver
<1>4. ASSUME NEW target \in Picks, SkipTo(me, target)
      PROVE  SkipInv(me)'
  <2>1. /\ pc'[me] = "skip" /\ goal'[me] = target /\ mem'[me] = mem[me]
        /\ \E n \in Picks : IsNext(mem[me], n) /\ n < target
    BY <1>0, <1>4 DEF SkipTo
  <2>2. PICK n \in Picks : IsNext(mem[me], n) /\ n < target
    BY <2>1
  <2>3. IsNext(mem'[me], n) /\ n <= goal'[me]
    BY <2>1, <2>2 DEF Picks
  <2>4. QED
    BY <2>1, <2>3 DEF SkipInv
<1>5. CASE SkipTurn(me)
  <2>1. PICK n \in Picks : IsNext(mem[me], n) /\ n < goal[me] /\ SkipTurnAt(me, n)
    BY <1>5 DEF SkipTurn
  <2>2. /\ pc[me] = "skip" /\ pc'[me] = "store" /\ caller'[me] = "skip"
        /\ at'[me] = n /\ entry'[me] = HandEntry(NoPlayer, SlotOf(n))
        /\ UNCHANGED <<goal, disk>>
    BY <1>0, <2>1 DEF SkipTurnAt, Storing
  <2>3. mem[me] = disk /\ goal[me] \in Picks
    BY <2>2 DEF OneWriter, SkipInv
  <2>4. entry'[me].player = NoPlayer /\ entry'[me] # Vacant
    BY <2>2 DEF HandEntry, Vacant
  <2>5. IsNext(disk', at'[me])
    BY <2>1, <2>2, <2>3
  <2>6. QED
    BY <2>1, <2>2, <2>3, <2>4, <2>5 DEF SkipInv
<1>6. CASE Store(me)
  <2>1. CASE caller[me] = "skip"
    <3>1. /\ pc[me] = "store" /\ pc'[me] = "skip" /\ UNCHANGED <<mem, goal>>
      BY <1>0, <1>6, <2>1 DEF Store, ReturnToCaller
    <3>2. /\ goal[me] \in Picks /\ at[me] \in Picks /\ at[me] < goal[me]
          /\ entry[me].player = NoPlayer /\ entry[me] # Vacant
          /\ IsNext(disk, at[me])
      BY <2>1, <3>1 DEF SkipInv
    <3>3. mem[me] = [disk EXCEPT ![at[me]] = entry[me]]
      BY <2>1, <3>1, <3>2, WithoutNone DEF OneWriter, Storable, Earlier
    <3>4. at[me] + 1 \in Picks /\ at[me] + 1 <= goal[me]
      BY <3>2, DraftAssumption DEF Picks
    <3>5. IsNext(mem[me], at[me] + 1)
      <4>1. disk \in Boards
        OBVIOUS
      <4>2. IsNext([disk EXCEPT ![at[me]] = entry[me]], at[me] + 1)
        BY <3>2, <3>4, <4>1, NextMovesOn
      <4>3. QED
        BY <3>3, <4>2, Zenon
    <3>6. QED
      BY <3>1, <3>2, <3>4, <3>5 DEF SkipInv
  <2>2. CASE caller[me] # "skip"
    <3>1. pc'[me] \in {"idle", "sync"}
      BY <1>0, <1>6, <2>2 DEF Store, ReturnToCaller, Return
    <3>2. QED
      BY <3>1, SkipOver
  <2>3. QED
    BY <2>1, <2>2
<1>7. CASE SyncResult(me)
  <2>1. pc'[me] = "sync" \/ (pc'[me] = "store" /\ caller'[me] = "sync")
    BY <1>0, <1>7 DEF SyncResult, Storing
  <2>2. QED
    BY <2>1, SkipOver
<1>8. CASE SyncFetch(me)
  <2>1. pc'[me] = "sync"
    BY <1>0, <1>8 DEF SyncFetch
  <2>2. QED
    BY <2>1, SkipOver
<1>9. CASE Crash
  <2>1. pc'[me] = "down"
    BY <1>0, <1>9 DEF Crash
  <2>2. QED
    BY <2>1, SkipOver
<1>10. CASE YahooPick \/ UNCHANGED vars
  <2>1. UNCHANGED <<mem, pc, caller, at, goal, entry, disk>>
    BY <1>10 DEF YahooPick, vars, control, locals
  <2>2. QED
    BY <2>1 DEF SkipInv, IsNext, Occupied, Vacant
<1>11. ~StoreFails(me) /\ ~DropConnection
  BY <1>0 DEF StoreFails, DropConnection
<1>12. QED
  BY <1>1, <1>2, <1>3, <1>4, <1>5, <1>6, <1>7, <1>8, <1>9, <1>10, <1>11
     DEF Next, Hand, Carry

(* skip_to advances the count without claiming anyone is off the board:     *)
(* none of its turns changes who is drafted, in memory or in the table, and *)
(* when it returns its target is the next pick, on a board of any size.     *)
THEOREM SkipsClaimNobody ==
  ASSUME NEW me, Trackers = {me}, MaxDrops = 0
  PROVE  Spec => SkipClaimsNobody
<1> DEFINE Turn(t) ==
             /\ pc[t] = "skip" /\ pc'[t] = "store" =>
                  DraftedKeys(mem'[t]) = DraftedKeys(mem[t])
             /\ pc[t] = "store" /\ caller[t] = "skip" /\ pc'[t] = "skip" =>
                  DraftedKeys(disk') = DraftedKeys(disk)
             /\ pc[t] = "skip" /\ pc'[t] = "idle" => IsNext(mem[t], goal[t])
           Quietly == \A t \in Trackers : Turn(t)
<1>1. Init => SkipInv(me)
  BY DEF Init, SkipInv
<1>2. TypeInv /\ OneWriter(me) /\ SkipInv(me) /\ [Next]_vars => SkipInv(me)'
  BY SkipInductive
<1>3. TypeInv /\ OneWriter(me) /\ SkipInv(me) /\ [Next]_vars => [Quietly]_vars
  <2> SUFFICES ASSUME TypeInv, OneWriter(me), SkipInv(me), Next
               PROVE  Turn(me)
    OBVIOUS
  <2>0. drops \in 0..0 /\ me \in Trackers
    BY DEF TypeInv, TypeOK
  <2> USE DEF TypeInv, TypeOK
  <2>1. CASE SkipTurn(me)
    <3>1. PICK n \in Picks : IsNext(mem[me], n) /\ SkipTurnAt(me, n)
      BY <2>1 DEF SkipTurn
    <3>2. /\ pc[me] = "skip" /\ pc'[me] = "store"
          /\ mem'[me] = [mem[me] EXCEPT ![n] = HandEntry(NoPlayer, SlotOf(n))]
      BY <2>0, <3>1 DEF SkipTurnAt, Storing
    <3>3. mem[me] \in Boards /\ ~Occupied(mem[me], n)
      BY <2>0, <3>1 DEF IsNext, Picks
    <3>4. HandEntry(NoPlayer, SlotOf(n)).player = NoPlayer
      BY DEF HandEntry
    <3>5. DraftedKeys(mem'[me]) = DraftedKeys(mem[me])
      BY <3>2, <3>3, <3>4, NobodyDrafted
    <3>6. QED
      BY <3>2, <3>5
  <2>2. CASE Store(me)
    <3>1. pc[me] = "store" /\ disk' = [rows EXCEPT ![at[me]] = entry[me]]
      BY <2>2 DEF Store
    <3>2. ASSUME caller[me] = "skip"
          PROVE  DraftedKeys(disk') = DraftedKeys(disk)
      <4>1. /\ at[me] \in Picks /\ entry[me].player = NoPlayer /\ IsNext(disk, at[me])
        BY <3>1, <3>2 DEF SkipInv
      <4>2. rows = disk
        BY <3>1, <3>2, <4>1, WithoutNone DEF OneWriter, Storable, Earlier
      <4>3. ~Occupied(disk, at[me])
        BY <4>1 DEF IsNext, Picks
      <4>4. QED
        BY <3>1, <4>1, <4>2, <4>3, NobodyDrafted
    <3>3. QED
      BY <3>1, <3>2
  <2>3. CASE SkipDone(me)
    <3>1. /\ pc[me] = "skip" /\ pc'[me] = "idle"
          /\ \A n \in Picks : IsNext(mem[me], n) => n >= goal[me]
      BY <2>0, <2>3 DEF SkipDone, Return
    <3>2. PICK n \in Picks : IsNext(mem[me], n) /\ n <= goal[me]
      BY <3>1 DEF SkipInv
    <3>3. n = goal[me]
      BY <2>0, <3>1, <3>2 DEF Picks
    <3>4. QED
      BY <3>1, <3>2, <3>3
  <2>4. CASE Open(me) \/ SyncFetch(me) \/ SyncFails(me) \/ UndoLast(me) \/ Reset(me)
             \/ (\E player \in Players \cup {NoPlayer}, n \in Picks :
                   \E team \in HandTeams \cup {SlotOf(n)} : RecordPick(me, player, n, team))
             \/ (\E target \in Picks : SkipTo(me, target))
    <3>1. pc[me] \in {"down", "fresh", "idle"}
      BY <2>4 DEF Open, SyncFetch, SyncFails, UndoLast, Reset, RecordPick, SkipTo, ByHand
    <3>2. QED
      BY <3>1
  <2>5. CASE SyncResult(me) \/ SyncDone(me)
    BY <2>5 DEF SyncResult, SyncDone
  <2>6. CASE Crash
    <3>1. pc'[me] = "down"
      BY <2>0, <2>6 DEF Crash
    <3>2. QED
      BY <3>1
  <2>7. CASE YahooPick
    <3>1. pc'[me] = pc[me]
      BY <2>7 DEF YahooPick, control
    <3>2. QED
      BY <3>1
  <2>8. ~StoreFails(me) /\ ~DropConnection
    BY <2>0 DEF StoreFails, DropConnection
  <2>9. QED
    BY <2>1, <2>2, <2>3, <2>4, <2>5, <2>6, <2>7, <2>8 DEF Next, Hand, Carry
<1>4. QED
  BY <1>1, <1>2, <1>3, SoloInvariant, PTL DEF Spec, SkipClaimsNobody

----------------------------------------------------------------------------
(* sync_from_yahoo.  Memory holds the results it has gone through, and the  *)
(* one it is storing, whatever the other sessions and the database do.      *)
CopiedUpTo(t, k) ==
  \A n \in 1..k : /\ n \in Picks
                  /\ Occupied(mem[t], n)
                  /\ mem[t][n].player = Resolve(yahoo[n])

SyncInv ==
  \A t \in Trackers :
    /\ pc[t] = "sync" => CopiedUpTo(t, at[t] - 1)
    /\ pc[t] = "store" /\ caller[t] = "sync" => CopiedUpTo(t, at[t])

(* What one tracker does leaves the others in the middle of their syncs.    *)
LEMMA OthersKeepSyncing ==
  ASSUME TypeInv, SyncInv, NEW t \in Trackers, UNCHANGED yahoo,
         \A u \in Trackers \ {t} :
           pc'[u] = pc[u] /\ caller'[u] = caller[u] /\ at'[u] = at[u] /\ mem'[u] = mem[u],
         pc'[t] = "sync" => CopiedUpTo(t, at[t] - 1)',
         pc'[t] = "store" /\ caller'[t] = "sync" => CopiedUpTo(t, at[t])'
  PROVE  SyncInv'
<1>1. ASSUME NEW u \in Trackers \ {t}
      PROVE  /\ pc'[u] = "sync" => CopiedUpTo(u, at[u] - 1)'
             /\ pc'[u] = "store" /\ caller'[u] = "sync" => CopiedUpTo(u, at[u])'
  BY <1>1 DEF SyncInv, CopiedUpTo, Resolve, Occupied
<1>2. QED
  BY <1>1 DEF SyncInv

LEMMA SyncInductive == TypeInv /\ SyncInv /\ [Next]_vars => SyncInv'
<1> SUFFICES ASSUME TypeInv, SyncInv, [Next]_vars
             PROVE  SyncInv'
  OBVIOUS
<1> USE DEF TypeInv, TypeOK
<1>1. ASSUME NEW t \in Trackers,
             Open(t) \/ UndoLast(t) \/ Reset(t) \/ SkipDone(t) \/ SyncDone(t)
             \/ SyncFails(t) \/ StoreFails(t)
      PROVE  SyncInv'
  <2>1. pc'[t] \in {"fresh", "idle"} /\ UNCHANGED yahoo
    BY <1>1 DEF Open, UndoLast, Reset, SkipDone, SyncDone, SyncFails, StoreFails, Return, ByHand
  <2>2. \A u \in Trackers \ {t} :
          pc'[u] = pc[u] /\ caller'[u] = caller[u] /\ at'[u] = at[u] /\ mem'[u] = mem[u]
    <3>1. CASE Open(t)
      BY <3>1 DEF Open, locals
    <3>2. CASE UndoLast(t) \/ Reset(t)
      BY <3>2 DEF UndoLast, Reset, Return, ByHand
    <3>3. CASE SkipDone(t) \/ SyncDone(t) \/ SyncFails(t) \/ StoreFails(t)
      BY <3>3 DEF SkipDone, SyncDone, SyncFails, StoreFails, Return
    <3>4. QED
      BY <1>1, <3>1, <3>2, <3>3
  <2>3. QED
    BY <2>1, <2>2, OthersKeepSyncing
<1>2. ASSUME NEW t \in Trackers, NEW player, NEW n, NEW team, RecordPick(t, player, n, team)
      PROVE  SyncInv'
  <2>1. /\ pc'[t] = "store" /\ caller'[t] = "hand" /\ UNCHANGED yahoo
        /\ \A u \in Trackers \ {t} :
             pc'[u] = pc[u] /\ caller'[u] = caller[u] /\ at'[u] = at[u] /\ mem'[u] = mem[u]
    BY <1>2 DEF RecordPick, ByHand, Storing, SyncInBounds
  <2>2. QED
    BY <2>1, OthersKeepSyncing
<1>3. ASSUME NEW t \in Trackers, NEW target, SkipTo(t, target)
      PROVE  SyncInv'
  <2>1. /\ pc'[t] = "skip" /\ UNCHANGED yahoo
        /\ \A u \in Trackers \ {t} :
             pc'[u] = pc[u] /\ caller'[u] = caller[u] /\ at'[u] = at[u] /\ mem'[u] = mem[u]
    BY <1>3 DEF SkipTo, ByHand
  <2>2. QED
    BY <2>1, OthersKeepSyncing
<1>4. ASSUME NEW t \in Trackers, SkipTurn(t)
      PROVE  SyncInv'
  <2>1. PICK n \in Picks : SkipTurnAt(t, n)
    BY <1>4 DEF SkipTurn
  <2>2. /\ pc'[t] = "store" /\ caller'[t] = "skip" /\ UNCHANGED yahoo
        /\ \A u \in Trackers \ {t} :
             pc'[u] = pc[u] /\ caller'[u] = caller[u] /\ at'[u] = at[u] /\ mem'[u] = mem[u]
    BY <2>1 DEF SkipTurnAt, Storing
  <2>3. QED
    BY <2>2, OthersKeepSyncing
<1>5. ASSUME NEW t \in Trackers, Store(t)
      PROVE  SyncInv'
  <2>1. /\ pc[t] = "store" /\ UNCHANGED <<mem, yahoo>> /\ ReturnToCaller(t)
    BY <1>5 DEF Store
  <2>2. \A u \in Trackers \ {t} :
          pc'[u] = pc[u] /\ caller'[u] = caller[u] /\ at'[u] = at[u] /\ mem'[u] = mem[u]
    BY <2>1 DEF ReturnToCaller, Return
  <2>3. CASE caller[t] = "sync"
    <3>1. pc'[t] = "sync" /\ at'[t] = at[t] + 1
      BY <2>1, <2>3 DEF ReturnToCaller
    <3>2. at'[t] - 1 = at[t]
      BY <3>1
    <3>3. CopiedUpTo(t, at[t] - 1)'
      BY <2>1, <2>3, <3>2 DEF SyncInv, CopiedUpTo, Resolve, Occupied
    <3>4. QED
      BY <2>1, <2>2, <3>1, <3>3, OthersKeepSyncing
  <2>4. CASE caller[t] # "sync"
    <3>1. pc'[t] \in {"idle", "skip"}
      BY <2>1, <2>4 DEF ReturnToCaller, Return
    <3>2. QED
      BY <2>1, <2>2, <3>1, OthersKeepSyncing
  <2>5. QED
    BY <2>3, <2>4
<1>6. ASSUME NEW t \in Trackers, SyncFetch(t)
      PROVE  SyncInv'
  <2>1. /\ pc'[t] = "sync" /\ at'[t] = 1 /\ UNCHANGED yahoo
        /\ \A u \in Trackers \ {t} :
             pc'[u] = pc[u] /\ caller'[u] = caller[u] /\ at'[u] = at[u] /\ mem'[u] = mem[u]
    BY <1>6 DEF SyncFetch
  <2>2. CopiedUpTo(t, at[t] - 1)'
    BY <2>1 DEF CopiedUpTo
  <2>3. QED
    BY <2>1, <2>2, OthersKeepSyncing
<1>7. ASSUME NEW t \in Trackers, SyncResult(t)
      PROVE  SyncInv'
  <2> DEFINE n == at[t]
  <2>1. /\ pc[t] = "sync" /\ n \in 1..Len(yahoo) /\ n \in Picks /\ UNCHANGED yahoo
    BY <1>7, DraftAssumption DEF SyncResult, SyncInBounds, Picks
  <2>2. CopiedUpTo(t, n - 1)
    BY <2>1 DEF SyncInv
  <2>3. CASE AlreadyCopied(t, n)
    <3>1. pc'[t] = "sync" /\ at' = [at EXCEPT ![t] = n + 1] /\ UNCHANGED <<mem, pc, caller>>
      BY <1>7, <2>1, <2>3 DEF SyncResult
    <3>2. at'[t] - 1 = n
      BY <3>1
    <3>3. \A k \in 1..n : k = n \/ k \in 1..(n - 1)
      BY <2>1
    <3>4. CopiedUpTo(t, n)
      BY <2>1, <2>2, <2>3, <3>3 DEF CopiedUpTo, AlreadyCopied
    <3>5. CopiedUpTo(t, at[t] - 1)'
      BY <2>1, <3>1, <3>2, <3>4 DEF CopiedUpTo, Resolve, Occupied
    <3>6. QED
      BY <2>1, <3>1, <3>5, OthersKeepSyncing
  <2>4. CASE ~AlreadyCopied(t, n)
    <3>1. /\ mem' = [mem EXCEPT ![t][n] = YahooEntry(n)]
          /\ at' = [at EXCEPT ![t] = n] /\ pc' = [pc EXCEPT ![t] = "store"]
          /\ caller' = [caller EXCEPT ![t] = "sync"]
      BY <1>7, <2>4 DEF SyncResult, Storing
    <3>2. \A m \in Picks : mem'[t][m] = IF m = n THEN YahooEntry(n) ELSE mem[t][m]
      BY <2>1, <3>1 DEF Boards
    <3>3. YahooEntry(n) # Vacant /\ YahooEntry(n).player = Resolve(yahoo[n])
      BY DEF YahooEntry, Vacant
    <3>4. ASSUME NEW k \in 1..n
          PROVE  /\ k \in Picks /\ Occupied(mem'[t], k)
                 /\ mem'[t][k].player = Resolve(yahoo[k])
      <4>1. CASE k = n
        BY <2>1, <3>2, <3>3, <4>1 DEF Occupied
      <4>2. CASE k # n
        <5>1. k \in 1..(n - 1)
          BY <2>1, <4>2
        <5>2. QED
          BY <2>2, <3>2, <4>2, <5>1 DEF CopiedUpTo, Occupied
      <4>3. QED
        BY <4>1, <4>2
    <3>5. CopiedUpTo(t, at[t])'
      BY <2>1, <3>1, <3>4 DEF CopiedUpTo, Resolve, Occupied
    <3>6. pc'[t] = "store" /\ \A u \in Trackers \ {t} :
            pc'[u] = pc[u] /\ caller'[u] = caller[u] /\ at'[u] = at[u] /\ mem'[u] = mem[u]
      BY <3>1
    <3>7. QED
      BY <2>1, <3>5, <3>6, OthersKeepSyncing
  <2>5. QED
    BY <2>3, <2>4
<1>8. CASE YahooPick
  <2>1. PICK player \in Players \ Range(yahoo) : yahoo' = Append(yahoo, player)
    BY <1>8 DEF YahooPick
  <2>2. /\ \A i \in 1..Len(yahoo) : yahoo'[i] = yahoo[i]
        /\ Len(yahoo) \in Nat
        /\ UNCHANGED <<mem, pc, caller, at, goal>>
    BY <1>8, <2>1 DEF YahooPick, control, locals
  <2>3. ASSUME NEW t \in Trackers, NEW k \in 0..Len(yahoo), CopiedUpTo(t, k)
        PROVE  \A n \in 1..k : /\ n \in Picks /\ Occupied(mem'[t], n)
                               /\ mem'[t][n].player = Resolve(yahoo'[n])
    <3>1. ASSUME NEW n \in 1..k
          PROVE  /\ n \in Picks /\ Occupied(mem'[t], n)
                 /\ mem'[t][n].player = Resolve(yahoo'[n])
      <4>1. n \in 1..Len(yahoo)
        BY <2>2
      <4>2. yahoo'[n] = yahoo[n] /\ mem'[t] = mem[t]
        BY <2>2, <4>1
      <4>3. QED
        BY <2>3, <4>2 DEF CopiedUpTo
    <3>2. QED
      BY <3>1
  <2>4. ASSUME NEW t \in Trackers
        PROVE  /\ pc'[t] = "sync" => CopiedUpTo(t, at[t] - 1)'
               /\ pc'[t] = "store" /\ caller'[t] = "sync" => CopiedUpTo(t, at[t])'
    <3>1. pc[t] = "sync" \/ (pc[t] = "store" /\ caller[t] = "sync") =>
            /\ at[t] \in 1..(goal[t] + 1) /\ goal[t] <= Len(yahoo) /\ goal[t] \in Nat
            /\ pc[t] = "store" => at[t] <= goal[t]
      BY DEF SyncInBounds
    <3>2. pc[t] = "sync" => at[t] - 1 \in 0..Len(yahoo) /\ CopiedUpTo(t, at[t] - 1)
      BY <2>2, <3>1 DEF SyncInv
    <3>3. pc[t] = "store" /\ caller[t] = "sync" =>
            at[t] \in 0..Len(yahoo) /\ CopiedUpTo(t, at[t])
      BY <2>2, <3>1 DEF SyncInv
    <3>4. pc[t] = "sync" => CopiedUpTo(t, at[t] - 1)'
      <4>1. PICK k : k = at[t] - 1
        OBVIOUS
      <4>2. at'[t] - 1 = k
        BY <2>2, <4>1
      <4>3. pc[t] = "sync" => k \in 0..Len(yahoo) /\ CopiedUpTo(t, k)
        BY <3>2, <4>1
      <4>4. pc[t] = "sync" => \A n \in 1..k : /\ n \in Picks /\ Occupied(mem'[t], n)
                                             /\ mem'[t][n].player = Resolve(yahoo'[n])
        BY <2>3, <4>3
      <4>5. QED
        BY <4>2, <4>4 DEF CopiedUpTo, Resolve, Occupied
    <3>5. pc[t] = "store" /\ caller[t] = "sync" => CopiedUpTo(t, at[t])'
      BY <2>2, <2>3, <3>3 DEF CopiedUpTo, Resolve, Occupied
    <3>6. QED
      BY <2>2, <3>4, <3>5
  <2>5. QED
    BY <2>4 DEF SyncInv
<1>9. CASE Crash
  <2>1. \A t \in Trackers : pc'[t] = "down"
    BY <1>9 DEF Crash
  <2>2. QED
    BY <2>1 DEF SyncInv
<1>10. CASE DropConnection \/ UNCHANGED vars
  <2>1. UNCHANGED <<mem, pc, caller, at, yahoo>>
    BY <1>10 DEF DropConnection, vars, control, locals
  <2>2. QED
    BY <2>1 DEF SyncInv, CopiedUpTo, Resolve, Occupied
<1>11. QED
  BY <1>1, <1>2, <1>3, <1>4, <1>5, <1>6, <1>7, <1>8, <1>9, <1>10
     DEF Next, Hand, Carry

(* A green banner is never shown over a memory that lacks one of the        *)
(* results just fetched, however many sessions share the connection and     *)
(* whatever happens to it (sync_from_yahoo's last_sync_ok).                 *)
THEOREM GreenMeansItIsCopied == Spec => GreenMeansCopied
<1> DEFINE Turns(t) ==
             lastSyncOk[t] # "ok" /\ lastSyncOk'[t] = "ok" =>
               \A n \in 1..goal[t] : /\ Occupied(mem'[t], n)
                                     /\ mem'[t][n].player = Resolve(yahoo[n])
           Truly == \A t \in Trackers : Turns(t)
<1>1. Init => TypeInv
  BY DraftAssumption, TrackerAssumption
     DEF Init, TypeInv, TypeOK, SyncInBounds, Boards, EmptyBoard
<1>2. Init => SyncInv
  BY DEF Init, SyncInv
<1>3. TypeInv /\ SyncInv /\ [Next]_vars => [Truly]_vars
  <2> SUFFICES ASSUME TypeInv, SyncInv, Next, NEW t \in Trackers,
                      lastSyncOk[t] # "ok", lastSyncOk'[t] = "ok",
                      NEW n \in 1..goal[t]
               PROVE  Occupied(mem'[t], n) /\ mem'[t][n].player = Resolve(yahoo[n])
    OBVIOUS
  <2> USE DEF TypeInv, TypeOK
  <2>1. SyncDone(t)
    <3>1. ASSUME NEW u \in Trackers, ~(u = t /\ SyncDone(u)),
                 Open(u) \/ Hand(u) \/ Carry(u)
                 \/ SyncFetch(u) \/ SyncFails(u) \/ StoreFails(u)
          PROVE  FALSE
      <4>1. CASE Open(u)
        BY <4>1 DEF Open
      <4>2. CASE Hand(u)
        BY <4>2 DEF Hand, RecordPick, UndoLast, Reset, SkipTo, ByHand
      <4>3. CASE Carry(u)
        BY <3>1, <4>3 DEF Carry, Store, SkipTurn, SkipTurnAt, SkipDone, SyncResult, SyncDone
      <4>4. CASE SyncFetch(u) \/ SyncFails(u) \/ StoreFails(u)
        BY <4>4 DEF SyncFetch, SyncFails, StoreFails
      <4>5. QED
        BY <3>1, <4>1, <4>2, <4>3, <4>4
    <3>2. ~YahooPick /\ ~Crash /\ ~DropConnection
      BY DEF YahooPick, Crash, DropConnection
    <3>3. QED
      BY <3>1, <3>2 DEF Next
  <2>2. pc[t] = "sync" /\ at[t] > goal[t] /\ UNCHANGED <<mem, yahoo>>
    BY <2>1 DEF SyncDone
  <2>3. n \in 1..(at[t] - 1)
    BY <2>2
  <2>4. QED
    BY <2>2, <2>3 DEF SyncInv, CopiedUpTo
<1>4. QED
  BY <1>1, <1>2, <1>3, TypeInvInductive, SyncInductive, PTL DEF Spec, GreenMeansCopied
=============================================================================

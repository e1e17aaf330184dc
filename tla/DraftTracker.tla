---------------------------- MODULE DraftTracker ----------------------------
(***************************************************************************)
(* src/draft/live.py: DraftTracker, which keeps "who has been drafted, and *)
(* by whom" twice - in memory, and in the draft_picks table - and changes  *)
(* both by hand entry and by copying Yahoo's live draft results.           *)
(*                                                                         *)
(* Every tracker of one dashboard process shares its one database          *)
(* connection (st.cache_resource), so a statement one of them has not      *)
(* committed is seen by the others and is committed by whichever of them   *)
(* commits first.  `rows` is the table as that connection sees it, `disk`  *)
(* what is committed.  The database is the hosted Postgres, whose          *)
(* connection can be lost between two statements (src/storage.py).         *)
(***************************************************************************)
EXTENDS DraftOrder, Sequences, Functions

CONSTANTS
  Trackers,    \* DraftTracker objects: one per browser session or CLI call
  YahooOn,     \* whether a Yahoo client is configured
  HandTeams,   \* the team keys a person passes; none passed is the snake order
  Unmapped,    \* players whose Yahoo key resolves to no player of ours
  MaxEdits,    \* bound: operations asked for by hand
  MaxCrashes,  \* bound: process deaths
  MaxDrops     \* bound: lost connections and failed writes

ASSUME TrackerAssumption ==
  /\ YahooOn \in BOOLEAN
  /\ HandTeams \subseteq TeamKeys
  /\ Unmapped \subseteq Players
  /\ MaxEdits \in Nat /\ MaxCrashes \in Nat /\ MaxDrops \in Nat

VARIABLES
  mem,         \* state.picks of each tracker
  lastSyncOk,  \* last_sync_ok of each tracker
  pc,          \* what each tracker is in the middle of
  caller,      \* who called _store: "hand", "skip" or "sync"
  at,          \* the pick number it is working on
  goal,        \* skip_to's target, or how many results Yahoo returned
  entry,       \* the Pick being stored
  rows, disk,  \* draft_picks: as the connection sees it, and committed
  yahoo,       \* the draft at Yahoo: the players picked so far, in order
  edits, crashes, drops

locals == <<caller, at, goal, entry>>
control == <<pc, locals>>
budgets == <<edits, crashes, drops>>
vars == <<mem, lastSyncOk, control, rows, disk, yahoo, budgets>>

Init ==
  /\ mem = [t \in Trackers |-> EmptyBoard]
  /\ lastSyncOk = [t \in Trackers |-> "unknown"]
  /\ pc = [t \in Trackers |-> "down"]
  /\ caller = [t \in Trackers |-> "hand"]
  /\ at = [t \in Trackers |-> 1]
  /\ goal = [t \in Trackers |-> 0]
  /\ entry = [t \in Trackers |-> Vacant]
  /\ rows = EmptyBoard
  /\ disk = EmptyBoard
  /\ yahoo = <<>>
  /\ edits = 0 /\ crashes = 0 /\ drops = 0

(* A method returns: its local variables are gone.                          *)
Return(t) ==
  /\ pc' = [pc EXCEPT ![t] = "idle"]
  /\ caller' = [caller EXCEPT ![t] = "hand"]
  /\ at' = [at EXCEPT ![t] = 1]
  /\ goal' = [goal EXCEPT ![t] = 0]
  /\ entry' = [entry EXCEPT ![t] = Vacant]
----------------------------------------------------------------------------
(* A page run or a CLI call constructs a tracker, which loads the table.    *)
Open(t) ==
  /\ pc[t] \in {"down", "fresh", "idle"}
  /\ mem' = [mem EXCEPT ![t] = rows]
  /\ lastSyncOk' = [lastSyncOk EXCEPT ![t] = "unknown"]
  /\ pc' = [pc EXCEPT ![t] = "fresh"]
  /\ UNCHANGED <<locals, rows, disk, yahoo, budgets>>

(* A person's operation: at most one tracker method per page run, on a      *)
(* tracker that is not busy with another.                                   *)
ByHand(t) ==
  /\ pc[t] \in {"fresh", "idle"}
  /\ edits < MaxEdits
  /\ edits' = edits + 1
  /\ UNCHANGED <<lastSyncOk, yahoo, crashes, drops>>

HandEntry(player, team) ==
  [player |-> player, team |-> team,
   source |-> IF player = NoPlayer THEN "skipped" ELSE "manual"]

(* record_pick up to its call of _store: the player's earlier picks leave   *)
(* the dictionary and, uncommitted, the table; the entry joins the          *)
(* dictionary.                                                              *)
Storing(t, n, new) ==
  /\ entry' = [entry EXCEPT ![t] = new]
  /\ at' = [at EXCEPT ![t] = n]
  /\ pc' = [pc EXCEPT ![t] = "store"]

RecordPickKeepingEarlier(t, player, n, team) ==
  /\ ByHand(t)
  /\ mem' = [mem EXCEPT ![t][n] = HandEntry(player, team)]
  /\ Storing(t, n, HandEntry(player, team))
  /\ UNCHANGED <<caller, goal, rows, disk>>

RecordPickCommittingTwice(t, player, n, team) ==
  LET dropped == Earlier(mem[t], n, player)
  IN  /\ ByHand(t)
      /\ mem' = [mem EXCEPT ![t] = [Without(mem[t], dropped)
                                      EXCEPT ![n] = HandEntry(player, team)]]
      /\ rows' = Without(rows, dropped)
      /\ disk' = rows'
      /\ Storing(t, n, HandEntry(player, team))
      /\ UNCHANGED <<caller, goal>>

RecordPick(t, player, n, team) ==
  LET dropped == Earlier(mem[t], n, player)
  IN  /\ ByHand(t)
      /\ mem' = [mem EXCEPT ![t] = [Without(mem[t], dropped)
                                      EXCEPT ![n] = HandEntry(player, team)]]
      /\ rows' = Without(rows, dropped)
      /\ Storing(t, n, HandEntry(player, team))
      /\ UNCHANGED <<caller, goal, disk>>

(* _store: the upsert and the commit, which also commits whatever the       *)
(* connection has pending; then back to the caller.                         *)
ReturnToCaller(t) ==
  \/ caller[t] = "hand" /\ Return(t)
  \/ /\ caller[t] # "hand"
     /\ pc' = [pc EXCEPT ![t] = caller[t]]
     /\ at' = [at EXCEPT ![t] = IF caller[t] = "sync" THEN @ + 1 ELSE 1]
     /\ caller' = [caller EXCEPT ![t] = "hand"]
     /\ entry' = [entry EXCEPT ![t] = Vacant]
     /\ UNCHANGED goal

StoreUncommitted(t) ==
  /\ pc[t] = "store"
  /\ rows' = [rows EXCEPT ![at[t]] = entry[t]]
  /\ ReturnToCaller(t)
  /\ UNCHANGED <<mem, lastSyncOk, disk, yahoo, budgets>>

Store(t) ==
  /\ pc[t] = "store"
  /\ rows' = [rows EXCEPT ![at[t]] = entry[t]]
  /\ disk' = rows'
  /\ ReturnToCaller(t)
  /\ UNCHANGED <<mem, lastSyncOk, yahoo, budgets>>

(* The write fails for good: the wrapper rolls back and raises, and what is *)
(* in memory stays there.                                                   *)
StoreFails(t) ==
  /\ pc[t] = "store"
  /\ drops < MaxDrops
  /\ drops' = drops + 1
  /\ rows' = disk
  /\ Return(t)
  /\ UNCHANGED <<mem, lastSyncOk, disk, yahoo, edits, crashes>>

UndoLastUncommitted(t) ==
  \E n \in Picks :
    /\ ByHand(t)
    /\ IsLast(mem[t], n)
    /\ mem' = [mem EXCEPT ![t][n] = Vacant]
    /\ rows' = [rows EXCEPT ![n] = Vacant]
    /\ Return(t)
    /\ UNCHANGED disk

UndoLast(t) ==
  \E n \in Picks :
    /\ ByHand(t)
    /\ IsLast(mem[t], n)
    /\ mem' = [mem EXCEPT ![t][n] = Vacant]
    /\ rows' = [rows EXCEPT ![n] = Vacant]
    /\ disk' = rows'
    /\ Return(t)

Reset(t) ==
  /\ ByHand(t)
  /\ mem' = [mem EXCEPT ![t] = EmptyBoard]
  /\ rows' = EmptyBoard
  /\ disk' = EmptyBoard
  /\ Return(t)

----------------------------------------------------------------------------
(* skip_to(target): placeholders up to, and not including, the target pick. *)
SkipTo(t, target) ==
  /\ ByHand(t)
  /\ \E n \in Picks : IsNext(mem[t], n) /\ n < target
  /\ goal' = [goal EXCEPT ![t] = target]
  /\ pc' = [pc EXCEPT ![t] = "skip"]
  /\ UNCHANGED <<mem, caller, at, entry, rows, disk>>

SkipTurnAt(t, n) ==
  /\ pc[t] = "skip"
  /\ mem' = [mem EXCEPT ![t][n] = HandEntry(NoPlayer, SlotOf(n))]
  /\ Storing(t, n, HandEntry(NoPlayer, SlotOf(n)))
  /\ caller' = [caller EXCEPT ![t] = "skip"]
  /\ UNCHANGED <<lastSyncOk, goal, rows, disk, yahoo, budgets>>

SkipTurnFromFirst(t) ==
  \E n \in Picks : /\ n < goal[t]
                   /\ mem[t][n].source # "skipped"
                   /\ \A m \in 1..(n - 1) : mem[t][m].source = "skipped"
                   /\ SkipTurnAt(t, n)

SkipTurn(t) ==
  \E n \in Picks : IsNext(mem[t], n) /\ n < goal[t] /\ SkipTurnAt(t, n)

SkipDone(t) ==
  /\ pc[t] = "skip"
  /\ \A n \in Picks : IsNext(mem[t], n) => n >= goal[t]
  /\ Return(t)
  /\ UNCHANGED <<mem, lastSyncOk, rows, disk, yahoo, budgets>>

----------------------------------------------------------------------------
(* sync_from_yahoo.  Its callers run it once, straight after constructing   *)
(* the tracker.  The fetch is atomic; each result is then compared with     *)
(* memory, and stored on its own.                                           *)
SyncFails(t) ==
  /\ pc[t] = "fresh"
  /\ lastSyncOk' = [lastSyncOk EXCEPT ![t] = "failed"]
  /\ Return(t)
  /\ UNCHANGED <<mem, rows, disk, yahoo, budgets>>

SyncFetch(t) ==
  /\ YahooOn
  /\ pc[t] = "fresh"
  /\ goal' = [goal EXCEPT ![t] = Len(yahoo)]
  /\ at' = [at EXCEPT ![t] = 1]
  /\ pc' = [pc EXCEPT ![t] = "sync"]
  /\ UNCHANGED <<mem, lastSyncOk, caller, entry, rows, disk, yahoo, budgets>>

Resolve(player) == IF player \in Unmapped THEN NoPlayer ELSE player

YahooEntry(n) ==
  [player |-> Resolve(yahoo[n]), team |-> YahooTeam(SlotOf(n)),
   source |-> "yahoo"]

(* `existing and existing.player_key == player_key` *)
AlreadyCopiedAnyone(t, n) == Occupied(mem[t], n)

AlreadyCopied(t, n) ==
  /\ Occupied(mem[t], n)
  /\ mem[t][n].player = Resolve(yahoo[n])

SyncResult(t) ==
  LET n == at[t]
  IN  /\ pc[t] = "sync"
      /\ n <= goal[t]
      /\ \/ /\ AlreadyCopied(t, n)
            /\ at' = [at EXCEPT ![t] = n + 1]
            /\ UNCHANGED <<mem, pc, caller, entry>>
         \/ /\ ~AlreadyCopied(t, n)
            /\ mem' = [mem EXCEPT ![t][n] = YahooEntry(n)]
            /\ Storing(t, n, YahooEntry(n))
            /\ caller' = [caller EXCEPT ![t] = "sync"]
      /\ UNCHANGED <<lastSyncOk, goal, rows, disk, yahoo, budgets>>

SyncDone(t) ==
  /\ pc[t] = "sync"
  /\ at[t] > goal[t]
  /\ lastSyncOk' = [lastSyncOk EXCEPT ![t] = "ok"]
  /\ Return(t)
  /\ UNCHANGED <<mem, rows, disk, yahoo, budgets>>

----------------------------------------------------------------------------
(* The draft itself moves on at Yahoo: one player a pick, each once.        *)
YahooPick ==
  /\ Len(yahoo) < TotalPicks
  /\ Len(yahoo) < PickLimit
  /\ \E player \in Players \ Range(yahoo) : yahoo' = Append(yahoo, player)
  /\ UNCHANGED <<mem, lastSyncOk, control, rows, disk, budgets>>

(* The process dies, or the hosted app is rebooted: memory goes, and the    *)
(* server rolls back what was not committed.                                *)
Crash ==
  /\ crashes < MaxCrashes
  /\ crashes' = crashes + 1
  /\ mem' = [t \in Trackers |-> EmptyBoard]
  /\ lastSyncOk' = [t \in Trackers |-> "unknown"]
  /\ pc' = [t \in Trackers |-> "down"]
  /\ caller' = [t \in Trackers |-> "hand"]
  /\ at' = [t \in Trackers |-> 1]
  /\ goal' = [t \in Trackers |-> 0]
  /\ entry' = [t \in Trackers |-> Vacant]
  /\ rows' = disk
  /\ UNCHANGED <<disk, yahoo, edits, drops>>

(* The pooler closes the connection with a statement pending: the server    *)
(* rolls it back, and the next execute() reopens and carries on.            *)
DropConnection ==
  /\ rows # disk
  /\ drops < MaxDrops
  /\ drops' = drops + 1
  /\ rows' = disk
  /\ UNCHANGED <<mem, lastSyncOk, control, disk, yahoo, edits, crashes>>

Hand(t) ==
  \/ \E player \in Players \cup {NoPlayer}, n \in Picks :
       \E team \in HandTeams \cup {SlotOf(n)} : RecordPick(t, player, n, team)
  \/ UndoLast(t)
  \/ Reset(t)
  \/ \E target \in Picks : SkipTo(t, target)

Carry(t) ==
  \/ Store(t)
  \/ SkipTurn(t)
  \/ SkipDone(t)
  \/ SyncResult(t)
  \/ SyncDone(t)

Next ==
  \/ \E t \in Trackers : Open(t) \/ Hand(t) \/ Carry(t)
  \/ \E t \in Trackers : SyncFetch(t) \/ SyncFails(t) \/ StoreFails(t)
  \/ YahooPick
  \/ Crash
  \/ DropConnection

Spec == Init /\ [][Next]_vars

(* An open page keeps running its script, which finishes what it began, and *)
(* Yahoo answers again and again when asked again and again.                *)
FairSpec ==
  /\ Spec
  /\ \A t \in Trackers : /\ WF_vars(Open(t))
                         /\ WF_vars(Carry(t))
                         /\ SF_vars(SyncFetch(t))
----------------------------------------------------------------------------
TypeOK ==
  /\ mem \in [Trackers -> Boards]
  /\ lastSyncOk \in [Trackers -> {"unknown", "ok", "failed"}]
  /\ pc \in [Trackers -> {"down", "fresh", "idle", "store", "skip", "sync"}]
  /\ caller \in [Trackers -> {"hand", "skip", "sync"}]
  /\ at \in [Trackers -> Nat]
  /\ goal \in [Trackers -> Nat]
  /\ entry \in [Trackers -> Entries \cup {Vacant}]
  /\ rows \in Boards
  /\ disk \in Boards
  /\ yahoo \in Seq(Players)
  /\ edits \in 0..MaxEdits
  /\ crashes \in 0..MaxCrashes
  /\ drops \in 0..MaxDrops

(* Two picks of a board that name the same player. *)
Repeated(board, m, n) ==
  m # n /\ Named(board, m) /\ board[m].player = board[n].player

(* live.py, the "One player, one pick" comment of record_pick: no player    *)
(* holds two picks of the stored draft.                                     *)
OnePlayerOnePick == \A m, n \in Picks : ~Repeated(disk, m, n)

(* What record_pick's clearing of earlier picks does achieve, in memory and *)
(* in the table: of two picks that name one player, one was typed and the   *)
(* other copied from Yahoo; two typed picks never repeat a player, nor two  *)
(* copied ones.                                                             *)
OneTypedOneCopied(board) ==
  \A m, n \in Picks : Repeated(board, m, n) =>
    (board[m].source = "yahoo") # (board[n].source = "yahoo")

RepeatsMixSources ==
  /\ OneTypedOneCopied(disk)
  /\ \A t \in Trackers : OneTypedOneCopied(mem[t])

(* Between operations the memory of the only tracker is exactly the stored  *)
(* draft, so a refresh or a reboot restores it (tools/simulate_draft.py:    *)
(* "refresh mid-draft: state restored exactly").                            *)
MemoryIsStored ==
  \A t \in Trackers :
    pc[t] \in {"fresh", "idle", "skip", "sync"} => mem[t] = disk

(* skip_to: "Anonymous picks advance the count and the snake order without  *)
(* claiming anyone is off the board": no turn of it changes who is drafted, *)
(* in memory or on disk, and when it is done the target is the next pick.   *)
SkipClaimsNobody ==
  [][\A t \in Trackers :
       /\ pc[t] = "skip" /\ pc'[t] = "store" =>
            DraftedKeys(mem'[t]) = DraftedKeys(mem[t])
       /\ pc[t] = "store" /\ caller[t] = "skip" /\ pc'[t] = "skip" =>
            DraftedKeys(disk') = DraftedKeys(disk)
       /\ pc[t] = "skip" /\ pc'[t] = "idle" => IsNext(mem[t], goal[t])]_vars

(* A green banner (last_sync_ok) is never shown over a memory that lacks    *)
(* one of the results just fetched, or holds another player at its pick.    *)
GreenMeansCopied ==
  [][\A t \in Trackers :
       lastSyncOk[t] # "ok" /\ lastSyncOk'[t] = "ok" =>
         \A n \in 1..goal[t] : /\ Occupied(mem'[t], n)
                               /\ mem'[t][n].player = Resolve(yahoo[n])]_vars

(* Once people stop tapping and faults stop, syncing page runs bring the    *)
(* stored draft to agree with every pick Yahoo has, whatever several        *)
(* sessions, crashes and lost connections did to it before.                 *)
CopiedFromYahoo ==
  \A n \in 1..Len(yahoo) : /\ Occupied(disk, n)
                           /\ disk[n].player = Resolve(yahoo[n])
YahooWins == <>[]CopiedFromYahoo

(* Why those hold when there is one tracker and no database fault: what is  *)
(* committed, what the connection has pending and what memory holds differ  *)
(* only while one entry is being stored, and then by exactly that entry and *)
(* the picks it clears.  This is the invariant the proofs use.              *)
CopiesAreYahoos(board) ==
  \A n \in Picks : board[n].source = "yahoo" =>
    /\ YahooOn
    /\ n \in 1..Len(yahoo)
    /\ board[n].player = Resolve(yahoo[n])

Storable(t) ==
  LET cleared == Earlier(disk, at[t], entry[t].player)
  IN  /\ at[t] \in Picks
      /\ entry[t] \in Entries
      /\ mem[t] = [rows EXCEPT ![at[t]] = entry[t]]
      /\ \/ /\ entry[t].source # "yahoo"
            /\ caller[t] # "sync"
            /\ rows = Without(disk, cleared)
         \/ /\ YahooOn
            /\ at[t] \in 1..Len(yahoo)
            /\ entry[t] = YahooEntry(at[t])
            /\ caller[t] = "sync"
            /\ rows = disk

OneWriter(t) ==
  /\ \A m, n \in 1..Len(yahoo) : yahoo[m] = yahoo[n] => m = n
  /\ CopiesAreYahoos(disk)
  /\ OneTypedOneCopied(disk)
  /\ pc[t] # "store" => rows = disk
  /\ pc[t] = "down" => mem[t] = EmptyBoard
  /\ pc[t] \in {"fresh", "idle", "skip", "sync"} => mem[t] = disk
  /\ pc[t] = "sync" => YahooOn
  /\ pc[t] = "store" => Storable(t)

(* The committed table changes by whole operations only: the two steps of   *)
(* a correction (drop the earlier pick, store the new one) are one.         *)
Sheet == INSTANCE DraftSheet WITH sheet <- disk
StoredByWholeOperations == Sheet!Spec

(* live.py's first promise, "every operation works identically when Yahoo   *)
(* polling fails and picks are entered by hand": a pick copied from Yahoo   *)
(* is on the roster of the slot that made it, as a typed one is.            *)
CopiedPicksReachTheirRoster ==
  \A t \in Trackers, n \in Picks :
    /\ lastSyncOk[t] = "ok"
    /\ Named(mem[t], n)
    /\ mem[t][n].source = "yahoo"
    => mem[t][n].player \in RosterOf(mem[t], SlotOf(n))
=============================================================================

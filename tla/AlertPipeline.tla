---------------------------- MODULE AlertPipeline ----------------------------
(***************************************************************************)
(* From an injury status at Sleeper to a message somebody reads:           *)
(*                                                                         *)
(*   sync_injuries   src/sources/sleeper.py     feed     -> injuries table *)
(*   run, commit     src/season/injuries.py     observed -> report,        *)
(*                                              report   -> baseline       *)
(*   send            src/notify.py              report   -> channels, log  *)
(*   cmd_job         src/cli.py                 the order of all these     *)
(*                                                                         *)
(* and the one-time announcement announce_yahoo_scope, which goes through  *)
(* the same Notifier.  Several runners (the scheduled GitHub job, a        *)
(* terminal) work on the one hosted database, each statement committed     *)
(* before the next step, and each of them can die between two steps.       *)
(***************************************************************************)
EXTENDS Integers, FiniteSets

CONSTANTS
  Runners,     \* processes that run `fcc sync`, `fcc injuries`, `fcc yahoo-scope`
  Players,     \* the players the feed tracks
  Tags,        \* injury statuses the feed can carry
  Healthy,     \* the None of a player without a status
  Unset,       \* no baseline has been stored yet
  Views,       \* the players a run's league snapshot exposes: {} without one
  Enabled,     \* notifications.<channel>.enabled
  Window,      \* dedup_window_hours, in ticks of the clock
  MaxClock,    \* bound: ticks of the clock
  MaxMoves,    \* bound: status changes in the feed
  MaxCrashes   \* bound: processes that die

Channels == {"discord", "email", "desktop"}

ASSUME AlertAssumption ==
  /\ Healthy \notin Tags
  /\ Views \subseteq SUBSET Players
  /\ Enabled \subseteq Channels
  /\ Window \in Nat /\ MaxClock \in Nat
  /\ MaxMoves \in Nat /\ MaxCrashes \in Nat

Statuses == [Players -> Tags \cup {Healthy}]
AllHealthy == [p \in Players |-> Healthy]
Changes == [player: Players, before: Tags \cup {Healthy}, after: Tags \cup {Healthy}]

(* Identity of the fact, Notification.dedup_key: the job and the changes    *)
(* its message lists.  The one-time fact is "Yahoo attached the scope".     *)
Facts == [job: {"injuries", "yahoo-scope"}, changes: SUBSET Changes]
Injuries(changes) == [job |-> "injuries", changes |-> changes]
NoNews == Injuries({})
Scope == [job |-> "yahoo-scope", changes |-> {}]

ASSUME UnsetIsNoStatus == Unset \notin Statuses

VARIABLES
  feed,      \* the statuses Sleeper publishes
  observed,  \* current_statuses: each player's latest row of `injuries`
  baseline,  \* the latest row of `snapshots`, or Unset
  log,       \* recommendations with notified_at set: which fact, and when
  now,       \* the clock
  pc,        \* what each runner is about to do
  pending,   \* the statuses it read: report.pending_snapshot
  fact,      \* the fact it is telling
  todo,      \* the channels it has not tried yet
  told,      \* `delivered`: the channels that took the message
  failed,    \* `errors`: the channels that raised
  inbox,     \* history: what reached somebody, through which channel, when
  repeats,   \* history: per channel, facts it took again inside the window
  moves, crashes

report == <<pending, fact>>
delivery == <<todo, told, failed>>
run == <<pc, report, delivery>>
store == <<observed, baseline, log>>
history == <<inbox, repeats>>
vars == <<feed, store, now, run, history, moves, crashes>>

Init ==
  /\ feed \in Statuses
  /\ observed = AllHealthy
  /\ baseline = Unset
  /\ log = {}
  /\ now = 0
  /\ pc = [r \in Runners |-> "idle"]
  /\ pending = [r \in Runners |-> AllHealthy]
  /\ fact = [r \in Runners |-> NoNews]
  /\ todo = [r \in Runners |-> {}]
  /\ told = [r \in Runners |-> {}]
  /\ failed = [r \in Runners |-> {}]
  /\ inbox = {}
  /\ repeats = [c \in Channels |-> 0]
  /\ moves = 0 /\ crashes = 0

(* The process exits: what it held is gone.                                 *)
Exit(r) ==
  /\ pc' = [pc EXCEPT ![r] = "idle"]
  /\ pending' = [pending EXCEPT ![r] = AllHealthy]
  /\ fact' = [fact EXCEPT ![r] = NoNews]
  /\ todo' = [todo EXCEPT ![r] = {}]
  /\ told' = [told EXCEPT ![r] = {}]
  /\ failed' = [failed EXCEPT ![r] = {}]
----------------------------------------------------------------------------
(* The world.                                                               *)
FeedMoves ==
  /\ moves < MaxMoves
  /\ moves' = moves + 1
  /\ \E p \in Players, s \in Tags \cup {Healthy} :
       s # feed[p] /\ feed' = [feed EXCEPT ![p] = s]
  /\ UNCHANGED <<store, now, run, history, crashes>>

Tick ==
  /\ now < MaxClock
  /\ now' = now + 1
  /\ UNCHANGED <<feed, store, run, history, moves, crashes>>

(* sync_injuries: a row for every player carrying a status, none for the    *)
(* others, so the latest row of a player who recovered is still the old one.*)
SyncedInjuredOnly(statuses) ==
  [p \in {q \in Players : statuses[q] # Healthy} |-> statuses[p]]

Synced(statuses) ==
  [p \in Players |-> IF statuses[p] = Healthy THEN observed[p] ELSE statuses[p]]

SyncInjuries(r) ==
  /\ pc[r] = "idle"
  /\ observed' = Synced(feed)
  /\ UNCHANGED <<feed, baseline, log, now, run, history, moves, crashes>>

----------------------------------------------------------------------------
(* injuries.run: current_statuses, and then the latest snapshot.            *)
ReadStatuses(r) ==
  /\ pc[r] = "idle"
  /\ pc' = [pc EXCEPT ![r] = "diff"]
  /\ pending' = [pending EXCEPT ![r] = observed]
  /\ UNCHANGED <<feed, store, now, fact, delivery, history, moves, crashes>>

ChangesFrom(before, after, view) ==
  {[player |-> p, before |-> before[p], after |-> after[p]] :
     p \in {q \in view : before[q] # after[q]}}

(* With no change worth a message, and on a first run, cmd_job goes on to   *)
(* commit; a dry run stops here if there is something to say.               *)
DiffWithoutCommit(r, view) ==
  LET changes == IF baseline = Unset
                   THEN {}
                   ELSE ChangesFrom(baseline, pending[r], view)
  IN  /\ pc[r] = "diff"
      /\ \/ changes = {} /\ Exit(r)
         \/ /\ changes # {}
            /\ fact' = [fact EXCEPT ![r] = Injuries(changes)]
            /\ pc' = [pc EXCEPT ![r] = "check"]
            /\ UNCHANGED <<pending, delivery>>
      /\ UNCHANGED <<feed, store, now, history, moves, crashes>>

DiffAgainstBaseline(r, view) ==
  LET changes == IF baseline = Unset
                   THEN {}
                   ELSE ChangesFrom(baseline, pending[r], view)
  IN  /\ pc[r] = "diff"
      /\ fact' = [fact EXCEPT ![r] = Injuries(changes)]
      /\ pc' = [pc EXCEPT ![r] = IF changes = {} THEN "commit" ELSE "check"]
      /\ UNCHANGED <<feed, store, now, pending, delivery, history, moves, crashes>>

DryRun(r, view) ==
  /\ pc[r] = "diff"
  /\ baseline # Unset
  /\ ChangesFrom(baseline, pending[r], view) # {}
  /\ Exit(r)
  /\ UNCHANGED <<feed, store, now, history, moves, crashes>>

(* announce_yahoo_scope, once Yahoo has attached the scope: _notify_once    *)
(* asks ever_sent, with no time window, before it calls send.               *)
EverSent(f) == \E row \in log : row.fact = f

AnnounceScope(r) ==
  /\ pc[r] = "idle"
  /\ ~EverSent(Scope)
  /\ fact' = [fact EXCEPT ![r] = Scope]
  /\ pc' = [pc EXCEPT ![r] = "check"]
  /\ UNCHANGED <<feed, store, now, pending, delivery, history, moves, crashes>>

----------------------------------------------------------------------------
(* Notifier.send.                                                           *)
AlreadySent(f) == \E row \in log : row.fact = f /\ row.at > now - Window

(* A duplicate is recorded as not notified, which nothing ever reads, and   *)
(* its result carries no errors: cmd_job goes on to commit.                 *)
Suppress(r) ==
  /\ pc[r] = "check"
  /\ AlreadySent(fact[r])
  /\ \/ fact[r] = Scope /\ Exit(r)
     \/ /\ fact[r] # Scope
        /\ pc' = [pc EXCEPT ![r] = "commit"]
        /\ UNCHANGED <<report, delivery>>
  /\ UNCHANGED <<feed, store, now, history, moves, crashes>>

BeginDelivery(r) ==
  /\ pc[r] = "check"
  /\ ~AlreadySent(fact[r])
  /\ pc' = [pc EXCEPT ![r] = "deliver"]
  /\ todo' = [todo EXCEPT ![r] = Enabled]
  /\ UNCHANGED <<feed, store, now, report, told, failed, history, moves, crashes>>

(* The channels are tried in this order.  Discord without its URL and a     *)
(* desktop without a notifier return False; an e-mail that cannot be sent   *)
(* raises.                                                                  *)
First(channels) ==
  CHOOSE c \in channels :
    \/ c = "discord"
    \/ c = "email" /\ "discord" \notin channels
    \/ channels = {"desktop"}

OutcomesMuted(c) == {"ok", "skipped"}

Outcomes(c) ==
  CASE c = "discord" -> {"ok", "skipped", "failed"}
    [] c = "email"   -> {"ok", "failed"}
    [] c = "desktop" -> {"ok", "skipped"}

(* Inside the window already: the fact reached this channel before.         *)
Repeats(f, c) ==
  \E d \in inbox : d.fact = f /\ d.channel = c /\ d.at > now - Window

Deliver(r, outcome) ==
  LET c == First(todo[r])
  IN  /\ pc[r] = "deliver"
      /\ todo[r] # {}
      /\ outcome \in Outcomes(c)
      /\ todo' = [todo EXCEPT ![r] = @ \ {c}]
      /\ \/ /\ outcome = "ok"
            /\ told' = [told EXCEPT ![r] = @ \cup {c}]
            /\ inbox' = inbox \cup {[fact |-> fact[r], channel |-> c, at |-> now]}
            /\ repeats' = IF Repeats(fact[r], c)
                            THEN [repeats EXCEPT ![c] = @ + 1] ELSE repeats
            /\ UNCHANGED failed
         \/ /\ outcome = "failed"
            /\ failed' = [failed EXCEPT ![r] = @ \cup {c}]
            /\ UNCHANGED <<told, history>>
         \/ /\ outcome = "skipped"
            /\ UNCHANGED <<told, failed, history>>
      /\ UNCHANGED <<feed, store, now, pc, report, moves, crashes>>

(* Notified, if any channel took it.  With an error on any channel cmd_job  *)
(* fails here and leaves the baseline alone; the announcement ends anyway.  *)
RecordUnnotified(r) ==
  /\ pc[r] = "deliver"
  /\ todo[r] = {}
  /\ \/ (fact[r] = Scope \/ failed[r] # {}) /\ Exit(r)
     \/ /\ fact[r] # Scope /\ failed[r] = {}
        /\ pc' = [pc EXCEPT ![r] = "commit"]
        /\ UNCHANGED <<report, delivery>>
  /\ UNCHANGED <<feed, store, now, history, moves, crashes>>

Record(r) ==
  /\ pc[r] = "deliver"
  /\ todo[r] = {}
  /\ log' = IF told[r] = {} THEN log ELSE log \cup {[fact |-> fact[r], at |-> now]}
  /\ \/ (fact[r] = Scope \/ failed[r] # {}) /\ Exit(r)
     \/ /\ fact[r] # Scope /\ failed[r] = {}
        /\ pc' = [pc EXCEPT ![r] = "commit"]
        /\ UNCHANGED <<report, delivery>>
  /\ UNCHANGED <<feed, observed, baseline, now, history, moves, crashes>>

(* injuries.commit: an empty snapshot is not stored.                        *)
Commit(r) ==
  /\ pc[r] = "commit"
  /\ baseline' = IF pending[r] = AllHealthy THEN baseline ELSE pending[r]
  /\ Exit(r)
  /\ UNCHANGED <<feed, observed, log, now, history, moves, crashes>>

----------------------------------------------------------------------------
(* A runner dies between two of its steps; what is stored stays.            *)
Crash(r) ==
  /\ pc[r] # "idle"
  /\ crashes < MaxCrashes
  /\ crashes' = crashes + 1
  /\ Exit(r)
  /\ UNCHANGED <<feed, store, now, history, moves>>

Finish(r) ==
  \/ \E view \in Views : DiffAgainstBaseline(r, view)
  \/ Suppress(r)
  \/ BeginDelivery(r)
  \/ Record(r)
  \/ Commit(r)

Next ==
  \/ FeedMoves
  \/ Tick
  \/ \E r \in Runners :
       \/ SyncInjuries(r) \/ ReadStatuses(r) \/ AnnounceScope(r)
       \/ Finish(r)
       \/ \E view \in Views : DryRun(r, view)
       \/ \E outcome \in {"ok", "skipped", "failed"} : Deliver(r, outcome)
       \/ Crash(r)

Spec == Init /\ [][Next]_vars

(* A run that started ends; every day has another sync and another injury   *)
(* run that is not a dry one; and a mail server that is tried again and     *)
(* again works now and then.                                                *)
FairSpec ==
  /\ Spec
  /\ \A r \in Runners : /\ SF_vars(SyncInjuries(r))
                         /\ SF_vars(ReadStatuses(r))
                         /\ SF_vars(Finish(r))
                         /\ SF_vars(Deliver(r, "ok"))
                         /\ WF_vars(\E o \in {"ok", "skipped", "failed"} :
                                       Deliver(r, o))
----------------------------------------------------------------------------
TypeOK ==
  /\ feed \in Statuses
  /\ observed \in Statuses
  /\ baseline \in Statuses \cup {Unset}
  /\ log \subseteq [fact: Facts, at: 0..MaxClock]
  /\ now \in 0..MaxClock
  /\ pc \in [Runners -> {"idle", "diff", "check", "deliver", "commit"}]
  /\ pending \in [Runners -> Statuses]
  /\ fact \in [Runners -> Facts]
  /\ todo \in [Runners -> SUBSET Channels]
  /\ told \in [Runners -> SUBSET Channels]
  /\ failed \in [Runners -> SUBSET Channels]
  /\ inbox \subseteq [fact: Facts, channel: Channels, at: 0..MaxClock]
  /\ repeats \in [Channels -> Nat]
  /\ moves \in 0..MaxMoves
  /\ crashes \in 0..MaxCrashes

(* The baseline moves past a change.                                        *)
Passed(p) ==
  /\ baseline # Unset
  /\ baseline' # baseline
  /\ baseline'[p] # baseline[p]

HeardOn(channels, p) ==
  \E d \in inbox :
    /\ d.channel \in channels
    /\ [player |-> p, before |-> baseline[p], after |-> baseline'[p]]
         \in d.fact.changes

(* injuries.commit: "Call only after the report has been delivered."  With  *)
(* e-mail on, the one channel that never skips in silence, one runner, and  *)
(* a roster in every run, the baseline passes no change that was not told   *)
(* through some channel, whatever fails, dies or is suppressed.             *)
NothingPassesUntold ==
  [][\A p \in Players : Passed(p) => HeardOn(Channels, p)]_vars

(* Why the first of them holds with one runner that always sees the roster: *)
(* a logged fact reached somebody, and a run about to commit told, or found *)
(* told, exactly the difference between the baseline and what it will store.*)
(* This is the invariant the proof uses.                                    *)
Reached(f) == \E d \in inbox : d.fact = f

Difference(r) == Injuries(ChangesFrom(baseline, pending[r], Players))

HonestRun(r) ==
  /\ pc[r] \in {"idle", "diff", "check"} => told[r] = {} /\ failed[r] = {}
  /\ told[r] # {} => Reached(fact[r])
  /\ pc[r] = "deliver" => "email" \in todo[r] \cup told[r] \cup failed[r]
  /\ pc[r] \in {"check", "deliver"} =>
       fact[r] = Scope \/ (baseline # Unset /\ fact[r] = Difference(r))
  /\ pc[r] = "commit" /\ baseline # Unset =>
       /\ fact[r] = Difference(r)
       /\ fact[r] # NoNews => Reached(fact[r])

HonestInv ==
  /\ \A row \in log : Reached(row.fact)
  /\ \A r \in Runners : HonestRun(r)

(* notify.py: "the same unchanged fact is never sent twice inside the       *)
(* configured window".  With one runner a channel gets a fact again inside  *)
(* the window only if a process died between telling and recording.         *)
RepeatsNeedCrashes == \A c \in Channels : repeats[c] <= crashes

(* Once the feed stands still, the baseline comes to agree with it on every *)
(* player who carries a status: no failure, crash, duplicate or first run   *)
(* leaves a change pending for ever.                                        *)
BaselineCatchesUp ==
  <>[](\A p \in Players : feed[p] # Healthy =>
         baseline # Unset /\ baseline[p] = feed[p])

(* README.md: the job "diffs status changes against yesterday".  A player   *)
(* who loses his status is a change like any other.                         *)
RecoveriesCatchUp ==
  <>[](baseline # Unset => \A p \in Players : baseline[p] = feed[p])
=============================================================================

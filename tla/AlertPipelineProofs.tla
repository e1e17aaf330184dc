------------------------- MODULE AlertPipelineProofs -------------------------
(***************************************************************************)
(* Proofs about what is told: by AlertPipeline, for every set of runners,  *)
(* players, statuses and channels, every dedup window and every bound: its *)
(* types, that nothing passes untold, and that one runner repeats a fact   *)
(* only for a crash; and by Reminders, that a deadline of the week is told *)
(* on its day.                                                             *)
(***************************************************************************)
EXTENDS AlertPipeline, Reminders, FiniteSetTheorems, TLAPS

(* The channel send tries next is one of those left.                        *)
LEMMA FirstIsOne ==
  ASSUME NEW channels \in SUBSET Channels, channels # {}
  PROVE  First(channels) \in channels
<1>1. \E c \in channels : \/ c = "discord"
                          \/ c = "email" /\ "discord" \notin channels
                          \/ channels = {"desktop"}
  BY DEF Channels
<1>2. QED
  BY <1>1 DEF First

(* What a run has to say is a fact.                                         *)
LEMMA ChangesType ==
  ASSUME NEW before \in Statuses, NEW after \in Statuses, NEW view \in SUBSET Players
  PROVE  Injuries(ChangesFrom(before, after, view)) \in Facts
BY DEF Statuses, Injuries, ChangesFrom, Facts, Changes

(* So are the two messages that name no change.                             *)
LEMMA FixedFacts == NoNews \in Facts /\ Scope \in Facts
BY DEF NoNews, Injuries, Scope, Facts

(* A run that ends leaves its variables of the right type.                  *)
LEMMA ExitType ==
  ASSUME TypeOK, NEW r \in Runners, Exit(r)
  PROVE  /\ pc' \in [Runners -> {"idle", "diff", "check", "deliver", "commit"}]
         /\ pending' \in [Runners -> Statuses]
         /\ fact' \in [Runners -> Facts]
         /\ todo' \in [Runners -> SUBSET Channels]
         /\ told' \in [Runners -> SUBSET Channels]
         /\ failed' \in [Runners -> SUBSET Channels]
<1>1. AllHealthy \in Statuses
  BY DEF AllHealthy, Statuses
<1>2. QED
  BY <1>1, FixedFacts DEF TypeOK, Exit

(* Every step keeps the type invariant.                                     *)
LEMMA TypeInductive == TypeOK /\ [Next]_vars => TypeOK'
<1> SUFFICES ASSUME TypeOK, [Next]_vars
             PROVE  TypeOK'
  OBVIOUS
<1> USE AlertAssumption
<1>0. CASE UNCHANGED vars
  BY <1>0 DEF TypeOK, vars, run, report, delivery, store, history
<1>1. CASE FeedMoves
  <2>1. feed' \in Statuses
    BY <1>1 DEF FeedMoves, TypeOK, Statuses
  <2>2. QED
    BY <1>1, <2>1 DEF FeedMoves, TypeOK, run, report, delivery, store, history
<1>2. CASE Tick
  BY <1>2 DEF Tick, TypeOK, run, report, delivery, store, history
<1>3. ASSUME NEW r \in Runners, SyncInjuries(r)
      PROVE  TypeOK'
  <2>1. observed' \in Statuses
    BY <1>3 DEF SyncInjuries, Synced, TypeOK, Statuses
  <2>2. QED
    BY <1>3, <2>1 DEF SyncInjuries, TypeOK, run, report, delivery, history
<1>4. ASSUME NEW r \in Runners, ReadStatuses(r)
      PROVE  TypeOK'
  BY <1>4 DEF ReadStatuses, TypeOK, delivery, store, history
<1>5. ASSUME NEW r \in Runners, AnnounceScope(r)
      PROVE  TypeOK'
  BY <1>5, FixedFacts DEF AnnounceScope, TypeOK, delivery, store, history
<1>6. ASSUME NEW r \in Runners, NEW view \in Views, DiffAgainstBaseline(r, view)
      PROVE  TypeOK'
  <2> DEFINE changes == IF baseline = Unset THEN {}
                          ELSE ChangesFrom(baseline, pending[r], view)
  <2>1. Injuries(changes) \in Facts
    <3>1. CASE baseline = Unset
      BY <3>1, FixedFacts DEF NoNews
    <3>2. CASE baseline # Unset
      BY <3>2, ChangesType DEF TypeOK
    <3>3. QED
      BY <3>1, <3>2
  <2>2. fact' = [fact EXCEPT ![r] = Injuries(changes)]
    BY <1>6 DEF DiffAgainstBaseline
  <2>3. pc' \in [Runners -> {"idle", "diff", "check", "deliver", "commit"}]
    BY <1>6 DEF DiffAgainstBaseline, TypeOK
  <2>4. fact' \in [Runners -> Facts]
    BY <2>1, <2>2 DEF TypeOK
  <2>5. UNCHANGED <<feed, store, now, pending, delivery, history, moves, crashes>>
    BY <1>6 DEF DiffAgainstBaseline
  <2>6. QED
    BY <2>3, <2>4, <2>5 DEF TypeOK, delivery, store, history
<1>7. ASSUME NEW r \in Runners, NEW view \in Views, DryRun(r, view)
      PROVE  TypeOK'
  BY <1>7, ExitType DEF DryRun, TypeOK, store, history
<1>8. ASSUME NEW r \in Runners, Suppress(r)
      PROVE  TypeOK'
  <2>1. UNCHANGED <<feed, store, now, history, moves, crashes>>
    BY <1>8 DEF Suppress
  <2>2. CASE Exit(r)
    BY <2>1, <2>2, ExitType DEF TypeOK, store, history
  <2>3. CASE pc' = [pc EXCEPT ![r] = "commit"] /\ UNCHANGED <<report, delivery>>
    BY <2>1, <2>3 DEF TypeOK, store, history, report, delivery
  <2>4. QED
    BY <1>8, <2>2, <2>3 DEF Suppress
<1>9. ASSUME NEW r \in Runners, BeginDelivery(r)
      PROVE  TypeOK'
  BY <1>9 DEF BeginDelivery, TypeOK, store, history, report
<1>10. ASSUME NEW r \in Runners, NEW outcome, Deliver(r, outcome)
       PROVE  TypeOK'
  <2> DEFINE c == First(todo[r])
  <2>1. c \in Channels
    BY <1>10, FirstIsOne DEF Deliver, TypeOK
  <2>2. todo' \in [Runners -> SUBSET Channels]
    BY <1>10 DEF Deliver, TypeOK
  <2>3. told' \in [Runners -> SUBSET Channels] /\ failed' \in [Runners -> SUBSET Channels]
    BY <1>10, <2>1 DEF Deliver, TypeOK, history
  <2>4. inbox' \subseteq [fact: Facts, channel: Channels, at: 0..MaxClock]
    BY <1>10, <2>1 DEF Deliver, TypeOK, history
  <2>5. repeats' \in [Channels -> Nat]
    BY <1>10, <2>1 DEF Deliver, TypeOK, history
  <2>6. UNCHANGED <<feed, store, now, pc, report, moves, crashes>>
    BY <1>10 DEF Deliver
  <2>7. QED
    BY <2>2, <2>3, <2>4, <2>5, <2>6 DEF TypeOK, store, report
<1>11. ASSUME NEW r \in Runners, Record(r)
       PROVE  TypeOK'
  <2>1. log' \subseteq [fact: Facts, at: 0..MaxClock]
    BY <1>11 DEF Record, TypeOK
  <2>2. UNCHANGED <<feed, observed, baseline, now, history, moves, crashes>>
    BY <1>11 DEF Record
  <2>3. CASE Exit(r)
    BY <2>1, <2>2, <2>3, ExitType DEF TypeOK, history
  <2>4. CASE pc' = [pc EXCEPT ![r] = "commit"] /\ UNCHANGED <<report, delivery>>
    BY <2>1, <2>2, <2>4 DEF TypeOK, history, report, delivery
  <2>5. QED
    BY <1>11, <2>3, <2>4 DEF Record
<1>12. ASSUME NEW r \in Runners, Commit(r)
       PROVE  TypeOK'
  <2>1. baseline' \in Statuses \cup {Unset}
    BY <1>12 DEF Commit, TypeOK
  <2>2. Exit(r) /\ UNCHANGED <<feed, observed, log, now, history, moves, crashes>>
    BY <1>12 DEF Commit
  <2>3. QED
    BY <2>1, <2>2, ExitType DEF TypeOK, history
<1>13. ASSUME NEW r \in Runners, Crash(r)
       PROVE  TypeOK'
  BY <1>13, ExitType DEF Crash, TypeOK, store, history
<1>14. QED
  BY <1>0, <1>1, <1>2, <1>3, <1>4, <1>5, <1>6, <1>7, <1>8, <1>9, <1>10, <1>11,
     <1>12, <1>13 DEF Next, Finish

(* The initial states are of the right type.                                *)
LEMMA TypeInit == Init => TypeOK
BY AlertAssumption, FixedFacts
   DEF Init, TypeOK, AllHealthy, Statuses, NoNews, Facts, Channels

(* Every value the pipeline handles is one the code can handle, whatever    *)
(* the runners do to each other: every alert lists only changes of players  *)
(* of the feed, and the baseline is a whole status table or absent.         *)
THEOREM TypeCorrect == Spec => []TypeOK
<1>1. QED
  BY TypeInit, TypeInductive, PTL DEF Spec
----------------------------------------------------------------------------
(* What a step leaves of HonestRun when it touches neither the run nor the  *)
(* baseline, and takes nothing out of the inbox.                            *)
LEMMA HonestStays ==
  ASSUME NEW r \in Runners, HonestRun(r), inbox \subseteq inbox',
         UNCHANGED <<pc, fact, pending, baseline, todo, told, failed>>
  PROVE  HonestRun(r)'
BY DEF HonestRun, Reached, Difference, Injuries, ChangesFrom

(* A run that ends claims nothing any more.                                 *)
LEMMA HonestExit ==
  ASSUME TypeOK, NEW r \in Runners, Runners = {r}, Exit(r)
  PROVE  \A q \in Runners : HonestRun(q)'
BY DEF TypeOK, Exit, HonestRun

(* Every step keeps the honesty of the log and of the only runner.          *)
LEMMA HonestInductive ==
  ASSUME NEW me, Runners = {me}, "email" \in Enabled, Views = {Players},
         TypeOK, HonestInv, [Next]_vars
  PROVE  HonestInv'
<1> USE DEF HonestInv
<1> DEFINE LogKept == \A row \in log' : Reached(row.fact)'
<1>0. HonestRun(me) /\ me \in Runners
  OBVIOUS
<1>1. CASE UNCHANGED vars
  <2>1. HonestRun(me)'
    BY <1>0, <1>1, HonestStays DEF vars, run, report, delivery, store, history
  <2>2. LogKept
    BY <1>1 DEF vars, store, history, Reached
  <2>3. QED
    BY <2>1, <2>2
<1>2. CASE FeedMoves \/ Tick \/ SyncInjuries(me)
  <2>1. UNCHANGED <<run, baseline, log, history>>
    BY <1>2 DEF FeedMoves, Tick, SyncInjuries, store
  <2>2. HonestRun(me)'
    BY <1>0, <2>1, HonestStays DEF run, report, delivery, history
  <2>3. LogKept
    BY <2>1 DEF history, Reached
  <2>4. QED
    BY <2>2, <2>3
<1>3. CASE ReadStatuses(me)
  <2>1. UNCHANGED <<baseline, log, fact, delivery, history>> /\ pc' = [pc EXCEPT ![me] = "diff"]
        /\ pc[me] = "idle"
    BY <1>3 DEF ReadStatuses, store
  <2>2. HonestRun(me)'
    BY <1>0, <2>1 DEF HonestRun, delivery, history, Reached, TypeOK
  <2>3. LogKept
    BY <2>1 DEF history, Reached
  <2>4. QED
    BY <2>2, <2>3
<1>4. CASE AnnounceScope(me)
  <2>1. /\ UNCHANGED <<store, pending, delivery, history>>
        /\ pc[me] = "idle" /\ pc' = [pc EXCEPT ![me] = "check"]
        /\ fact' = [fact EXCEPT ![me] = Scope]
    BY <1>4 DEF AnnounceScope
  <2>2. HonestRun(me)'
    BY <1>0, <2>1 DEF HonestRun, delivery, history, store, Reached, TypeOK
  <2>3. LogKept
    BY <2>1 DEF history, store, Reached
  <2>4. QED
    BY <2>2, <2>3
<1>5. CASE DiffAgainstBaseline(me, Players)
  <2> DEFINE changes == IF baseline = Unset THEN {}
                          ELSE ChangesFrom(baseline, pending[me], Players)
  <2>1. /\ UNCHANGED <<store, pending, delivery, history>>
        /\ pc[me] = "diff"
        /\ pc' = [pc EXCEPT ![me] = IF changes = {} THEN "commit" ELSE "check"]
        /\ fact' = [fact EXCEPT ![me] = Injuries(changes)]
    BY <1>5 DEF DiffAgainstBaseline
  <2>2. fact'[me] = Injuries(changes) /\ pc'[me] = IF changes = {} THEN "commit" ELSE "check"
    BY <1>0, <2>1 DEF TypeOK
  <2>3. told'[me] = {} /\ failed'[me] = {} /\ baseline' = baseline /\ pending' = pending
    BY <1>0, <2>1 DEF HonestRun, delivery, store
  <2>4. baseline # Unset => Injuries(changes) = Difference(me)
    BY DEF Difference
  <2>5. Difference(me)' = Difference(me)
    BY <2>3 DEF Difference
  <2>6. changes = {} => Injuries(changes) = NoNews
    BY DEF NoNews
  <2>7. changes # {} => baseline # Unset
    OBVIOUS
  <2>8. HonestRun(me)'
    <3> HIDE DEF changes
    <3>1. QED
      BY <2>2, <2>3, <2>4, <2>5, <2>6, <2>7 DEF HonestRun
  <2>9. LogKept
    BY <2>1 DEF history, store, Reached
  <2>10. QED
    BY <2>8, <2>9
<1>6. CASE DryRun(me, Players) \/ Crash(me)
  <2>1. Exit(me) /\ UNCHANGED <<store, history>>
    BY <1>6 DEF DryRun, Crash
  <2>2. LogKept
    BY <2>1 DEF history, store, Reached
  <2>3. QED
    BY <1>0, <2>1, <2>2, HonestExit
<1>7. CASE Suppress(me)
  <2>1. /\ UNCHANGED <<store, history>>
        /\ pc[me] = "check" /\ AlreadySent(fact[me])
        /\ \/ Exit(me)
           \/ /\ fact[me] # Scope
              /\ pc' = [pc EXCEPT ![me] = "commit"]
              /\ UNCHANGED <<report, delivery>>
    BY <1>7 DEF Suppress
  <2>2. LogKept
    BY <2>1 DEF history, store, Reached
  <2>3. CASE Exit(me)
    BY <1>0, <2>2, <2>3, HonestExit
  <2>4. CASE ~Exit(me)
    <3>1. Reached(fact[me])
      BY <2>1 DEF AlreadySent
    <3>2. pc'[me] = "commit" /\ UNCHANGED <<baseline, inbox, pending, fact, told, failed>>
      BY <1>0, <2>1, <2>4 DEF TypeOK, report, delivery, store, history
    <3>3. fact[me] = Difference(me) /\ Difference(me)' = Difference(me)
      BY <1>0, <2>1, <2>4, <3>2 DEF HonestRun, Difference
    <3>4. HonestRun(me)'
      BY <3>1, <3>2, <3>3 DEF HonestRun, Reached
    <3>5. QED
      BY <2>2, <3>4
  <2>5. QED
    BY <2>3, <2>4
<1>8. CASE BeginDelivery(me)
  <2>1. /\ UNCHANGED <<store, report, told, failed, history>>
        /\ pc[me] = "check" /\ pc'[me] = "deliver" /\ todo'[me] = Enabled
    BY <1>0, <1>8 DEF BeginDelivery, TypeOK
  <2>2. Difference(me)' = Difference(me)
    BY <2>1 DEF Difference, store, report
  <2>3. HonestRun(me)'
    BY <1>0, <2>1, <2>2 DEF HonestRun, store, report, history
  <2>4. LogKept
    BY <2>1 DEF history, store, Reached
  <2>5. QED
    BY <2>3, <2>4
<1>9. ASSUME NEW outcome, Deliver(me, outcome)
      PROVE  HonestInv'
  <2> DEFINE c == First(todo[me])
  <2>1. /\ pc[me] = "deliver" /\ UNCHANGED <<pc, report, store>>
        /\ todo[me] # {} /\ outcome \in Outcomes(c)
        /\ todo'[me] = todo[me] \ {c}
    BY <1>0, <1>9 DEF Deliver, TypeOK
  <2>2. c \in Channels
    BY <1>0, <2>1, FirstIsOne DEF TypeOK
  <2>3. inbox \subseteq inbox'
    BY <1>9 DEF Deliver, history
  <2>4. LogKept
    BY <2>1, <2>3 DEF store, Reached
  <2>5. Difference(me)' = Difference(me) /\ fact' = fact
    BY <2>1 DEF Difference, store, report
  <2>6. CASE outcome = "ok"
    <3>1. /\ told'[me] = told[me] \cup {c} /\ failed' = failed
          /\ inbox' = inbox \cup {[fact |-> fact[me], channel |-> c, at |-> now]}
      BY <1>0, <1>9, <2>6 DEF Deliver, TypeOK
    <3>2. Reached(fact[me])'
      <4> DEFINE d == [fact |-> fact[me], channel |-> c, at |-> now]
      <4>1. d \in inbox' /\ d.fact = fact[me]
        BY <3>1
      <4>2. \E e \in inbox' : e.fact = fact[me]
        BY <4>1
      <4>3. QED
        BY <2>5, <4>2 DEF Reached
    <3>3. "email" \in todo'[me] \cup told'[me] \cup failed'[me]
      BY <1>0, <2>1, <3>1 DEF HonestRun
    <3>4. fact[me] = Scope \/ (baseline # Unset /\ fact[me] = Difference(me))
      BY <1>0, <2>1 DEF HonestRun
    <3>5. pc' = pc /\ baseline' = baseline
      BY <2>1 DEF store
    <3>6. HonestRun(me)'
      BY <2>1, <2>5, <3>2, <3>3, <3>4, <3>5 DEF HonestRun
    <3>7. QED
      BY <2>4, <3>6
  <2>7. CASE outcome = "failed"
    <3>1. /\ told' = told /\ failed'[me] = failed[me] \cup {c} /\ inbox' = inbox
      BY <1>0, <1>9, <2>7 DEF Deliver, TypeOK, history
    <3>2. QED
      BY <1>0, <2>1, <2>4, <2>5, <3>1 DEF HonestRun, store, Reached
  <2>8. CASE outcome = "skipped"
    <3>1. UNCHANGED <<told, failed, inbox>>
      BY <1>9, <2>8 DEF Deliver, history
    <3>2. c # "email"
      BY <2>1, <2>8 DEF Outcomes
    <3>3. QED
      BY <1>0, <2>1, <2>4, <2>5, <3>1, <3>2 DEF HonestRun, store, Reached
  <2>9. QED
    BY <1>9, <2>6, <2>7, <2>8 DEF Deliver
<1>10. CASE Record(me)
  <2>1. /\ pc[me] = "deliver" /\ todo[me] = {}
        /\ log' = IF told[me] = {} THEN log
                    ELSE log \cup {[fact |-> fact[me], at |-> now]}
        /\ UNCHANGED <<baseline, history>>
        /\ \/ Exit(me)
           \/ /\ fact[me] # Scope /\ failed[me] = {}
              /\ pc' = [pc EXCEPT ![me] = "commit"]
              /\ UNCHANGED <<report, delivery>>
    BY <1>10 DEF Record
  <2>2. LogKept
    BY <1>0, <2>1 DEF HonestRun, history, Reached
  <2>3. CASE Exit(me)
    BY <1>0, <2>2, <2>3, HonestExit
  <2>4. CASE ~Exit(me)
    <3>1. "email" \in told[me] /\ Reached(fact[me])
      BY <1>0, <2>1, <2>4 DEF HonestRun
    <3>2. pc'[me] = "commit" /\ UNCHANGED <<baseline, inbox, pending, fact, told, failed>>
      BY <1>0, <2>1, <2>4 DEF TypeOK, report, delivery, history
    <3>3. fact[me] = Difference(me) /\ Difference(me)' = Difference(me)
      BY <1>0, <2>1, <2>4, <3>2 DEF HonestRun, Difference
    <3>4. HonestRun(me)'
      BY <3>1, <3>2, <3>3 DEF HonestRun, Reached
    <3>5. QED
      BY <2>2, <3>4
  <2>5. QED
    BY <2>3, <2>4
<1>11. CASE Commit(me)
  <2>1. Exit(me) /\ UNCHANGED <<log, history>>
    BY <1>11 DEF Commit
  <2>2. LogKept
    BY <2>1 DEF history, Reached
  <2>3. QED
    BY <1>0, <2>1, <2>2, HonestExit
<1>12. QED
  BY <1>1, <1>2, <1>3, <1>4, <1>5, <1>6, <1>7, <1>8, <1>9, <1>10, <1>11
     DEF Next, Finish

(* Nothing is logged at first.                                              *)
LEMMA HonestInit == Init => HonestInv
BY DEF Init, HonestInv, HonestRun

(* A step that moves the baseline passes only what somebody was told.       *)
LEMMA PassesOnlyTold ==
  ASSUME NEW me, Runners = {me}, TypeOK, HonestInv, [Next]_vars, NEW p \in Players, Passed(p)
  PROVE  HeardOn(Channels, p)
<1>1. Commit(me)
  <2>1. baseline' # baseline
    BY DEF Passed
  <2>2. QED
    BY <2>1
       DEF Next, vars, store, FeedMoves, Tick, SyncInjuries, ReadStatuses,
           AnnounceScope, Finish, DiffAgainstBaseline, Suppress, BeginDelivery,
           Record, DryRun, Deliver, Crash
<1>2. baseline # Unset /\ baseline' = pending[me] /\ baseline[p] # pending[me][p]
  BY <1>1 DEF Commit, Passed
<1>3. fact[me] = Difference(me) /\ (fact[me] # NoNews => Reached(fact[me]))
  BY <1>1, <1>2 DEF Commit, HonestInv, HonestRun
<1> DEFINE change == [player |-> p, before |-> baseline[p], after |-> baseline'[p]]
<1>4. change \in fact[me].changes
  BY <1>2, <1>3 DEF Difference, Injuries, ChangesFrom
<1>5. PICK d \in inbox : d.fact = fact[me]
  BY <1>3, <1>4 DEF NoNews, Injuries, Reached
<1>6. d.channel \in Channels
  BY DEF TypeOK
<1>7. QED
  BY <1>4, <1>5, <1>6 DEF HeardOn

(* injuries.commit, "Call only after the report has been delivered", holds  *)
(* of one runner with e-mail on and the roster at hand: the baseline passes *)
(* no change that did not reach somebody, whatever the channels do, however *)
(* often the process dies, and although a duplicate is not sent again.      *)
THEOREM NothingPassesUntoldSolo ==
  ASSUME NEW me, Runners = {me}, "email" \in Enabled, Views = {Players}
  PROVE  Spec => NothingPassesUntold
<1>1. TypeOK /\ HonestInv /\ [Next]_vars => TypeOK' /\ HonestInv'
  BY TypeInductive, HonestInductive
<1>2. TypeOK /\ HonestInv /\ [Next]_vars =>
        [\A p \in Players : Passed(p) => HeardOn(Channels, p)]_vars
  BY PassesOnlyTold
<1>3. QED
  BY <1>1, <1>2, TypeInit, HonestInit, PTL DEF Spec, NothingPassesUntold
----------------------------------------------------------------------------
(* Repeats and crashes.  What a channel took and no row of the log covers   *)
(* can be told again inside the window; every repeat uses up one such fact, *)
(* and only a crash makes one.                                              *)

Uncovered(f, c) ==
  \E d \in inbox : /\ d.fact = f /\ d.channel = c
                   /\ \A row \in log : row.fact = f => row.at < d.at

\* The run that is telling it has not died.
Telling(r, f, c) == pc[r] = "deliver" /\ fact[r] = f /\ c \in told[r]

Lost(r, c) == {f \in Facts : Uncovered(f, c) /\ ~Telling(r, f, c)}

CountedRun(r) ==
  /\ pc[r] \in {"idle", "diff", "check"} => told[r] = {}
  /\ todo[r] \cap told[r] = {}
  /\ pc[r] = "deliver" => \A row \in log : row.fact = fact[r] => row.at <= now - Window

Counted(r, c) ==
  /\ IsFiniteSet(Lost(r, c))
  /\ repeats[c] + Cardinality(Lost(r, c)) <= crashes

CountInv(r) ==
  /\ \A d \in inbox : d.at <= now
  /\ CountedRun(r)
  /\ \A c \in Channels : Counted(r, c)

(* A step that loses no more facts, or uses up one for a repeat, or loses   *)
(* one in a crash.                                                          *)
LEMMA CountedStays ==
  ASSUME TypeOK, TypeOK', NEW r \in Runners, NEW c \in Channels, Counted(r, c),
         \/ /\ Lost(r, c)' \subseteq Lost(r, c)
            /\ repeats'[c] = repeats[c] /\ crashes' = crashes
         \/ \E f \in Lost(r, c) :
              /\ Lost(r, c)' \subseteq Lost(r, c) \ {f}
              /\ repeats'[c] = repeats[c] + 1 /\ crashes' = crashes
         \/ \E f : /\ Lost(r, c)' \subseteq Lost(r, c) \cup {f}
                   /\ repeats'[c] = repeats[c] /\ crashes' = crashes + 1
  PROVE  Counted(r, c)'
<1> DEFINE L == Lost(r, c)
           M == Lost(r, c)'
<1>1. IsFiniteSet(L) /\ repeats[c] + Cardinality(L) <= crashes /\ Cardinality(L) \in Nat
  BY FS_CardinalityType DEF Counted
<1>2. repeats[c] \in Nat /\ crashes \in Nat
  BY AlertAssumption DEF TypeOK
<1>3. SUFFICES IsFiniteSet(M) /\ repeats'[c] + Cardinality(M) <= crashes'
  BY DEF Counted
<1>4. CASE M \subseteq L /\ repeats'[c] = repeats[c] /\ crashes' = crashes
  <2> HIDE DEF L, M
  <2>1. IsFiniteSet(M) /\ Cardinality(M) <= Cardinality(L)
    BY <1>1, <1>4, FS_Subset
  <2>2. Cardinality(M) \in Nat
    BY <2>1, FS_CardinalityType
  <2> QED
    BY <1>1, <1>2, <1>4, <2>1, <2>2
<1>5. ASSUME NEW f \in L, M \subseteq L \ {f}, repeats'[c] = repeats[c] + 1, crashes' = crashes
      PROVE  IsFiniteSet(M) /\ repeats'[c] + Cardinality(M) <= crashes'
  <2> HIDE DEF L, M
  <2>1. IsFiniteSet(L \ {f}) /\ Cardinality(L \ {f}) = Cardinality(L) - 1
    BY <1>1, <1>5, FS_RemoveElement
  <2>2. IsFiniteSet(M) /\ Cardinality(M) <= Cardinality(L \ {f})
    BY <1>5, <2>1, FS_Subset
  <2>3. Cardinality(M) \in Nat
    BY <2>2, FS_CardinalityType
  <2> QED
    BY <1>1, <1>2, <1>5, <2>1, <2>2, <2>3
<1>6. ASSUME NEW f, M \subseteq L \cup {f}, repeats'[c] = repeats[c], crashes' = crashes + 1
      PROVE  IsFiniteSet(M) /\ repeats'[c] + Cardinality(M) <= crashes'
  <2> HIDE DEF L, M
  <2>1. IsFiniteSet(L \cup {f}) /\ Cardinality(L \cup {f}) <= Cardinality(L) + 1
    <3>1. /\ IsFiniteSet(L \cup {f})
          /\ Cardinality(L \cup {f}) = IF f \in L THEN Cardinality(L) ELSE Cardinality(L) + 1
      BY <1>1, FS_AddElement
    <3> QED
      BY <1>1, <3>1
  <2>2. IsFiniteSet(M) /\ Cardinality(M) <= Cardinality(L \cup {f})
    BY <1>6, <2>1, FS_Subset
  <2>3. Cardinality(M) \in Nat /\ Cardinality(L \cup {f}) \in Nat
    BY <2>1, <2>2, FS_CardinalityType
  <2> QED
    BY <1>1, <1>2, <1>6, <2>1, <2>2, <2>3
<1>7. QED
  BY <1>4, <1>5, <1>6

(* A step that tells nobody anything and dies nowhere.                      *)
LEMMA CountedQuietly ==
  ASSUME TypeOK, TypeOK', NEW r \in Runners, CountInv(r),
         UNCHANGED <<log, history, crashes>>, now <= now', CountedRun(r)',
         \A f \in Facts, c \in Channels : Telling(r, f, c) => Telling(r, f, c)'
  PROVE  CountInv(r)'
<1>1. UNCHANGED <<log, inbox, repeats, crashes>>
  BY DEF history
<1>2. ASSUME NEW c \in Channels
      PROVE  Counted(r, c)'
  <2>1. Lost(r, c)' \subseteq Lost(r, c)
    BY <1>1 DEF Lost, Uncovered
  <2>2. Counted(r, c)
    BY DEF CountInv
  <2>3. QED
    BY <1>1, <2>1, <2>2, CountedStays
<1>3. \A d \in inbox' : d.at <= now'
  BY <1>1 DEF CountInv, TypeOK
<1>4. QED
  BY <1>2, <1>3 DEF CountInv

(* Every step keeps the count.                                              *)
LEMMA CountInductive ==
  ASSUME NEW me, Runners = {me}, TypeOK, TypeOK', CountInv(me), [Next]_vars
  PROVE  CountInv(me)'
<1>0. me \in Runners /\ CountedRun(me) /\ now \in Int /\ Window \in Nat
  BY AlertAssumption DEF CountInv, TypeOK
<1>1. CASE UNCHANGED vars
  <2>1. UNCHANGED <<log, history, crashes, now, pc, fact, todo, told>>
    BY <1>1 DEF vars, run, report, delivery, store
  <2>2. CountedRun(me)' /\ \A f \in Facts, c \in Channels : Telling(me, f, c) => Telling(me, f, c)'
    BY <1>0, <2>1 DEF CountedRun, Telling
  <2>3. QED
    BY <1>0, <2>1, <2>2, CountedQuietly
<1>2. CASE FeedMoves \/ Tick \/ SyncInjuries(me)
  <2>1. UNCHANGED <<log, history, crashes, pc, fact, todo, told>> /\ now' \in {now, now + 1}
    BY <1>2 DEF FeedMoves, Tick, SyncInjuries, run, report, delivery, store
  <2>2. \A row \in log : row.at \in Int
    BY DEF TypeOK
  <2>3. CountedRun(me)' /\ \A f \in Facts, c \in Channels : Telling(me, f, c) => Telling(me, f, c)'
    BY <1>0, <2>1, <2>2 DEF CountedRun, Telling
  <2>4. QED
    BY <1>0, <2>1, <2>3, CountedQuietly
<1>3. CASE ReadStatuses(me) \/ AnnounceScope(me) \/ DiffAgainstBaseline(me, Players)
           \/ \E view \in Views : DiffAgainstBaseline(me, view)
  <2>1. /\ UNCHANGED <<log, history, crashes, now, todo, told>>
        /\ pc[me] \in {"idle", "diff"} /\ pc'[me] \in {"diff", "check", "commit"}
    BY <1>0, <1>3 DEF ReadStatuses, AnnounceScope, DiffAgainstBaseline, TypeOK, store, delivery
  <2>2. CountedRun(me)' /\ \A f \in Facts, c \in Channels : Telling(me, f, c) => Telling(me, f, c)'
    BY <1>0, <2>1 DEF CountedRun, Telling
  <2>3. QED
    BY <1>0, <2>1, <2>2, CountedQuietly
<1>4. ASSUME Exit(me), UNCHANGED <<log, history, crashes, now>>, pc[me] # "deliver"
      PROVE  CountInv(me)'
  <2>1. pc'[me] = "idle" /\ told'[me] = {} /\ todo'[me] = {}
    BY <1>0, <1>4 DEF Exit, TypeOK
  <2>2. CountedRun(me)' /\ \A f \in Facts, c \in Channels : Telling(me, f, c) => Telling(me, f, c)'
    BY <1>4, <2>1 DEF CountedRun, Telling
  <2>3. QED
    BY <1>0, <1>4, <2>2, CountedQuietly
<1>5. CASE (\E view \in Views : DryRun(me, view)) \/ Commit(me)
  BY <1>4, <1>5 DEF DryRun, Commit, store
<1>6. CASE Suppress(me)
  <2>1. CASE Exit(me)
    BY <1>4, <1>6, <2>1 DEF Suppress, store
  <2>2. CASE ~Exit(me)
    <3>1. /\ UNCHANGED <<log, history, crashes, now, todo, told>>
          /\ pc[me] = "check" /\ pc'[me] = "commit"
      BY <1>0, <1>6, <2>2 DEF Suppress, TypeOK, store, delivery
    <3>2. CountedRun(me)' /\ \A f \in Facts, c \in Channels : Telling(me, f, c) => Telling(me, f, c)'
      BY <1>0, <3>1 DEF CountedRun, Telling
    <3>3. QED
      BY <1>0, <3>1, <3>2, CountedQuietly
  <2>3. QED
    BY <2>1, <2>2
<1>7. CASE BeginDelivery(me)
  <2>1. /\ UNCHANGED <<log, history, crashes, now, fact, told>>
        /\ pc[me] = "check" /\ pc'[me] = "deliver" /\ ~AlreadySent(fact[me])
    BY <1>0, <1>7 DEF BeginDelivery, TypeOK, store, report
  <2>2. told[me] = {}
    BY <1>0, <2>1 DEF CountedRun
  <2>3. \A row \in log : row.fact = fact[me] => row.at <= now - Window
    <3>1. \A row \in log : row.at \in Int
      BY DEF TypeOK
    <3>2. QED
      BY <1>0, <2>1, <3>1 DEF AlreadySent
  <2>4. CountedRun(me)' /\ \A f \in Facts, c \in Channels : Telling(me, f, c) => Telling(me, f, c)'
    BY <2>1, <2>2, <2>3 DEF CountedRun, Telling
  <2>5. QED
    BY <1>0, <2>1, <2>4, CountedQuietly
<1>8. ASSUME NEW outcome, Deliver(me, outcome)
      PROVE  CountInv(me)'
  <2>1. PICK ch : ch = First(todo[me])
    OBVIOUS
  <2>2. /\ pc[me] = "deliver" /\ UNCHANGED <<pc, fact, log, now, crashes>>
        /\ todo'[me] = todo[me] \ {ch} /\ ch \in todo[me] /\ ch \in Channels
    <3>1. todo[me] # {} /\ todo[me] \in SUBSET Channels
      BY <1>0, <1>8 DEF Deliver, TypeOK
    <3>2. QED
      BY <1>0, <1>8, <2>1, <3>1, FirstIsOne DEF Deliver, TypeOK, report, store
  <2>3. CASE outcome # "ok"
    <3>1. UNCHANGED <<told, history>>
      BY <1>8, <2>3 DEF Deliver
    <3>2. CountedRun(me)' /\ \A f \in Facts, c \in Channels : Telling(me, f, c) => Telling(me, f, c)'
      BY <1>0, <2>2, <3>1 DEF CountedRun, Telling
    <3>3. QED
      BY <1>0, <2>2, <3>1, <3>2, CountedQuietly
  <2>4. CASE outcome = "ok"
    <3> DEFINE d == [fact |-> fact[me], channel |-> ch, at |-> now]
    <3>1. /\ told'[me] = told[me] \cup {ch} /\ inbox' = inbox \cup {d}
          /\ repeats' = IF Repeats(fact[me], ch)
                          THEN [repeats EXCEPT ![ch] = @ + 1] ELSE repeats
      BY <1>0, <1>8, <2>1, <2>4 DEF Deliver, TypeOK
    <3>2. CountedRun(me)'
      BY <1>0, <2>2, <3>1 DEF CountedRun
    <3>3. \A e \in inbox' : e.at <= now'
      BY <1>0, <2>2, <3>1 DEF CountInv
    <3>4. ASSUME NEW c \in Channels
          PROVE  Counted(me, c)'
      <4>1. Counted(me, c)
        BY DEF CountInv
      <4>2. CASE c # ch
        <5>1. \A f : Uncovered(f, c)' => Uncovered(f, c)
          BY <2>2, <3>1, <4>2 DEF Uncovered
        <5>2. \A f : Telling(me, f, c) => Telling(me, f, c)'
          BY <2>2, <3>1 DEF Telling
        <5>3. Lost(me, c)' \subseteq Lost(me, c)
          BY <5>1, <5>2 DEF Lost
        <5>4. repeats'[c] = repeats[c]
          BY <3>1, <4>2 DEF TypeOK
        <5>5. QED
          BY <1>0, <2>2, <4>1, <5>3, <5>4, CountedStays
      <4>3. CASE c = ch
        <5>1. \A f : f # fact[me] => (Uncovered(f, c)' => Uncovered(f, c))
          BY <2>2, <3>1 DEF Uncovered
        <5>2. Telling(me, fact[me], c)'
          BY <2>2, <3>1, <4>3 DEF Telling
        <5>3. \A f : f # fact[me] => ~Telling(me, f, c)
          BY DEF Telling
        <5>4. ASSUME NEW f \in Lost(me, c)'
              PROVE  f \in Lost(me, c) \ {fact[me]}
          <6>1. f \in Facts /\ Uncovered(f, c)' /\ ~Telling(me, f, c)'
            BY <5>4 DEF Lost
          <6>2. f # fact[me]
            BY <2>2, <3>1, <4>3, <6>1 DEF Telling
          <6>3. QED
            BY <5>1, <5>3, <6>1, <6>2 DEF Lost
        <5>8. Lost(me, c)' \subseteq Lost(me, c) \ {fact[me]}
          BY <5>4
        <5>5. CASE ~Repeats(fact[me], ch)
          <6>1. repeats'[c] = repeats[c]
            BY <3>1, <5>5
          <6>2. QED
            BY <1>0, <2>2, <4>1, <5>8, <6>1, CountedStays
        <5>6. CASE Repeats(fact[me], ch)
          <6>1. PICK e \in inbox : e.fact = fact[me] /\ e.channel = ch /\ e.at > now - Window
            BY <5>6 DEF Repeats
          <6>2. e.at \in Int /\ \A row \in log : row.at \in Int
            BY DEF TypeOK
          <6>3. \A row \in log : row.fact = fact[me] => row.at < e.at
            BY <1>0, <2>2, <6>1, <6>2 DEF CountedRun
          <6>4. Uncovered(fact[me], c)
            BY <4>3, <6>1, <6>3 DEF Uncovered
          <6>5. ~Telling(me, fact[me], c)
            BY <1>0, <2>2, <4>3 DEF CountedRun, Telling
          <6>6. fact[me] \in Lost(me, c)
            BY <1>0, <6>4, <6>5 DEF Lost, TypeOK
          <6>7. repeats'[c] = repeats[c] + 1
            BY <3>1, <4>3, <5>6 DEF TypeOK
          <6>8. QED
            BY <1>0, <2>2, <4>1, <5>8, <6>6, <6>7, CountedStays
        <5>7. QED
          BY <5>5, <5>6
      <4>4. QED
        BY <4>2, <4>3
    <3>5. QED
      BY <3>2, <3>3, <3>4 DEF CountInv
  <2>5. QED
    BY <2>3, <2>4
<1>9. CASE Record(me)
  <2>1. /\ pc[me] = "deliver" /\ todo[me] = {}
        /\ log' = IF told[me] = {} THEN log ELSE log \cup {[fact |-> fact[me], at |-> now]}
        /\ UNCHANGED <<inbox, repeats, now, crashes>>
    BY <1>9 DEF Record, history
  <2>2. pc'[me] \in {"idle", "commit"} /\ todo'[me] = {} /\ (pc'[me] = "idle" => told'[me] = {})
    <3>1. CASE Exit(me)
      BY <1>0, <3>1 DEF Exit, TypeOK
    <3>2. CASE ~Exit(me)
      BY <1>0, <1>9, <2>1, <3>2 DEF Record, TypeOK, delivery
    <3>3. QED
      BY <3>1, <3>2
  <2>3. CountedRun(me)'
    BY <2>2 DEF CountedRun
  <2>4. ASSUME NEW c \in Channels
        PROVE  Counted(me, c)'
    <3>1. ASSUME NEW f \in Lost(me, c)'
          PROVE  f \in Lost(me, c)
      <4>1. PICK e \in inbox : e.fact = f /\ e.channel = c /\ \A row \in log' : row.fact = f => row.at < e.at
        BY <2>1, <3>1 DEF Lost, Uncovered
      <4>2. Uncovered(f, c) /\ f \in Facts
        BY <2>1, <3>1, <4>1 DEF Uncovered, Lost
      <4>3. ASSUME Telling(me, f, c)
            PROVE  FALSE
        <5>1. f = fact[me] /\ told[me] # {}
          BY <4>3 DEF Telling
        <5> DEFINE new == [fact |-> f, at |-> now]
        <5>2. new \in log' /\ new.fact = f /\ new.at = now
          BY <2>1, <5>1
        <5>3. now < e.at /\ e.at <= now /\ e.at \in Int
          BY <4>1, <5>2 DEF CountInv, TypeOK
        <5>4. QED
          BY <1>0, <5>3
      <4>4. QED
        BY <4>2, <4>3 DEF Lost
    <3>2. Lost(me, c)' \subseteq Lost(me, c) /\ Counted(me, c)
      BY <3>1 DEF CountInv
    <3>3. QED
      BY <1>0, <2>1, <3>2, CountedStays
  <2>5. QED
    BY <2>1, <2>3, <2>4 DEF CountInv
<1>10. CASE Crash(me)
  <2>1. /\ UNCHANGED <<log, inbox, repeats, now>> /\ crashes' = crashes + 1
        /\ pc'[me] = "idle" /\ told'[me] = {} /\ todo'[me] = {}
    BY <1>0, <1>10 DEF Crash, Exit, TypeOK, store, history
  <2>2. CountedRun(me)'
    BY <2>1 DEF CountedRun
  <2>3. ASSUME NEW c \in Channels
        PROVE  Counted(me, c)'
    <3>1. \A f : Uncovered(f, c)' => Uncovered(f, c)
      BY <2>1 DEF Uncovered
    <3>2. \A f : Telling(me, f, c) => f = fact[me]
      BY DEF Telling
    <3>3. Lost(me, c)' \subseteq Lost(me, c) \cup {fact[me]} /\ Counted(me, c)
      BY <3>1, <3>2 DEF Lost, CountInv
    <3>4. QED
      BY <1>0, <2>1, <3>3, CountedStays
  <2>4. QED
    BY <2>1, <2>2, <2>3 DEF CountInv
<1>11. QED
  BY <1>1, <1>2, <1>3, <1>5, <1>6, <1>7, <1>8, <1>9, <1>10 DEF Next, Finish

(* Nobody has been told anything at first.                                  *)
LEMMA CountInit == ASSUME NEW me \in Runners, Init PROVE CountInv(me)
<1>1. /\ inbox = {} /\ log = {} /\ crashes = 0 /\ pc[me] = "idle"
      /\ told[me] = {} /\ todo[me] = {} /\ \A c \in Channels : repeats[c] = 0
  BY DEF Init
<1>2. \A c : Lost(me, c) = {}
  BY <1>1 DEF Lost, Uncovered
<1>3. \A c \in Channels : Counted(me, c)
  BY <1>1, <1>2, FS_EmptySet DEF Counted
<1>4. QED
  BY <1>1, <1>3 DEF CountInv, CountedRun

(* notify.py: "the same unchanged fact is never sent twice inside the       *)
(* configured window" holds of one runner up to its crashes: a channel gets *)
(* facts again inside the window at most as often as the process died,      *)
(* whatever the window, the channels and their failures.                    *)
THEOREM RepeatsAlwaysNeedCrashes ==
  ASSUME NEW me, Runners = {me}
  PROVE  Spec => []RepeatsNeedCrashes
<1>1. TypeOK /\ CountInv(me) /\ [Next]_vars => TypeOK' /\ CountInv(me)'
  BY TypeInductive, CountInductive
<1>2. Init => CountInv(me)
  BY CountInit
<1>3. TypeOK /\ CountInv(me) => RepeatsNeedCrashes
  <2> SUFFICES ASSUME TypeOK, CountInv(me), NEW c \in Channels
               PROVE  repeats[c] <= crashes
    BY DEF RepeatsNeedCrashes
  <2>1. IsFiniteSet(Lost(me, c)) /\ repeats[c] + Cardinality(Lost(me, c)) <= crashes
    BY DEF CountInv, Counted
  <2>2. Cardinality(Lost(me, c)) \in Nat
    BY <2>1, FS_CardinalityType
  <2>3. repeats[c] \in Nat /\ crashes \in Nat
    BY AlertAssumption DEF TypeOK
  <2>4. QED
    BY <2>1, <2>2, <2>3
<1>4. QED
  BY <1>1, <1>2, <1>3, TypeInit, PTL DEF Spec
-----------------------------------------------------------------------------
(***************************************************************************)
(* The reminders.  A message of any hour says only what that hour is for;  *)
(* so a message that reads alike is of the same day of the week.           *)
(***************************************************************************)

\* The hours a deadline of the week is told in.
InSeason(about, h) ==
  /\ about = "waivers" => Weekday(h) = 1 /\ HourOfDay(h) \in 0..11
  /\ about = "lock" => Weekday(h) = 3 /\ HourOfDay(h) \in 8..19
  /\ about = "lineup" => Weekday(h) = 6 /\ HourOfDay(h) \in 7..12

RemindersInv ==
  /\ hour \in Nat
  /\ \A m \in mailed :
       /\ m.at \in Nat /\ m.at <= hour
       /\ \A about \in About(m.message) : InSeason(about, m.at)

(* A message is about what is built into it, no more and no less.           *)
LEMMA MessageIsAbout ==
  ASSUME NEW reminders
  PROVE  About(Message(reminders)) = {r.about : r \in reminders}
<1> DEFINE says == {<<r.about, r.detail>> : r \in reminders}
<1>1. Message(reminders).says = says
  BY DEF Message
<1>2. {said[1] : said \in says} = {r.about : r \in reminders}
  <2>1. ASSUME NEW r \in reminders
        PROVE  r.about \in {said[1] : said \in says}
    <3>1. PICK said : said = <<r.about, r.detail>>
      OBVIOUS
    <3>2. said \in says /\ said[1] = r.about
      BY <3>1
    <3> HIDE DEF says
    <3> QED
      BY <3>2
  <2>2. ASSUME NEW said \in says
        PROVE  said[1] \in {r.about : r \in reminders}
    OBVIOUS
  <2> QED
    BY <2>1, <2>2
<1> QED
  BY <1>1, <1>2 DEF About

(* What is built at an hour is for that hour.                               *)
LEMMA BuiltInSeason ==
  ASSUME NEW h \in Nat, NEW r \in Build(h)
  PROVE  InSeason(r.about, h)
<1>1. HourOfDay(h) \in 0..23
  BY DEF HourOfDay
<1>2. CASE r \in Waivers(h)
  <2>1. r.about = "waivers" /\ Weekday(h) = 1 /\ HourOfDay(h) < 12
    BY <1>2 DEF Waivers, Reminder
  <2> QED
    BY <1>1, <2>1 DEF InSeason
<1>3. CASE r \in ThursdayLock(h)
  <2>1. r.about = "lock" /\ Weekday(h) = 3 /\ HourOfDay(h) \in 8..19
    BY <1>3 DEF ThursdayLock, Reminder
  <2> QED
    BY <2>1 DEF InSeason
<1>4. CASE r \in SetLineup(h)
  <2>1. r.about = "lineup" /\ Weekday(h) = 6 /\ HourOfDay(h) \in 7..12
    BY <1>4 DEF SetLineup, Reminder
  <2> QED
    BY <2>1 DEF InSeason
<1>5. CASE r \in Draft(h) \/ r \in Deadline(h) \/ r \in Playoffs(h)
  <2>1. r.about = "draft" \/ r.about = "trades" \/ r.about = "playoffs"
    BY <1>5 DEF Draft, Deadline, Playoffs, Reminder
  <2> QED
    BY <2>1 DEF InSeason
<1> QED
  BY <1>2, <1>3, <1>4, <1>5 DEF Build

(* Two hours of one deadline, less than a week and a morning apart, are of  *)
(* one day.                                                                 *)
LEMMA SameDay ==
  ASSUME NEW g \in Nat, NEW h \in Nat, g <= h, h - g < 7 * 24 - 11,
         NEW about \in {"waivers", "lock", "lineup"},
         InSeason(about, g), InSeason(about, h)
  PROVE  g \div 24 = h \div 24
<1>1. PICK a \in Nat, b \in Nat : a = g \div 24 /\ b = h \div 24
  OBVIOUS
<1>2. PICK i \in 0..23, j \in 0..23 :
        i = HourOfDay(g) /\ j = HourOfDay(h) /\ g = 24 * a + i /\ h = 24 * b + j
  BY <1>1 DEF HourOfDay
<1>3. a % 7 = b % 7 /\ i - j <= 11
  BY <1>1, <1>2 DEF InSeason, Weekday
<1>4. a <= b
  BY <1>2
<1>5. b - a < 7
  BY <1>2, <1>3
<1>6. a = b
  BY <1>3, <1>4, <1>5
<1> QED
  BY <1>1, <1>6

(* What a run may do.                                                       *)
LEMMA RunIs ==
  ASSUME RemindersInv, Run
  PROVE  /\ hour' \in Nat /\ hour < hour' /\ UNCHANGED gaps
         /\ \/ /\ UNCHANGED mailed
               /\ Build(hour') = {} \/ AlreadyMailed(hour', Message(Build(hour')))
            \/ mailed' = mailed \cup {[at |-> hour', message |-> Message(Build(hour'))]}
<1>1. PICK t \in NextRun, late \in Lateness :
        /\ hour' = t + late /\ UNCHANGED gaps
        /\ IF Build(hour') = {} \/ AlreadyMailed(hour', Message(Build(hour')))
           THEN UNCHANGED mailed
           ELSE mailed' = mailed \cup {[at |-> hour', message |-> Message(Build(hour'))]}
  BY DEF Run
<1>2. t \in Nat /\ late \in Nat /\ hour < t /\ hour \in Nat
  BY RemindersAssumption DEF RemindersAssumption, NextRun, RemindersInv
<1> QED
  BY <1>1, <1>2

LEMMA RemindersInductive ==
  ASSUME RemindersInv, [RemindersNext]_reminderVars
  PROVE  RemindersInv'
<1>1. ASSUME hour' \in Nat, hour <= hour', mailed' = mailed
      PROVE  RemindersInv'
  <2>1. hour \in Nat /\ \A m \in mailed : m.at \in Nat /\ m.at <= hour
    BY DEF RemindersInv
  <2>2. \A m \in mailed : m.at <= hour'
    BY <1>1, <2>1
  <2>3. \A m \in mailed : \A about \in About(m.message) : InSeason(about, m.at)
    BY DEF RemindersInv
  <2> QED
    BY <1>1, <2>1, <2>2, <2>3 DEF RemindersInv
<1>2. CASE Run
  <2>1. CASE UNCHANGED mailed
    BY <1>1, <1>2, <2>1, RunIs DEF RemindersInv
  <2>2. CASE mailed' = mailed \cup {[at |-> hour', message |-> Message(Build(hour'))]}
    <3>1. hour' \in Nat /\ hour < hour' /\ hour \in Nat
      BY <1>2, RunIs DEF RemindersInv
    <3>2. ASSUME NEW m \in mailed
          PROVE  m.at \in Nat /\ m.at <= hour' /\ \A about \in About(m.message) : InSeason(about, m.at)
      BY <3>1, <3>2 DEF RemindersInv
    <3>3. \A about \in About(Message(Build(hour'))) : InSeason(about, hour')
      BY <3>1, MessageIsAbout, BuiltInSeason
    <3>4. \A m \in mailed' : m.at \in Nat /\ m.at <= hour' /\ \A about \in About(m.message) : InSeason(about, m.at)
      BY <2>2, <3>1, <3>2, <3>3
    <3> QED
      BY <3>1, <3>4 DEF RemindersInv
  <2> QED
    BY <1>2, <2>1, <2>2, RunIs
<1>3. CASE Dropped
  <2>1. mailed' = mailed /\ \E t \in NextRun : hour' = t
    BY <1>3 DEF Dropped
  <2> QED
    BY <1>1, <2>1 DEF NextRun, RemindersInv
<1>4. CASE RosterMoves \/ UNCHANGED reminderVars
  BY <1>1, <1>4 DEF RosterMoves, reminderVars, RemindersInv
<1> QED
  BY <1>2, <1>3, <1>4 DEF RemindersNext

(* What a run has to say of a deadline of the week has been said that day,  *)
(* by itself or by an earlier run: for any lateness, draft, trades and      *)
(* playoffs, and any window (already_sent, src/notify.py:80) that is a      *)
(* morning short of a week.                                                 *)
THEOREM DeadlinesAreToldThatDay ==
  ASSUME DedupHours <= 7 * 24 - 11
  PROVE  RemindersSpec => ToldThatDay
<1> DEFINE Told ==
             Run => \A r \in Build(hour') : r.about \in {"waivers", "lineup", "lock"} =>
               \E m \in mailed' : /\ m.at \div 24 = hour' \div 24
                                  /\ r.about \in About(m.message)
<1>1. RemindersInit => RemindersInv
  BY DEF RemindersInit, RemindersInv
<1>2. RemindersInv /\ [RemindersNext]_reminderVars => RemindersInv'
  BY RemindersInductive
<1>3. RemindersInv /\ [RemindersNext]_reminderVars => [Told]_reminderVars
  <2> SUFFICES ASSUME RemindersInv, Run,
                      NEW r \in Build(hour'), r.about \in {"waivers", "lineup", "lock"}
               PROVE  \E m \in mailed' : /\ m.at \div 24 = hour' \div 24
                                         /\ r.about \in About(m.message)
    OBVIOUS
  <2>1. r.about \in About(Message(Build(hour')))
    BY MessageIsAbout
  <2>2. hour' \in Nat /\ hour < hour' /\ hour \in Nat /\ DedupHours \in Nat
    BY RunIs, RemindersAssumption DEF RemindersAssumption, RemindersInv
  <2>3. CASE mailed' = mailed \cup {[at |-> hour', message |-> Message(Build(hour'))]}
    <3>1. PICK m : m = [at |-> hour', message |-> Message(Build(hour'))]
      OBVIOUS
    <3>2. m \in mailed' /\ m.at = hour' /\ m.message = Message(Build(hour'))
      BY <2>3, <3>1
    <3>3. m.at \div 24 = hour' \div 24 /\ r.about \in About(m.message)
      BY <2>1, <3>2
    <3> QED
      BY <3>2, <3>3
  <2>4. CASE mailed' = mailed /\ AlreadyMailed(hour', Message(Build(hour')))
    <3>1. PICK m \in mailed : m.message = Message(Build(hour')) /\ m.at > hour' - DedupHours
      BY <2>4 DEF AlreadyMailed, InWindow
    <3>2. m.at \in Nat /\ m.at <= hour /\ InSeason(r.about, m.at)
      BY <2>1, <3>1 DEF RemindersInv
    <3>3. InSeason(r.about, hour')
      BY <2>2, BuiltInSeason
    <3>4. m.at \div 24 = hour' \div 24
      BY <2>2, <3>1, <3>2, <3>3, SameDay
    <3> QED
      BY <2>1, <2>4, <3>1, <3>4
  <2> QED
    BY <2>3, <2>4, RunIs
<1> QED
  BY <1>1, <1>2, <1>3, PTL DEF RemindersSpec, ToldThatDay
=============================================================================

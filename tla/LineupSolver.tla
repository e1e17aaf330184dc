---------------------------- MODULE LineupSolver ----------------------------
(***************************************************************************)
(* The best legal lineup (src/lineup_solver.py): a dynamic program over    *)
(* the sets of filled slots.  dp maps a set of slots to the points of the  *)
(* best way found to fill exactly those; each candidate in turn extends    *)
(* what the earlier ones reached, and steps back through `choice` recover  *)
(* who starts where.                                                       *)
(*                                                                         *)
(* A bit mask is the set of its bits; points are integers (hundredths).    *)
(* Python visits a dict in the order its keys were added, which decides    *)
(* between equally good lineups only: here the order is some fixed one.    *)
(***************************************************************************)
EXTENDS Integers, FiniteSets, Sequences, LeagueSlots

CONSTANTS
  Rosters,       \* the lists of players handed to best_lineup
  SlotLists,     \* the lists expand_slots makes of the league's settings
  MinCandidates, \* 24: how many players are looked at in any case
  PerSlot        \* 4: and how many for each slot

ASSUME LineupAssumption ==
  /\ \A roster \in Rosters :
       roster \in Seq([points : Int, positions : SUBSET STRING])
  /\ \A list \in SlotLists : list \in Seq(STRING \ BENCH_SLOTS)
  /\ MinCandidates \in Nat /\ PerSlot \in Nat

VARIABLES
  players, slots,  \* the arguments
  pc,
  candidates,      \* the players looked at, best first
  idx,             \* candidates considered; then those not yet stepped over
  dp,              \* the table after each candidate (Python keeps the last)
  new_dp, step,    \* the table being built, and where its new entries are from
  todo,            \* the pairs of the two inner loops still to come
  choice,          \* the `step` of each candidate
  best_mask, best_value,
  mask,            \* the slots not yet stepped back over
  assignment,      \* slot -> candidate
  worth            \* history: the points of every set of the candidates seen

vars == <<players, slots, pc, candidates, idx, dp, new_dp, step, todo, choice,
          best_mask, best_value, mask, assignment, worth>>

Slots == 1..Len(slots)
Masks == SUBSET Slots
Candidates == 1..Len(candidates)
Points(c) == players[candidates[c]].points

(* eligibility: the bits of a candidate's mask.                             *)
Fits(c, s) ==
  \E pos \in players[candidates[c]].positions : slot_accepts(slots[s], pos)

Empty == [m \in {} |-> 0]
Put(f, k, v) == [m \in DOMAIN f \cup {k} |-> IF m = k THEN v ELSE f[m]]

Init ==
  /\ players \in Rosters
  /\ slots \in SlotLists
  /\ pc = "sort"
  /\ candidates = <<>>
  /\ idx = 0
  /\ dp = [k \in {0} |-> [m \in {{}} |-> 0]]
  /\ new_dp = Empty /\ step = Empty /\ todo = {}
  /\ choice = <<>>
  /\ best_mask = {} /\ best_value = 0 /\ mask = {}
  /\ assignment = Empty
  /\ worth = [R \in {{}} |-> 0]

NoSlots ==
  /\ pc = "sort"
  /\ Len(slots) = 0
  /\ pc' = "done"
  /\ UNCHANGED <<players, slots, candidates, idx, dp, new_dp, step, todo,
                 choice, best_mask, best_value, mask, assignment, worth>>

(* sorted(..., reverse=True) keeps equal players in their order.            *)
Limit == IF MinCandidates > PerSlot * Len(slots)
           THEN MinCandidates ELSE PerSlot * Len(slots)
NumCandidates == IF Len(players) > Limit THEN Limit ELSE Len(players)

Before(p, q) ==
  \/ players[p].points > players[q].points
  \/ players[p].points = players[q].points /\ p < q

Sort ==
  /\ pc = "sort"
  /\ Len(slots) # 0
  /\ \E best \in [1..NumCandidates -> 1..Len(players)] :
       /\ \A i, j \in 1..NumCandidates : i < j => Before(best[i], best[j])
       /\ \A p \in 1..Len(players) \ {best[i] : i \in 1..NumCandidates} :
            \A i \in 1..NumCandidates : Before(best[i], p)
       /\ candidates' = best
  /\ pc' = "next"
  /\ UNCHANGED <<players, slots, idx, dp, new_dp, step, todo, choice,
                 best_mask, best_value, mask, assignment, worth>>

----------------------------------------------------------------------------
(* The next candidate: new_dp starts as a copy, and every free slot he fits *)
(* is tried on every set reached so far.                                    *)
Reached == DOMAIN dp[idx]

Ways == {way \in Reached \X Slots :
           way[2] \notin way[1] /\ Fits(idx + 1, way[2])}

Consider ==
  /\ pc = "next"
  /\ idx < Len(candidates)
  /\ new_dp' = dp[idx]
  /\ step' = Empty
  /\ todo' = Ways
  /\ pc' = "try"
  /\ UNCHANGED <<players, slots, candidates, idx, dp, choice, best_mask,
                 best_value, mask, assignment, worth>>

Try ==
  /\ pc = "try"
  /\ todo # {}
  /\ LET way == CHOOSE w \in todo : TRUE
         nxt == way[1] \cup {way[2]}
         candidate_value == dp[idx][way[1]] + Points(idx + 1)
     IN /\ todo' = todo \ {way}
        /\ IF nxt \in DOMAIN new_dp /\ candidate_value <= new_dp[nxt]
             THEN UNCHANGED <<new_dp, step>>
             ELSE /\ new_dp' = Put(new_dp, nxt, candidate_value)
                  /\ step' = Put(step, nxt, way)
  /\ UNCHANGED <<players, slots, pc, candidates, idx, dp, choice, best_mask,
                 best_value, mask, assignment, worth>>

KeepOverThePrevious ==
  /\ pc = "try"
  /\ todo = {}
  /\ idx' = idx + 1
  /\ dp' = Put(dp, idx, new_dp)
  /\ choice' = Append(choice, step)
  /\ UNCHANGED <<players, slots, candidates, new_dp, step, todo, best_mask,
                 best_value, mask, assignment, worth, pc>>

Keep ==
  /\ pc = "try"
  /\ todo = {}
  /\ idx' = idx + 1
  /\ dp' = Put(dp, idx + 1, new_dp)
  /\ choice' = Append(choice, step)
  /\ worth' = [R \in SUBSET (1..(idx + 1)) |->
                 IF idx + 1 \in R THEN worth[R \ {idx + 1}] + Points(idx + 1)
                 ELSE worth[R]]
  /\ pc' = "next"
  /\ UNCHANGED <<players, slots, candidates, new_dp, step, todo, best_mask,
                 best_value, mask, assignment>>

----------------------------------------------------------------------------
(* A full lineup if there is one, else the most slots, then the most points.*)
IsBestByPoints(m) == \A o \in Reached : dp[idx][o] <= dp[idx][m]
IsBest(m) ==
  IF Slots \in Reached
    THEN m = Slots
    ELSE \A o \in Reached :
           \/ Cardinality(o) < Cardinality(m)
           \/ Cardinality(o) = Cardinality(m) /\ dp[idx][o] <= dp[idx][m]

Choose ==
  /\ pc = "next"
  /\ idx = Len(candidates)
  /\ \E m \in Reached :
       /\ IsBest(m)
       /\ best_mask' = m
       /\ best_value' = dp[idx][m]
       /\ mask' = m
  /\ pc' = "trace"
  /\ UNCHANGED <<players, slots, candidates, idx, dp, new_dp, step, todo,
                 choice, assignment, worth>>

(* Back through the candidates, last first.                                 *)
StepBackSkippingFirst ==
  /\ pc = "trace"
  /\ idx > 0
  /\ idx' = idx - 1
  /\ IF idx > 1 /\ mask \in DOMAIN choice[idx]
       THEN /\ assignment' = Put(assignment, choice[idx][mask][2], idx)
            /\ mask' = choice[idx][mask][1]
       ELSE UNCHANGED <<assignment, mask>>
  /\ UNCHANGED <<players, slots, pc, candidates, dp, new_dp, step, todo,
                 choice, best_mask, best_value, worth>>

StepBack ==
  /\ pc = "trace"
  /\ idx > 0
  /\ idx' = idx - 1
  /\ IF mask \in DOMAIN choice[idx]
       THEN /\ assignment' = Put(assignment, choice[idx][mask][2], idx)
            /\ mask' = choice[idx][mask][1]
       ELSE UNCHANGED <<assignment, mask>>
  /\ UNCHANGED <<players, slots, pc, candidates, dp, new_dp, step, todo,
                 choice, best_mask, best_value, worth>>

Return ==
  /\ pc = "trace"
  /\ idx = 0
  /\ pc' = "done"
  /\ UNCHANGED <<players, slots, candidates, idx, dp, new_dp, step, todo,
                 choice, best_mask, best_value, mask, assignment, worth>>

Done == pc = "done" /\ UNCHANGED vars

Next ==
  \/ NoSlots \/ Sort
  \/ Consider \/ Try \/ Keep
  \/ Choose \/ StepBack \/ Return
  \/ Done

Spec == Init /\ [][Next]_vars
----------------------------------------------------------------------------
Table(t) == DOMAIN t \subseteq Masks /\ \A m \in DOMAIN t : t[m] \in Int
Steps(c) ==
  /\ DOMAIN c \subseteq Masks
  /\ \A m \in DOMAIN c : c[m] \in Masks \X Slots

TypeOK ==
  /\ players \in Rosters /\ slots \in SlotLists
  /\ pc \in {"sort", "next", "try", "trace", "done"}
  /\ candidates \in Seq(1..Len(players))
  /\ idx \in 0..Len(candidates)
  /\ idx <= Len(choice) /\ Len(choice) <= Len(candidates)
  /\ DOMAIN dp = 0..Len(choice)
  /\ \A k \in DOMAIN dp : Table(dp[k])
  /\ Table(new_dp) /\ Steps(step)
  /\ todo \subseteq Reached \X Slots
  /\ \A k \in 1..Len(choice) : Steps(choice[k])
  /\ best_mask \in Masks /\ best_value \in Int /\ mask \in Masks
  /\ DOMAIN assignment \subseteq Slots
  /\ \A s \in DOMAIN assignment : assignment[s] \in Candidates
  /\ worth \in [SUBSET (1..Len(choice)) -> Int]

(* A lineup: who starts where, each in a slot he may fill, and in one only. *)
Starters(f) == {f[s] : s \in DOMAIN f}
LegalLineup(f) ==
  /\ \A s \in DOMAIN f : Fits(f[s], s)
  /\ \A s, t \in DOMAIN f : f[s] = f[t] => s = t

(* best_lineup, and _team_total and the others that print it: the slots     *)
(* returned are a legal lineup, and the total returned is the sum of the    *)
(* points of exactly those who start, though total and starters come from   *)
(* two different passes.                                                    *)
LineupAddsUp ==
  pc = "done" =>
    /\ LegalLineup(assignment)
    /\ best_mask = DOMAIN assignment
    /\ best_value = worth[Starters(assignment)]

(* "Highest-scoring legal lineup": no legal lineup of the candidates fills  *)
(* more slots, and none that fills as many scores more.  The test against   *)
(* brute force draws 120 rosters whose points are all above zero; here a    *)
(* player may cost points, hold several positions, or be all there is.      *)
LineupIsBest ==
  pc = "done" =>
    \A m \in Masks : \A f \in [m -> Candidates] :
      LegalLineup(f) =>
        \/ Cardinality(m) < Cardinality(DOMAIN assignment)
        \/ /\ Cardinality(m) = Cardinality(DOMAIN assignment)
           /\ worth[Starters(f)] <= best_value

(* Why: the invariant of the proof.  Each table follows from the one before *)
(* by its steps, and is at least as good as any lineup of the candidates    *)
(* seen; on the way back, what is assigned and what is left of the mask     *)
(* make up the best value.                                                  *)
Explains(old, new, steps, k) ==
  /\ DOMAIN steps \subseteq DOMAIN new
  /\ \A m \in DOMAIN new \ DOMAIN steps : m \in DOMAIN old /\ new[m] = old[m]
  /\ \A m \in DOMAIN steps :
       /\ steps[m][1] \in DOMAIN old
       /\ steps[m][2] \in Slots \ steps[m][1]
       /\ m = steps[m][1] \cup {steps[m][2]}
       /\ Fits(k, steps[m][2])
       /\ new[m] = old[steps[m][1]] + Points(k)

Covers(table, k) ==
  \A m \in Masks : \A f \in [m -> 1..k] :
    LegalLineup(f) => m \in DOMAIN table /\ worth[Starters(f)] <= table[m]

AtLeast(table, m, value) == m \in DOMAIN table /\ value <= table[m]

Control ==
  /\ pc = "sort" => candidates = <<>> /\ mask = {} /\ best_mask = {}
                    /\ best_value = 0
  /\ pc \in {"sort", "next", "try"} => Len(choice) = idx /\ assignment = Empty
  /\ pc = "try" => idx < Len(candidates)
  /\ pc # "try" => todo = {}
  /\ pc \in {"trace", "done"} => Len(choice) = Len(candidates)

Additive ==
  /\ worth[{}] = 0
  /\ \A R \in SUBSET (1..Len(choice)) : \A c \in (1..Len(choice)) \ R :
       worth[R \cup {c}] = worth[R] + Points(c)

Tables ==
  /\ dp[0] = [m \in {{}} |-> 0]
  /\ \A k \in 1..Len(choice) : Explains(dp[k - 1], dp[k], choice[k], k)
  /\ \A k \in 0..Len(choice) : Covers(dp[k], k)

Trying ==
  pc = "try" =>
    /\ Explains(dp[idx], new_dp, step, idx + 1)
    /\ todo \subseteq Ways
    /\ \A m \in Reached : AtLeast(new_dp, m, dp[idx][m])
    /\ \A way \in Ways \ todo :
         AtLeast(new_dp, way[1] \cup {way[2]}, dp[idx][way[1]] + Points(idx + 1))

Chosen ==
  \A o \in DOMAIN dp[Len(choice)] :
    \/ Cardinality(o) < Cardinality(best_mask)
    \/ /\ Cardinality(o) = Cardinality(best_mask)
       /\ dp[Len(choice)][o] <= best_value

Tracing ==
  pc \in {"trace", "done"} =>
    /\ Chosen
    /\ LegalLineup(assignment)
    /\ \A s \in DOMAIN assignment : assignment[s] > idx
    /\ mask \in Reached
    /\ mask \subseteq best_mask /\ DOMAIN assignment = best_mask \ mask
    /\ best_value = dp[idx][mask] + worth[Starters(assignment)]
    /\ pc = "done" => idx = 0

SolverInv == Control /\ Additive /\ Tables /\ Trying /\ Tracing
=============================================================================

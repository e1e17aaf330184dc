------------------------- MODULE LineupSolverProofs -------------------------
(***************************************************************************)
(* Proofs about LineupSolver, for every roster, league and limit: its type *)
(* invariant, that the lineup returned is legal and adds up to the total   *)
(* returned, and that no legal lineup of the candidates is better.         *)
(***************************************************************************)
EXTENDS LineupSolver, FiniteSetTheorems, TLAPS

(* What a table, an array of steps or an assignment becomes when one entry  *)
(* is set.                                                                  *)
LEMMA PutTable ==
  ASSUME NEW t, Table(t), NEW m \in Masks, NEW v \in Int
  PROVE  Table(Put(t, m, v))
BY DEF Table, Put

(* A choice with one more entry is a choice.                                *)
LEMMA PutSteps ==
  ASSUME NEW t, Steps(t), NEW m \in Masks, NEW w \in Masks \X Slots
  PROVE  Steps(Put(t, m, w))
BY DEF Steps, Put

(* An element of a list is one of its set.                                  *)
LEMMA ElementOf ==
  ASSUME NEW S, NEW list \in Seq(S), NEW i \in 1..Len(list)
  PROVE  list[i] \in S
OBVIOUS

(* Points are integers, and the number of candidates looked at is a number. *)
LEMMA InputType ==
  ASSUME players \in Rosters, slots \in SlotLists
  PROVE  /\ \A p \in 1..Len(players) : players[p].points \in Int
         /\ Len(players) \in Nat /\ Len(slots) \in Nat
<1>1. players \in Seq([points : Int, positions : SUBSET STRING])
  BY LineupAssumption DEF LineupAssumption
<1>2. slots \in Seq(STRING \ BENCH_SLOTS)
  BY LineupAssumption DEF LineupAssumption
<1>3. ASSUME NEW p \in 1..Len(players) PROVE players[p].points \in Int
  <2>1. players[p] \in [points : Int, positions : SUBSET STRING]
    BY <1>1, ElementOf
  <2> QED BY <2>1
<1>4. Len(players) \in Nat /\ Len(slots) \in Nat
  BY <1>1, <1>2
<1> QED BY <1>3, <1>4

(* Points are numbers.                                                      *)
LEMMA PointsType ==
  ASSUME TypeOK, NEW c \in Candidates
  PROVE  Points(c) \in Int
<1>1. candidates[c] \in 1..Len(players)
  BY DEF TypeOK, Candidates
<1> QED BY <1>1, InputType DEF TypeOK, Points

(* How many players are looked at is a number.                              *)
LEMMA LimitType ==
  ASSUME players \in Rosters, slots \in SlotLists
  PROVE  NumCandidates \in Nat
BY InputType, LineupAssumption DEF LineupAssumption, NumCandidates, Limit

(* The initial states are of the right type.                                *)
LEMMA TypeInit == Init => TypeOK
<1> SUFFICES ASSUME Init PROVE TypeOK
  OBVIOUS
<1>1. players \in Rosters /\ slots \in SlotLists
  BY DEF Init
<1>2. Len(players) \in Nat /\ Len(slots) \in Nat
  BY <1>1, InputType
<1>3. Len(choice) = 0 /\ Len(candidates) = 0 /\ idx = 0
  BY DEF Init
<1>4. candidates \in Seq(1..Len(players))
  BY DEF Init
<1>5. Table(new_dp) /\ Steps(step) /\ \A k \in DOMAIN dp : Table(dp[k])
  BY <1>2 DEF Init, Table, Steps, Empty, Masks
<1>6. worth \in [SUBSET (1..Len(choice)) -> Int]
  <2>1. SUBSET (1..Len(choice)) = {{}}
    BY <1>3
  <2> QED BY <2>1 DEF Init
<1>7. DOMAIN dp = 0..Len(choice)
  BY <1>3 DEF Init
<1>8. todo = {} /\ best_mask = {} /\ mask = {} /\ best_value = 0
  BY DEF Init
<1>9. DOMAIN assignment = {}
  BY DEF Init, Empty
<1>10. pc = "sort"
  BY DEF Init
<1> QED
  BY <1>1, <1>2, <1>3, <1>4, <1>5, <1>6, <1>7, <1>8, <1>9, <1>10
  DEF TypeOK, Masks

(* Every step keeps the type invariant, given where each phase stands.      *)
LEMMA TypeInductive == TypeOK /\ Control /\ [Next]_vars => TypeOK'
<1> SUFFICES ASSUME TypeOK, Control, [Next]_vars PROVE TypeOK'
  OBVIOUS
<1>n. idx \in Nat /\ Len(choice) \in Nat /\ Len(candidates) \in Nat
  BY DEF TypeOK
<1>0. CASE UNCHANGED vars \/ Done
  BY <1>0 DEF TypeOK, vars, Done, Table, Steps, Masks, Slots, Candidates, Reached
<1>1. CASE NoSlots \/ Return
  BY <1>1 DEF NoSlots, Return, TypeOK, Table, Steps, Masks, Slots, Candidates,
              Reached
<1>2. CASE Sort
  <2>1. PICK best \in [1..NumCandidates -> 1..Len(players)] : candidates' = best
    BY <1>2 DEF Sort
  <2>2. NumCandidates \in Nat
    BY LimitType DEF TypeOK
  <2>3. candidates' \in Seq(1..Len(players)) /\ Len(candidates') = NumCandidates
    BY <2>1, <2>2
  <2>4. idx = 0 /\ Len(choice) = 0 /\ candidates = <<>>
    BY <1>2, <1>n DEF Sort, Control, TypeOK
  <2>5. DOMAIN assignment = {}
    BY <1>2 DEF Sort, Control, Empty
  <2>6. UNCHANGED <<players, slots, idx, dp, new_dp, step, todo, choice,
                    best_mask, best_value, mask, assignment, worth>>
        /\ pc' = "next"
    BY <1>2 DEF Sort
  <2> QED
    BY <2>2, <2>3, <2>4, <2>5, <2>6
    DEF TypeOK, Table, Steps, Masks, Slots, Candidates, Reached
<1>3. CASE Consider
  <2>1. new_dp' = dp[idx] /\ step' = Empty /\ todo' = Ways /\ pc' = "try"
        /\ UNCHANGED <<players, slots, candidates, idx, dp, choice, best_mask,
                       best_value, mask, assignment, worth>>
    BY <1>3 DEF Consider
  <2>2. Table(new_dp')
    BY <2>1, <1>n DEF TypeOK
  <2>3. Steps(step')
    BY <2>1 DEF Steps, Empty
  <2>4. Ways \subseteq Reached \X Slots
    BY DEF Ways
  <2> QED
    BY <2>1, <2>2, <2>3, <2>4
    DEF TypeOK, Table, Steps, Masks, Slots, Candidates, Reached
<1>4. CASE Try
  <2>0. DEFINE way == CHOOSE w \in todo : TRUE
               nxt == way[1] \cup {way[2]}
               value == dp[idx][way[1]] + Points(idx + 1)
  <2>1. way \in Reached \X Slots
    BY <1>4 DEF Try, TypeOK
  <2>2. nxt \in Masks /\ way \in Masks \X Slots
    <3> HIDE DEF way
    <3>1. Reached \subseteq Masks
      BY <1>n DEF TypeOK, Reached, Table
    <3>2. way[1] \in Masks /\ way[2] \in Slots /\ way = <<way[1], way[2]>>
      BY <2>1, <3>1
    <3> QED BY <3>2 DEF Masks
  <2>3. value \in Int
    <3>1. dp[idx][way[1]] \in Int
      <4> HIDE DEF way
      <4>1. Table(dp[idx]) /\ way[1] \in DOMAIN dp[idx]
        BY <2>1, <1>n DEF TypeOK, Reached
      <4> QED BY <4>1 DEF Table
    <3>2. idx + 1 \in Candidates
      BY <1>4, <1>n DEF Try, Control, Candidates
    <3> QED BY <3>1, <3>2, PointsType
  <2>4. Table(new_dp')
    <3>1. new_dp' = new_dp \/ new_dp' = Put(new_dp, nxt, value)
      BY <1>4 DEF Try
    <3>2. Table(new_dp)
      BY DEF TypeOK
    <3>3. Table(Put(new_dp, nxt, value))
      BY <3>2, <2>2, <2>3, PutTable
    <3> HIDE DEF value, nxt
    <3> QED BY <3>1, <3>2, <3>3, <1>4 DEF Try, Table, Masks, Slots
  <2>5. Steps(step')
    <3>1. step' = step \/ step' = Put(step, nxt, way)
      BY <1>4 DEF Try
    <3>2. Steps(step)
      BY DEF TypeOK
    <3>3. Steps(Put(step, nxt, way))
      BY <3>2, <2>2, PutSteps
    <3> HIDE DEF way, nxt
    <3> QED BY <3>1, <3>2, <3>3, <1>4 DEF Try, Steps, Masks, Slots
  <2>6. todo' \subseteq todo
        /\ UNCHANGED <<players, slots, pc, candidates, idx, dp, choice, best_mask,
                       best_value, mask, assignment, worth>>
    BY <1>4 DEF Try
  <2> HIDE DEF way, nxt, value
  <2> QED
    BY <2>4, <2>5, <2>6
    DEF TypeOK, Table, Steps, Masks, Slots, Candidates, Reached
<1>5. CASE Keep
  <2>1. idx' = idx + 1 /\ dp' = Put(dp, idx + 1, new_dp)
        /\ choice' = Append(choice, step) /\ pc' = "next" /\ todo = {}
        /\ UNCHANGED <<players, slots, candidates, new_dp, step, todo, best_mask,
                       best_value, mask, assignment>>
    BY <1>5 DEF Keep
  <2>2. Len(choice) = idx /\ idx < Len(candidates)
    BY <1>5 DEF Keep, Control
  <2>3. Len(choice') = Len(choice) + 1
        /\ \A k \in 1..Len(choice) : choice'[k] = choice[k]
        /\ choice'[Len(choice) + 1] = step
    BY <2>1, <1>n
  <2>4. DOMAIN dp' = 0..Len(choice')
    BY <2>1, <2>2, <2>3, <1>n DEF Put, TypeOK
  <2>5. \A k \in DOMAIN dp' : Table(dp'[k])
    BY <2>1 DEF Put, TypeOK
  <2>6. \A k \in 1..Len(choice') : Steps(choice'[k])
    BY <2>1, <2>3, <1>n DEF TypeOK
  <2>7. worth' \in [SUBSET (1..Len(choice')) -> Int]
    <3>1. Points(idx + 1) \in Int
      BY <2>2, <1>n, PointsType DEF Candidates
    <3>2. ASSUME NEW R \in SUBSET (1..(idx + 1))
          PROVE  (IF idx + 1 \in R THEN worth[R \ {idx + 1}] + Points(idx + 1)
                  ELSE worth[R]) \in Int
      <4>1. R \ {idx + 1} \in SUBSET (1..Len(choice))
        BY <2>2, <1>n
      <4>2. worth[R \ {idx + 1}] \in Int
        BY <4>1 DEF TypeOK
      <4>3. idx + 1 \notin R => R = R \ {idx + 1}
        OBVIOUS
      <4>4. CASE idx + 1 \in R
        BY <3>1, <4>2, <4>4
      <4>5. CASE idx + 1 \notin R
        BY <4>2, <4>3, <4>5
      <4> QED BY <4>4, <4>5
    <3>3. worth' = [R \in SUBSET (1..(idx + 1)) |->
                     IF idx + 1 \in R THEN worth[R \ {idx + 1}] + Points(idx + 1)
                     ELSE worth[R]]
      BY <1>5 DEF Keep
    <3>4. Len(choice') = idx + 1
      BY <2>2, <2>3
    <3> QED BY <3>2, <3>3, <3>4
  <2>8. UNCHANGED <<Slots, Masks, Candidates>>
    BY <2>1 DEF Masks, Slots, Candidates
  <2>9. \A t : (Table(t) <=> Table(t)') /\ (Steps(t) <=> Steps(t)')
    BY <2>8 DEF Table, Steps
  <2>10. idx' \in 0..Len(candidates') /\ idx' <= Len(choice')
         /\ Len(choice') <= Len(candidates')
    BY <2>1, <2>2, <2>3, <1>n
  <2>11. pc' \in {"sort", "next", "try", "trace", "done"} /\ todo' = {}
    BY <2>1
  <2>12. (\A k \in DOMAIN dp : Table(dp[k]))'
    BY <2>5, <2>9
  <2>13. (\A k \in 1..Len(choice) : Steps(choice[k]))'
    BY <2>6, <2>9
  <2>14. (Table(new_dp) /\ Steps(step))'
    BY <2>1, <2>9 DEF TypeOK
  <2> QED
    BY <2>1, <2>4, <2>7, <2>8, <2>10, <2>11, <2>12, <2>13, <2>14
    DEF TypeOK
<1>6. CASE Choose
  <2>1. PICK m \in Reached : best_mask' = m /\ best_value' = dp[idx][m] /\ mask' = m
    BY <1>6 DEF Choose
  <2>2. m \in Masks /\ dp[idx][m] \in Int
    BY <1>n DEF TypeOK, Table, Reached
  <2>3. pc' = "trace"
        /\ UNCHANGED <<players, slots, candidates, idx, dp, new_dp, step, todo,
                       choice, assignment, worth>>
    BY <1>6 DEF Choose
  <2> QED
    BY <2>1, <2>2, <2>3
    DEF TypeOK, Table, Steps, Masks, Slots, Candidates, Reached
<1>7. CASE StepBack
  <2>1. idx' = idx - 1 /\ idx > 0
        /\ UNCHANGED <<players, slots, pc, candidates, dp, new_dp, step, todo,
                       choice, best_mask, best_value, worth>>
    BY <1>7 DEF StepBack
  <2>t. todo = {} /\ todo' = {}
    BY <1>7, <2>1 DEF StepBack, Control
  <2>2. CASE mask \in DOMAIN choice[idx]
    <3>1. choice[idx][mask] \in Masks \X Slots
      BY <2>1, <2>2, <1>n DEF TypeOK, Steps
    <3>2. mask' = choice[idx][mask][1]
          /\ assignment' = Put(assignment, choice[idx][mask][2], idx)
      BY <1>7, <2>2 DEF StepBack
    <3>3. idx \in Candidates
      BY <2>1, <1>n DEF TypeOK, Candidates
    <3>4. DOMAIN assignment' \subseteq Slots
          /\ \A s \in DOMAIN assignment' : assignment'[s] \in Candidates
      BY <3>1, <3>2, <3>3 DEF Put, TypeOK
    <3>5. mask' \in Masks
      BY <3>1, <3>2
    <3> QED BY <3>4, <3>5, <2>1, <2>t, <1>n
        DEF TypeOK, Table, Steps, Masks, Slots, Candidates, Reached
  <2>3. CASE mask \notin DOMAIN choice[idx]
    <3>1. UNCHANGED <<assignment, mask>>
      BY <1>7, <2>3 DEF StepBack
    <3> QED BY <3>1, <2>1, <2>t, <1>n
        DEF TypeOK, Table, Steps, Masks, Slots, Candidates, Reached
  <2> QED BY <2>2, <2>3
<1> QED
  BY <1>0, <1>1, <1>2, <1>3, <1>4, <1>5, <1>6, <1>7 DEF Next

----------------------------------------------------------------------------
(* Nobody fills nothing.                                                    *)
LEMMA NobodyFills ==
  ASSUME NEW m, NEW f \in [m -> 1..0]
  PROVE  m = {} /\ Starters(f) = {}
BY DEF Starters

(* What does not touch the inputs, the tables or the history keeps the      *)
(* part of the invariant about them.                                        *)
LEMMA Frame ==
  ASSUME TypeOK, Additive, Tables,
         UNCHANGED <<players, slots, candidates, dp, choice, worth>>
  PROVE  Additive' /\ Tables'
<1>1. Additive'
  BY DEF Additive, Points
<1>2. \A f : LegalLineup(f)' <=> LegalLineup(f)
  BY DEF LegalLineup, Fits
<1>3. UNCHANGED <<Slots, Masks>>
  BY DEF Slots, Masks
<1>4. ASSUME NEW k \in 0..Len(choice) PROVE Covers(dp[k], k)'
  BY <1>2, <1>3 DEF Covers, Tables
<1>5. ASSUME NEW k \in 1..Len(choice)
      PROVE  Explains(dp[k - 1], dp[k], choice[k], k)'
  BY <1>3 DEF Explains, Tables, Fits, Points
<1> QED BY <1>1, <1>4, <1>5 DEF Tables

(* What a set of candidates scores when one more has been considered.       *)
LEMMA WorthNext ==
  ASSUME TypeOK, Control, Keep
  PROVE  /\ \A R \in SUBSET (1..idx) : worth'[R] = worth[R]
         /\ \A R \in SUBSET (1..(idx + 1)) : idx + 1 \in R =>
              worth'[R] = worth[R \ {idx + 1}] + Points(idx + 1)
<1>1. worth' = [R \in SUBSET (1..(idx + 1)) |->
                 IF idx + 1 \in R THEN worth[R \ {idx + 1}] + Points(idx + 1)
                 ELSE worth[R]]
  BY DEF Keep
<1>2. idx \in Nat
  BY DEF TypeOK
<1>3. ASSUME NEW R \in SUBSET (1..idx) PROVE worth'[R] = worth[R]
  <2>1. R \in SUBSET (1..(idx + 1)) /\ idx + 1 \notin R
    BY <1>2
  <2> QED BY <1>1, <2>1
<1> QED BY <1>1, <1>3

(* Every lineup of the candidates seen, the new one among them, is met by   *)
(* the table built for him.                                                 *)
LEMMA CoversNext ==
  ASSUME TypeOK, Control, Tables, Trying, Keep,
         NEW m \in Masks, NEW f \in [m -> 1..(idx + 1)], LegalLineup(f)
  PROVE  m \in DOMAIN new_dp /\ worth'[Starters(f)] <= new_dp[m]
<1>1. pc = "try" /\ todo = {} /\ Len(choice) = idx /\ idx \in Nat
      /\ idx + 1 \in Candidates
  BY DEF Keep, Control, TypeOK, Candidates
<1>2. Covers(dp[idx], idx)
  BY <1>1 DEF Tables
<1>3. Table(dp[idx]) /\ Table(new_dp)
  BY <1>1 DEF TypeOK
<1>4. Points(idx + 1) \in Int
  BY <1>1, PointsType
<1>5. \A R \in SUBSET (1..idx) : worth[R] \in Int
  BY <1>1 DEF TypeOK
<1>6. CASE \A s \in m : f[s] # idx + 1
  <2>1. f \in [m -> 1..idx]
    <3>1. \A s \in m : f[s] \in 1..idx
      BY <1>1, <1>6
    <3> QED BY <3>1
  <2>2. Starters(f) \in SUBSET (1..idx)
    BY <2>1 DEF Starters
  <2>3. worth'[Starters(f)] = worth[Starters(f)]
    BY <2>2, WorthNext
  <2>4. m \in Reached /\ worth[Starters(f)] <= dp[idx][m]
    BY <2>1, <1>2 DEF Covers, Reached
  <2>5. m \in DOMAIN new_dp /\ dp[idx][m] <= new_dp[m]
    BY <2>4, <1>1 DEF Trying, AtLeast
  <2>6. dp[idx][m] \in Int /\ new_dp[m] \in Int /\ worth[Starters(f)] \in Int
    BY <2>2, <2>4, <2>5, <1>3, <1>5 DEF Table, Reached
  <2> QED BY <2>3, <2>4, <2>5, <2>6
<1>7. CASE \E s \in m : f[s] = idx + 1
  <2>1. PICK s \in m : f[s] = idx + 1
    BY <1>7
  <2>2. DEFINE rest == m \ {s}
               g == [t \in rest |-> f[t]]
  <2>3. \A t \in rest : f[t] \in 1..idx
    BY <2>1, <1>1 DEF LegalLineup
  <2>4. g \in [rest -> 1..idx] /\ rest \in Masks /\ s \in Slots
    BY <2>3 DEF Masks
  <2>5. LegalLineup(g)
    BY <2>4 DEF LegalLineup
  <2>6. Starters(g) = Starters(f) \ {idx + 1}
    BY <2>1, <2>3, <1>1 DEF Starters, LegalLineup
  <2>7. Starters(g) \in SUBSET (1..idx)
    BY <2>4 DEF Starters
  <2>8. Starters(f) \in SUBSET (1..(idx + 1)) /\ idx + 1 \in Starters(f)
    BY <2>1 DEF Starters
  <2>9. worth'[Starters(f)] = worth[Starters(g)] + Points(idx + 1)
    BY <2>6, <2>8, WorthNext
  <2>10. rest \in Reached /\ worth[Starters(g)] <= dp[idx][rest]
    <3> HIDE DEF rest, g
    <3> QED BY <2>4, <2>5, <1>2 DEF Covers, Reached
  <2>11. <<rest, s>> \in Ways
    BY <2>1, <2>4, <2>10 DEF Ways, LegalLineup
  <2>12. AtLeast(new_dp, rest \cup {s}, dp[idx][rest] + Points(idx + 1))
    <3> HIDE DEF rest
    <3>1. \A way \in Ways :
            AtLeast(new_dp, way[1] \cup {way[2]}, dp[idx][way[1]] + Points(idx + 1))
      BY <1>1 DEF Trying
    <3>2. <<rest, s>>[1] = rest /\ <<rest, s>>[2] = s
      OBVIOUS
    <3> QED BY <2>11, <3>1, <3>2
  <2>13. rest \cup {s} = m
    BY <2>1
  <2>14. m \in DOMAIN new_dp /\ dp[idx][rest] + Points(idx + 1) <= new_dp[m]
    <3> HIDE DEF rest
    <3> QED BY <2>12, <2>13 DEF AtLeast
  <2>15. /\ dp[idx][rest] \in Int /\ new_dp[m] \in Int
         /\ worth[Starters(g)] \in Int
    <3> HIDE DEF rest, g
    <3> QED BY <2>7, <2>10, <2>14, <1>3, <1>5 DEF Table, Reached
  <2> HIDE DEF rest, g
  <2> QED BY <2>9, <2>10, <2>14, <2>15, <1>4
<1> QED BY <1>6, <1>7
(* Sets of slots are finite; one inside another has no more elements, and   *)
(* as many only if they are equal.                                          *)
LEMMA MaskSize ==
  ASSUME TypeOK, NEW m \in Masks, NEW o \in SUBSET m
  PROVE  /\ Cardinality(m) \in Nat /\ Cardinality(o) \in Nat
         /\ Cardinality(o) <= Cardinality(m)
         /\ Cardinality(o) = Cardinality(m) => o = m
<1>1. Len(slots) \in Nat
  BY InputType DEF TypeOK
<1>2. IsFiniteSet(Slots)
  BY <1>1, FS_Interval DEF Slots
<1>3. IsFiniteSet(m)
  BY <1>2, FS_Subset DEF Masks
<1> QED BY <1>3, FS_Subset, FS_CardinalityType

(* The initial states satisfy the solver's invariant.                       *)
LEMMA SolverInit == Init => SolverInv
<1> SUFFICES ASSUME Init PROVE SolverInv
  OBVIOUS
<1>1. Len(choice) = 0 /\ idx = 0 /\ pc = "sort" /\ todo = {}
  BY DEF Init
<1>2. Control
  BY <1>1 DEF Init, Control
<1>3. Additive
  <2>1. worth[{}] = 0
    BY DEF Init
  <2> QED BY <1>1, <2>1 DEF Additive
<1>4. Tables
  <2>1. dp[0] = [m \in {{}} |-> 0] /\ worth[{}] = 0
    BY DEF Init
  <2>2. Covers(dp[0], 0)
    BY <2>1, NobodyFills DEF Covers
  <2>3. \A k \in 0..Len(choice) : k = 0
    BY <1>1
  <2>4. \A k \in 1..Len(choice) : FALSE
    BY <1>1
  <2> QED BY <2>1, <2>2, <2>3, <2>4 DEF Tables
<1> QED BY <1>1, <1>2, <1>3, <1>4 DEF SolverInv, Trying, Tracing

(* Each phase begins where the one before left off.                         *)
LEMMA ControlInductive == TypeOK /\ Control /\ [Next]_vars => Control'
<1> SUFFICES ASSUME TypeOK, Control, [Next]_vars PROVE Control'
  OBVIOUS
<1>n. idx \in Nat /\ Len(choice) \in Nat /\ Len(candidates) \in Nat
  BY DEF TypeOK
<1>0. CASE UNCHANGED vars \/ Done
  BY <1>0 DEF vars, Done, Control
<1>1. CASE NoSlots
  <2>1. idx = 0 /\ Len(choice) = 0 /\ Len(candidates) = 0
    BY <1>1, <1>n DEF NoSlots, Control, TypeOK
  <2> QED BY <1>1, <2>1 DEF NoSlots, Control
<1>2. CASE Sort
  BY <1>2 DEF Sort, Control
<1>3. CASE Consider
  BY <1>3 DEF Consider, Control
<1>4. CASE Try
  BY <1>4 DEF Try, Control
<1>5. CASE Keep
  <2>1. Len(choice') = Len(choice) + 1
    BY <1>5 DEF Keep, TypeOK
  <2> QED BY <1>5, <2>1, <1>n DEF Keep, Control
<1>6. CASE Choose
  BY <1>6 DEF Choose, Control
<1>7. CASE StepBack
  BY <1>7 DEF StepBack, Control
<1>8. CASE Return
  BY <1>8 DEF Return, Control
<1> QED
  BY <1>0, <1>1, <1>2, <1>3, <1>4, <1>5, <1>6, <1>7, <1>8 DEF Next
(* The history and the tables stay right when a candidate is done with.     *)
LEMMA AdditiveKeep ==
  ASSUME TypeOK, Control, Additive, Keep
  PROVE  Additive'
<1>1. Len(choice) = idx /\ idx \in Nat /\ idx + 1 \in Candidates
      /\ Len(choice') = idx + 1
      /\ UNCHANGED <<players, candidates>>
  BY DEF Keep, Control, TypeOK, Candidates
<1>2. \A c : Points(c)' = Points(c)
  BY <1>1 DEF Points
<1>3. Points(idx + 1) \in Int
  BY <1>1, PointsType
<1>4. \A R \in SUBSET (1..idx) : worth[R] \in Int
  BY <1>1 DEF TypeOK
<1>5. worth'[{}] = 0
  BY WorthNext DEF Additive
<1>6. ASSUME NEW R \in SUBSET (1..(idx + 1)), NEW c \in (1..(idx + 1)) \ R
      PROVE  worth'[R \cup {c}] = worth'[R] + Points(c)
  <2>1. CASE c = idx + 1
    <3>1. R \in SUBSET (1..idx) /\ (R \cup {c}) \ {idx + 1} = R
      BY <2>1, <1>1
    <3>2. worth'[R \cup {c}] = worth[(R \cup {c}) \ {idx + 1}] + Points(idx + 1)
      BY <2>1, WorthNext
    <3>3. worth'[R] = worth[R]
      BY <3>1, WorthNext
    <3> QED BY <2>1, <3>1, <3>2, <3>3
  <2>2. CASE c # idx + 1 /\ idx + 1 \notin R
    <3>1. R \cup {c} \in SUBSET (1..idx) /\ R \in SUBSET (1..idx)
          /\ c \in (1..idx) \ R
      BY <2>2, <1>1
    <3>2. worth'[R \cup {c}] = worth[R \cup {c}] /\ worth'[R] = worth[R]
      BY <3>1, WorthNext
    <3>3. worth[R \cup {c}] = worth[R] + Points(c)
      BY <3>1, <1>1 DEF Additive
    <3> QED BY <3>2, <3>3
  <2>3. CASE c # idx + 1 /\ idx + 1 \in R
    <3>0. DEFINE Q == R \ {idx + 1}
    <3>1. Q \in SUBSET (1..idx) /\ c \in (1..idx) \ Q
          /\ (R \cup {c}) \ {idx + 1} = Q \cup {c}
      BY <2>3, <1>1
    <3>2. worth'[R \cup {c}] = worth[(R \cup {c}) \ {idx + 1}] + Points(idx + 1)
      BY <2>3, WorthNext
    <3>3. worth'[R] = worth[Q] + Points(idx + 1)
      BY <2>3, WorthNext
    <3>4. worth[Q \cup {c}] = worth[Q] + Points(c)
      BY <3>1, <1>1 DEF Additive
    <3>5. worth[Q] \in Int
      BY <3>1, <1>4
    <3>6. Points(c) \in Int
      BY <1>1, PointsType DEF Candidates, TypeOK
    <3> HIDE DEF Q
    <3> QED BY <3>1, <3>2, <3>3, <3>4, <3>5, <3>6, <1>3
  <2> QED BY <2>1, <2>2, <2>3
<1> QED BY <1>1, <1>2, <1>5, <1>6 DEF Additive

(* A finished table follows from the one before, and covers its candidates. *)
LEMMA TablesKeep ==
  ASSUME TypeOK, Control, Tables, Trying, Keep
  PROVE  Tables'
<1>1. Len(choice) = idx /\ idx \in Nat /\ idx + 1 \in Candidates
      /\ Len(choice') = idx + 1 /\ pc = "try"
      /\ UNCHANGED <<players, slots, candidates>>
  BY DEF Keep, Control, TypeOK, Candidates
<1>2. UNCHANGED <<Slots, Masks>> /\ (\A c : Points(c)' = Points(c))
      /\ (\A f : LegalLineup(f)' <=> LegalLineup(f))
      /\ (\A c, s : Fits(c, s)' <=> Fits(c, s))
  BY <1>1 DEF Slots, Masks, Points, LegalLineup, Fits
<1>3. /\ \A k \in 0..idx : dp'[k] = dp[k]
      /\ dp'[idx + 1] = new_dp
      /\ \A k \in 1..idx : choice'[k] = choice[k]
      /\ choice'[idx + 1] = step
  <2>1. dp' = Put(dp, idx + 1, new_dp) /\ choice' = Append(choice, step)
    BY DEF Keep
  <2>2. DOMAIN dp = 0..idx
    BY <1>1 DEF TypeOK
  <2>3. (\A k \in 0..idx : dp'[k] = dp[k]) /\ dp'[idx + 1] = new_dp
    BY <2>1, <2>2, <1>1 DEF Put
  <2> QED BY <2>1, <2>3, <1>1
<1>4. ASSUME NEW k \in 1..(idx + 1)
      PROVE  Explains(dp[k - 1], dp[k], choice[k], k)'
  <2>1. CASE k = idx + 1
    <3>1. Explains(dp[idx], new_dp, step, idx + 1)
      BY <1>1 DEF Trying
    <3>2. dp'[k - 1] = dp[idx] /\ dp'[k] = new_dp /\ choice'[k] = step
      BY <2>1, <1>1, <1>3
    <3> QED BY <2>1, <3>1, <3>2, <1>2 DEF Explains
  <2>2. CASE k # idx + 1
    <3>1. k \in 1..idx /\ k - 1 \in 0..idx /\ k \in 0..idx
      BY <2>2, <1>1
    <3>2. Explains(dp[k - 1], dp[k], choice[k], k)
      BY <3>1, <1>1 DEF Tables
    <3>3. dp'[k - 1] = dp[k - 1] /\ dp'[k] = dp[k] /\ choice'[k] = choice[k]
      BY <3>1, <1>3
    <3> QED BY <3>2, <3>3, <1>2 DEF Explains
  <2> QED BY <2>1, <2>2
<1>5. ASSUME NEW k \in 0..(idx + 1), NEW m \in Masks, NEW f \in [m -> 1..k],
             LegalLineup(f)
      PROVE  m \in DOMAIN dp'[k] /\ worth'[Starters(f)] <= dp'[k][m]
  <2>1. CASE k = idx + 1
    BY <2>1, <1>3, <1>5, CoversNext
  <2>2. CASE k # idx + 1
    <3>1. k \in 0..idx
      BY <2>2, <1>1
    <3>2. m \in DOMAIN dp[k] /\ worth[Starters(f)] <= dp[k][m]
      BY <3>1, <1>1, <1>5 DEF Tables, Covers
    <3>3. Starters(f) \in SUBSET (1..idx)
      BY <3>1, <1>1 DEF Starters
    <3>4. worth'[Starters(f)] = worth[Starters(f)]
      BY <3>3, WorthNext
    <3> QED BY <3>1, <3>2, <3>4, <1>3
  <2> QED BY <2>1, <2>2
<1>6. \A k \in 0..(idx + 1) : Covers(dp[k], k)'
  BY <1>2, <1>5 DEF Covers
<1>7. dp'[0] = [m \in {{}} |-> 0]
  BY <1>1, <1>3 DEF Tables
<1> QED BY <1>1, <1>4, <1>6, <1>7 DEF Tables

(* Every step keeps the history additive and the tables right.              *)
LEMMA TablesInductive ==
  ASSUME TypeOK, SolverInv, [Next]_vars
  PROVE  Additive' /\ Tables'
<1> USE DEF SolverInv
<1>0. CASE UNCHANGED vars \/ Done \/ NoSlots \/ Consider \/ Try \/ Choose
             \/ StepBack \/ Return
  <2>1. UNCHANGED <<players, slots, candidates, dp, choice, worth>>
    BY <1>0 DEF vars, Done, NoSlots, Consider, Try, Choose, StepBack, Return
  <2> QED BY <2>1, Frame
<1>1. CASE Sort
  <2>1. Len(choice) = 0 /\ UNCHANGED <<choice, worth, dp>>
    BY <1>1 DEF Sort, Control, TypeOK
  <2>2. Additive'
    BY <2>1 DEF Additive
  <2>3. dp'[0] = [m \in {{}} |-> 0] /\ worth'[{}] = 0
    BY <2>1 DEF Tables, Additive
  <2>4. Covers(dp[0], 0)'
    <3>1. ASSUME NEW m, NEW f \in [m -> 1..0]
          PROVE  m \in DOMAIN dp'[0] /\ worth'[Starters(f)] <= dp'[0][m]
      <4>1. m = {} /\ Starters(f) = {}
        BY NobodyFills
      <4> QED BY <2>3, <4>1
    <3> QED BY <3>1 DEF Covers
  <2>5. (\A k \in 0..Len(choice') : k = 0) /\ (\A k \in 1..Len(choice') : FALSE)
    BY <2>1
  <2> QED BY <2>2, <2>3, <2>4, <2>5 DEF Tables
<1>2. CASE Keep
  BY <1>2, AdditiveKeep, TablesKeep
<1> QED BY <1>0, <1>1, <1>2 DEF Next
----------------------------------------------------------------------------
(* One more way is tried: the table still follows from the one before, and  *)
(* now meets that way too.                                                  *)
LEMMA TryKeeps ==
  ASSUME TypeOK, Control, Trying, Try
  PROVE  Trying'
<1>0. DEFINE way == CHOOSE w \in todo : TRUE
             nxt == way[1] \cup {way[2]}
             value == dp[idx][way[1]] + Points(idx + 1)
<1>1. pc = "try" /\ pc' = "try" /\ todo' = todo \ {way}
      /\ UNCHANGED <<players, slots, candidates, idx, dp>>
  BY DEF Try
<1>2. \/ /\ UNCHANGED <<new_dp, step>>
         /\ nxt \in DOMAIN new_dp /\ value <= new_dp[nxt]
      \/ /\ new_dp' = Put(new_dp, nxt, value) /\ step' = Put(step, nxt, way)
         /\ nxt \in DOMAIN new_dp => ~(value <= new_dp[nxt])
  BY DEF Try
<1>3. way \in Ways /\ way \in Reached \X Slots
  BY <1>1 DEF Trying, Ways, Try
<1> HIDE DEF way
<1>4. way[1] \in Reached /\ way[2] \in Slots \ way[1] /\ Fits(idx + 1, way[2])
  BY <1>3 DEF Ways
<1>5. value \in Int /\ nxt \in Masks
  <2>1. idx \in Nat /\ idx \in DOMAIN dp /\ idx + 1 \in Candidates
    BY <1>1 DEF TypeOK, Control, Candidates
  <2>2. Table(dp[idx])
    BY <2>1 DEF TypeOK
  <2>3. dp[idx][way[1]] \in Int /\ way[1] \in Masks
    BY <1>4, <2>2 DEF Table, Reached
  <2>4. nxt \in Masks
    BY <1>4, <2>3 DEF Masks
  <2> QED BY <2>1, <2>3, <2>4, PointsType
<1> HIDE DEF nxt
<1>6. UNCHANGED <<Slots, Reached, Ways>>
      /\ (\A c : Points(c)' = Points(c)) /\ (\A c, s : Fits(c, s)' <=> Fits(c, s))
  BY <1>1 DEF Slots, Reached, Ways, Points, Fits
<1>7. \A m \in DOMAIN new_dp : new_dp[m] \in Int
  BY DEF TypeOK, Table
<1>8. \A m \in Reached : dp[idx][m] \in Int
  BY DEF TypeOK, Table, Reached
<1>9. nxt = way[1] \cup {way[2]} /\ value = dp[idx][way[1]] + Points(idx + 1)
  BY DEF nxt
<1> HIDE DEF value
<1>10. \A m, v : v \in Int /\ AtLeast(new_dp, m, v) => AtLeast(new_dp', m, v)
  BY <1>2, <1>5, <1>7 DEF AtLeast, Put
<1>11. AtLeast(new_dp', nxt, value)
  BY <1>2, <1>5 DEF AtLeast, Put
<1>12. Explains(dp[idx], new_dp', step', idx + 1)
  <2>1. Explains(dp[idx], new_dp, step, idx + 1)
    BY <1>1 DEF Trying
  <2>2. CASE UNCHANGED <<new_dp, step>>
    BY <2>1, <2>2 DEF Explains
  <2>3. CASE new_dp' = Put(new_dp, nxt, value) /\ step' = Put(step, nxt, way)
    <3>1. /\ DOMAIN new_dp' = DOMAIN new_dp \cup {nxt}
          /\ DOMAIN step' = DOMAIN step \cup {nxt}
          /\ new_dp'[nxt] = value /\ step'[nxt] = way
          /\ \A m \in DOMAIN new_dp : m # nxt => new_dp'[m] = new_dp[m]
          /\ \A m \in DOMAIN step : m # nxt => step'[m] = step[m]
      BY <2>3 DEF Put
    <3> QED BY <2>1, <3>1, <1>4, <1>9 DEF Explains, Reached
  <2> QED BY <1>2, <2>2, <2>3
<1>13. \A m \in Reached : AtLeast(new_dp', m, dp[idx][m])
  BY <1>1, <1>8, <1>10 DEF Trying
<1>14. ASSUME NEW w \in Ways \ todo'
       PROVE  AtLeast(new_dp', w[1] \cup {w[2]}, dp[idx][w[1]] + Points(idx + 1))
  <2>1. CASE w = way
    BY <2>1, <1>9, <1>11
  <2>2. CASE w # way
    <3>1. AtLeast(new_dp, w[1] \cup {w[2]}, dp[idx][w[1]] + Points(idx + 1))
      BY <2>2, <1>1 DEF Trying
    <3>2. idx + 1 \in Candidates /\ w[1] \in Reached
      BY <1>1 DEF TypeOK, Control, Candidates, Ways
    <3>3. dp[idx][w[1]] + Points(idx + 1) \in Int
      BY <3>2, <1>8, PointsType
    <3> QED BY <3>1, <3>3, <1>10
  <2> QED BY <2>1, <2>2
<1>15. todo' \subseteq Ways
  BY <1>1 DEF Trying
<1>16. Explains(dp[idx], new_dp, step, idx + 1)'
  BY <1>1, <1>6, <1>12 DEF Explains
<1> QED
  BY <1>1, <1>6, <1>13, <1>14, <1>15, <1>16 DEF Trying, AtLeast

(* Every step keeps what the inner loops rely on.                           *)
LEMMA TryingInductive ==
  ASSUME TypeOK, Control, Trying, [Next]_vars
  PROVE  Trying'
<1>0. CASE UNCHANGED vars \/ Done
  <2>1. UNCHANGED vars
    BY <1>0 DEF Done
  <2> QED
    BY <2>1 DEF vars, Trying, Explains, Reached, Ways, AtLeast, Slots, Fits, Points
<1>1. CASE NoSlots \/ Sort \/ Keep \/ Choose \/ Return
  BY <1>1 DEF NoSlots, Sort, Keep, Choose, Return, Trying
<1>2. CASE Consider
  <2>1. /\ new_dp' = dp[idx] /\ step' = Empty /\ todo' = Ways
        /\ UNCHANGED <<players, slots, candidates, idx, dp>>
    BY <1>2 DEF Consider
  <2>2. UNCHANGED <<Slots, Reached, Ways>>
    BY <2>1 DEF Slots, Reached, Ways, Fits
  <2>3. \A m \in Reached : dp[idx][m] \in Int
    BY DEF TypeOK, Table, Reached
  <2>4. \A m \in Reached : AtLeast(new_dp', m, dp[idx][m])
    BY <2>1, <2>3 DEF AtLeast, Reached
  <2>5. Explains(dp[idx], new_dp, step, idx + 1)'
    BY <2>1 DEF Explains, Empty
  <2>6. (\A m \in Reached : AtLeast(new_dp, m, dp[idx][m]))'
    BY <2>1, <2>2, <2>4 DEF AtLeast
  <2>7. (Ways \ todo)' = {} /\ todo' \subseteq Ways'
    BY <2>1, <2>2
  <2> QED BY <2>5, <2>6, <2>7 DEF Trying
<1>3. CASE Try
  BY <1>3, TryKeeps
<1>4. CASE StepBack
  BY <1>4 DEF StepBack, Trying
<1> QED BY <1>0, <1>1, <1>2, <1>3, <1>4 DEF Next
(* The set of slots picked is the best of those reached.                    *)
LEMMA BestIsChosen ==
  ASSUME TypeOK, NEW m \in Reached, IsBest(m), NEW o \in Reached
  PROVE  \/ Cardinality(o) < Cardinality(m)
         \/ Cardinality(o) = Cardinality(m) /\ dp[idx][o] <= dp[idx][m]
<1>1. Reached \subseteq Masks /\ dp[idx][m] \in Int
  <2>1. idx \in 0..Len(choice)
    BY DEF TypeOK
  <2>2. Table(dp[idx])
    BY <2>1 DEF TypeOK
  <2> QED BY <2>2 DEF Table, Reached
<1>2. CASE Slots \in Reached
  <2>1. m = Slots /\ Slots \in Masks /\ o \in SUBSET Slots
    BY <1>1, <1>2 DEF IsBest, Masks
  <2>2. /\ Cardinality(Slots) \in Nat /\ Cardinality(o) \in Nat
        /\ Cardinality(o) <= Cardinality(Slots)
        /\ Cardinality(o) = Cardinality(Slots) => o = Slots
    BY <2>1, MaskSize
  <2>3. CASE o = m
    BY <2>3, <1>1
  <2>4. CASE o # m
    BY <2>1, <2>2, <2>4
  <2> QED BY <2>3, <2>4
<1>3. CASE Slots \notin Reached
  BY <1>3 DEF IsBest
<1> QED BY <1>2, <1>3

(* One step back: what the candidate adds to the lineup he takes from what  *)
(* is left of the mask.                                                     *)
LEMMA StepBackKeeps ==
  ASSUME TypeOK, SolverInv, StepBack
  PROVE  Tracing'
<1> USE DEF SolverInv
<1>1. /\ pc = "trace" /\ idx > 0 /\ idx' = idx - 1 /\ idx \in Nat
      /\ Len(choice) = Len(candidates) /\ idx \in 1..Len(choice)
      /\ UNCHANGED <<players, slots, pc, candidates, dp, choice, best_mask,
                     best_value, worth>>
  BY DEF StepBack, TypeOK, Control
<1>2. Explains(dp[idx - 1], dp[idx], choice[idx], idx)
  BY <1>1 DEF Tables
<1>3. Chosen' /\ \A f : LegalLineup(f)' <=> LegalLineup(f)
  BY <1>1 DEF Tracing, Chosen, LegalLineup, Fits
<1>4. /\ LegalLineup(assignment) /\ mask \in DOMAIN dp[idx]
      /\ \A s \in DOMAIN assignment : assignment[s] > idx
      /\ mask \subseteq best_mask /\ DOMAIN assignment = best_mask \ mask
      /\ best_value = dp[idx][mask] + worth[Starters(assignment)]
  BY <1>1 DEF Tracing, Reached
<1>5. /\ Starters(assignment) \in SUBSET (1..Len(choice))
      /\ \A s \in DOMAIN assignment : assignment[s] \in Nat
  BY <1>1 DEF TypeOK, Starters, Candidates
<1>6. Reached' = DOMAIN dp[idx - 1]
  BY <1>1 DEF Reached
<1>7. CASE mask \notin DOMAIN choice[idx]
  <2>1. UNCHANGED <<assignment, mask>>
    BY <1>7 DEF StepBack
  <2>2. mask \in DOMAIN dp[idx - 1] /\ dp[idx][mask] = dp[idx - 1][mask]
    BY <1>2, <1>4, <1>7 DEF Explains
  <2>3. \A s \in DOMAIN assignment : assignment[s] > idx - 1
    BY <1>1, <1>4, <1>5
  <2> QED BY <1>1, <1>3, <1>4, <1>6, <2>1, <2>2, <2>3 DEF Tracing
<1>8. CASE mask \in DOMAIN choice[idx]
  <2>0. DEFINE prev == choice[idx][mask][1]
               s == choice[idx][mask][2]
  <2>1. assignment' = Put(assignment, s, idx) /\ mask' = prev
    BY <1>8 DEF StepBack
  <2>2. /\ prev \in DOMAIN dp[idx - 1] /\ s \in Slots \ prev
        /\ mask = prev \cup {s} /\ Fits(idx, s)
        /\ dp[idx][mask] = dp[idx - 1][prev] + Points(idx)
    BY <1>2, <1>8 DEF Explains
  <2> HIDE DEF prev, s
  <2>3. s \notin DOMAIN assignment
    BY <1>4, <2>2
  <2>4. /\ DOMAIN assignment' = DOMAIN assignment \cup {s}
        /\ assignment'[s] = idx
        /\ \A t \in DOMAIN assignment : assignment'[t] = assignment[t]
    BY <2>1, <2>3 DEF Put
  <2>5. LegalLineup(assignment')
    <3>1. \A t \in DOMAIN assignment' : Fits(assignment'[t], t)
      BY <1>4, <2>2, <2>4 DEF LegalLineup
    <3>2. \A t \in DOMAIN assignment : assignment[t] # idx
      BY <1>1, <1>4, <1>5
    <3>3. \A t, u \in DOMAIN assignment' : assignment'[t] = assignment'[u] => t = u
      BY <1>4, <2>4, <3>2 DEF LegalLineup
    <3> QED BY <3>1, <3>3 DEF LegalLineup
  <2>6. \A t \in DOMAIN assignment' : assignment'[t] > idx - 1
    BY <1>1, <1>4, <1>5, <2>4
  <2>7. prev \subseteq best_mask /\ DOMAIN assignment' = best_mask \ prev
    BY <1>4, <2>2, <2>4
  <2>8. Starters(assignment') = Starters(assignment) \cup {idx}
    BY <2>3, <2>4 DEF Starters
  <2>9. idx \in (1..Len(choice)) \ Starters(assignment)
    BY <1>1, <1>4, <1>5 DEF Starters
  <2>10. worth[Starters(assignment')] = worth[Starters(assignment)] + Points(idx)
    BY <1>5, <2>8, <2>9 DEF Additive
  <2>11. /\ worth[Starters(assignment)] \in Int /\ Points(idx) \in Int
         /\ dp[idx - 1][prev] \in Int
    <3>1. worth[Starters(assignment)] \in Int
      BY <1>5 DEF TypeOK
    <3>2. idx \in Candidates /\ idx - 1 \in DOMAIN dp
      BY <1>1 DEF TypeOK, Candidates
    <3>3. dp[idx - 1][prev] \in Int
      BY <3>2, <2>2 DEF TypeOK, Table
    <3> QED BY <3>1, <3>2, <3>3, PointsType
  <2>12. best_value = dp[idx - 1][prev] + worth[Starters(assignment')]
    BY <1>4, <2>2, <2>10, <2>11
  <2> QED
    BY <1>1, <1>3, <1>6, <2>1, <2>2, <2>5, <2>6, <2>7, <2>12 DEF Tracing
<1> QED BY <1>7, <1>8

(* Every step keeps what the way back relies on.                            *)
LEMMA TracingInductive ==
  ASSUME TypeOK, SolverInv, [Next]_vars
  PROVE  Tracing'
<1> USE DEF SolverInv
<1>0. CASE UNCHANGED vars \/ Done
  <2>1. UNCHANGED vars
    BY <1>0 DEF Done
  <2> QED BY <2>1 DEF vars, Tracing, Chosen, LegalLineup, Fits, Reached
<1>1. CASE NoSlots
  <2>1. /\ pc = "sort" /\ pc' = "done" /\ idx = 0 /\ Len(choice) = 0
        /\ UNCHANGED <<players, slots, candidates, idx, dp, choice, best_mask,
                       best_value, mask, assignment, worth>>
    BY <1>1 DEF NoSlots, Control, TypeOK
  <2>2. /\ assignment = Empty /\ mask = {} /\ best_mask = {} /\ best_value = 0
        /\ dp[0] = [m \in {{}} |-> 0] /\ worth[{}] = 0
    BY <2>1 DEF Control, Tables, Additive
  <2>3. DOMAIN assignment = {} /\ Starters(assignment) = {}
    BY <2>2 DEF Empty, Starters
  <2>5. LegalLineup(assignment)'
    BY <2>1, <2>3 DEF LegalLineup
  <2>6. Chosen'
    <3>1. /\ dp'[Len(choice')] = dp[0] /\ DOMAIN dp[0] = {{}} /\ dp[0][{}] = 0
          /\ best_mask' = {} /\ best_value' = 0
      BY <2>1, <2>2
    <3>2. ASSUME NEW o \in DOMAIN dp[0]
          PROVE  Cardinality(o) = Cardinality(best_mask') /\ dp[0][o] <= best_value'
      <4>1. o = {}
        BY <3>1
      <4>2. o = best_mask' /\ dp[0][o] = 0
        BY <3>1, <4>1
      <4> QED BY <3>1, <4>2
    <3>3. (dp[Len(choice)])' = dp[0]
      BY <3>1
    <3> QED BY <3>2, <3>3 DEF Chosen
  <2>7. mask' \in Reached' /\ best_value' = dp'[idx'][mask'] + worth'[Starters(assignment')]
    BY <2>1, <2>2, <2>3 DEF Reached
  <2> QED BY <2>1, <2>2, <2>3, <2>5, <2>6, <2>7 DEF Tracing
<1>2. CASE Sort \/ Consider \/ Try \/ Keep
  BY <1>2 DEF Sort, Consider, Try, Keep, Tracing
<1>3. CASE Choose
  <2>1. /\ pc = "next" /\ pc' = "trace" /\ idx = Len(candidates)
        /\ Len(choice) = idx /\ assignment = Empty
        /\ UNCHANGED <<players, slots, candidates, idx, dp, choice, assignment,
                       worth>>
    BY <1>3 DEF Choose, Control
  <2>2. PICK m \in Reached : /\ IsBest(m) /\ best_mask' = m /\ mask' = m
                             /\ best_value' = dp[idx][m]
    BY <1>3 DEF Choose
  <2>3. DOMAIN assignment = {} /\ Starters(assignment) = {} /\ worth[{}] = 0
    BY <2>1 DEF Empty, Starters, Additive
  <2>4. dp[idx][m] \in Int
    BY <2>2 DEF TypeOK, Table, Reached
  <2>5. LegalLineup(assignment)'
    BY <2>1, <2>3 DEF LegalLineup
  <2>6. Chosen'
    <3>1. \A o \in Reached :
            \/ Cardinality(o) < Cardinality(m)
            \/ Cardinality(o) = Cardinality(m) /\ dp[idx][o] <= dp[idx][m]
      BY <2>2, BestIsChosen
    <3> QED BY <2>1, <2>2, <3>1 DEF Chosen, Reached
  <2>7. best_value' = dp'[idx'][mask'] + worth'[Starters(assignment')]
    BY <2>1, <2>2, <2>3, <2>4
  <2>8. mask' \in Reached' /\ mask' = best_mask'
    BY <2>1, <2>2 DEF Reached
  <2> QED BY <2>1, <2>3, <2>5, <2>6, <2>7, <2>8 DEF Tracing
<1>4. CASE StepBack
  BY <1>4, StepBackKeeps
<1>5. CASE Return
  <2>1. pc = "trace" /\ idx = 0 /\ pc' = "done"
        /\ UNCHANGED <<players, slots, candidates, idx, dp, choice, best_mask,
                       best_value, mask, assignment, worth>>
    BY <1>5 DEF Return
  <2> QED BY <2>1 DEF Tracing, Chosen, LegalLineup, Fits, Reached
<1> QED BY <1>0, <1>1, <1>2, <1>3, <1>4, <1>5 DEF Next

(* Type correctness, and the invariant of the solver, for every input.      *)
LEMMA Invariance == Spec => [](TypeOK /\ SolverInv)
<1>1. Init => TypeOK /\ SolverInv
  BY TypeInit, SolverInit
<1>2. TypeOK /\ SolverInv /\ [Next]_vars => (TypeOK /\ SolverInv)'
  BY TypeInductive, ControlInductive, TablesInductive, TryingInductive,
     TracingInductive DEF SolverInv
<1> QED BY <1>1, <1>2, PTL DEF Spec

(* Tables, choices and assignment stay what they claim to be.               *)
THEOREM TypeCorrect == Spec => []TypeOK
BY Invariance, PTL

(* Whatever roster and league it is given, best_lineup returns a legal      *)
(* lineup, and the total it returns is what its starters score.             *)
THEOREM LineupIsLegalAndAddsUp == Spec => []LineupAddsUp
<1>1. TypeOK /\ SolverInv => LineupAddsUp
  <2> SUFFICES ASSUME TypeOK, SolverInv, pc = "done" PROVE LineupAddsUp
    BY DEF LineupAddsUp
  <2> USE DEF SolverInv
  <2>1. idx = 0 /\ mask \in DOMAIN dp[0] /\ dp[0] = [m \in {{}} |-> 0]
    BY DEF Tracing, Tables, Reached
  <2>2. mask = {} /\ dp[0][mask] = 0
    BY <2>1
  <2>3. /\ LegalLineup(assignment) /\ DOMAIN assignment = best_mask
        /\ best_value = 0 + worth[Starters(assignment)]
    BY <2>1, <2>2 DEF Tracing
  <2>4. worth[Starters(assignment)] \in Int
    <3>1. Starters(assignment) \in SUBSET (1..Len(choice))
      BY DEF TypeOK, Control, Starters, Candidates
    <3> QED BY <3>1 DEF TypeOK
  <2> QED BY <2>3, <2>4 DEF LineupAddsUp
<1> QED BY <1>1, Invariance, PTL

(* And no legal lineup of the players it looked at fills more slots, or as  *)
(* many with more points.                                                   *)
THEOREM LineupIsTheBest == Spec => []LineupIsBest
<1>1. TypeOK /\ SolverInv => LineupIsBest
  <2> SUFFICES ASSUME TypeOK, SolverInv, pc = "done",
                      NEW m \in Masks, NEW f \in [m -> Candidates], LegalLineup(f)
               PROVE  \/ Cardinality(m) < Cardinality(DOMAIN assignment)
                      \/ /\ Cardinality(m) = Cardinality(DOMAIN assignment)
                         /\ worth[Starters(f)] <= best_value
    BY DEF LineupIsBest
  <2> USE DEF SolverInv
  <2>1. Len(choice) = Len(candidates) /\ Len(choice) \in Nat
    BY DEF Control, TypeOK
  <2>2. m \in DOMAIN dp[Len(choice)] /\ worth[Starters(f)] <= dp[Len(choice)][m]
    BY <2>1 DEF Tables, Covers, Candidates
  <2>3. \/ Cardinality(m) < Cardinality(best_mask)
        \/ /\ Cardinality(m) = Cardinality(best_mask)
           /\ dp[Len(choice)][m] <= best_value
    BY <2>2 DEF Tracing, Chosen
  <2>4. DOMAIN assignment = best_mask
    <3>1. mask \in DOMAIN dp[0] /\ dp[0] = [k \in {{}} |-> 0]
      BY DEF Tracing, Tables, Reached
    <3> QED BY <3>1 DEF Tracing
  <2>5. /\ worth[Starters(f)] \in Int /\ dp[Len(choice)][m] \in Int
        /\ best_value \in Int
    <3>1. Starters(f) \in SUBSET (1..Len(choice))
      BY <2>1 DEF Starters, Candidates
    <3>2. Len(choice) \in DOMAIN dp
      BY <2>1 DEF TypeOK
    <3> QED BY <3>1, <3>2, <2>2 DEF TypeOK, Table
  <2> QED BY <2>2, <2>3, <2>4, <2>5
<1> QED BY <1>1, Invariance, PTL

=============================================================================

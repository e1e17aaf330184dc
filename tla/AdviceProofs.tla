----------------------------- MODULE AdviceProofs -----------------------------
(***************************************************************************)
(* What the advice and the draft page may never say or do, for every       *)
(* league, roster, wire, calendar, board and release of Streamlit.         *)
(*                                                                         *)
(* An advice job is handed a case and reports: its invariant says that a   *)
(* report is one the job can give of its case (LineupIsAnswered and the    *)
(* like), and the lemmas say what any such report is.  The jobs walk and   *)
(* sort; what a walk keeps is shown from its last step that would break it *)
(* (Climb) or over the finite sets it collects (Grow).                     *)
(*                                                                         *)
(* A page is calm when no run of it would skip picks, whatever becomes of  *)
(* the board: its box holds the number last applied, or follows the draft, *)
(* or is at the first pick.  A box that nobody typed into is calm.         *)
(***************************************************************************)
EXTENDS DraftPage, LineupAdvice, RecapAdvice, CalendarAdvice, MarketAdvice,
        FiniteSetTheorems, SequenceTheorems, TLAPS

LOCAL INSTANCE DraftOrder WITH
  Players <- Drafted, NoPlayer <- NoOne, NumTeams <- TeamCount,
  Rounds <- RoundCount, PickLimit <- LastPick

-----------------------------------------------------------------------------

\* Of finitely many numbers, one is the greatest.
LEMMA GreatestExists ==
  ASSUME NEW N \in Nat, NEW T, T # {}, T \subseteq 0..N
  PROVE  \E x \in T : \A y \in T : x >= y
<1> DEFINE Tails == {t \in SUBSET (0..N) : \E x \in T : t = x..N}
           R == StrictSubsetOrdering(0..N)
           S == FiniteSubsetsOf(0..N)
<1>1. \A x \in T : x..N \in SUBSET (0..N) /\ IsFiniteSet(x..N) /\ x \in x..N
  BY FS_Interval
<1>2. Tails \subseteq S /\ Tails # {}
  BY <1>1 DEF FiniteSubsetsOf
<1>3. IsWellFoundedOn(R, S)
  BY FS_StrictSubsetOrderingWellFounded
<1> HIDE DEF Tails, R, S
<1>4. PICK t \in Tails : \A u \in Tails : ~(<<u, t>> \in R)
  BY <1>2, <1>3, WFMin
<1> USE DEF Tails
<1>5. PICK x \in T : t = x..N
  OBVIOUS
<1>6. ASSUME NEW y \in T, ~(x >= y)
      PROVE  FALSE
  <2>1. y..N \in Tails /\ x..N \in Tails
    BY <1>1
  <2>2. y..N \subseteq x..N /\ y..N # x..N
    BY <1>6, <1>1
  <2>3. <<y..N, x..N>> \in R
    BY <2>1, <2>2 DEF R, StrictSubsetOrdering
  <2> QED
    BY <1>4, <1>5, <2>1, <2>3
<1> QED
  BY <1>6

LEMMA NumbersTo ==
  ASSUME NEW n \in Nat
  PROVE  IsFiniteSet(1..n) /\ Cardinality(1..n) = n
<1>1. /\ IsFiniteSet(1..n)
      /\ Cardinality(1..n) = IF 1 > n THEN 0 ELSE n - 1 + 1
  BY FS_Interval
<1> QED
  BY <1>1

LEMMA MinIsLeast ==
  ASSUME NEW n \in Nat, NEW S, S # {}, S \subseteq 0..n
  PROVE  Min(S) \in S /\ \A y \in S : Min(S) <= y
<1> DEFINE Up == {n - i : i \in S}
<1>0. \A i \in S : i \in 0..n /\ n - i \in 0..n
  OBVIOUS
<1>1. Up \subseteq 0..n /\ Up # {}
  BY <1>0
<1> HIDE DEF Up
<1>2. PICK x \in Up : \A y \in Up : x >= y
  BY <1>1, GreatestExists
<1>3. PICK m \in S : x = n - m
  BY DEF Up
<1>4. ASSUME NEW j \in S
      PROVE  m <= j
  <2>1. n - j \in Up
    BY DEF Up
  <2> QED
    BY <1>2, <1>3, <2>1
<1> QED
  BY <1>4 DEF Min

(* Induction, over what a set of numbers or of sets contains.               *)

LEMMA Climb ==
  ASSUME NEW n \in Nat, NEW S, 0 \in S,
         \A i \in 0..(n - 1) : i \in S => i + 1 \in S
  PROVE  0..n \subseteq S
<1> SUFFICES ASSUME 0..n \ S # {}
             PROVE  FALSE
  OBVIOUS
<1> DEFINE Left == 0..n \ S
<1>1. Left \subseteq 0..n /\ Left # {}
  OBVIOUS
<1> HIDE DEF Left
<1>2. Min(Left) \in Left /\ \A j \in Left : Min(Left) <= j
  BY <1>1, MinIsLeast
<1>3. PICK m \in Left : \A j \in Left : m <= j
  BY <1>2
<1> USE DEF Left
<1>4. m - 1 \in 0..(n - 1) /\ m - 1 \in S
  BY <1>3, m # 0
<1> QED
  BY <1>3, <1>4

LEMMA Grow ==
  ASSUME NEW S, IsFiniteSet(S), NEW F, {} \in F,
         \A R \in SUBSET S : R # {} /\ (\A x \in R : R \ {x} \in F) => R \in F
  PROVE  \A R \in SUBSET S : R \in F
<1> DEFINE Good == {k \in 0..Cardinality(S) : \A R \in SUBSET S : Cardinality(R) = k => R \in F}
<1>1. Cardinality(S) \in Nat
  BY FS_CardinalityType
<1>2. \A R \in SUBSET S : IsFiniteSet(R) /\ Cardinality(R) \in 0..Cardinality(S)
  BY <1>1, FS_Subset, FS_CardinalityType
<1>3. 0 \in Good
  BY <1>1, <1>2, FS_EmptySet
<1>4. ASSUME NEW k \in 0..(Cardinality(S) - 1), k \in Good
      PROVE  k + 1 \in Good
  <2> SUFFICES ASSUME NEW R \in SUBSET S, Cardinality(R) = k + 1
               PROVE  R \in F
    BY <1>1
  <2>1. R # {}
    <3>1. k + 1 # 0 /\ Cardinality({}) = 0
      BY FS_EmptySet, <1>1
    <3> HIDE DEF Good
    <3> QED
      BY <3>1
  <2>2. ASSUME NEW x \in R
        PROVE  R \ {x} \in F
    <3>1. Cardinality(R \ {x}) = k
      BY <1>1, <1>2, FS_RemoveElement
    <3> QED
      BY <3>1, <1>4
  <2> QED
    BY <2>1, <2>2
<1> HIDE DEF Good
<1>5. 0..Cardinality(S) \subseteq Good
  BY <1>1, <1>3, <1>4, Climb
<1> QED
  BY <1>2, <1>5 DEF Good

\* What n steps make of a base.
Iterated(g, n, T, base, step) ==
  /\ g \in [0..n -> T]
  /\ g[0] = base
  /\ \A i \in 1..n : g[i] = step[<<i, g[i - 1]>>]

LEMMA Iterates ==
  ASSUME NEW n \in Nat, NEW T, NEW base \in T, NEW step,
         \A i \in 1..n : \A x \in T : step[<<i, x>>] \in T
  PROVE  \E g : Iterated(g, n, T, base, step)
<1> DEFINE Good == {m \in 0..n : \E g : Iterated(g, m, T, base, step)}
<1>1. 0 \in Good
  <2> DEFINE g == [i \in 0..0 |-> base]
  <2>1. g \in [0..0 -> T] /\ g[0] = base
    OBVIOUS
  <2> HIDE DEF g
  <2>2. Iterated(g, 0, T, base, step)
    BY <2>1 DEF Iterated
  <2> QED
    BY <2>2
<1>2. ASSUME NEW m \in 0..(n - 1), m \in Good
      PROVE  m + 1 \in Good
  <2>1. PICK g : Iterated(g, m, T, base, step)
    BY <1>2
  <2>2. g \in [0..m -> T] /\ g[0] = base /\ \A i \in 1..m : g[i] = step[<<i, g[i - 1]>>]
    BY <2>1 DEF Iterated
  <2> DEFINE h == [i \in 0..(m + 1) |-> IF i = m + 1 THEN step[<<m + 1, g[m]>>] ELSE g[i]]
  <2>3. step[<<m + 1, g[m]>>] \in T
    BY <2>2
  <2>4. h \in [0..(m + 1) -> T]
    BY <2>2, <2>3
  <2>5. h[m + 1] = step[<<m + 1, g[m]>>] /\ \A i \in 0..m : h[i] = g[i]
    OBVIOUS
  <2> HIDE DEF h
  <2>6. \A i \in 1..m : i - 1 \in 0..m /\ g[i] = step[<<i, g[i - 1]>>]
    BY <2>2
  <2>7. ASSUME NEW i \in 1..(m + 1)
        PROVE  h[i] = step[<<i, h[i - 1]>>]
    <3>1. CASE i = m + 1
      BY <3>1, <2>5
    <3>2. CASE i \in 1..m
      BY <3>2, <2>5, <2>6
    <3> QED
      BY <3>1, <3>2
  <2>8. Iterated(h, m + 1, T, base, step)
    BY <2>2, <2>4, <2>5, <2>7 DEF Iterated
  <2> QED
    BY <2>8
<1> HIDE DEF Good
<1>3. 0..n \subseteq Good
  BY <1>1, <1>2, Climb
<1> QED
  BY <1>3 DEF Good

-----------------------------------------------------------------------------
(* Sums over finite sets.                                                   *)

Adds(g, f, S) ==
  /\ g \in [SUBSET S -> Int]
  /\ g[{}] = 0
  /\ \A R \in SUBSET S : \A x \in S \ R : g[R \cup {x}] = g[R] + f[x]

LEMMA SumsExist ==
  ASSUME NEW S, IsFiniteSet(S), NEW f, \A x \in S : f[x] \in Int
  PROVE  \E g : Adds(g, f, S)
<1> DEFINE F == {R \in SUBSET S : \E g : Adds(g, f, R)}
<1>1. {} \in F
  <2>1. Adds([R \in SUBSET {} |-> 0], f, {})
    BY DEF Adds
  <2> QED
    BY <2>1
<1>2. ASSUME NEW R \in SUBSET S, R # {}, \A x \in R : R \ {x} \in F
      PROVE  R \in F
  <2>1. PICK a \in R : TRUE
    BY <1>2
  <2> DEFINE Q == R \ {a}
  <2>2. PICK g : Adds(g, f, Q)
    BY <1>2, <2>1
  <2> DEFINE h == [P \in SUBSET R |-> IF a \in P THEN g[P \ {a}] + f[a] ELSE g[P]]
  <2>3. \A P \in SUBSET R : P \ {a} \in SUBSET Q
    OBVIOUS
  <2>4. g \in [SUBSET Q -> Int] /\ f[a] \in Int
    BY <2>2, <2>1 DEF Adds
  <2>5. h \in [SUBSET R -> Int]
    <3>1. ASSUME NEW P \in SUBSET R
          PROVE  h[P] \in Int
      <4>1. CASE a \in P
        <5>1. g[P \ {a}] \in Int
          BY <2>3, <2>4
        <5> QED
          BY <5>1, <4>1, <2>4
      <4>2. CASE a \notin P
        <5>1. P \in SUBSET Q
          BY <4>2
        <5> QED
          BY <5>1, <4>2, <2>4
      <4> QED
        BY <4>1, <4>2
    <3> QED
      BY <3>1
  <2>6. h[{}] = 0
    BY <2>2 DEF Adds
  <2>7. ASSUME NEW P \in SUBSET R, NEW x \in R \ P
        PROVE  h[P \cup {x}] = h[P] + f[x]
    <3>1. f[x] \in Int
      OBVIOUS
    <3>2. CASE x = a
      <4>1. (P \cup {x}) \ {a} = P /\ P \in SUBSET Q
        BY <3>2
      <4> QED
        BY <4>1, <3>2
    <3>3. CASE x # a /\ a \in P
      <4>1. (P \cup {x}) \ {a} = (P \ {a}) \cup {x} /\ P \ {a} \in SUBSET Q /\ x \in Q \ (P \ {a})
        BY <3>3
      <4>2. g[(P \ {a}) \cup {x}] = g[P \ {a}] + f[x] /\ g[P \ {a}] \in Int
        BY <4>1, <2>2 DEF Adds
      <4>3. h[P \cup {x}] = g[(P \cup {x}) \ {a}] + f[a] /\ h[P] = g[P \ {a}] + f[a]
        BY <3>3
      <4>4. h[P \cup {x}] = (g[P \ {a}] + f[x]) + f[a]
        BY <4>1, <4>2, <4>3
      <4>5. h[P] + f[x] = (g[P \ {a}] + f[a]) + f[x]
        BY <4>3
      <4> HIDE DEF h, Q
      <4> QED
        BY <4>2, <4>4, <4>5, <3>1, <2>4
    <3>4. CASE x # a /\ a \notin P
      <4>1. P \in SUBSET Q /\ x \in Q \ P /\ a \notin P \cup {x}
        BY <3>4
      <4>2. g[P \cup {x}] = g[P] + f[x]
        BY <4>1, <2>2 DEF Adds
      <4> QED
        BY <4>1, <4>2, <3>4
    <3> QED
      BY <3>2, <3>3, <3>4
  <2> HIDE DEF h
  <2>8. Adds(h, f, R)
    BY <2>5, <2>6, <2>7 DEF Adds
  <2> QED
    BY <2>8
<1> HIDE DEF F
<1>3. \A R \in SUBSET S : R \in F
  BY <1>1, <1>2, Grow
<1> QED
  BY <1>3 DEF F

LEMMA TotalIsASum ==
  ASSUME NEW S, IsFiniteSet(S), NEW f, \A x \in S : f[x] \in Int,
         NEW g, Adds(g, f, S)
  PROVE  Total(f, S) = g[S]
<1> DEFINE Pick(s) == CHOOSE x \in s : TRUE
           Is(h) == h = [s \in SUBSET S |-> IF s = {} THEN 0 ELSE f[Pick(s)] + h[s \ {Pick(s)}]]
           h == CHOOSE h : Is(h)
<1>1. Total(f, S) = h[S]
  BY DEF Total, MapThenSumSet, MapThenFoldSet
<1>2. \A s \in SUBSET S : s # {} => Pick(s) \in s
  OBVIOUS
<1> HIDE DEF Pick
<1>3. ASSUME NEW s \in SUBSET S, s # {}
      PROVE  g[s] = f[Pick(s)] + g[s \ {Pick(s)}]
  <2>1. Pick(s) \in s /\ Pick(s) \in S \ (s \ {Pick(s)}) /\ s \ {Pick(s)} \in SUBSET S
    BY <1>2, <1>3
  <2>2. (s \ {Pick(s)}) \cup {Pick(s)} = s
    BY <2>1
  <2>3. g[s] = g[s \ {Pick(s)}] + f[Pick(s)]
    BY <2>1, <2>2 DEF Adds
  <2>4. g[s \ {Pick(s)}] \in Int /\ f[Pick(s)] \in Int
    BY <2>1 DEF Adds
  <2> QED
    BY <2>3, <2>4
<1>4. Is(g)
  <2>1. DOMAIN g = SUBSET S /\ g[{}] = 0 /\ g = [s \in SUBSET S |-> g[s]]
    BY DEF Adds
  <2> QED
    BY <2>1, <1>3
<1>5. Is(h)
  BY <1>4
<1> HIDE DEF h
<1> DEFINE F == {s \in SUBSET S : h[s] = g[s]}
<1>6. {} \in F
  BY <1>5 DEF Adds
<1>7. ASSUME NEW s \in SUBSET S, s # {}, \A x \in s : s \ {x} \in F
      PROVE  s \in F
  <2>1. h[s] = f[Pick(s)] + h[s \ {Pick(s)}]
    BY <1>5, <1>7
  <2>2. h[s \ {Pick(s)}] = g[s \ {Pick(s)}]
    BY <1>2, <1>7
  <2> QED
    BY <2>1, <2>2, <1>3, <1>7
<1> HIDE DEF F
<1>8. \A s \in SUBSET S : s \in F
  BY <1>6, <1>7, Grow
<1>9. S \in F
  BY <1>8
<1> QED
  BY <1>1, <1>9 DEF F

\* The sums of the subsets of a finite set add up.
LEMMA TotalAdds ==
  ASSUME NEW S, IsFiniteSet(S), NEW f, \A x \in S : f[x] \in Int
  PROVE  /\ Total(f, {}) = 0
         /\ \A R \in SUBSET S : Total(f, R) \in Int
         /\ \A R \in SUBSET S : \A x \in S \ R : Total(f, R \cup {x}) = Total(f, R) + f[x]
<1>1. PICK g : Adds(g, f, S)
  BY SumsExist
<1>2. ASSUME NEW R \in SUBSET S
      PROVE  Total(f, R) = g[R]
  <2> DEFINE gR == [Q \in SUBSET R |-> g[Q]]
  <2>1. Adds(gR, f, R)
    <3>1. SUBSET R \subseteq SUBSET S
      OBVIOUS
    <3>2. gR \in [SUBSET R -> Int]
      BY <1>1, <3>1 DEF Adds
    <3>3. gR[{}] = 0
      BY <1>1 DEF Adds
    <3>4. ASSUME NEW Q \in SUBSET R, NEW x \in R \ Q
          PROVE  gR[Q \cup {x}] = gR[Q] + f[x]
      <4>1. g[Q \cup {x}] = g[Q] + f[x]
        BY <1>1 DEF Adds
      <4> QED
        BY <4>1
    <3> HIDE DEF gR
    <3> QED
      BY <3>2, <3>3, <3>4 DEF Adds
  <2> HIDE DEF gR
  <2>2. IsFiniteSet(R) /\ \A x \in R : f[x] \in Int
    BY FS_Subset
  <2>3. Total(f, R) = gR[R]
    BY <2>1, <2>2, TotalIsASum
  <2> QED
    BY <2>3 DEF gR
<1>3. {} \in SUBSET S /\ \A R \in SUBSET S : \A x \in S \ R : R \cup {x} \in SUBSET S
  OBVIOUS
<1> QED
  BY <1>1, <1>2, <1>3 DEF Adds

\* The sums of two disjoint sets add up, and so a sum grows with its set.
LEMMA TotalUnion ==
  ASSUME NEW S, IsFiniteSet(S), NEW f, \A x \in S : f[x] \in Int,
         NEW A \in SUBSET S, NEW B \in SUBSET S, A \cap B = {}
  PROVE  Total(f, A \cup B) = Total(f, A) + Total(f, B)
<1> DEFINE F == {R \in SUBSET B : Total(f, A \cup R) = Total(f, A) + Total(f, R)}
<1>1. /\ Total(f, {}) = 0
      /\ \A R \in SUBSET S : Total(f, R) \in Int
      /\ \A R \in SUBSET S : \A x \in S \ R : Total(f, R \cup {x}) = Total(f, R) + f[x]
  BY TotalAdds
<1>2. IsFiniteSet(B)
  BY FS_Subset
<1>3. {} \in F
  <2>1. A \cup {} = A
    OBVIOUS
  <2> QED
    BY <1>1, <2>1
<1>4. ASSUME NEW R \in SUBSET B, R # {}, \A x \in R : R \ {x} \in F
      PROVE  R \in F
  <2>1. PICK x \in R : TRUE
    BY <1>4
  <2>2. PICK Q : Q = R \ {x}
    OBVIOUS
  <2>3. Total(f, A \cup Q) = Total(f, A) + Total(f, Q)
    BY <1>4, <2>1, <2>2
  <2>4. /\ Q \in SUBSET S /\ x \in S \ Q /\ R = Q \cup {x}
        /\ A \cup Q \in SUBSET S /\ x \in S \ (A \cup Q) /\ A \cup R = (A \cup Q) \cup {x}
    BY <2>1, <2>2
  <2>5. Total(f, R) = Total(f, Q) + f[x]
    BY <1>1, <2>4
  <2>6. Total(f, A \cup R) = Total(f, A \cup Q) + f[x]
    BY <1>1, <2>4
  <2>7. Total(f, A) \in Int /\ Total(f, Q) \in Int /\ f[x] \in Int
    BY <1>1, <2>4
  <2> QED
    BY <2>3, <2>5, <2>6, <2>7
<1> HIDE DEF F
<1>5. \A R \in SUBSET B : R \in F
  BY <1>2, <1>3, <1>4, Grow
<1> QED
  BY <1>5 DEF F

LEMMA TotalGrows ==
  ASSUME NEW S, IsFiniteSet(S), NEW f, \A x \in S : f[x] \in Int /\ f[x] >= 0,
         NEW R \in SUBSET S
  PROVE  Total(f, R) <= Total(f, S)
<1> DEFINE F == {Q \in SUBSET S : Total(f, Q) >= 0}
<1>1. /\ Total(f, {}) = 0
      /\ \A Q \in SUBSET S : Total(f, Q) \in Int
      /\ \A Q \in SUBSET S : \A x \in S \ Q : Total(f, Q \cup {x}) = Total(f, Q) + f[x]
  BY TotalAdds
<1>2. {} \in F
  BY <1>1
<1>3. ASSUME NEW Q \in SUBSET S, Q # {}, \A x \in Q : Q \ {x} \in F
      PROVE  Q \in F
  <2>1. PICK x \in Q : TRUE
    BY <1>3
  <2>2. PICK P : P = Q \ {x}
    OBVIOUS
  <2>3. Total(f, P) >= 0 /\ P \in SUBSET S /\ x \in S \ P /\ Q = P \cup {x}
    BY <1>3, <2>1, <2>2
  <2>4. Total(f, Q) = Total(f, P) + f[x]
    BY <1>1, <2>3
  <2>5. Total(f, P) \in Int /\ f[x] \in Int /\ f[x] >= 0
    BY <1>1, <2>3
  <2> QED
    BY <2>3, <2>4, <2>5
<1> HIDE DEF F
<1>4. \A Q \in SUBSET S : Q \in F
  BY <1>2, <1>3, Grow
<1>5. S \ R \in SUBSET S /\ R \cap (S \ R) = {} /\ R \cup (S \ R) = S
  OBVIOUS
<1>6. Total(f, S) = Total(f, R) + Total(f, S \ R)
  <2>1. PICK B : B = S \ R
    OBVIOUS
  <2>2. Total(f, R \cup B) = Total(f, R) + Total(f, B)
    BY <1>5, <2>1, TotalUnion
  <2> QED
    BY <1>5, <2>1, <2>2
<1>7. Total(f, S \ R) >= 0 /\ Total(f, S \ R) \in Int /\ Total(f, R) \in Int
  BY <1>1, <1>4, <1>5 DEF F
<1> QED
  BY <1>6, <1>7

\* Numbers a times as large have a sum a times as large.
LEMMA TotalScales ==
  ASSUME NEW S, IsFiniteSet(S), NEW f, NEW g, NEW a \in Int,
         \A x \in S : f[x] \in Int /\ g[x] \in Int /\ f[x] = a * g[x]
  PROVE  Total(f, S) = a * Total(g, S)
<1> DEFINE F == {Q \in SUBSET S : Total(f, Q) = a * Total(g, Q)}
<1>1. /\ Total(f, {}) = 0
      /\ \A Q \in SUBSET S : \A x \in S \ Q : Total(f, Q \cup {x}) = Total(f, Q) + f[x]
  BY TotalAdds
<1>2. /\ Total(g, {}) = 0
      /\ \A Q \in SUBSET S : Total(g, Q) \in Int
      /\ \A Q \in SUBSET S : \A x \in S \ Q : Total(g, Q \cup {x}) = Total(g, Q) + g[x]
  <2>1. \A x \in S : g[x] \in Int
    OBVIOUS
  <2>2. PICK h : h = g
    OBVIOUS
  <2>3. /\ Total(h, {}) = 0
        /\ \A Q \in SUBSET S : Total(h, Q) \in Int
        /\ \A Q \in SUBSET S : \A x \in S \ Q : Total(h, Q \cup {x}) = Total(h, Q) + h[x]
    BY ONLY IsFiniteSet(S), <2>1, <2>2, TotalAdds
  <2> QED
    BY <2>2, <2>3
<1>3. {} \in F
  BY <1>1, <1>2
<1>4. ASSUME NEW Q \in SUBSET S, Q # {}, \A x \in Q : Q \ {x} \in F
      PROVE  Q \in F
  <2>1. PICK x \in Q : TRUE
    BY <1>4
  <2>2. PICK P : P = Q \ {x}
    OBVIOUS
  <2>3. Total(f, P) = a * Total(g, P) /\ P \in SUBSET S /\ x \in S \ P /\ Q = P \cup {x}
    BY <1>4, <2>1, <2>2
  <2>4. Total(f, Q) = Total(f, P) + f[x] /\ Total(g, Q) = Total(g, P) + g[x]
    BY <1>1, <1>2, <2>3
  <2>5. PICK t \in Int, u \in Int : t = Total(g, P) /\ u = g[x] /\ f[x] = a * u
    BY <1>2, <2>3
  <2>6. Total(f, Q) = a * t + a * u /\ Total(g, Q) = t + u
    BY <2>3, <2>4, <2>5
  <2>7. a * t + a * u = a * (t + u)
    OBVIOUS
  <2> QED
    BY <2>6, <2>7
<1> HIDE DEF F
<1>5. \A Q \in SUBSET S : Q \in F
  BY <1>3, <1>4, Grow
<1> QED
  BY <1>5 DEF F

-----------------------------------------------------------------------------
(* Lineups.                                                                 *)

\* Of finitely many integers, one is the greatest.
LEMMA MaxIsGreatest ==
  ASSUME NEW S, IsFiniteSet(S), S \subseteq Int, S # {}
  PROVE  Max(S) \in S /\ \A y \in S : Max(S) >= y
<1> DEFINE F == {R \in SUBSET S : R = {} \/ \E x \in R : \A y \in R : x >= y}
<1>1. {} \in F
  OBVIOUS
<1>2. ASSUME NEW R \in SUBSET S, R # {}, \A x \in R : R \ {x} \in F
      PROVE  R \in F
  <2>1. PICK a \in R : TRUE
    BY <1>2
  <2>2. CASE R \ {a} = {}
    <3>1. \A y \in R : a >= y
      BY <2>2
    <3> QED
      BY <3>1
  <2>3. CASE R \ {a} # {}
    <3>1. PICK b \in R \ {a} : \A y \in R \ {a} : b >= y
      BY <1>2, <2>3
    <3>2. CASE b >= a
      <4>1. \A y \in R : b >= y
        BY <3>1, <3>2
      <4> QED
        BY <4>1
    <3>3. CASE ~(b >= a)
      <4>1. \A y \in R : a >= y
        BY <3>1, <3>3
      <4> QED
        BY <4>1
    <3> QED
      BY <3>2, <3>3
  <2> QED
    BY <2>2, <2>3
<1> HIDE DEF F
<1>3. \A R \in SUBSET S : R \in F
  BY <1>1, <1>2, Grow
<1>4. \E x \in S : \A y \in S : x >= y
  BY <1>3 DEF F
<1> QED
  BY <1>4 DEF Max

\* The starters of a lineup are players, one for each slot that is not empty.
LEMMA StartersFit ==
  ASSUME NEW players, Nobody \notin DOMAIN players,
         NEW slots \in Seq(STRING), NEW l \in Lineups(players, slots)
  PROVE  /\ Starters(l) \subseteq DOMAIN players
         /\ IsFiniteSet(Starters(l))
         /\ Cardinality(Starters(l)) \in 0..Len(slots)
         /\ IsComplete(l) <=> Cardinality(Starters(l)) = Len(slots)
<1> DEFINE n == Len(slots)
           full == {s \in 1..n : l[s] # Nobody}
           g == [s \in full |-> l[s]]
<1>1. n \in Nat /\ DOMAIN slots = 1..n
  OBVIOUS
<1>2. l \in [1..n -> DOMAIN players \cup {Nobody}]
  BY <1>1 DEF Lineups
<1>3. \A s, t \in full : s # t => l[s] # l[t]
  BY <1>1 DEF Lineups
<1>4. Starters(l) = {l[s] : s \in full}
  BY <1>2 DEF Starters, Range
<1>5. g \in Bijection(full, Starters(l))
  BY <1>3, <1>4 DEF Bijection, Injection, Surjection, IsInjective
<1>6. IsFiniteSet(1..n) /\ Cardinality(1..n) = n
  BY <1>1, NumbersTo
<1>7. /\ IsFiniteSet(full) /\ Cardinality(full) <= n /\ Cardinality(full) \in Nat
      /\ n = Cardinality(full) => 1..n = full
  BY <1>6, FS_Subset, FS_CardinalityType
<1> HIDE DEF full, g
<1>8. IsFiniteSet(Starters(l)) /\ Cardinality(Starters(l)) = Cardinality(full)
  <2>1. ExistsBijection(full, Starters(l))
    BY <1>5 DEF ExistsBijection
  <2> QED
    BY <2>1, <1>7, FS_Bijection
<1>9. Starters(l) \subseteq DOMAIN players
  BY <1>2, <1>4 DEF full
<1>10. IsComplete(l) <=> full = 1..n
  BY <1>2 DEF IsComplete, Range, full
<1> QED
  BY <1>1, <1>6, <1>7, <1>8, <1>9, <1>10

\* The lineups of a roster, and what the best of them is best at.
Pool(players, slots, points) ==
  /\ IsFiniteSet(DOMAIN players) /\ Nobody \notin DOMAIN players
  /\ slots \in Seq(STRING)
  /\ \A k \in DOMAIN players : points[k] \in Int

LEMMA BestIsBest ==
  ASSUME NEW players, NEW slots, NEW points, Pool(players, slots, points)
  PROVE  /\ BestLineups(players, slots, points) # {}
         /\ \A l \in BestLineups(players, slots, points) :
              /\ l \in Lineups(players, slots)
              /\ \A o \in Lineups(players, slots) :
                   /\ Cardinality(Starters(o)) <= Cardinality(Starters(l))
                   /\ Cardinality(Starters(o)) = Cardinality(Starters(l)) =>
                        Total(points, Starters(o)) <= Total(points, Starters(l))
<1> DEFINE legal == Lineups(players, slots)
           sizes == {Cardinality(Starters(l)) : l \in legal}
           full  == {l \in legal : Cardinality(Starters(l)) = Max(sizes)}
           sums  == {Total(points, Starters(l)) : l \in full}
<1>0. Nobody \notin DOMAIN players /\ slots \in Seq(STRING)
  BY DEF Pool
<1>1. \A l \in legal : /\ Starters(l) \subseteq DOMAIN players
                       /\ Cardinality(Starters(l)) \in 0..Len(slots)
  BY <1>0, StartersFit
<1>2. legal # {}
  <2>1. [s \in DOMAIN slots |-> Nobody] \in legal
    BY DEF Lineups
  <2> QED
    BY <2>1
<1> HIDE DEF legal
<1>3. Max(sizes) \in sizes /\ \A y \in sizes : Max(sizes) >= y
  <2>1. Len(slots) \in Nat /\ IsFiniteSet(0..Len(slots))
    BY <1>0, FS_Interval
  <2>2. IsFiniteSet(sizes) /\ sizes \subseteq Int /\ sizes # {}
    BY <1>1, <1>2, <2>1, FS_Subset
  <2> HIDE DEF sizes
  <2> QED
    BY <2>2, MaxIsGreatest
<1>4. full # {}
  BY <1>3
<1> DEFINE allSums == {Total(points, R) : R \in SUBSET DOMAIN players}
<1>5. Max(sums) \in sums /\ \A y \in sums : Max(sums) >= y
  <2>1. IsFiniteSet(SUBSET DOMAIN players)
    BY FS_SUBSET DEF Pool
  <2>2. IsFiniteSet(allSums)
    <3> DEFINE g == [R \in SUBSET DOMAIN players |-> Total(points, R)]
    <3>1. g \in Surjection(SUBSET DOMAIN players, allSums)
      BY DEF Surjection
    <3> HIDE DEF g, allSums
    <3> QED
      BY <2>1, <3>1, FS_Surjection
  <2>3. allSums \subseteq Int
    BY TotalAdds DEF Pool
  <2>4. sums \subseteq allSums
    BY <1>1
  <2>5. sums # {}
    BY <1>4
  <2> HIDE DEF sums, allSums
  <2> QED
    BY <2>2, <2>3, <2>4, <2>5, FS_Subset, MaxIsGreatest
<1>6. BestLineups(players, slots, points) = {l \in full : Total(points, Starters(l)) = Max(sums)}
  BY DEF BestLineups, legal
<1>7. BestLineups(players, slots, points) # {}
  BY <1>5, <1>6
<1>8. ASSUME NEW l \in BestLineups(players, slots, points)
      PROVE  /\ l \in legal
             /\ Cardinality(Starters(l)) = Max(sizes) /\ Total(points, Starters(l)) = Max(sums)
  BY <1>6
<1>9. ASSUME NEW l \in BestLineups(players, slots, points), NEW o \in legal
      PROVE  /\ Cardinality(Starters(o)) <= Cardinality(Starters(l))
             /\ Cardinality(Starters(o)) = Cardinality(Starters(l)) =>
                  Total(points, Starters(o)) <= Total(points, Starters(l))
  <2>1. Cardinality(Starters(o)) \in sizes /\ Cardinality(Starters(o)) \in Int
    BY <1>1
  <2>2. Cardinality(Starters(l)) = Max(sizes) /\ Total(points, Starters(l)) = Max(sums)
    BY <1>8
  <2>3. Max(sizes) >= Cardinality(Starters(o)) /\ Max(sizes) \in Int
    BY <2>1, <1>3, <1>1, <1>8
  <2>4. ASSUME Cardinality(Starters(o)) = Max(sizes)
        PROVE  Total(points, Starters(o)) <= Max(sums)
    <3>1. Total(points, Starters(o)) \in sums
      BY <2>4
    <3>2. Total(points, Starters(o)) \in Int /\ Total(points, Starters(l)) \in Int
      BY <1>1, <1>8, TotalAdds DEF Pool
    <3> HIDE DEF sums
    <3> QED
      BY <3>1, <3>2, <1>5, <2>2
  <2> HIDE DEF sizes, sums
  <2> QED
    BY <2>1, <2>2, <2>3, <2>4
<1> QED
  BY <1>7, <1>8, <1>9 DEF legal

\* One more player in a slot that takes him, in the place of whoever is there.
LEMMA PutIn ==
  ASSUME NEW players, Nobody \notin DOMAIN players, NEW slots \in Seq(STRING),
         NEW l \in Lineups(players, slots), NEW s \in 1..Len(slots),
         NEW k \in DOMAIN players, k \notin Starters(l), slot_accepts(slots[s], players[k].pos)
  PROVE  /\ [l EXCEPT ![s] = k] \in Lineups(players, slots)
         /\ Starters([l EXCEPT ![s] = k]) = (Starters(l) \ {l[s]}) \cup {k}
         /\ l[s] # Nobody => l[s] \in Starters(l)
<1> DEFINE n == Len(slots)
           m == [l EXCEPT ![s] = k]
<1>1. n \in Nat /\ DOMAIN slots = 1..n
  OBVIOUS
<1>2. /\ l \in [1..n -> DOMAIN players \cup {Nobody}]
      /\ \A t \in 1..n : l[t] # Nobody =>
           /\ slot_accepts(slots[t], players[l[t]].pos)
           /\ \A u \in 1..n \ {t} : l[u] # l[t]
  BY <1>1 DEF Lineups
<1>3. /\ m \in [1..n -> DOMAIN players \cup {Nobody}]
      /\ m[s] = k /\ \A t \in 1..n \ {s} : m[t] = l[t]
  BY <1>2
<1> HIDE DEF m
<1>4. Starters(l) = {l[t] : t \in {u \in 1..n : l[u] # Nobody}}
  BY <1>2 DEF Starters, Range
<1>5. Starters(m) = {m[t] : t \in {u \in 1..n : m[u] # Nobody}}
  BY <1>3 DEF Starters, Range
<1>6. \A t \in 1..n : l[t] # k
  BY <1>4
<1>7. m \in Lineups(players, slots)
  <2>1. ASSUME NEW t \in 1..n, m[t] # Nobody
        PROVE  /\ slot_accepts(slots[t], players[m[t]].pos)
               /\ \A u \in 1..n \ {t} : m[u] # m[t]
    <3>1. CASE t = s
      BY <3>1, <1>3, <1>6
    <3>2. CASE t # s
      <4>1. m[t] = l[t]
        BY <3>2, <1>3
      <4>2. ASSUME NEW u \in 1..n \ {t}
            PROVE  m[u] # m[t]
        BY <4>1, <1>2, <1>3, <1>6, <2>1
      <4> QED
        BY <4>1, <4>2, <1>2, <2>1
    <3> QED
      BY <3>1, <3>2
  <2> QED
    BY <1>1, <1>3, <2>1 DEF Lineups
<1>8. Starters(m) = (Starters(l) \ {l[s]}) \cup {k}
  <2>1. ASSUME NEW x \in Starters(m)
        PROVE  x \in (Starters(l) \ {l[s]}) \cup {k}
    <3>1. PICK t \in 1..n : m[t] # Nobody /\ x = m[t]
      BY <1>5
    <3>2. CASE t = s
      BY <3>1, <3>2, <1>3
    <3>3. CASE t # s
      <4>1. x = l[t] /\ l[t] # Nobody
        BY <3>1, <3>3, <1>3
      <4>2. x # l[s] /\ x \in Starters(l)
        BY <4>1, <3>3, <1>2, <1>4
      <4> QED
        BY <4>2
    <3> QED
      BY <3>2, <3>3
  <2>2. ASSUME NEW x \in Starters(l) \ {l[s]}
        PROVE  x \in Starters(m)
    <3>1. PICK t \in 1..n : l[t] # Nobody /\ x = l[t]
      BY <1>4
    <3>2. t # s
      BY <3>1
    <3>3. m[t] = x /\ m[t] # Nobody
      BY <3>1, <3>2, <1>3
    <3> QED
      BY <3>3, <1>5
  <2>3. k \in Starters(m)
    <3>1. m[s] = k /\ k # Nobody
      BY <1>3
    <3> QED
      BY <3>1, <1>1, <1>5
  <2> QED
    BY <2>1, <2>2, <2>3
<1>9. l[s] # Nobody => l[s] \in Starters(l)
  BY <1>1, <1>4
<1> QED
  BY <1>7, <1>8, <1>9 DEF m

(***************************************************************************)
(* Whoever can be placed together, the fullest lineups hold as many points *)
(* as they: of the fullest, the one that agrees most with that placement   *)
(* holds all of them.                                                      *)
(***************************************************************************)
LEMMA FullestTakesAll ==
  ASSUME NEW players, NEW slots, NEW points, Pool(players, slots, points),
         NEW l \in Lineups(players, slots)
  PROVE  \E m \in Lineups(players, slots) :
           /\ Starters(l) \subseteq Starters(m)
           /\ \A o \in Lineups(players, slots) : Cardinality(Starters(o)) <= Cardinality(Starters(m))
<1> DEFINE legal == Lineups(players, slots)
           size(o) == Cardinality(Starters(o))
           n == Len(slots)
           Same(o) == {s \in 1..n : l[s] # Nobody /\ o[s] = l[s]}
<1>1. PICK best \in legal : \A o \in legal : size(o) <= size(best)
  BY BestIsBest
<1>2. slots \in Seq(STRING) /\ n \in Nat /\ DOMAIN slots = 1..n /\ Nobody \notin DOMAIN players
  BY DEF Pool
<1> DEFINE full == {o \in legal : size(o) = size(best)}
           T == {Cardinality(Same(o)) : o \in full}
<1>3. \A o \in full : IsFiniteSet(Same(o)) /\ Cardinality(Same(o)) \in 0..n
  <2> SUFFICES ASSUME NEW o \in full
               PROVE  IsFiniteSet(Same(o)) /\ Cardinality(Same(o)) \in 0..n
    OBVIOUS
  <2>1. Same(o) \subseteq 1..n
    OBVIOUS
  <2> HIDE DEF Same
  <2>2. IsFiniteSet(1..n) /\ Cardinality(1..n) = n
    BY <1>2, NumbersTo
  <2>3. /\ IsFiniteSet(Same(o)) /\ Cardinality(Same(o)) <= n
    BY <2>1, <2>2, FS_Subset
  <2> QED
    BY <1>2, <2>3, FS_CardinalityType
<1>4. T # {} /\ T \subseteq 0..n
  BY <1>3
<1> HIDE DEF T, full, Same
<1>5. PICK a \in T : \A b \in T : a >= b
  BY <1>2, <1>4, GreatestExists
<1>6. PICK m \in full : a = Cardinality(Same(m))
  BY DEF T
<1>7. m \in legal /\ size(m) = size(best)
  BY <1>6 DEF full
<1>8. ASSUME NEW k \in Starters(l), k \notin Starters(m)
      PROVE  FALSE
  <2>1. PICK s \in 1..n : l[s] = k /\ k # Nobody
    <3>1. DOMAIN l = 1..n
      BY <1>2 DEF Lineups
    <3> QED
      BY <3>1 DEF Starters, Range
  <2>2. k \in DOMAIN players /\ slot_accepts(slots[s], players[k].pos)
    BY <2>1, <1>2 DEF Lineups
  <2>3. PICK o : o = [m EXCEPT ![s] = k]
    OBVIOUS
  <2> HIDE DEF legal
  <2>4. /\ o \in Lineups(players, slots)
        /\ Starters(o) = (Starters(m) \ {m[s]}) \cup {k}
        /\ m[s] # Nobody => m[s] \in Starters(m)
    <3>1. /\ m \in Lineups(players, slots) /\ k \notin Starters(m)
          /\ s \in 1..Len(slots)
      BY <1>7, <1>8, <2>1 DEF legal
    <3>2. /\ [m EXCEPT ![s] = k] \in Lineups(players, slots)
          /\ Starters([m EXCEPT ![s] = k]) = (Starters(m) \ {m[s]}) \cup {k}
          /\ m[s] # Nobody => m[s] \in Starters(m)
      BY <1>2, <2>2, <3>1, PutIn
    <3> QED
      BY <2>3, <3>2
  <2>5. IsFiniteSet(Starters(m)) /\ Nobody \notin Starters(m) /\ size(m) \in Nat
    <3>1. IsFiniteSet(Starters(m))
      BY <1>2, <1>7, StartersFit DEF legal
    <3> QED
      BY <3>1, FS_CardinalityType DEF Starters
  <2>6. o \in legal
    BY <2>4 DEF legal
  <2>7. CASE m[s] = Nobody
    <3>1. Starters(o) = Starters(m) \cup {k}
      BY <2>4, <2>5, <2>7
    <3>2. size(o) = size(m) + 1
      BY <3>1, <2>5, <1>8, FS_AddElement
    <3>3. size(o) <= size(best)
      BY <1>1, <2>6
    <3> QED
      BY <3>2, <3>3, <1>7, <2>5
  <2>8. CASE m[s] # Nobody
    <3>1. PICK rest : rest = Starters(m) \ {m[s]}
      OBVIOUS
    <3>2. IsFiniteSet(rest) /\ Cardinality(rest) = size(m) - 1
      BY <3>1, <2>4, <2>5, <2>8, FS_RemoveElement
    <3>3. k \notin rest /\ Starters(o) = rest \cup {k}
      BY <3>1, <2>4, <1>8
    <3>4. size(o) = (size(m) - 1) + 1
      <4>1. Cardinality(rest \cup {k}) = Cardinality(rest) + 1
        BY ONLY <3>2, <3>3, FS_AddElement
      <4> QED
        BY ONLY <4>1, <3>2, <3>3
    <3>5. o \in full
      BY <3>4, <2>5, <2>6, <1>7 DEF full
    <3>6. /\ o[s] = k /\ \A t \in 1..n \ {s} : o[t] = m[t]
          /\ m[s] # k
      <4>1. DOMAIN m = 1..n
        BY <1>2, <1>7 DEF Lineups, legal
      <4> QED
        BY <4>1, <2>1, <2>3, <2>4, <2>8, <1>8
    <3>7. s \notin Same(m) /\ Same(o) = Same(m) \cup {s}
      BY <3>6, <2>1 DEF Same
    <3>8. IsFiniteSet(Same(m)) /\ Cardinality(Same(m)) \in 0..n
      BY <1>3, <1>6
    <3>9. Cardinality(Same(o)) = Cardinality(Same(m)) + 1
      BY <3>7, <3>8, FS_AddElement
    <3>10. Cardinality(Same(o)) \in T
      BY <3>5 DEF T
    <3> QED
      BY <3>8, <3>9, <3>10, <1>2, <1>5, <1>6
  <2> QED
    BY <2>7, <2>8
<1>9. \A o \in legal : size(o) <= size(m)
  BY <1>1, <1>7
<1> QED
  BY <1>7, <1>8, <1>9

LEMMA FullestHasAtLeast ==
  ASSUME NEW players, NEW slots, NEW points, Pool(players, slots, points),
         NEW l \in Lineups(players, slots), NEW best \in BestLineups(players, slots, points),
         \A k \in DOMAIN players : points[k] >= 0
  PROVE  Total(points, Starters(l)) <= Total(points, Starters(best))
<1>1. PICK m \in Lineups(players, slots) :
        /\ Starters(l) \subseteq Starters(m)
        /\ \A o \in Lineups(players, slots) : Cardinality(Starters(o)) <= Cardinality(Starters(m))
  BY FullestTakesAll
<1>2. /\ best \in Lineups(players, slots)
      /\ \A o \in Lineups(players, slots) :
           /\ Cardinality(Starters(o)) <= Cardinality(Starters(best))
           /\ Cardinality(Starters(o)) = Cardinality(Starters(best)) =>
                Total(points, Starters(o)) <= Total(points, Starters(best))
  BY BestIsBest
<1>3. \A o \in Lineups(players, slots) :
        IsFiniteSet(Starters(o)) /\ Starters(o) \subseteq DOMAIN players
          /\ Cardinality(Starters(o)) \in Nat
  <2> SUFFICES ASSUME NEW o \in Lineups(players, slots)
               PROVE  IsFiniteSet(Starters(o)) /\ Starters(o) \subseteq DOMAIN players
                        /\ Cardinality(Starters(o)) \in Nat
    OBVIOUS
  <2>1. IsFiniteSet(Starters(o)) /\ Starters(o) \subseteq DOMAIN players
    BY StartersFit DEF Pool
  <2> QED
    BY <2>1, FS_CardinalityType
<1>4. Cardinality(Starters(m)) = Cardinality(Starters(best))
  BY <1>1, <1>2, <1>3
<1>5. Total(points, Starters(m)) <= Total(points, Starters(best))
  BY <1>2, <1>4
<1>6. \A k \in DOMAIN players : points[k] \in Int
  BY DEF Pool
<1>7. Total(points, Starters(l)) <= Total(points, Starters(m))
  <2>1. PICK S : S = Starters(m)
    OBVIOUS
  <2>2. PICK R : R = Starters(l)
    OBVIOUS
  <2>3. IsFiniteSet(S) /\ (\A x \in S : points[x] \in Int /\ points[x] >= 0) /\ R \in SUBSET S
    BY <1>1, <1>3, <1>6, <2>1, <2>2
  <2>4. Total(points, R) <= Total(points, S)
    BY <2>3, TotalGrows
  <2> QED
    BY <2>1, <2>2, <2>4
<1>8. \A o \in Lineups(players, slots) : Total(points, Starters(o)) \in Int
  <2>1. IsFiniteSet(DOMAIN players)
    BY DEF Pool
  <2>2. \A R \in SUBSET DOMAIN players : Total(points, R) \in Int
    BY <2>1, <1>6, TotalAdds
  <2> QED
    BY <2>2, <1>3
<1>9. PICK x \in Int, y \in Int, z \in Int :
        /\ x = Total(points, Starters(l)) /\ y = Total(points, Starters(m))
        /\ z = Total(points, Starters(best))
  BY <1>2, <1>8
<1>10. x <= y /\ y <= z
  BY <1>5, <1>7, <1>9
<1>11. x <= z
  BY <1>10
<1> QED
  BY <1>9, <1>11

-----------------------------------------------------------------------------
(* The lineup job: the slots left when the settled starters are taken out.  *)

\* S can be placed in the slots, each in one of the name he is listed in.
Placed(c, slots, S) ==
  \E l \in Lineups(c.players, slots) :
     /\ Starters(l) = S
     /\ \A s \in DOMAIN l : l[s] # Nobody => c.players[l[s]].slot = slots[s]

LEMMA RemoveOne ==
  ASSUME NEW slots \in Seq(STRING), NEW e, Contains(slots, e)
  PROVE  /\ RemoveFirst(slots, e) \in Seq(STRING)
         /\ Len(RemoveFirst(slots, e)) = Len(slots) - 1
         /\ \E i \in 1..Len(slots) :
              /\ slots[i] = e
              /\ \A t \in 1..(Len(slots) - 1) :
                   RemoveFirst(slots, e)[t] = slots[IF t < i THEN t ELSE t + 1]
<1> DEFINE I == {i \in 1..Len(slots) : slots[i] = e}
<1>1. Len(slots) \in Nat /\ I \subseteq 0..Len(slots) /\ I # {}
  BY DEF Contains
<1>2. Min(I) \in I
  BY <1>1, MinIsLeast
<1>3. RemoveFirst(slots, e) = RemoveAt(slots, Min(I))
  BY <1>1 DEF RemoveFirst, SelectInSeq
<1>4. PICK i \in 1..Len(slots) : slots[i] = e /\ i = Min(I)
  BY <1>2
<1> HIDE DEF I
<1> DEFINE a == SubSeq(slots, 1, i - 1)
           b == SubSeq(slots, i + 1, Len(slots))
<1>5. a \in Seq(STRING) /\ Len(a) = i - 1 /\ \A t \in 1..(i - 1) : a[t] = slots[t]
  OBVIOUS
<1>6. /\ b \in Seq(STRING) /\ Len(b) = Len(slots) - i
      /\ \A t \in 1..(Len(slots) - i) : b[t] = slots[i + t]
  OBVIOUS
<1>7. RemoveFirst(slots, e) = a \o b
  BY <1>3, <1>4 DEF RemoveAt
<1> HIDE DEF a, b
<1>8. /\ a \o b \in Seq(STRING)
      /\ Len(a \o b) = Len(slots) - 1
      /\ \A t \in 1..(Len(slots) - 1) : (a \o b)[t] = IF t < i THEN a[t] ELSE b[t - (i - 1)]
  <2>1. Len(a) \in Nat /\ Len(b) \in Nat /\ Len(slots) = Len(a) + Len(b) + 1 /\ i = Len(a) + 1
    BY <1>5, <1>6
  <2>4. a \in Seq(STRING) /\ b \in Seq(STRING)
    BY <1>5, <1>6
  <2>2. a \o b \in Seq(STRING) /\ Len(a \o b) = Len(a) + Len(b)
    BY <2>4, ConcatProperties
  <2>3. \A t \in 1..(Len(a) + Len(b)) : (a \o b)[t] = IF t <= Len(a) THEN a[t] ELSE b[t - Len(a)]
    BY <1>5, <1>6
  <2> QED
    BY <2>1, <2>2, <2>3
<1>9. ASSUME NEW t \in 1..(Len(slots) - 1)
      PROVE  (a \o b)[t] = slots[IF t < i THEN t ELSE t + 1]
  <2>1. CASE t < i
    BY <2>1, <1>5, <1>8
  <2>2. CASE ~(t < i)
    <3>1. t - (i - 1) \in 1..(Len(slots) - i) /\ i + (t - (i - 1)) = t + 1
      BY <2>2
    <3>2. b[t - (i - 1)] = slots[t + 1]
      BY <3>1, <1>6
    <3> QED
      BY <2>2, <3>2, <1>8
  <2> QED
    BY <2>1, <2>2
<1> QED
  BY <1>4, <1>7, <1>8, <1>9

LEMMA WithoutSlotType ==
  ASSUME NEW slots \in Seq(STRING), NEW p
  PROVE  /\ WithoutSlotOf(slots, p) \in Seq(STRING)
         /\ Len(WithoutSlotOf(slots, p)) >= Len(slots) - 1
<1> DEFINE e == IF Contains(slots, p.slot) THEN p.slot ELSE p.pos
<1>1. WithoutSlotOf(slots, p) = RemoveFirst(slots, e)
  BY DEF WithoutSlotOf
<1> HIDE DEF e
<1>2. CASE Contains(slots, e)
  BY <1>1, <1>2, RemoveOne
<1>3. CASE ~Contains(slots, e)
  BY <1>1, <1>3 DEF RemoveFirst, Contains
<1> QED
  BY <1>2, <1>3

LEMMA PlacedWithoutOne ==
  ASSUME NEW c, Nobody \notin Team(c), NEW slots \in Seq(STRING),
         NEW S, Placed(c, slots, S), NEW k \in S
  PROVE  /\ Len(WithoutSlotOf(slots, c.players[k])) = Len(slots) - 1
         /\ Placed(c, WithoutSlotOf(slots, c.players[k]), S \ {k})
<1> DEFINE w == WithoutSlotOf(slots, c.players[k])
           n == Len(slots)
<1>1. PICK l \in Lineups(c.players, slots) :
        /\ Starters(l) = S
        /\ \A s \in DOMAIN l : l[s] # Nobody => c.players[l[s]].slot = slots[s]
  BY DEF Placed
<1>2. n \in Nat /\ DOMAIN slots = 1..n
  OBVIOUS
<1>3. /\ l \in [1..n -> Team(c) \cup {Nobody}]
      /\ \A s \in 1..n : l[s] # Nobody =>
           /\ slot_accepts(slots[s], c.players[l[s]].pos)
           /\ \A t \in 1..n \ {s} : l[t] # l[s]
  BY <1>2 DEF Lineups, Team
<1>4. PICK j \in 1..n : l[j] = k
  BY <1>1, <1>3 DEF Starters, Range
<1>5. k \in Team(c) /\ k # Nobody /\ c.players[k].slot = slots[j]
  BY <1>1, <1>3, <1>4 DEF Starters, Range
<1>6. Contains(slots, c.players[k].slot)
  BY <1>5, <1>4 DEF Contains
<1>7. w = RemoveFirst(slots, slots[j])
  BY <1>5, <1>6 DEF WithoutSlotOf
<1>8. w \in Seq(STRING) /\ Len(w) = n - 1
  BY <1>5, <1>6, <1>7, RemoveOne
<1>9. PICK i \in 1..n : /\ slots[i] = slots[j]
                        /\ \A t \in 1..(n - 1) : w[t] = slots[IF t < i THEN t ELSE t + 1]
  BY <1>5, <1>6, <1>7, RemoveOne
<1> HIDE DEF w
<1> DEFINE at(t) == IF t < i THEN t ELSE t + 1
           from == [t \in 1..(n - 1) |-> IF at(t) = j THEN i ELSE at(t)]
<1>10. \A t \in 1..(n - 1) : /\ from[t] \in 1..n /\ from[t] # j
                             /\ w[t] = slots[from[t]]
  BY <1>2, <1>9
<1>11. \A t, u \in 1..(n - 1) : t # u => from[t] # from[u]
  BY <1>2
<1>12. ASSUME NEW x \in 1..n, x # j
       PROVE  \E t \in 1..(n - 1) : from[t] = x
  <2>1. CASE x = i
    <3> DEFINE t == IF j < i THEN j ELSE j - 1
    <3>1. t \in 1..(n - 1) /\ at(t) = j
      BY <2>1, <1>2, <1>12
    <3> HIDE DEF t
    <3> QED
      BY <3>1, <2>1
  <2>2. CASE x # i
    <3> DEFINE t == IF x < i THEN x ELSE x - 1
    <3>1. t \in 1..(n - 1) /\ at(t) = x
      BY <2>2, <1>2
    <3> HIDE DEF t
    <3> QED
      BY <3>1, <1>12
  <2> QED
    BY <2>1, <2>2
<1> HIDE DEF from
<1> DEFINE q == [t \in 1..(n - 1) |-> l[from[t]]]
<1>13. DOMAIN w = 1..(n - 1)
  BY <1>8, <1>2
<1>14. q \in Lineups(c.players, w)
  <2>1. q \in [DOMAIN w -> DOMAIN c.players \cup {Nobody}]
    BY <1>3, <1>10, <1>13 DEF Team
  <2>2. ASSUME NEW t \in DOMAIN w, q[t] # Nobody
        PROVE  slot_accepts(w[t], c.players[q[t]].pos)
    <3>1. slot_accepts(slots[from[t]], c.players[l[from[t]]].pos)
      BY <2>2, <1>3, <1>10, <1>13
    <3> QED
      BY <3>1, <1>10, <1>13
  <2>3. ASSUME NEW t \in DOMAIN w, q[t] # Nobody, NEW u \in DOMAIN w \ {t}
        PROVE  q[u] # q[t]
    <3>1. from[u] \in 1..n \ {from[t]} /\ from[t] \in 1..n
      BY <1>10, <1>11, <1>13
    <3> QED
      BY <3>1, <2>3, <1>3, <1>13
  <2> HIDE DEF q
  <2> QED
    BY <2>1, <2>2, <2>3 DEF Lineups
<1>15. Starters(q) = S \ {k}
  <2>1. DOMAIN q = 1..(n - 1) /\ DOMAIN l = 1..n
    BY <1>3
  <2>2. ASSUME NEW x \in Starters(q)
        PROVE  x \in S \ {k}
    <3>1. PICK t \in 1..(n - 1) : x = l[from[t]] /\ x # Nobody
      BY <2>1 DEF Starters, Range
    <3>2. x \in S
      BY <3>1, <1>1, <1>10, <2>1 DEF Starters, Range
    <3>3. x # k
      BY <3>1, <1>3, <1>4, <1>10
    <3> QED
      BY <3>2, <3>3
  <2>3. ASSUME NEW x \in S \ {k}
        PROVE  x \in Starters(q)
    <3>1. PICK s \in 1..n : x = l[s] /\ x # Nobody
      BY <1>1, <2>1 DEF Starters, Range
    <3>2. s # j
      BY <3>1, <1>4
    <3>3. PICK t \in 1..(n - 1) : from[t] = s
      BY <3>2, <1>12
    <3>4. q[t] = x
      BY <3>1, <3>3
    <3> QED
      BY <3>1, <3>4, <2>1 DEF Starters, Range
  <2> QED
    BY <2>2, <2>3
<1>16. \A t \in DOMAIN q : q[t] # Nobody => c.players[q[t]].slot = w[t]
  BY <1>1, <1>3, <1>10
<1> HIDE DEF q
<1>17. Placed(c, w, S \ {k})
  BY <1>14, <1>15, <1>16 DEF Placed
<1> QED
  BY <1>8, <1>17 DEF w

\* A sequence of the members of a finite set, each of them once.
LEMMA SetToSeqIsOnto ==
  ASSUME NEW S, IsFiniteSet(S)
  PROVE  LET q == SetToSeq(S) IN
         /\ Cardinality(S) \in Nat
         /\ q \in [1 .. Cardinality(S) -> S]
         /\ \A i, j \in 1 .. Cardinality(S) : i # j => q[i] # q[j]
         /\ \A x \in S : \E i \in 1 .. Cardinality(S) : q[i] = x
<1> DEFINE n == Cardinality(S)
           q == SetToSeq(S)
<1>1. n \in Nat /\ \E f : f \in Bijection(1..n, S)
  BY FS_CardinalityType DEF ExistsBijection
<1>2. \E f \in [1..n -> S] : IsInjective(f)
  BY <1>1 DEF Bijection, Injection
<1>3. q \in [1..n -> S] /\ IsInjective(q)
  BY <1>2 DEF SetToSeq
<1>4. IsFiniteSet(1..n) /\ Cardinality(1..n) = n
  BY <1>1, NumbersTo
<1> HIDE DEF q
<1>5. q \in Injection(1..n, S)
  BY <1>3 DEF Injection
<1>6. q \in Surjection(1..n, S)
  BY <1>4, <1>5, FS_Injection
<1>7. \A i, j \in 1..n : i # j => q[i] # q[j]
  BY <1>3 DEF IsInjective
<1> QED
  BY <1>1, <1>3, <1>6, <1>7 DEF q, Surjection

LEMMA StartersAre ==
  ASSUME NEW c, IsLineupCase(c)
  PROVE  /\ Started(c) \subseteq Team(c) /\ LockedStarters(c) \subseteq Started(c)
         /\ IsFiniteSet(Started(c)) /\ IsFiniteSet(LockedStarters(c))
         /\ Cardinality(Started(c)) \in Nat /\ Cardinality(LockedStarters(c)) \in Nat
         /\ Nobody \notin Team(c)
<1>1. Started(c) \subseteq Team(c) /\ LockedStarters(c) \subseteq Started(c)
  BY DEF Started, LockedStarters
<1>2. IsFiniteSet(Team(c)) /\ Nobody \notin Team(c)
  BY DEF IsLineupCase
<1>3. IsFiniteSet(Started(c))
  BY <1>1, <1>2, FS_Subset
<1>4. IsFiniteSet(LockedStarters(c))
  BY <1>1, <1>3, FS_Subset
<1> QED
  BY <1>1, <1>2, <1>3, <1>4, FS_CardinalityType

LEMMA OpenSlotsFit ==
  ASSUME NEW c, IsLineupCase(c)
  PROVE  /\ OpenSlots(c) \in Seq(STRING)
         /\ Len(OpenSlots(c)) >= Len(c.slots) - Cardinality(LockedStarters(c))
         /\ StartedLegally(c, Started(c)) =>
              /\ Len(OpenSlots(c)) = Len(c.slots) - Cardinality(LockedStarters(c))
              /\ Placed(c, OpenSlots(c), Started(c) \ LockedStarters(c))
<1> DEFINE L == LockedStarters(c)
           m == Cardinality(L)
           held == SetToSeq(L)
           T == Seq(STRING)
           step == [z \in (1..m) \X T |-> WithoutSlotOf(z[2], c.players[held[z[1]]])]
           Is(g) == g = [n \in 0..m |->
                           IF n = 0 THEN c.slots
                           ELSE WithoutSlotOf(g[n - 1], c.players[held[n]])]
           left == CHOOSE g : Is(g)
<1>1. IsFiniteSet(L) /\ m \in Nat /\ c.slots \in T /\ L \subseteq Started(c)
  BY StartersAre DEF IsLineupCase
<1>2. /\ held \in [1..m -> L]
      /\ \A i, j \in 1..m : i # j => held[i] # held[j]
      /\ \A x \in L : \E i \in 1..m : held[i] = x
  BY <1>1, SetToSeqIsOnto
<1> HIDE DEF L, held
<1>3. Len(held) = m
  BY <1>1, <1>2
<1>4. \A i \in 1..m : \A x \in T : step[<<i, x>>] \in T
  BY WithoutSlotType
<1>5. PICK g : Iterated(g, m, T, c.slots, step)
  <2> HIDE DEF step, T, m
  <2> QED
    BY <1>1, <1>4, Iterates
<1>51. g \in [0..m -> T] /\ g[0] = c.slots /\ \A i \in 1..m : g[i] = step[<<i, g[i - 1]>>]
  BY <1>5 DEF Iterated
<1>6. Is(g)
  <2>1. ASSUME NEW i \in 0..m, i # 0
        PROVE  g[i] = WithoutSlotOf(g[i - 1], c.players[held[i]])
    <3>1. i \in 1..m /\ i - 1 \in 0..m
      BY <1>1, <2>1
    <3>2. g[i - 1] \in T
      BY <1>51, <3>1
    <3>3. step[<<i, g[i - 1]>>] = WithoutSlotOf(g[i - 1], c.players[held[i]])
      BY <3>1, <3>2
    <3> HIDE DEF step
    <3> QED
      BY <3>1, <3>3, <1>51
  <2> HIDE DEF step
  <2> QED
    BY <1>51, <2>1
<1>7. Is(left)
  BY <1>6
<1>8. OpenSlots(c) = left[m]
  BY <1>3 DEF OpenSlots, held, L
<1> HIDE DEF left
<1>9. left[0] = c.slots
  BY <1>1, <1>7
<1>10. \A n \in 0..(m - 1) : left[n + 1] = WithoutSlotOf(left[n], c.players[held[n + 1]])
  <2> SUFFICES ASSUME NEW n \in 0..(m - 1)
               PROVE  left[n + 1] = WithoutSlotOf(left[n], c.players[held[n + 1]])
    OBVIOUS
  <2>1. n + 1 \in 0..m /\ n + 1 # 0 /\ (n + 1) - 1 = n
    BY <1>1
  <2> QED
    BY <1>7, <2>1
<1> HIDE DEF step
<1> DEFINE H(n) == {held[i] : i \in 1..n}
           legal == StartedLegally(c, Started(c))
           Good == {n \in 0..m : /\ left[n] \in T /\ Len(left[n]) >= Len(c.slots) - n
                                 /\ legal => /\ Len(left[n]) = Len(c.slots) - n
                                             /\ Placed(c, left[n], Started(c) \ H(n))}
<1>11. 0 \in Good
  <2>1. Started(c) \ H(0) = Started(c)
    OBVIOUS
  <2>2. legal => Placed(c, left[0], Started(c) \ H(0))
    BY <2>1, <1>9 DEF StartedLegally, Placed
  <2> HIDE DEF H, legal
  <2> QED
    BY <1>1, <1>9, <2>2
<1>12. ASSUME NEW n \in 0..(m - 1), n \in Good
       PROVE  n + 1 \in Good
  <2> DEFINE k == held[n + 1]
  <2>1. n \in Nat /\ n + 1 \in 1..m /\ n + 1 \in 0..m
    BY <1>1
  <2>2. k \in L /\ k \in Started(c)
    BY <2>1, <1>1, <1>2
  <2>3. k \notin H(n)
    <3> HIDE DEF Good, legal
    <3>1. ASSUME NEW i \in 1..n
          PROVE  held[i] # k
      <4>1. i \in 1..m /\ i # n + 1
        BY <2>1, <1>1
      <4> QED
        BY <4>1, <2>1, <1>2
    <3> QED
      BY <3>1
  <2>4. H(n + 1) = H(n) \cup {k}
    <3>1. 1..(n + 1) = (1..n) \cup {n + 1}
      BY <2>1
    <3> QED
      BY <3>1
  <2>5. left[n + 1] = WithoutSlotOf(left[n], c.players[k])
    BY <1>10
  <2> HIDE DEF k, H
  <2>6. left[n] \in T /\ Len(left[n]) >= Len(c.slots) - n
    BY <1>12
  <2>7. left[n + 1] \in T /\ Len(left[n + 1]) >= Len(left[n]) - 1
    BY <2>5, <2>6, WithoutSlotType
  <2>8. Len(left[n + 1]) >= Len(c.slots) - (n + 1)
    <3>1. Len(left[n + 1]) \in Nat /\ Len(left[n]) \in Nat /\ Len(c.slots) \in Nat
      BY <2>6, <2>7, <1>1
    <3> QED
      BY <2>1, <2>6, <2>7, <3>1
  <2>9. ASSUME legal
        PROVE  /\ Len(left[n + 1]) = Len(c.slots) - (n + 1)
               /\ Placed(c, left[n + 1], Started(c) \ H(n + 1))
    <3>1. Len(left[n]) = Len(c.slots) - n /\ Placed(c, left[n], Started(c) \ H(n))
      BY <1>12, <2>9
    <3>2. k \in Started(c) \ H(n)
      BY <2>2, <2>3
    <3>3. /\ Len(left[n + 1]) = Len(left[n]) - 1
          /\ Placed(c, left[n + 1], (Started(c) \ H(n)) \ {k})
      <4>1. Nobody \notin Team(c)
        BY StartersAre
      <4> HIDE DEF Good, T, legal
      <4>2. left[n] \in Seq(STRING)
        BY <2>6 DEF T
      <4>3. PICK S : S = Started(c) \ H(n)
        OBVIOUS
      <4>4. k \in S /\ Placed(c, left[n], S)
        BY <3>1, <3>2, <4>3
      <4>5. /\ Len(WithoutSlotOf(left[n], c.players[k])) = Len(left[n]) - 1
            /\ Placed(c, WithoutSlotOf(left[n], c.players[k]), S \ {k})
        BY <4>1, <4>2, <4>4, PlacedWithoutOne
      <4> QED
        BY <2>5, <4>3, <4>5
    <3>4. (Started(c) \ H(n)) \ {k} = Started(c) \ H(n + 1)
      BY <2>4
    <3>5. Len(c.slots) \in Nat
      BY <1>1
    <3>6. Len(left[n + 1]) = Len(c.slots) - (n + 1)
      BY <3>1, <3>3, <3>5, <2>1
    <3> HIDE DEF Good, T, legal
    <3> QED
      BY <3>3, <3>4, <3>6
  <2> HIDE DEF legal
  <2> QED
    BY <2>1, <2>7, <2>8, <2>9
<1> HIDE DEF Good
<1>13. 0..m \subseteq Good
  BY <1>1, <1>11, <1>12, Climb
<1>14. m \in Good
  BY <1>13, <1>1
<1>15. H(m) = L
  BY <1>2
<1> QED
  BY <1>8, <1>14, <1>15 DEF Good, L

-----------------------------------------------------------------------------
(* The lineup job: the lineup it solves, and the walk that makes the swaps. *)

CanPlay(c) == {k \in Team(c) : Playable(c, k)}

LEMMA SolvedIs ==
  ASSUME NEW c, IsLineupCase(c), NEW lineup \in Solved(c)
  PROVE  LET pool   == Restrict(c.players, CanPlay(c))
             points == [k \in CanPlay(c) |-> Effective(c.players[k], c.mode)]
             n      == Len(OpenSlots(c))
         IN
         /\ n \in Nat
         /\ lineup \in Lineups(pool, OpenSlots(c))
         /\ lineup \in [1..n -> CanPlay(c) \cup {Nobody}]
         /\ \A s, t \in 1..n : s # t /\ lineup[s] # Nobody => lineup[s] # lineup[t]
         /\ Starters(lineup) = {lineup[s] : s \in {t \in 1..n : lineup[t] # Nobody}}
         /\ Starters(lineup) \subseteq CanPlay(c)
         /\ Pool(pool, OpenSlots(c), points)
         /\ lineup \in BestLineups(pool, OpenSlots(c), points)
<1> DEFINE pool == Restrict(c.players, CanPlay(c))
           points == [k \in CanPlay(c) |-> Effective(c.players[k], c.mode)]
           slots == OpenSlots(c)
           n == Len(slots)
<1>1. slots \in Seq(STRING) /\ n \in Nat /\ DOMAIN slots = 1..n
  <2>1. slots \in Seq(STRING)
    BY OpenSlotsFit
  <2> HIDE DEF slots
  <2> QED
    BY <2>1
<1>2. DOMAIN pool = CanPlay(c) /\ CanPlay(c) \subseteq Team(c)
  BY DEF Restrict, CanPlay
<1>3. IsFiniteSet(CanPlay(c)) /\ Nobody \notin CanPlay(c)
  BY <1>2, FS_Subset DEF IsLineupCase
<1>4. ASSUME NEW k \in CanPlay(c)
      PROVE  Effective(c.players[k], c.mode) \in Int
  <2>1. /\ c.players[k].points \in Int /\ c.players[k].floor \in Int
        /\ c.players[k].ceiling \in Int
    BY <1>2 DEF IsLineupCase
  <2>2. c.mode = "ceiling" \/ c.mode = "floor" \/ c.mode = "neutral"
    BY DEF IsLineupCase
  <2> QED
    BY <2>1, <2>2 DEF Effective
<1>5. Pool(pool, slots, points)
  BY <1>1, <1>2, <1>3, <1>4 DEF Pool
<1>6. lineup \in BestLineups(pool, slots, points)
  <2>1. [k \in DOMAIN pool |-> Effective(pool[k], c.mode)] = points
    BY <1>2 DEF Restrict
  <2>2. pool = Restrict(c.players, {k \in Team(c) : Playable(c, k)})
    BY DEF CanPlay
  <2> HIDE DEF pool, points
  <2> QED
    BY <2>1, <2>2 DEF Solved
<1> HIDE DEF points
<1>7. lineup \in Lineups(pool, slots)
  BY <1>5, <1>6, BestIsBest
<1>8. lineup \in [1..n -> CanPlay(c) \cup {Nobody}]
  BY <1>1, <1>2, <1>7 DEF Lineups
<1>9. \A s, t \in 1..n : s # t /\ lineup[s] # Nobody => lineup[s] # lineup[t]
  BY <1>1, <1>7 DEF Lineups
<1>10. Starters(lineup) = {lineup[s] : s \in {t \in 1..n : lineup[t] # Nobody}}
  BY <1>8 DEF Starters, Range
<1>11. Starters(lineup) \subseteq CanPlay(c)
  BY <1>8, <1>10
<1> QED
  BY <1>1, <1>5, <1>6, <1>7, <1>8, <1>9, <1>10, <1>11 DEF points

\* Of finitely many players one has the fewest points.
LEMMA WeakestExists ==
  ASSUME NEW c, IsLineupCase(c), NEW S \in SUBSET Team(c), S # {}
  PROVE  Weakest(c, S) \in S
<1> DEFINE points(k) == c.players[k].points
           F == {R \in SUBSET S : R = {} \/ \E k \in R : \A o \in R : points(k) <= points(o)}
<1>1. IsFiniteSet(S)
  BY FS_Subset DEF IsLineupCase
<1>2. \A k \in S : points(k) \in Int
  BY DEF IsLineupCase
<1> HIDE DEF points
<1>3. {} \in F
  OBVIOUS
<1>4. ASSUME NEW R \in SUBSET S, R # {}, \A x \in R : R \ {x} \in F
      PROVE  R \in F
  <2>1. PICK a \in R : TRUE
    BY <1>4
  <2>2. CASE R \ {a} = {}
    <3>1. \A o \in R : points(a) <= points(o)
      BY <2>2, <1>2
    <3> QED
      BY <3>1
  <2>3. CASE R \ {a} # {}
    <3>1. PICK b \in R \ {a} : \A o \in R \ {a} : points(b) <= points(o)
      BY <1>4, <2>3
    <3>2. points(a) \in Int /\ points(b) \in Int
      BY <1>2
    <3>3. CASE points(b) <= points(a)
      <4>1. \A o \in R : points(b) <= points(o)
        BY <3>1, <3>3
      <4> QED
        BY <4>1
    <3>4. CASE ~(points(b) <= points(a))
      <4>1. \A o \in R : points(a) <= points(o)
        <5>1. ASSUME NEW o \in R \ {a}
              PROVE  points(a) <= points(o)
          BY <3>1, <3>2, <3>4, <1>2
        <5> QED
          BY <5>1, <3>2
      <4> QED
        BY <4>1
    <3> QED
      BY <3>3, <3>4
  <2> QED
    BY <2>2, <2>3
<1> HIDE DEF F
<1>5. \A R \in SUBSET S : R \in F
  BY <1>1, <1>3, <1>4, Grow
<1>6. \E k \in S : \A o \in S : c.players[k].points <= c.players[o].points
  BY <1>5 DEF F, points
<1> QED
  BY <1>6 DEF Weakest

\* Whoever goes out is a starter nobody wants, if there is one.
LEMMA OutIs ==
  ASSUME NEW c, IsLineupCase(c), NEW lineup, NEW starting \in SUBSET Team(c), NEW slot
  PROVE  IF Displaced(c, lineup, starting) = {} THEN Out(c, lineup, starting, slot) = Nobody
         ELSE Out(c, lineup, starting, slot) \in Displaced(c, lineup, starting)
<1> DEFINE all == Displaced(c, lineup, starting)
           fits == {k \in all : slot_accepts(slot, c.players[k].pos)}
           from == Candidates(fits, all)
<1>1. all \subseteq Team(c)
  BY DEF Displaced
<1>2. from \subseteq all /\ (from = {} <=> all = {})
  BY DEF Candidates
<1>3. Out(c, lineup, starting, slot) = IF from = {} THEN Nobody ELSE Weakest(c, from)
  BY DEF Out
<1> HIDE DEF all, from
<1>4. from # {} => Weakest(c, from) \in from
  BY <1>1, <1>2, WeakestExists
<1> QED
  BY <1>2, <1>3, <1>4 DEF all

SwapRecords(c) == [in : Team(c), out : Team(c) \cup {Nobody}, gain : Int]

Walks(c) == [starting : SUBSET Team(c), swaps : Seq(SwapRecords(c))]

\* What has been done when the walk has seen the first n slots.
WhoStarts(c, lineup, n, starting) ==
  /\ Started(c) \cap Wanted(c, lineup) \subseteq starting
  /\ starting \ Wanted(c, lineup) \subseteq Started(c)
  /\ \A t \in 1..n : lineup[t] # Nobody => lineup[t] \in starting
  /\ Displaced(c, lineup, starting) = {} \/ Cardinality(starting) = Cardinality(Started(c))

InAndOut(c, lineup, starting, swaps) ==
  \A i \in DOMAIN swaps :
    /\ swaps[i].in \in Starters(lineup) \cap starting
    /\ swaps[i].in \notin Started(c)
    /\ swaps[i].out # Nobody => swaps[i].out \in (Started(c) \ Wanted(c, lineup)) \ starting

NobodyTwice(swaps) ==
  \A i, j \in DOMAIN swaps : i # j =>
    /\ swaps[i].in # swaps[j].in
    /\ swaps[i].out # Nobody => swaps[i].out # swaps[j].out

DeadGoOut(c, lineup, starting, swaps) ==
  \A k \in Started(c) \ Wanted(c, lineup) :
    ~Startable(c.players[k]) /\ k \notin starting => \E i \in DOMAIN swaps : swaps[i].out = k

SwapsMake(c, lineup, starting, swaps) ==
  /\ InAndOut(c, lineup, starting, swaps)
  /\ NobodyTwice(swaps)
  /\ DeadGoOut(c, lineup, starting, swaps)

LEMMA FillType ==
  ASSUME NEW c, IsLineupCase(c), NEW lineup, NEW slot,
         NEW in \in Team(c) \cup {Nobody}, NEW done \in Walks(c)
  PROVE  Fill(c, lineup, slot, in, done) \in Walks(c)
<1>1. CASE in = Nobody \/ in \in done.starting
  BY <1>1 DEF Fill
<1>2. CASE ~(in = Nobody \/ in \in done.starting)
  <2> DEFINE out == Out(c, lineup, done.starting, slot)
             swap == Swap(c, in, out)
  <2>1. done.starting \in SUBSET Team(c) /\ done.swaps \in Seq(SwapRecords(c))
    BY DEF Walks
  <2>2. out \in Team(c) \cup {Nobody}
    BY <2>1, OutIs DEF Displaced
  <2> HIDE DEF out
  <2>3. in \in Team(c) /\ c.players[in].points \in Int
    BY <1>2 DEF IsLineupCase
  <2>4. out # Nobody => c.players[out].points \in Int
    BY <2>2 DEF IsLineupCase
  <2>5. swap.gain \in Int
    BY <2>3, <2>4 DEF Swap
  <2>6. swap \in SwapRecords(c)
    BY <2>2, <2>3, <2>5 DEF Swap, SwapRecords
  <2> HIDE DEF swap
  <2>7. Append(done.swaps, swap) \in Seq(SwapRecords(c))
    BY <2>1, <2>6
  <2>8. (done.starting \ {out}) \cup {in} \in SUBSET Team(c)
    BY <2>1, <2>3
  <2>9. Fill(c, lineup, slot, in, done) =
          [starting |-> (done.starting \ {out}) \cup {in},
           swaps |-> IF WorthSaying(c, swap.gain, out) THEN Append(done.swaps, swap)
                     ELSE done.swaps]
    BY <1>2 DEF Fill, out, swap
  <2> QED
    BY <2>1, <2>7, <2>8, <2>9 DEF Walks
<1> QED
  BY <1>1, <1>2

LEMMA FillKeeps ==
  ASSUME NEW c, IsLineupCase(c), NEW lineup \in Solved(c),
         NEW n \in 0..(Len(OpenSlots(c)) - 1), NEW done \in Walks(c), NEW slot,
         WhoStarts(c, lineup, n, done.starting),
         SwapsMake(c, lineup, done.starting, done.swaps),
         NEW next, next = Fill(c, lineup, slot, lineup[n + 1], done)
  PROVE  /\ WhoStarts(c, lineup, n + 1, next.starting)
         /\ SwapsMake(c, lineup, next.starting, next.swaps)
<1> DEFINE W == Wanted(c, lineup)
<1>1. PICK in : in = lineup[n + 1]
  OBVIOUS
<1>2. PICK old : old = done.starting
  OBVIOUS
<1>3. PICK told : told = done.swaps
  OBVIOUS
<1>4. n \in Nat /\ Len(OpenSlots(c)) \in Nat /\ n + 1 \in 1..Len(OpenSlots(c))
  BY SolvedIs
<1>5. \A t \in 1..(n + 1) : t \in 1..n \/ t = n + 1
  BY <1>4
<1>50. \A t \in 1..Len(OpenSlots(c)) : lineup[t] # Nobody => lineup[t] \in Starters(lineup)
  <2>1. Starters(lineup) = {lineup[s] : s \in {t \in 1..Len(OpenSlots(c)) : lineup[t] # Nobody}}
    BY SolvedIs
  <2> QED
    BY <2>1
<1>6. old \subseteq Team(c) /\ told \in Seq(SwapRecords(c))
  BY <1>2, <1>3 DEF Walks
<1>7. CASE in = Nobody \/ in \in old
  <2>1. next = done
    BY <1>1, <1>2, <1>7 DEF Fill
  <2>2. WhoStarts(c, lineup, n + 1, done.starting)
    BY <1>1, <1>2, <1>5, <1>7 DEF WhoStarts
  <2> QED
    BY <2>1, <2>2
<1>8. CASE in # Nobody /\ in \notin old
  <2>1. in \in Starters(lineup) /\ in \in W /\ in \in Team(c)
    <3>1. in \in Starters(lineup)
      BY <1>1, <1>4, <1>8, <1>50
    <3>2. Starters(lineup) \subseteq CanPlay(c)
      BY SolvedIs
    <3> QED
      BY <3>1, <3>2 DEF Wanted, CanPlay
  <2>2. PICK out : out = Out(c, lineup, old, slot)
    OBVIOUS
  <2>3. IF old \ W = {} THEN out = Nobody ELSE out \in old \ W
    BY <2>2, <1>6, OutIs DEF Displaced
  <2>4. PICK starting : starting = (old \ {out}) \cup {in}
    OBVIOUS
  <2>5. PICK swap : swap = Swap(c, in, out)
    OBVIOUS
  <2>6. PICK swaps : swaps = IF WorthSaying(c, swap.gain, out) THEN Append(told, swap) ELSE told
    OBVIOUS
  <2>7. next.starting = starting /\ next.swaps = swaps
    BY <1>1, <1>2, <1>3, <1>8, <2>2, <2>4, <2>5, <2>6 DEF Fill
  <2>8. /\ Started(c) \cap W \subseteq old /\ old \ W \subseteq Started(c)
        /\ \A t \in 1..n : lineup[t] # Nobody => lineup[t] \in old
        /\ old \ W = {} \/ Cardinality(old) = Cardinality(Started(c))
    BY <1>2 DEF WhoStarts, Displaced
  <2>9. Nobody \notin Team(c) /\ IsFiniteSet(Team(c))
    BY DEF IsLineupCase
  <2>10. out \notin W
    <3>1. W \subseteq Team(c)
      <4>1. Starters(lineup) \subseteq CanPlay(c) /\ LockedStarters(c) \subseteq Team(c)
        BY SolvedIs, StartersAre
      <4> QED
        BY <4>1 DEF Wanted, CanPlay
    <3> QED
      BY <2>3, <2>9, <3>1
  <2>11. in \notin Started(c)
    BY <1>8, <2>1, <2>8
  <2>12. out \notin starting
    BY <2>1, <2>4, <2>10
  <2>13. \A t \in 1..n : lineup[t] # Nobody => lineup[t] \in W
    <3>1. ASSUME NEW t \in 1..n, lineup[t] # Nobody
          PROVE  lineup[t] \in Starters(lineup)
      <4>1. t \in 1..Len(OpenSlots(c))
        BY <1>4
      <4> QED
        BY <4>1, <3>1, <1>50
    <3> QED
      BY <3>1 DEF Wanted
  <2> HIDE DEF W
  <2>14. starting \ W = {} \/ Cardinality(starting) = Cardinality(Started(c))
    <3>1. CASE old \ W = {}
      BY <3>1, <2>1, <2>4
    <3>2. CASE old \ W # {}
      <4>1. IsFiniteSet(old)
        BY <1>6, <2>9, FS_Subset
      <4>2. out \in old /\ in \notin old \ {out}
        BY <3>2, <2>3, <1>8
      <4>3. /\ IsFiniteSet(old \ {out}) /\ Cardinality(old \ {out}) = Cardinality(old) - 1
        BY <4>1, <4>2, FS_RemoveElement
      <4>4. Cardinality(starting) = Cardinality(old \ {out}) + 1
        BY <4>2, <4>3, <2>4, FS_AddElement
      <4>5. Cardinality(old) \in Nat
        BY <4>1, FS_CardinalityType
      <4> QED
        BY <4>3, <4>4, <4>5, <3>2, <2>8
    <3> QED
      BY <3>1, <3>2
  <2>15. WhoStarts(c, lineup, n + 1, starting)
    <3>1. Started(c) \cap W \subseteq starting /\ starting \ W \subseteq Started(c)
      BY <2>1, <2>4, <2>8, <2>10
    <3>2. ASSUME NEW t \in 1..(n + 1), lineup[t] # Nobody
          PROVE  lineup[t] \in starting
      <4>1. CASE t \in 1..n
        BY <4>1, <3>2, <2>4, <2>8, <2>10, <2>13
      <4>2. CASE t = n + 1
        BY <4>2, <1>1, <2>4
      <4> QED
        BY <4>1, <4>2, <1>5
    <3> QED
      BY <3>1, <3>2, <2>14 DEF WhoStarts, Displaced, W
  <2>16. /\ swap.in = in /\ swap.out = out
    BY <2>5 DEF Swap
  <2>17. PICK m \in Nat : m = Len(told) /\ DOMAIN told = 1..m
    BY <1>6
  <2>18. CASE WorthSaying(c, swap.gain, out)
    <3>1. /\ DOMAIN swaps = 1..(m + 1) /\ swaps[m + 1] = swap
          /\ \A i \in 1..m : swaps[i] = told[i]
      BY <2>6, <2>17, <2>18, <1>6
    <3>2. \A i \in 1..(m + 1) : i \in 1..m \/ i = m + 1
      OBVIOUS
    <3>3. \A i \in 1..m :
            /\ told[i].in \in Starters(lineup) \cap old /\ told[i].in \notin Started(c)
            /\ told[i].out # Nobody => told[i].out \in (Started(c) \ W) \ old
      BY <1>2, <1>3, <2>17 DEF SwapsMake, InAndOut, W
    <3>4. \A i, j \in 1..m : i # j =>
            /\ told[i].in # told[j].in
            /\ told[i].out # Nobody => told[i].out # told[j].out
      BY <1>3, <2>17 DEF SwapsMake, NobodyTwice
    <3>5. Starters(lineup) \subseteq W
      BY DEF W, Wanted
    <3>6. \A i \in 1..m : /\ told[i].in \in Starters(lineup) \cap starting
                          /\ told[i].in # in
                          /\ told[i].out # Nobody => /\ told[i].out \in (Started(c) \ W) \ starting
                                                     /\ told[i].out # out
                          /\ out # Nobody => told[i].out # out
      <4> SUFFICES ASSUME NEW i \in 1..m
                   PROVE  /\ told[i].in \in Starters(lineup) \cap starting
                          /\ told[i].in # in
                          /\ told[i].out # Nobody => /\ told[i].out \in (Started(c) \ W) \ starting
                                                     /\ told[i].out # out
                          /\ out # Nobody => told[i].out # out
        OBVIOUS
      <4>1. /\ told[i].in \in Starters(lineup) \cap old
            /\ told[i].out # Nobody => told[i].out \in (Started(c) \ W) \ old
        BY <3>3
      <4>2. out = Nobody \/ out \in old
        BY <2>3
      <4> QED
        BY <4>1, <4>2, <3>5, <1>8, <2>1, <2>4, <2>10
    <3>7. out # Nobody => out \in (Started(c) \ W) \ starting
      BY <2>3, <2>8, <2>12
    <3>8. ASSUME NEW i \in DOMAIN swaps
          PROVE  /\ swaps[i].in \in Starters(lineup) \cap starting /\ swaps[i].in \notin Started(c)
                 /\ swaps[i].out # Nobody => swaps[i].out \in (Started(c) \ W) \ starting
      <4>1. CASE i \in 1..m
        BY <4>1, <3>1, <3>3, <3>6
      <4>2. CASE i = m + 1
        BY <4>2, <3>1, <3>7, <2>1, <2>4, <2>11, <2>16
      <4> QED
        BY <4>1, <4>2, <3>1, <3>2
    <3>9. ASSUME NEW i \in DOMAIN swaps, NEW j \in DOMAIN swaps, i # j
          PROVE  /\ swaps[i].in # swaps[j].in
                 /\ swaps[i].out # Nobody => swaps[i].out # swaps[j].out
      <4>1. CASE i \in 1..m /\ j \in 1..m
        BY <4>1, <3>1, <3>4, <3>9
      <4>2. CASE i \in 1..m /\ j = m + 1
        BY <4>2, <3>1, <3>6, <2>16
      <4>3. CASE i = m + 1 /\ j \in 1..m
        BY <4>3, <3>1, <3>6, <2>16
      <4> QED
        BY <4>1, <4>2, <4>3, <3>1, <3>2, <3>9
    <3>10. ASSUME NEW k \in Started(c) \ W, ~Startable(c.players[k]), k \notin starting
           PROVE  \E i \in DOMAIN swaps : swaps[i].out = k
      <4>1. CASE k \in old
        <5>1. k = out
          BY <4>1, <3>10, <2>4
        <5> QED
          BY <5>1, <3>1, <2>16
      <4>2. CASE k \notin old
        <5>1. PICK i \in 1..m : told[i].out = k
          BY <4>2, <3>10, <1>2, <1>3, <2>17 DEF SwapsMake, DeadGoOut, W
        <5> QED
          BY <5>1, <3>1
      <4> QED
        BY <4>1, <4>2
    <3>11. InAndOut(c, lineup, starting, swaps)
      BY <3>8 DEF InAndOut, W
    <3>12. NobodyTwice(swaps)
      BY <3>9 DEF NobodyTwice
    <3>13. DeadGoOut(c, lineup, starting, swaps)
      BY <3>10 DEF DeadGoOut, W
    <3> QED
      BY <2>7, <2>15, <3>11, <3>12, <3>13 DEF SwapsMake
  <2>19. CASE ~WorthSaying(c, swap.gain, out)
    <3>1. swaps = told
      BY <2>6, <2>19
    <3>2. out # Nobody => Startable(c.players[out])
      BY <2>19 DEF WorthSaying
    <3>3. Starters(lineup) \subseteq W
      BY DEF W, Wanted
    <3>4. ASSUME NEW i \in DOMAIN told
          PROVE  /\ told[i].in \in Starters(lineup) \cap starting /\ told[i].in \notin Started(c)
                 /\ told[i].out # Nobody => told[i].out \in (Started(c) \ W) \ starting
      <4>1. /\ told[i].in \in Starters(lineup) \cap old /\ told[i].in \notin Started(c)
            /\ told[i].out # Nobody => told[i].out \in (Started(c) \ W) \ old
        BY <1>2, <1>3 DEF SwapsMake, InAndOut, W
      <4> QED
        BY <4>1, <3>3, <2>1, <2>4, <2>10
    <3>5. NobodyTwice(told)
      BY <1>3 DEF SwapsMake
    <3>6. ASSUME NEW k \in Started(c) \ W, ~Startable(c.players[k]), k \notin starting
          PROVE  \E i \in DOMAIN told : told[i].out = k
      <4>1. k # out
        <5>1. k # Nobody
          BY <2>9 DEF Started
        <5> QED
          BY <5>1, <3>2, <3>6
      <4>2. k \notin old
        BY <4>1, <3>6, <2>4
      <4> QED
        BY <4>2, <3>6, <1>2, <1>3 DEF SwapsMake, DeadGoOut, W
    <3>7. InAndOut(c, lineup, starting, told)
      BY <3>4 DEF InAndOut, W
    <3>8. DeadGoOut(c, lineup, starting, told)
      BY <3>6 DEF DeadGoOut, W
    <3> QED
      BY <2>7, <2>15, <3>1, <3>5, <3>7, <3>8 DEF SwapsMake
  <2> QED
    BY <2>7, <2>15, <2>18, <2>19
<1> QED
  BY <1>7, <1>8

\* The walk over all slots: what Swaps reports, and who starts in the end.
Walked(c, lineup, starting) ==
  /\ starting \in SUBSET Team(c)
  /\ WhoStarts(c, lineup, Len(OpenSlots(c)), starting)
  /\ SwapsMake(c, lineup, starting, Swaps(c, lineup))

LEMMA SwapsWalk ==
  ASSUME NEW c, IsLineupCase(c), NEW lineup \in Solved(c)
  PROVE  \E starting : Walked(c, lineup, starting)
<1> DEFINE n == Len(OpenSlots(c))
           slots == OpenSlots(c)
           T == Walks(c)
           base == [starting |-> Started(c), swaps |-> <<>>]
           step == [z \in (1..n) \X T |-> Fill(c, lineup, slots[z[1]], lineup[z[1]], z[2])]
           Is(g) == g = [s \in 0..n |->
                           IF s = 0 THEN base
                           ELSE Fill(c, lineup, slots[s], lineup[s], g[s - 1])]
           done == CHOOSE g : Is(g)
<1>1. n \in Nat
  BY SolvedIs
<1>2. \A s \in 1..n : lineup[s] \in Team(c) \cup {Nobody}
  <2>1. lineup \in [1..n -> CanPlay(c) \cup {Nobody}]
    BY SolvedIs
  <2>2. CanPlay(c) \subseteq Team(c)
    BY DEF CanPlay
  <2> QED
    BY <2>1, <2>2
<1>3. Started(c) \in SUBSET Team(c) /\ base \in T
  BY StartersAre DEF Walks
<1> HIDE DEF T
<1>4. \A s \in 1..n : \A d \in T : Fill(c, lineup, slots[s], lineup[s], d) \in T
  BY <1>2, FillType DEF T
<1>5. PICK g : Iterated(g, n, T, base, step)
  <2>1. \A s \in 1..n : \A d \in T : step[<<s, d>>] \in T
    BY <1>4
  <2> HIDE DEF step, n, base
  <2> QED
    BY <1>1, <1>3, <2>1, Iterates
<1>6. g \in [0..n -> T] /\ g[0] = base /\ \A s \in 1..n : g[s] = step[<<s, g[s - 1]>>]
  BY <1>5 DEF Iterated
<1>7. Is(g)
  <2>1. ASSUME NEW s \in 0..n, s # 0
        PROVE  g[s] = Fill(c, lineup, slots[s], lineup[s], g[s - 1])
    <3>1. s \in 1..n /\ s - 1 \in 0..n
      BY <1>1, <2>1
    <3>2. g[s - 1] \in T
      BY <1>6, <3>1
    <3>3. step[<<s, g[s - 1]>>] = Fill(c, lineup, slots[s], lineup[s], g[s - 1])
      BY <3>1, <3>2
    <3> HIDE DEF step
    <3> QED
      BY <3>1, <3>3, <1>6
  <2> HIDE DEF step, base
  <2> QED
    BY <1>6, <2>1
<1>8. Is(done)
  BY <1>7
<1>9. Swaps(c, lineup) = done[n].swaps
  BY DEF Swaps
<1> HIDE DEF done, step
<1>10. done[0] = base
  BY <1>1, <1>8
<1>11. \A s \in 0..(n - 1) : done[s + 1] = Fill(c, lineup, slots[s + 1], lineup[s + 1], done[s])
  <2> SUFFICES ASSUME NEW s \in 0..(n - 1)
               PROVE  done[s + 1] = Fill(c, lineup, slots[s + 1], lineup[s + 1], done[s])
    OBVIOUS
  <2>1. s + 1 \in 0..n /\ s + 1 # 0 /\ (s + 1) - 1 = s
    BY <1>1
  <2> HIDE DEF base
  <2> QED
    BY <1>8, <2>1
<1> DEFINE Good == {s \in 0..n : /\ done[s] \in T
                                 /\ WhoStarts(c, lineup, s, done[s].starting)
                                 /\ SwapsMake(c, lineup, done[s].starting, done[s].swaps)}
<1>12. 0 \in Good
  <2>1. done[0] \in T /\ done[0].starting = Started(c) /\ done[0].swaps = <<>>
    BY <1>3, <1>10
  <2>2. WhoStarts(c, lineup, 0, Started(c))
    BY DEF WhoStarts
  <2>3. SwapsMake(c, lineup, Started(c), <<>>)
    BY DEF SwapsMake, InAndOut, NobodyTwice, DeadGoOut
  <2> QED
    BY <1>1, <2>1, <2>2, <2>3
<1>13. ASSUME NEW s \in 0..(n - 1), s \in Good
       PROVE  s + 1 \in Good
  <2>1. PICK old : old = done[s]
    OBVIOUS
  <2>2. PICK next : next = Fill(c, lineup, slots[s + 1], lineup[s + 1], old)
    OBVIOUS
  <2>3. done[s + 1] = next
    BY <1>11, <2>1, <2>2
  <2>4. /\ old \in T /\ WhoStarts(c, lineup, s, old.starting)
        /\ SwapsMake(c, lineup, old.starting, old.swaps)
    BY <1>13, <2>1
  <2>5. s + 1 \in 1..n /\ s + 1 \in 0..n
    BY <1>1
  <2>6. next \in T
    BY <1>4, <2>2, <2>4, <2>5
  <2>7. PICK slot : slot = slots[s + 1]
    OBVIOUS
  <2> HIDE DEF Good
  <2>8. /\ WhoStarts(c, lineup, s + 1, next.starting)
        /\ SwapsMake(c, lineup, next.starting, next.swaps)
    BY <2>2, <2>4, <2>7, FillKeeps DEF T
  <2> QED
    BY <2>3, <2>5, <2>6, <2>8 DEF Good
<1> HIDE DEF Good
<1>14. 0..n \subseteq Good
  BY <1>1, <1>12, <1>13, Climb
<1>15. n \in Good
  BY <1>1, <1>14
<1>16. done[n] \in T /\ WhoStarts(c, lineup, n, done[n].starting)
       /\ SwapsMake(c, lineup, done[n].starting, done[n].swaps)
  BY <1>15 DEF Good
<1> QED
  BY <1>9, <1>16 DEF Walked, T, Walks

(* What the report says, for each of the best lineups.                      *)

LEMMA WantedCounts ==
  ASSUME NEW c, IsLineupCase(c), NEW lineup \in Solved(c)
  PROVE  /\ Wanted(c, lineup) \subseteq Team(c) /\ IsFiniteSet(Wanted(c, lineup))
         /\ Starters(lineup) \cap LockedStarters(c) = {}
         /\ IsFiniteSet(Starters(lineup))
         /\ Cardinality(Starters(lineup)) \in 0..Len(OpenSlots(c))
         /\ IsComplete(lineup) <=> Cardinality(Starters(lineup)) = Len(OpenSlots(c))
         /\ Cardinality(Wanted(c, lineup)) =
              Cardinality(Starters(lineup)) + Cardinality(LockedStarters(c))
<1> DEFINE L == LockedStarters(c)
           S == Starters(lineup)
<1>1. S \subseteq CanPlay(c)
  BY SolvedIs
<1>2. IsFiniteSet(L) /\ L \subseteq Team(c) /\ Cardinality(L) \in Nat
  BY StartersAre
<1>3. S \cap L = {}
  BY <1>1 DEF CanPlay, Playable, LockedStarters
<1>4. /\ IsFiniteSet(S)
      /\ Cardinality(S) \in 0..Len(OpenSlots(c))
      /\ IsComplete(lineup) <=> Cardinality(S) = Len(OpenSlots(c))
  <2>1. PICK pool : pool = Restrict(c.players, CanPlay(c))
    OBVIOUS
  <2>2. lineup \in Lineups(pool, OpenSlots(c))
    BY <2>1, SolvedIs
  <2>3. Nobody \notin DOMAIN pool
    BY <2>1, StartersAre DEF Restrict, CanPlay
  <2>4. OpenSlots(c) \in Seq(STRING)
    BY OpenSlotsFit
  <2> QED
    BY <2>2, <2>3, <2>4, StartersFit
<1> HIDE DEF S, L
<1>5. IsFiniteSet(S \cup L) /\ Cardinality(S \cup L) = Cardinality(S) + Cardinality(L) - Cardinality(S \cap L)
  BY <1>2, <1>4, FS_Union
<1>6. Cardinality(S \cap L) = 0
  BY <1>3, FS_EmptySet
<1>7. Cardinality(S) \in Nat
  BY <1>4, FS_CardinalityType
<1>8. Cardinality(S \cup L) = Cardinality(S) + Cardinality(L)
  BY <1>2, <1>5, <1>6, <1>7
<1>9. Wanted(c, lineup) = S \cup L
  BY DEF Wanted, S, L
<1>10. Wanted(c, lineup) \subseteq Team(c)
  BY <1>1, <1>2, <1>9 DEF CanPlay
<1> QED
  BY <1>3, <1>4, <1>5, <1>8, <1>9, <1>10 DEF S, L

LEMMA SwapsCan ==
  ASSUME IsLineupCase(case), NEW lineup \in Solved(case), report = LineupReport(case, lineup)
  PROVE  SwapsCanBeMade
<1>1. PICK starting : Walked(case, lineup, starting)
  BY SwapsWalk
<1>2. PICK swaps : swaps = Swaps(case, lineup)
  OBVIOUS
<1>3. report.swaps = swaps /\ report.lineup = lineup
  BY <1>2 DEF LineupReport
<1>4. InAndOut(case, lineup, starting, swaps) /\ NobodyTwice(swaps)
  BY <1>1, <1>2 DEF Walked, SwapsMake
<1>5. Starters(lineup) \subseteq CanPlay(case)
  BY SolvedIs
<1>6. ASSUME NEW i \in DOMAIN swaps
      PROVE  /\ Startable(case.players[swaps[i].in]) /\ ~case.players[swaps[i].in].locked
             /\ swaps[i].in \notin Started(case)
             /\ swaps[i].out # Nobody =>
                  /\ swaps[i].out \in Started(case) \ Starters(lineup)
                  /\ ~case.players[swaps[i].out].locked
  <2>1. /\ swaps[i].in \in Starters(lineup) /\ swaps[i].in \notin Started(case)
        /\ swaps[i].out # Nobody => swaps[i].out \in Started(case) \ Wanted(case, lineup)
    BY <1>4 DEF InAndOut
  <2>2. Startable(case.players[swaps[i].in]) /\ ~case.players[swaps[i].in].locked
    BY <1>5, <2>1 DEF CanPlay, Playable
  <2>3. \A k \in Started(case) \ Wanted(case, lineup) :
          k \notin Starters(lineup) /\ ~case.players[k].locked
    BY DEF Wanted, LockedStarters
  <2> QED
    BY <2>1, <2>2, <2>3
<1>7. \A i, j \in DOMAIN swaps : i # j =>
        /\ swaps[i].in # swaps[j].in
        /\ swaps[i].out # Nobody => swaps[i].out # swaps[j].out
  BY <1>4 DEF NobodyTwice
<1> QED
  BY <1>3, <1>6, <1>7 DEF SwapsCanBeMade

LEMMA DeadAreOut ==
  ASSUME IsLineupCase(case), NEW lineup \in Solved(case), report = LineupReport(case, lineup),
         StartedLegally(case, Started(case))
  PROVE  NoDeadStarterIsKept
<1>1. PICK starting : Walked(case, lineup, starting)
  BY SwapsWalk
<1>2. PICK swaps : swaps = Swaps(case, lineup)
  OBVIOUS
<1>3. /\ report.swaps = swaps /\ report.lineup = lineup
      /\ report.said = Said(case, lineup, swaps)
  BY <1>2 DEF LineupReport
<1> DEFINE W == Wanted(case, lineup)
           n == Len(OpenSlots(case))
           dead == {k \in Started(case) : ~Startable(case.players[k]) /\ ~case.players[k].locked}
<1>4. dead \cap W = {}
  <2>1. Starters(lineup) \subseteq CanPlay(case)
    BY SolvedIs
  <2> QED
    BY <2>1 DEF Wanted, CanPlay, Playable, LockedStarters
<1>5. ASSUME IsComplete(lineup)
      PROVE  starting \ W = {}
  <2>1. /\ starting \subseteq Team(case)
        /\ Started(case) \cap W \subseteq starting
        /\ \A t \in 1..n : lineup[t] # Nobody => lineup[t] \in starting
        /\ starting \ W = {} \/ Cardinality(starting) = Cardinality(Started(case))
    BY <1>1 DEF Walked, WhoStarts, Displaced
  <2>2. W \subseteq starting
    <3>1. Starters(lineup) = {lineup[s] : s \in {t \in 1..n : lineup[t] # Nobody}}
      BY SolvedIs
    <3>2. Starters(lineup) \subseteq starting
      BY <2>1, <3>1
    <3>3. LockedStarters(case) \subseteq Started(case) \cap W
      BY DEF LockedStarters, Wanted
    <3> QED
      BY <2>1, <3>2, <3>3 DEF Wanted
  <2>3. Cardinality(W) = n + Cardinality(LockedStarters(case))
    BY <1>5, WantedCounts
  <2>4. n = Len(case.slots) - Cardinality(LockedStarters(case))
    BY OpenSlotsFit
  <2>5. Cardinality(Started(case)) <= Len(case.slots)
    <3>1. case.slots \in Seq(STRING) /\ Nobody \notin DOMAIN case.players
      BY DEF IsLineupCase, Team
    <3>2. PICK l \in Lineups(case.players, case.slots) : Starters(l) = Started(case)
      BY DEF StartedLegally
    <3>3. Cardinality(Starters(l)) \in 0..Len(case.slots)
      BY <3>1, StartersFit
    <3> QED
      BY <3>2, <3>3
  <2>6. IsFiniteSet(starting)
    BY <2>1, FS_Subset DEF IsLineupCase
  <2>7. /\ Cardinality(W) <= Cardinality(starting)
        /\ Cardinality(W) = Cardinality(starting) => W = starting
    BY <2>2, <2>6, FS_Subset
  <2>8. /\ Cardinality(starting) \in Nat /\ Cardinality(LockedStarters(case)) \in Nat
        /\ Cardinality(Started(case)) \in Nat /\ Len(case.slots) \in Nat /\ n \in Nat
    BY <2>6, FS_CardinalityType, StartersAre, SolvedIs DEF IsLineupCase
  <2>9. Cardinality(W) = Len(case.slots)
    BY <2>3, <2>4, <2>8
  <2> HIDE DEF W
  <2>10. CASE Cardinality(starting) = Cardinality(Started(case))
    BY <2>5, <2>7, <2>8, <2>9, <2>10
  <2> QED
    BY <2>1, <2>10
<1>6. ASSUME IsComplete(lineup), NEW k \in dead
      PROVE  \E i \in DOMAIN swaps : swaps[i].out = k
  <2>1. DeadGoOut(case, lineup, starting, swaps)
    BY <1>1, <1>2 DEF Walked, SwapsMake
  <2>2. k \in Started(case) \ W /\ k \notin starting
    BY <1>4, <1>5, <1>6
  <2> QED
    BY <2>1, <2>2 DEF DeadGoOut
<1>7. dead # {} => report.said # "nothing"
  <2>1. dead # {} /\ IsComplete(lineup) => swaps # <<>>
    BY <1>6
  <2> QED
    BY <1>3, <2>1 DEF Said
<1> QED
  BY <1>3, <1>6, <1>7 DEF NoDeadStarterIsKept

LEMMA LineupIsNeverWorse ==
  ASSUME IsLineupCase(case), NEW lineup \in Solved(case), report = LineupReport(case, lineup),
         StartedLegally(case, Started(case))
  PROVE  NeverWorse
<1>1. PICK c : c = case
  OBVIOUS
<1> DEFINE L == LockedStarters(c)
           S == Starters(lineup)
           K == {k \in Started(c) \ L : Startable(c.players[k])}
           n == Len(OpenSlots(c))
           pool == Restrict(c.players, CanPlay(c))
           P == [k \in Team(c) |-> c.players[k].points]
           points == [k \in CanPlay(c) |-> Effective(c.players[k], c.mode)]
<1>2. IsLineupCase(c) /\ lineup \in Solved(c) /\ StartedLegally(c, Started(c))
  BY <1>1
<1>3. report.lineup = lineup
  BY DEF LineupReport
<1>4. IsFiniteSet(Team(c)) /\ Nobody \notin Team(c) /\ c.slots \in Seq(STRING)
  BY <1>2 DEF IsLineupCase
<1>5. L \subseteq Started(c) /\ Started(c) \subseteq Team(c) /\ Cardinality(L) \in Nat
  BY <1>2, StartersAre
<1>6. Cardinality(Wanted(c, lineup)) <= Len(c.slots)
  <2>1. /\ Cardinality(Wanted(c, lineup)) = Cardinality(S) + Cardinality(L)
        /\ Cardinality(S) \in 0..n
    BY <1>2, WantedCounts
  <2>2. n = Len(c.slots) - Cardinality(L)
    BY <1>2, OpenSlotsFit
  <2>3. Len(c.slots) \in Nat
    BY <1>4
  <2> HIDE DEF L, S, n
  <2> QED
    BY <2>1, <2>2, <2>3, <1>5
<1>7. Wanted(c, lineup) = S \cup L
  BY DEF Wanted
<1>8. {k \in Started(c) : c.players[k].locked \/ Startable(c.players[k])} = K \cup L
  BY DEF LockedStarters
<1>9. K \subseteq CanPlay(c) /\ K \subseteq Team(c) /\ K \cap L = {}
  BY <1>5 DEF CanPlay, Playable, LockedStarters
<1>10. S \subseteq CanPlay(c) /\ S \subseteq Team(c) /\ S \cap L = {}
  <2>1. S \subseteq CanPlay(c) /\ CanPlay(c) \subseteq Team(c)
    BY <1>2, SolvedIs DEF CanPlay
  <2> QED
    BY <2>1, <1>2, WantedCounts
<1>11. \A k \in Team(c) : P[k] \in Int
  BY <1>2 DEF IsLineupCase
<1>12. \E l \in Lineups(pool, OpenSlots(c)) : Starters(l) = K
  <2>1. PICK old \in Lineups(c.players, OpenSlots(c)) : Starters(old) = Started(c) \ L
    BY <1>2, OpenSlotsFit DEF Placed
  <2>2. OpenSlots(c) \in Seq(STRING)
    BY <1>2, OpenSlotsFit
  <2>3. n \in Nat /\ DOMAIN OpenSlots(c) = 1..n
    BY <2>2
  <2>4. /\ old \in [1..n -> Team(c) \cup {Nobody}]
        /\ \A s \in 1..n : old[s] # Nobody =>
             /\ slot_accepts(OpenSlots(c)[s], c.players[old[s]].pos)
             /\ \A t \in 1..n \ {s} : old[t] # old[s]
    BY <2>1, <2>3 DEF Lineups, Team
  <2>5. \A k \in K : \E s \in 1..n : old[s] = k
    <3>1. Starters(old) = {old[s] : s \in {t \in 1..n : old[t] # Nobody}}
      BY <2>4 DEF Starters, Range
    <3> QED
      BY <2>1, <3>1
  <2>6. PICK l : l = [s \in 1..n |-> IF old[s] \in K THEN old[s] ELSE Nobody]
    OBVIOUS
  <2>7. DOMAIN pool = CanPlay(c) /\ \A k \in CanPlay(c) : pool[k] = c.players[k]
    BY DEF Restrict
  <2> HIDE DEF K, pool
  <2>8. Nobody \notin K
    BY <1>4, <1>9
  <2>9. /\ l \in [1..n -> CanPlay(c) \cup {Nobody}]
        /\ \A s \in 1..n : l[s] # Nobody => l[s] = old[s] /\ old[s] \in K
    BY <2>6, <1>9
  <2>10. ASSUME NEW s \in 1..n, l[s] # Nobody
         PROVE  /\ slot_accepts(OpenSlots(c)[s], pool[l[s]].pos)
                /\ \A t \in 1..n \ {s} : l[t] # l[s]
    <3>1. l[s] = old[s] /\ old[s] \in CanPlay(c) /\ old[s] # Nobody
      BY <2>8, <2>9, <2>10, <1>9
    <3>2. slot_accepts(OpenSlots(c)[s], pool[l[s]].pos)
      BY <3>1, <2>4, <2>7
    <3>3. ASSUME NEW t \in 1..n \ {s}
          PROVE  l[t] # l[s]
      BY <3>1, <2>4, <2>9, <2>10
    <3> QED
      BY <3>2, <3>3
  <2>11. l \in Lineups(pool, OpenSlots(c))
    BY <2>3, <2>7, <2>9, <2>10 DEF Lineups
  <2>12. Starters(l) = K
    <3>1. Starters(l) = {l[s] : s \in {t \in 1..n : l[t] # Nobody}}
      BY <2>9 DEF Starters, Range
    <3>2. \A k \in K : \E s \in 1..n : l[s] = k /\ l[s] # Nobody
      BY <2>5, <2>6, <2>8
    <3> QED
      BY <3>1, <3>2, <2>9
  <2> QED
    BY <2>11, <2>12
<1>13. ASSUME c.mode = "neutral",
              \A k \in Team(c) : Playable(c, k) => c.players[k].points >= 0
       PROVE  Points(c, Wanted(c, lineup)) >= Points(c, K \cup L)
  <2>1. \A k \in CanPlay(c) : points[k] = 2 * P[k] /\ P[k] >= 0
    BY <1>13 DEF Effective, CanPlay
  <2>2. Pool(pool, OpenSlots(c), points) /\ lineup \in BestLineups(pool, OpenSlots(c), points)
    BY <1>2, SolvedIs
  <2>3. DOMAIN pool = CanPlay(c) /\ CanPlay(c) \subseteq Team(c)
    BY DEF Restrict, CanPlay
  <2> HIDE DEF points, P, K, S, L, pool
  <2>4. \A k \in CanPlay(c) : P[k] \in Int /\ points[k] \in Int /\ points[k] >= 0
    BY <1>11, <2>1, <2>3
  <2>5. Total(points, K) <= Total(points, S)
    <3>1. PICK l \in Lineups(pool, OpenSlots(c)) : Starters(l) = K
      BY <1>12
    <3>2. \A k \in DOMAIN pool : points[k] >= 0
      BY <2>3, <2>4
    <3>3. Total(points, Starters(l)) <= Total(points, Starters(lineup))
      BY <2>2, <3>2, FullestHasAtLeast
    <3> QED
      BY <3>1, <3>3 DEF S
  <2>6. ASSUME NEW R \in SUBSET CanPlay(c)
        PROVE  Total(points, R) = 2 * Total(P, R)
    <3>1. IsFiniteSet(R)
      BY <1>4, <2>3, FS_Subset
    <3>2. \A k \in R : points[k] \in Int /\ P[k] \in Int /\ points[k] = 2 * P[k]
      BY <2>1, <2>4
    <3> QED
      BY <3>1, <3>2, TotalScales
  <2>7. \A R \in SUBSET Team(c) : Total(P, R) \in Int
    BY <1>4, <1>11, TotalAdds
  <2>8. ASSUME NEW R \in SUBSET Team(c), R \cap L = {}
        PROVE  Total(P, R \cup L) = Total(P, R) + Total(P, L)
    <3>1. L \in SUBSET Team(c)
      BY <1>5
    <3> QED
      BY <1>4, <1>11, <2>8, <3>1, TotalUnion
  <2>9. Total(points, K) = 2 * Total(P, K) /\ Total(points, S) = 2 * Total(P, S)
    BY <1>9, <1>10, <2>6
  <2>10. /\ Total(P, K \cup L) = Total(P, K) + Total(P, L)
         /\ Total(P, S \cup L) = Total(P, S) + Total(P, L)
    BY <1>9, <1>10, <2>8
  <2>11. Total(P, K) \in Int /\ Total(P, S) \in Int /\ Total(P, L) \in Int
    BY <1>5, <1>9, <1>10, <2>7
  <2>12. Total(P, S \cup L) >= Total(P, K \cup L)
    BY <2>5, <2>9, <2>10, <2>11
  <2> QED
    BY <2>12, <1>7 DEF Points, P
<1> HIDE DEF L, S, K, n, pool, P, points
<1> QED
  BY <1>1, <1>3, <1>6, <1>8, <1>13 DEF NeverWorse

-----------------------------------------------------------------------------
(* The lineup job as a specification: a case, and at most one report.       *)

LineupIsAnswered ==
  /\ IsLineupCase(case)
  /\ report = Unanswered \/ \E lineup \in Solved(case) : report = LineupReport(case, lineup)

LEMMA LineupAnswers ==
  LineupSpec => []LineupIsAnswered
<1>1. LineupInit => LineupIsAnswered
  BY DEF LineupInit, LineupIsAnswered
<1>2. LineupIsAnswered /\ [LineupRun]_adviceVars => LineupIsAnswered'
  BY DEF LineupIsAnswered, LineupRun, Answer, Asked, adviceVars
<1> QED
  BY <1>1, <1>2, PTL DEF LineupSpec

(***************************************************************************)
(* Whatever roster the lineup job is handed, its swaps can be followed in  *)
(* order: who comes in can play and was not starting, who goes out starts, *)
(* is not locked and not wanted elsewhere, nobody is moved twice (run,     *)
(* src/season/lineup.py).                                                  *)
(***************************************************************************)
THEOREM SwapsCanAlwaysBeMade ==
  LineupSpec => [](Answered("lineup") => SwapsCanBeMade)
<1>1. LineupIsAnswered => (Answered("lineup") => SwapsCanBeMade)
  BY SwapsCan DEF LineupIsAnswered, Answered
<1> QED
  BY <1>1, LineupAnswers, PTL

(***************************************************************************)
(* And of a roster that is legal as it is set the advice is sound: a       *)
(* starter who cannot play is taken out whenever a full lineup can be had, *)
(* the lineup fits the league's slots beside the settled starters, and in  *)
(* neutral mode it is never worth less than the one that was set.          *)
(***************************************************************************)
THEOREM LineupIsAlwaysSound ==
  LineupSpec => []LineupIsSound
<1>1. LineupIsAnswered => LineupIsSound
  BY SwapsCan, DeadAreOut, LineupIsNeverWorse DEF LineupIsAnswered, LineupIsSound, Answered
<1> QED
  BY <1>1, LineupAnswers, PTL

-----------------------------------------------------------------------------
(* The recap: the walk that finds the mistakes.                             *)

Dones(c) == [displaced : SUBSET WereStarted(c),
             found : SUBSET [benched : DOMAIN c.players, started : WereStarted(c)]]

\* The recursion of Mistakes, step by step.
RecapWalk(c, lineup, walks) ==
  /\ Mistakes(c, lineup) = {done.found : done \in walks[Len(c.slots)]}
  /\ walks[0] = {[displaced |-> {}, found |-> {}]}
  /\ \A s \in 0..(Len(c.slots) - 1) :
       walks[s + 1] = UNION {AfterSlot(c, lineup, done, s + 1) : done \in walks[s]}
  /\ \A s \in 0..Len(c.slots) : walks[s] \subseteq Dones(c)

LEMMA AfterSlotType ==
  ASSUME NEW c, IsRecapCase(c), NEW lineup \in Lineups(c.players, c.slots),
         NEW s \in 1..Len(c.slots), NEW done \in Dones(c)
  PROVE  AfterSlot(c, lineup, done, s) \subseteq Dones(c)
<1>1. done.displaced \subseteq WereStarted(c)
      /\ done.found \subseteq [benched : DOMAIN c.players, started : WereStarted(c)]
  BY DEF Dones
<1>2. CASE lineup[s] = Nobody \/ Holders(c, lineup, done, s) = {}
  BY <1>2 DEF AfterSlot
<1>3. CASE ~(lineup[s] = Nobody \/ Holders(c, lineup, done, s) = {})
  <2>1. lineup[s] \in DOMAIN c.players
    <3>1. DOMAIN c.slots = 1..Len(c.slots)
      BY DEF IsRecapCase
    <3> QED
      BY <3>1, <1>3 DEF Lineups
  <2>2. ASSUME NEW k \in Holders(c, lineup, done, s)
        PROVE  Blame(c, lineup, done, s, k) \in Dones(c)
    <3>1. k \in WereStarted(c)
      BY DEF Holders
    <3>2. PICK found : found = done.found \cup
            (IF CostsPoints(Scored(c, lineup[s]), Scored(c, k))
               THEN {[benched |-> lineup[s], started |-> k]} ELSE {})
      OBVIOUS
    <3>3. found \subseteq [benched : DOMAIN c.players, started : WereStarted(c)]
      BY <1>1, <2>1, <3>1, <3>2
    <3>4. done.displaced \cup {k} \subseteq WereStarted(c)
      BY <1>1, <3>1
    <3>5. Blame(c, lineup, done, s, k) = [displaced |-> done.displaced \cup {k}, found |-> found]
      BY <3>2 DEF Blame
    <3> QED
      BY <3>3, <3>4, <3>5 DEF Dones
  <2>3. AfterSlot(c, lineup, done, s) =
          {Blame(c, lineup, done, s, k) : k \in Holders(c, lineup, done, s)}
    BY <1>3 DEF AfterSlot
  <2> QED
    BY <2>2, <2>3
<1> QED
  BY <1>2, <1>3

LEMMA RecapWalks ==
  ASSUME NEW c, IsRecapCase(c), NEW lineup \in Lineups(c.players, c.slots)
  PROVE  \E walks : RecapWalk(c, lineup, walks)
<1> DEFINE n == Len(c.slots)
           T == SUBSET Dones(c)
           Next(W, s) == UNION {AfterSlot(c, lineup, done, s) : done \in W}
           base == {[displaced |-> {}, found |-> {}]}
           step == [z \in (1..n) \X T |-> Next(z[2], z[1])]
           Is(g) == g = [s \in 0..n |-> IF s = 0 THEN base ELSE Next(g[s - 1], s)]
           walks == CHOOSE g : Is(g)
<1>1. n \in Nat
  BY DEF IsRecapCase
<1>2. base \in T
  BY DEF Dones
<1>3. \A s \in 1..n : \A W \in T : Next(W, s) \in T
  <2>1. \A s \in 1..n : \A done \in Dones(c) : AfterSlot(c, lineup, done, s) \subseteq Dones(c)
    BY AfterSlotType
  <2> QED
    BY <2>1
<1> HIDE DEF T, Next, base
<1>4. PICK g : Iterated(g, n, T, base, step)
  <2>1. \A s \in 1..n : \A W \in T : step[<<s, W>>] \in T
    BY <1>3
  <2> HIDE DEF step, n
  <2> QED
    BY <1>1, <1>2, <2>1, Iterates
<1>5. g \in [0..n -> T] /\ g[0] = base /\ \A s \in 1..n : g[s] = step[<<s, g[s - 1]>>]
  BY <1>4 DEF Iterated
<1>6. Is(g)
  <2>1. ASSUME NEW s \in 0..n, s # 0
        PROVE  g[s] = Next(g[s - 1], s)
    <3>1. s \in 1..n /\ s - 1 \in 0..n
      BY <1>1, <2>1
    <3>2. g[s - 1] \in T
      BY <1>5, <3>1
    <3>3. step[<<s, g[s - 1]>>] = Next(g[s - 1], s)
      BY <3>1, <3>2
    <3> HIDE DEF step
    <3> QED
      BY <3>1, <3>3, <1>5
  <2> HIDE DEF step
  <2> QED
    BY <1>5, <2>1
<1>7. Is(walks)
  BY <1>6
<1>8. Mistakes(c, lineup) = {done.found : done \in walks[n]}
  BY DEF Mistakes, Next, base
<1> HIDE DEF walks, step
<1>9. walks[0] = base
  BY <1>1, <1>7
<1>10. \A s \in 0..(n - 1) : walks[s + 1] = Next(walks[s], s + 1)
  <2> SUFFICES ASSUME NEW s \in 0..(n - 1)
               PROVE  walks[s + 1] = Next(walks[s], s + 1)
    OBVIOUS
  <2>1. s + 1 \in 0..n /\ s + 1 # 0 /\ (s + 1) - 1 = s
    BY <1>1
  <2> QED
    BY <1>7, <2>1
<1> DEFINE Good == {s \in 0..n : walks[s] \in T}
<1>11. 0 \in Good
  BY <1>1, <1>2, <1>9
<1>12. ASSUME NEW s \in 0..(n - 1), s \in Good
       PROVE  s + 1 \in Good
  <2>1. s + 1 \in 1..n /\ s + 1 \in 0..n
    BY <1>1
  <2>2. walks[s] \in T
    BY <1>12
  <2>3. Next(walks[s], s + 1) \in T
    BY <1>3, <2>1, <2>2
  <2> QED
    BY <1>10, <2>1, <2>3
<1> HIDE DEF Good
<1>13. 0..n \subseteq Good
  BY <1>1, <1>11, <1>12, Climb
<1>14. \A s \in 0..n : walks[s] \subseteq Dones(c)
  BY <1>13 DEF Good, T
<1> QED
  BY <1>8, <1>9, <1>10, <1>14 DEF RecapWalk, Next, base

\* A step of the walk leaves what was done, or displaces and blames one.
LEMMA AfterSlotIs ==
  ASSUME NEW c, NEW lineup, NEW done, NEW s, NEW next \in AfterSlot(c, lineup, done, s)
  PROVE  \/ (lineup[s] = Nobody \/ Holders(c, lineup, done, s) = {}) /\ next = done
         \/ /\ lineup[s] # Nobody
            /\ \E k \in Holders(c, lineup, done, s) :
                 /\ next.displaced = done.displaced \cup {k}
                 /\ \/ /\ next.found = done.found
                       /\ ~(Scored(c, lineup[s]) > Scored(c, k))
                    \/ /\ next.found = done.found \cup {[benched |-> lineup[s], started |-> k]}
                       /\ Scored(c, lineup[s]) > Scored(c, k)
<1>1. CASE lineup[s] = Nobody \/ Holders(c, lineup, done, s) = {}
  BY <1>1 DEF AfterSlot
<1>2. CASE ~(lineup[s] = Nobody \/ Holders(c, lineup, done, s) = {})
  <2>1. PICK k \in Holders(c, lineup, done, s) : next = Blame(c, lineup, done, s, k)
    BY <1>2 DEF AfterSlot
  <2>2. /\ next.displaced = done.displaced \cup {k}
        /\ next.found = done.found \cup
             (IF Scored(c, lineup[s]) > Scored(c, k)
                THEN {[benched |-> lineup[s], started |-> k]} ELSE {})
    BY <2>1 DEF Blame, CostsPoints
  <2>3. CASE Scored(c, lineup[s]) > Scored(c, k)
    BY <1>2, <2>2, <2>3
  <2>4. CASE ~(Scored(c, lineup[s]) > Scored(c, k))
    BY <1>2, <2>2, <2>4
  <2> QED
    BY <2>3, <2>4
<1> QED
  BY <1>1, <1>2

\* What has been found when the walk has seen the first n slots.
FoundIs(c, lineup, n, done) ==
  /\ \A m \in done.found :
       /\ m.started \in done.displaced
       /\ Scored(c, m.benched) > Scored(c, m.started)
       /\ \E t \in 1..n : /\ lineup[t] = m.benched /\ lineup[t] # Nobody
                          /\ c.players[m.started].slot = c.slots[t]
  /\ \A m, o \in done.found : m # o => m.started # o.started /\ m.benched # o.benched

LEMMA FoundKeeps ==
  ASSUME NEW c, IsRecapCase(c), NEW lineup \in Lineups(c.players, c.slots),
         NEW n \in 0..(Len(c.slots) - 1), NEW done \in Dones(c), FoundIs(c, lineup, n, done),
         NEW next \in AfterSlot(c, lineup, done, n + 1)
  PROVE  FoundIs(c, lineup, n + 1, next)
<1> DEFINE At(m, t) == /\ lineup[t] = m.benched /\ lineup[t] # Nobody
                       /\ c.players[m.started].slot = c.slots[t]
           Fair(m) == Scored(c, m.benched) > Scored(c, m.started)
<1>1. n \in Nat /\ Len(c.slots) \in Nat /\ DOMAIN c.slots = 1..Len(c.slots)
  BY DEF IsRecapCase
<1>2. /\ \A m \in done.found : m.started \in done.displaced
      /\ \A m \in done.found : Fair(m)
      /\ \A m \in done.found : \E t \in 1..n : At(m, t)
      /\ \A m, o \in done.found : m # o => m.started # o.started /\ m.benched # o.benched
  BY DEF FoundIs
<1>3. 1..(n + 1) = (1..n) \cup {n + 1} /\ n + 1 \in 1..Len(c.slots) /\ 1..n \subseteq 1..Len(c.slots)
      /\ n + 1 \notin 1..n
  BY <1>1
<1>4. CASE next = done
  BY <1>2, <1>3, <1>4 DEF FoundIs
<1>5. CASE next # done
  <2>1. PICK k \in Holders(c, lineup, done, n + 1) :
          /\ lineup[n + 1] # Nobody
          /\ next.displaced = done.displaced \cup {k}
          /\ \/ next.found = done.found
             \/ /\ next.found = done.found \cup {[benched |-> lineup[n + 1], started |-> k]}
                /\ Scored(c, lineup[n + 1]) > Scored(c, k)
    BY <1>5, AfterSlotIs
  <2>2. k \notin done.displaced /\ c.players[k].slot = c.slots[n + 1]
    BY DEF Holders
  <2> HIDE DEF Fair, At
  <2>3. CASE next.found = done.found
    <3>1. \A m \in next.found : m.started \in next.displaced
      BY <1>2, <2>1, <2>3
    <3>2. \A m \in next.found : \E t \in 1..(n + 1) : At(m, t)
      BY <1>2, <1>3, <2>3
    <3> QED
      BY <1>2, <2>3, <3>1, <3>2 DEF FoundIs, Fair, At
  <2>4. CASE /\ next.found = done.found \cup {[benched |-> lineup[n + 1], started |-> k]}
             /\ Scored(c, lineup[n + 1]) > Scored(c, k)
    <3>1. PICK new : new = [benched |-> lineup[n + 1], started |-> k]
      OBVIOUS
    <3>2. new.benched = lineup[n + 1] /\ new.started = k
      BY <3>1
    <3>3. next.found = done.found \cup {new}
      BY <2>4, <3>1
    <3>4. Fair(new) /\ At(new, n + 1)
      BY <2>1, <2>2, <2>4, <3>2 DEF Fair, At
    <3>5. \A m \in next.found : m.started \in next.displaced
      BY <1>2, <2>1, <3>2, <3>3
    <3>6. \A m \in next.found : Fair(m)
      BY <1>2, <3>3, <3>4
    <3>7. \A m \in next.found : \E t \in 1..(n + 1) : At(m, t)
      BY <1>2, <1>3, <3>3, <3>4
    <3>8. \A m \in done.found : m.started # new.started /\ m.benched # new.benched
      <4> SUFFICES ASSUME NEW m \in done.found
                   PROVE  m.started # new.started /\ m.benched # new.benched
        OBVIOUS
      <4>1. m.started # new.started
        BY <1>2, <2>2, <3>2
      <4>2. PICK t \in 1..n : lineup[t] = m.benched /\ lineup[t] # Nobody
        BY <1>2 DEF At
      <4>3. lineup[t] # lineup[n + 1]
        <5>1. t \in DOMAIN c.slots /\ n + 1 \in DOMAIN c.slots /\ t # n + 1
          BY <1>1, <1>3
        <5> QED
          BY <4>2, <5>1 DEF Lineups
      <4> QED
        BY <4>1, <4>2, <4>3, <3>2
    <3>9. \A m, o \in next.found : m # o => m.started # o.started /\ m.benched # o.benched
      BY <1>2, <3>3, <3>8
    <3> QED
      BY <3>5, <3>6, <3>7, <3>9 DEF FoundIs, Fair, At
  <2> QED
    BY <2>1, <2>3, <2>4
<1> QED
  BY <1>4, <1>5

LEMMA MistakesAreReal ==
  ASSUME NEW c, IsRecapCase(c), NEW lineup \in Lineups(c.players, c.slots),
         NEW wrong \in Mistakes(c, lineup)
  PROVE  \E done \in Dones(c) : done.found = wrong /\ FoundIs(c, lineup, Len(c.slots), done)
<1> DEFINE n == Len(c.slots)
<1>1. PICK walks : RecapWalk(c, lineup, walks)
  BY RecapWalks
<1>2. /\ Mistakes(c, lineup) = {done.found : done \in walks[n]}
      /\ walks[0] = {[displaced |-> {}, found |-> {}]}
      /\ \A s \in 0..(n - 1) : walks[s + 1] = UNION {AfterSlot(c, lineup, done, s + 1) : done \in walks[s]}
      /\ \A s \in 0..n : walks[s] \subseteq Dones(c)
  BY <1>1 DEF RecapWalk
<1>3. n \in Nat
  BY DEF IsRecapCase
<1> DEFINE Good == {s \in 0..n : \A done \in walks[s] : FoundIs(c, lineup, s, done)}
<1>4. 0 \in Good
  BY <1>2, <1>3 DEF FoundIs
<1>5. ASSUME NEW s \in 0..(n - 1), s \in Good
      PROVE  s + 1 \in Good
  <2> SUFFICES ASSUME NEW next \in walks[s + 1]
               PROVE  FoundIs(c, lineup, s + 1, next)
    BY <1>3
  <2>1. next \in UNION {AfterSlot(c, lineup, done, s + 1) : done \in walks[s]}
    BY ONLY <1>2, s \in 0..(n - 1), next \in walks[s + 1]
  <2>2. PICK done \in walks[s] : next \in AfterSlot(c, lineup, done, s + 1)
    BY ONLY <2>1
  <2>3. done \in Dones(c) /\ FoundIs(c, lineup, s, done)
    BY <1>2, <1>3, <1>5
  <2> HIDE DEF Good
  <2> QED
    BY <2>2, <2>3, FoundKeeps
<1> HIDE DEF Good
<1>6. 0..n \subseteq Good
  BY <1>3, <1>4, <1>5, Climb
<1>7. \A done \in walks[n] : FoundIs(c, lineup, n, done)
  BY <1>3, <1>6 DEF Good
<1> QED
  BY <1>2, <1>3, <1>7

(***************************************************************************)
(* Of a full lineup each of the first n slots can be given a starter of    *)
(* its name, another for each, so that whoever was displaced is given to   *)
(* one; and while no mistake is found he scored no less than the best      *)
(* lineup's player of that slot.                                           *)
(***************************************************************************)
Matched(c, lineup, n, done, h) ==
  /\ h \in [1..n -> WereStarted(c)]
  /\ \A t, u \in 1..n : t # u => h[t] # h[u]
  /\ \A t \in 1..n : c.players[h[t]].slot = c.slots[t]
  /\ \A k \in done.displaced : \E t \in 1..n : h[t] = k
  /\ \A t \in 1..n : h[t] \notin done.displaced =>
       \A k \in WereStarted(c) : c.players[k].slot = c.slots[t] => \E u \in 1..n : h[u] = k
  /\ done.found = {} => \A t \in 1..n : Scored(c, lineup[t]) <= Scored(c, h[t])

\* A full lineup: `at` is in which slot each of its players started.
FullStart(c, at) ==
  /\ at \in [1..Len(c.slots) -> WereStarted(c)]
  /\ \A s, t \in 1..Len(c.slots) : s # t => at[s] # at[t]
  /\ \A s \in 1..Len(c.slots) : c.players[at[s]].slot = c.slots[s]
  /\ \A k \in WereStarted(c) : \E s \in 1..Len(c.slots) : at[s] = k

LEMMA SomeoneIsLeft ==
  ASSUME NEW c, IsRecapCase(c), NEW at, FullStart(c, at),
         NEW n \in 0..(Len(c.slots) - 1), NEW h \in [1..n -> WereStarted(c)],
         \A t \in 1..n : c.players[h[t]].slot = c.slots[t]
  PROVE  \E k \in WereStarted(c) :
           c.players[k].slot = c.slots[n + 1] /\ \A t \in 1..n : h[t] # k
<1> DEFINE N == Len(c.slots)
           A == {t \in 1..N : c.slots[t] = c.slots[n + 1]}
           B == {t \in 1..n : c.slots[t] = c.slots[n + 1]}
           f == [a \in A |-> CHOOSE t \in B : h[t] = at[a]]
<1> SUFFICES ASSUME \A k \in WereStarted(c) :
                      c.players[k].slot = c.slots[n + 1] => \E t \in 1..n : h[t] = k
             PROVE  FALSE
  OBVIOUS
<1>1. N \in Nat /\ n \in Nat /\ n + 1 \in 1..N /\ n + 1 \notin 1..n /\ 1..n \subseteq 1..N
  BY DEF IsRecapCase
<1>2. \A a \in A : \E t \in B : h[t] = at[a]
  <2> SUFFICES ASSUME NEW a \in A
               PROVE  \E t \in B : h[t] = at[a]
    OBVIOUS
  <2>1. at[a] \in WereStarted(c) /\ c.players[at[a]].slot = c.slots[n + 1]
    BY DEF FullStart
  <2>2. PICK t \in 1..n : h[t] = at[a]
    BY <2>1
  <2>3. c.slots[t] = c.slots[n + 1]
    BY <2>1, <2>2
  <2> QED
    BY <2>2, <2>3
<1>3. f \in [A -> B] /\ \A a \in A : h[f[a]] = at[a]
  BY <1>2
<1>4. IsFiniteSet(A)
  <2>1. IsFiniteSet(1..N)
    <3>1. PICK m \in Nat : m = N
      BY <1>1
    <3>2. IsFiniteSet(1..m)
      BY NumbersTo
    <3> QED
      BY <3>1, <3>2
  <2>2. A \subseteq 1..N
    OBVIOUS
  <2> QED
    BY <2>1, <2>2, FS_Subset
<1>5. B \subseteq A /\ n + 1 \in A /\ n + 1 \notin B
  BY <1>1
<1> HIDE DEF A, B, f
<1>6. /\ IsFiniteSet(B) /\ Cardinality(B) <= Cardinality(A)
      /\ Cardinality(A) = Cardinality(B) => A = B
      /\ Cardinality(A) \in Nat /\ Cardinality(B) \in Nat
  BY <1>4, <1>5, FS_Subset, FS_CardinalityType
<1>7. Cardinality(B) < Cardinality(A)
  BY <1>5, <1>6
<1>8. PICK x \in A, y \in A : x # y /\ f[x] = f[y]
  BY <1>3, <1>4, <1>6, <1>7, FS_PigeonHole
<1>9. at[x] = at[y] /\ x \in 1..N /\ y \in 1..N
  BY <1>3, <1>8 DEF A
<1> QED
  BY <1>8, <1>9 DEF FullStart

LEMMA MatchGrows ==
  ASSUME NEW c, IsRecapCase(c), NEW lineup, NEW at, FullStart(c, at),
         NEW n \in 0..(Len(c.slots) - 1), lineup[n + 1] # Nobody,
         \A k \in WereStarted(c) : Scored(c, k) \in Int, Scored(c, lineup[n + 1]) \in Int,
         NEW done, NEW h, Matched(c, lineup, n, done, h),
         NEW next \in AfterSlot(c, lineup, done, n + 1)
  PROVE  \E g : Matched(c, lineup, n + 1, next, g)
<1> DEFINE X == c.slots[n + 1]
           slot(k) == c.players[k].slot
           Given(k) == \E t \in 1..n : h[t] = k
<1>1. /\ h \in [1..n -> WereStarted(c)]
      /\ \A t, u \in 1..n : t # u => h[t] # h[u]
      /\ \A t \in 1..n : slot(h[t]) = c.slots[t]
      /\ \A k \in done.displaced : Given(k)
      /\ \A t \in 1..n : h[t] \notin done.displaced =>
           \A k \in WereStarted(c) : slot(k) = c.slots[t] => Given(k)
      /\ done.found = {} => \A t \in 1..n : Scored(c, lineup[t]) <= Scored(c, h[t])
  BY DEF Matched
<1>2. PICK left \in WereStarted(c) : slot(left) = X /\ ~Given(left)
  <2>1. \A t \in 1..n : c.players[h[t]].slot = c.slots[t]
    BY <1>1
  <2>2. PICK left \in WereStarted(c) :
          c.players[left].slot = c.slots[n + 1] /\ \A t \in 1..n : h[t] # left
    <3>1. h \in [1..n -> WereStarted(c)]
      BY <1>1
    <3> HIDE DEF X, slot, Given
    <3>2. \E k \in WereStarted(c) :
            c.players[k].slot = c.slots[n + 1] /\ \A t \in 1..n : h[t] # k
      BY <2>1, <3>1, SomeoneIsLeft
    <3> QED
      BY <3>2
  <2> QED
    BY <2>2
<1>3. \A k \in WereStarted(c) : slot(k) = X /\ Given(k) => k \in done.displaced
  BY <1>1, <1>2
<1>4. n \in Nat /\ 1..(n + 1) = (1..n) \cup {n + 1} /\ n + 1 \notin 1..n
  BY DEF IsRecapCase
<1>5. ASSUME NEW k \in WereStarted(c), slot(k) = X, ~Given(k),
             next.displaced = done.displaced \/ next.displaced = done.displaced \cup {k},
             k \notin next.displaced =>
               \A o \in WereStarted(c) : slot(o) = X /\ o # k => Given(o),
             next.found = {} => done.found = {} /\ Scored(c, lineup[n + 1]) <= Scored(c, k)
      PROVE  \E g : Matched(c, lineup, n + 1, next, g)
  <2>1. PICK g : g = [t \in 1..(n + 1) |-> IF t = n + 1 THEN k ELSE h[t]]
    OBVIOUS
  <2>2. /\ g \in [1..(n + 1) -> WereStarted(c)]
        /\ g[n + 1] = k /\ \A t \in 1..n : g[t] = h[t]
    BY <1>1, <1>4, <1>5, <2>1
  <2> DEFINE Now(o) == \E t \in 1..(n + 1) : g[t] = o
  <2>3. Now(k) /\ \A o : Given(o) => Now(o)
    BY <1>4, <2>2
  <2>4. \A t, u \in 1..(n + 1) : t # u => g[t] # g[u]
    BY <1>1, <1>4, <1>5, <2>2
  <2>5. \A t \in 1..(n + 1) : slot(g[t]) = c.slots[t]
    BY <1>1, <1>4, <1>5, <2>2
  <2>6. \A o \in next.displaced : Now(o)
    <3>1. \A o \in done.displaced : Given(o)
      BY <1>1
    <3>2. next.displaced \subseteq done.displaced \cup {k}
      BY ONLY <1>5
    <3> HIDE DEF Given, Now
    <3> QED
      BY ONLY <3>1, <3>2, <2>3
  <2>7. ASSUME NEW t \in 1..(n + 1), g[t] \notin next.displaced,
               NEW o \in WereStarted(c), slot(o) = c.slots[t]
        PROVE  Now(o)
    <3>1. CASE t = n + 1
      BY <1>5, <2>2, <2>3, <2>7, <3>1
    <3>2. CASE t \in 1..n
      <4>1. h[t] \notin done.displaced
        BY <1>5, <2>2, <2>7, <3>2
      <4> QED
        BY <1>1, <2>3, <2>7, <3>2, <4>1
    <3> QED
      BY <1>4, <3>1, <3>2
  <2>8. ASSUME next.found = {}, NEW t \in 1..(n + 1)
        PROVE  Scored(c, lineup[t]) <= Scored(c, g[t])
    BY <1>1, <1>4, <1>5, <2>2, <2>8
  <2> QED
    BY <2>2, <2>4, <2>5, <2>6, <2>7, <2>8 DEF Matched
<1>6. CASE Holders(c, lineup, done, n + 1) = {}
  <2>1. next = done
    BY <1>6, AfterSlotIs
  <2>2. left \notin done.displaced
    BY <1>1, <1>2
  <2>3. \A o \in WereStarted(c) : slot(o) = X /\ o \notin done.displaced => o = lineup[n + 1]
    BY <1>6 DEF Holders
  <2>4. left = lineup[n + 1]
    BY <1>2, <2>2, <2>3
  <2>5. \A o \in WereStarted(c) : slot(o) = X /\ o # left => Given(o)
    <3> SUFFICES ASSUME NEW o \in WereStarted(c), slot(o) = X, o # left
                 PROVE  Given(o)
      OBVIOUS
    <3>1. o \in done.displaced
      BY <2>3, <2>4
    <3> QED
      BY <1>1, <3>1
  <2>6. Scored(c, lineup[n + 1]) <= Scored(c, left)
    BY <2>4
  <2> HIDE DEF X, slot, Given
  <2> QED
    BY <1>2, <1>5, <2>1, <2>5, <2>6
<1>7. CASE Holders(c, lineup, done, n + 1) # {}
  <2>1. PICK k \in Holders(c, lineup, done, n + 1) :
          /\ next.displaced = done.displaced \cup {k}
          /\ \/ next.found = done.found /\ ~(Scored(c, lineup[n + 1]) > Scored(c, k))
             \/ next.found = done.found \cup {[benched |-> lineup[n + 1], started |-> k]}
    BY <1>7, AfterSlotIs
  <2>2. k \in WereStarted(c) /\ slot(k) = X /\ k \notin done.displaced
    BY DEF Holders
  <2>3. ~Given(k)
    BY <1>3, <2>2
  <2>4. next.found = {} => done.found = {} /\ Scored(c, lineup[n + 1]) <= Scored(c, k)
    <3>1. CASE next.found = done.found /\ ~(Scored(c, lineup[n + 1]) > Scored(c, k))
      <4>1. PICK x \in Int, y \in Int : x = Scored(c, lineup[n + 1]) /\ y = Scored(c, k)
        BY <2>2
      <4>2. x <= y
        BY <3>1, <4>1
      <4> QED
        BY <3>1, <4>1, <4>2
    <3>2. CASE next.found = done.found \cup {[benched |-> lineup[n + 1], started |-> k]}
      BY <3>2
    <3> QED
      BY <2>1, <3>1, <3>2
  <2> HIDE DEF X, slot, Given
  <2> QED
    BY <1>5, <2>1, <2>2, <2>3, <2>4
<1> QED
  BY <1>6, <1>7

Held(a, n) == {a[t] : t \in 1..n}

\* What n players score is no more than what n others do, if none scored more.
LEMMA TotalCompares ==
  ASSUME NEW S, IsFiniteSet(S), NEW f, \A x \in S : f[x] \in Int,
         NEW n \in Nat, NEW a \in [1..n -> S], NEW b \in [1..n -> S],
         \A t, u \in 1..n : t # u => a[t] # a[u] /\ b[t] # b[u],
         \A t \in 1..n : f[a[t]] <= f[b[t]]
  PROVE  Total(f, Held(a, n)) <= Total(f, Held(b, n))
<1> DEFINE A(i) == {a[t] : t \in 1..i}
           B(i) == {b[t] : t \in 1..i}
           Good == {i \in 0..n : Total(f, A(i)) <= Total(f, B(i))}
<1>1. /\ Total(f, {}) = 0
      /\ \A R \in SUBSET S : Total(f, R) \in Int
      /\ \A R \in SUBSET S : \A x \in S \ R : Total(f, R \cup {x}) = Total(f, R) + f[x]
  BY TotalAdds
<1>2. 0 \in Good
  <2>1. A(0) = {} /\ B(0) = {}
    OBVIOUS
  <2> HIDE DEF A, B
  <2>2. Total(f, A(0)) = 0 /\ Total(f, B(0)) = 0
    BY <1>1, <2>1
  <2> QED
    BY <2>2
<1>3. ASSUME NEW i \in 0..(n - 1), i \in Good
      PROVE  i + 1 \in Good
  <2>1. i \in Nat /\ i + 1 \in 1..n /\ i + 1 \in 0..n /\ i + 1 \notin 1..i
        /\ 1..(i + 1) = (1..i) \cup {i + 1} /\ 1..i \subseteq 1..n
    OBVIOUS
  <2>2. PICK x : x = a[i + 1]
    OBVIOUS
  <2>3. PICK y : y = b[i + 1]
    OBVIOUS
  <2>4. /\ A(i) \in SUBSET S /\ x \in S \ A(i) /\ A(i + 1) = A(i) \cup {x}
        /\ B(i) \in SUBSET S /\ y \in S \ B(i) /\ B(i + 1) = B(i) \cup {y}
        /\ f[x] <= f[y]
    BY <2>1, <2>2, <2>3
  <2>5. Total(f, A(i)) <= Total(f, B(i))
    BY <1>3
  <2> HIDE DEF A, B, Good
  <2>6. Total(f, A(i + 1)) = Total(f, A(i)) + f[x]
    BY <1>1, <2>4
  <2>7. Total(f, B(i + 1)) = Total(f, B(i)) + f[y]
    BY <1>1, <2>4
  <2>8. /\ Total(f, A(i)) \in Int /\ Total(f, B(i)) \in Int /\ f[x] \in Int /\ f[y] \in Int
    BY <1>1, <2>4
  <2>9. Total(f, A(i + 1)) <= Total(f, B(i + 1))
    BY <2>4, <2>5, <2>6, <2>7, <2>8
  <2> QED
    BY <2>1, <2>9 DEF Good
<1> HIDE DEF Good
<1>4. 0..n \subseteq Good
  BY <1>2, <1>3, Climb
<1>5. n \in Good
  BY <1>4
<1>6. Held(a, n) = A(n) /\ Held(b, n) = B(n)
  BY DEF Held
<1> HIDE DEF A, B
<1> QED
  BY <1>5, <1>6 DEF Good

LEMMA ScoresAre ==
  ASSUME NEW c, IsRecapCase(c)
  PROVE  /\ \A k \in DOMAIN c.players : Scored(c, k) \in Int /\ Scores(c)[k] = Scored(c, k)
         /\ Pool(c.players, c.slots, Scores(c))
         /\ WereStarted(c) \subseteq DOMAIN c.players
<1>1. \A k \in DOMAIN c.players : c.players[k].points \in Int
  BY DEF IsRecapCase
<1>2. \A k \in DOMAIN c.players : Scored(c, k) \in Int /\ Scores(c)[k] = Scored(c, k)
  BY <1>1 DEF Scores, Scored
<1>3. Pool(c.players, c.slots, Scores(c))
  BY <1>2 DEF Pool, IsRecapCase
<1> QED
  BY <1>2, <1>3 DEF WereStarted

LEMMA StartIsFull ==
  ASSUME NEW c, IsRecapCase(c), Cardinality(WereStarted(c)) = Len(c.slots),
         NEW at \in Lineups(c.players, c.slots), Starters(at) = WereStarted(c),
         \A s \in DOMAIN at : at[s] # Nobody => c.players[at[s]].slot = c.slots[s]
  PROVE  FullStart(c, at)
<1> DEFINE n == Len(c.slots)
<1>1. c.slots \in Seq(STRING) /\ n \in Nat /\ DOMAIN c.slots = 1..n /\ Nobody \notin DOMAIN c.players
  BY DEF IsRecapCase
<1>2. /\ at \in [1..n -> DOMAIN c.players \cup {Nobody}]
      /\ \A s, t \in 1..n : s # t /\ at[s] # Nobody => at[s] # at[t]
  BY <1>1 DEF Lineups
<1>3. IsComplete(at)
  BY <1>1, StartersFit
<1>4. \A s \in 1..n : at[s] # Nobody
  BY <1>2, <1>3 DEF IsComplete, Range
<1>5. WereStarted(c) = {at[s] : s \in {t \in 1..n : at[t] # Nobody}}
  BY <1>2 DEF Starters, Range
<1>6. at \in [1..n -> WereStarted(c)] /\ \A k \in WereStarted(c) : \E s \in 1..n : at[s] = k
  BY <1>2, <1>4, <1>5
<1> QED
  BY <1>2, <1>4, <1>6 DEF FullStart

LEMMA MistakesAreMatched ==
  ASSUME NEW c, IsRecapCase(c), NEW at, FullStart(c, at),
         NEW lineup \in Lineups(c.players, c.slots), \A s \in 1..Len(c.slots) : lineup[s] # Nobody,
         NEW wrong \in Mistakes(c, lineup)
  PROVE  \E done, h : done.found = wrong /\ Matched(c, lineup, Len(c.slots), done, h)
<1> DEFINE n == Len(c.slots)
<1>1. PICK walks : RecapWalk(c, lineup, walks)
  BY RecapWalks
<1>2. /\ Mistakes(c, lineup) = {done.found : done \in walks[n]}
      /\ walks[0] = {[displaced |-> {}, found |-> {}]}
      /\ \A s \in 0..(n - 1) : walks[s + 1] = UNION {AfterSlot(c, lineup, done, s + 1) : done \in walks[s]}
  BY <1>1 DEF RecapWalk
<1>3. n \in Nat /\ DOMAIN c.slots = 1..n
  BY DEF IsRecapCase
<1>4. \A k \in WereStarted(c) : Scored(c, k) \in Int
  BY ScoresAre
<1>5. \A s \in 1..n : Scored(c, lineup[s]) \in Int
  <2>1. \A s \in 1..n : lineup[s] \in DOMAIN c.players
    BY <1>3 DEF Lineups
  <2> QED
    BY <2>1, ScoresAre
<1> DEFINE Good == {s \in 0..n : \A done \in walks[s] : \E h : Matched(c, lineup, s, done, h)}
<1>6. 0 \in Good
  <2> SUFFICES ASSUME NEW done \in walks[0]
               PROVE  \E h : Matched(c, lineup, 0, done, h)
    BY <1>3
  <2>1. done.displaced = {}
    BY <1>2
  <2>2. PICK h : h = [t \in 1..0 |-> CHOOSE k \in WereStarted(c) : TRUE]
    OBVIOUS
  <2>3. h \in [1..0 -> WereStarted(c)] /\ \A t \in 1..0 : FALSE
    BY <2>2
  <2> HIDE DEF Good
  <2>4. Matched(c, lineup, 0, done, h)
    BY <2>1, <2>3 DEF Matched
  <2> QED
    BY <2>4
<1>7. ASSUME NEW s \in 0..(n - 1), s \in Good
      PROVE  s + 1 \in Good
  <2> SUFFICES ASSUME NEW next \in walks[s + 1]
               PROVE  \E g : Matched(c, lineup, s + 1, next, g)
    BY <1>3
  <2>0. next \in UNION {AfterSlot(c, lineup, done, s + 1) : done \in walks[s]}
    BY ONLY <1>2, s \in 0..(n - 1), next \in walks[s + 1]
  <2>1. PICK done \in walks[s] : next \in AfterSlot(c, lineup, done, s + 1)
    BY ONLY <2>0
  <2>2. PICK h : Matched(c, lineup, s, done, h)
    BY <1>7
  <2>3. s + 1 \in 1..n /\ lineup[s + 1] # Nobody /\ Scored(c, lineup[s + 1]) \in Int
    BY <1>3, <1>5
  <2> HIDE DEF Good
  <2> QED
    BY <1>4, <2>1, <2>2, <2>3, MatchGrows
<1> HIDE DEF Good
<1>8. 0..n \subseteq Good
  BY <1>3, <1>6, <1>7, Climb
<1>9. \A done \in walks[n] : \E h : Matched(c, lineup, n, done, h)
  BY <1>3, <1>8 DEF Good
<1>10. PICK done \in walks[n] : done.found = wrong
  BY <1>2
<1> QED
  BY <1>9, <1>10

LEMMA NothingLostUnseen ==
  ASSUME NEW c, IsRecapCase(c), StartedLegally(c, WereStarted(c)),
         Cardinality(WereStarted(c)) = Len(c.slots),
         NEW lineup \in BestLineups(c.players, c.slots, Scores(c)),
         NEW wrong \in Mistakes(c, lineup)
  PROVE  /\ Total(Scores(c), Starters(lineup)) >= Total(Scores(c), WereStarted(c))
         /\ wrong = {} =>
              Total(Scores(c), Starters(lineup)) = Total(Scores(c), WereStarted(c))
<1> DEFINE n == Len(c.slots)
           f == Scores(c)
           S == DOMAIN c.players
<1>1. c.slots \in Seq(STRING) /\ n \in Nat /\ DOMAIN c.slots = 1..n /\ Nobody \notin S /\ IsFiniteSet(S)
  BY DEF IsRecapCase
<1>2. PICK at \in Lineups(c.players, c.slots) :
        /\ Starters(at) = WereStarted(c)
        /\ \A s \in DOMAIN at : at[s] # Nobody => c.players[at[s]].slot = c.slots[s]
  BY DEF StartedLegally
<1>3. FullStart(c, at)
  BY <1>2, StartIsFull
<1>4. Pool(c.players, c.slots, f)
  BY ScoresAre
<1>5. /\ lineup \in Lineups(c.players, c.slots)
      /\ \A o \in Lineups(c.players, c.slots) :
           /\ Cardinality(Starters(o)) <= Cardinality(Starters(lineup))
           /\ Cardinality(Starters(o)) = Cardinality(Starters(lineup)) =>
                Total(f, Starters(o)) <= Total(f, Starters(lineup))
  BY <1>4, BestIsBest
<1>6. /\ Cardinality(Starters(lineup)) \in 0..n /\ Starters(lineup) \subseteq S
      /\ IsComplete(lineup) <=> Cardinality(Starters(lineup)) = n
  BY <1>1, <1>5, StartersFit
<1>7. Cardinality(Starters(lineup)) = n
  <2>1. n <= Cardinality(Starters(lineup))
    BY <1>2, <1>5
  <2> QED
    BY <2>1, <1>1, <1>6
<1>8. Total(f, WereStarted(c)) <= Total(f, Starters(lineup))
  BY <1>2, <1>5, <1>7
<1>9. WereStarted(c) \subseteq S /\ \A k \in S : f[k] \in Int
  BY ScoresAre
<1> HIDE DEF f, S
<1>10. \A R \in SUBSET S : Total(f, R) \in Int
  BY <1>1, <1>9, TotalAdds
<1>11. ASSUME wrong = {}
       PROVE  Total(f, Starters(lineup)) <= Total(f, WereStarted(c))
  <2>1. lineup \in [1..n -> S \cup {Nobody}]
        /\ \A s, t \in 1..n : s # t /\ lineup[s] # Nobody => lineup[s] # lineup[t]
    BY <1>1, <1>5 DEF Lineups, S
  <2>2. \A s \in 1..n : lineup[s] # Nobody
    BY <2>1, <1>6, <1>7 DEF IsComplete, Range
  <2>3. PICK done, h : done.found = wrong /\ Matched(c, lineup, n, done, h)
    BY <1>3, <1>5, <2>2, MistakesAreMatched
  <2>4. /\ h \in [1..n -> WereStarted(c)]
        /\ \A t, u \in 1..n : t # u => h[t] # h[u]
        /\ \A t \in 1..n : Scored(c, lineup[t]) <= Scored(c, h[t])
    BY <1>11, <2>3 DEF Matched
  <2>5. lineup \in [1..n -> S] /\ h \in [1..n -> S]
    BY <1>9, <2>1, <2>2, <2>4
  <2>6. \A t \in 1..n : f[lineup[t]] <= f[h[t]]
    <3> SUFFICES ASSUME NEW t \in 1..n
                 PROVE  f[lineup[t]] <= f[h[t]]
      OBVIOUS
    <3>1. f[lineup[t]] = Scored(c, lineup[t]) /\ f[h[t]] = Scored(c, h[t])
      BY <2>5, ScoresAre DEF f, S
    <3> QED
      BY <2>4, <3>1
  <2>7. \A t, u \in 1..n : t # u => lineup[t] # lineup[u] /\ h[t] # h[u]
    BY <2>1, <2>2, <2>4
  <2>8. Total(f, Held(lineup, n)) <= Total(f, Held(h, n))
    <3>1. PICK m \in Nat : m = n
      BY <1>1
    <3> HIDE DEF n
    <3>2. PICK a : a = lineup
      OBVIOUS
    <3>3. /\ IsFiniteSet(S) /\ \A x \in S : f[x] \in Int
          /\ a \in [1..m -> S] /\ h \in [1..m -> S]
          /\ \A t, u \in 1..m : t # u => a[t] # a[u] /\ h[t] # h[u]
          /\ \A t \in 1..m : f[a[t]] <= f[h[t]]
      BY <1>1, <1>9, <2>5, <2>6, <2>7, <3>1, <3>2
    <3>4. Total(f, Held(a, m)) <= Total(f, Held(h, m))
      BY <3>3, TotalCompares
    <3> QED
      BY <3>1, <3>2, <3>4
  <2>9. Starters(lineup) = {lineup[t] : t \in 1..n}
    BY <2>1, <2>2 DEF Starters, Range
  <2>10. WereStarted(c) = {h[t] : t \in 1..n}
    <3>1. IsFiniteSet(WereStarted(c))
      BY <1>1, <1>9, FS_Subset
    <3>2. h \in Injection(1..n, WereStarted(c))
      BY <2>4 DEF Injection, IsInjective
    <3>3. Cardinality(1..n) = n
      <4>1. n \in Nat
        BY <1>1
      <4> HIDE DEF n
      <4> QED
        BY <4>1, NumbersTo
    <3>4. h \in Surjection(1..n, WereStarted(c))
      BY <3>1, <3>2, <3>3, FS_Injection
    <3> QED
      BY <2>4, <3>4 DEF Surjection
  <2> QED
    BY <2>8, <2>9, <2>10 DEF Held
<1>12. PICK x \in Int, y \in Int : x = Total(f, Starters(lineup)) /\ y = Total(f, WereStarted(c))
  BY <1>6, <1>9, <1>10
<1>13. x >= y /\ (wrong = {} => x <= y)
  BY <1>8, <1>11, <1>12
<1>14. x >= y /\ (wrong = {} => x = y)
  BY <1>13
<1> QED
  BY <1>12, <1>14 DEF f

RecapIsAnswered ==
  /\ IsRecapCase(case)
  /\ report = Unanswered \/ report \in RecapReports(case)

LEMMA RecapIs ==
  ASSUME IsRecapCase(case), HasScores(case), report \in RecapReports(case),
         StartedLegally(case, WereStarted(case))
  PROVE  RecapIsSound
<1>1. PICK c : c = case
  OBVIOUS
<1>2. IsRecapCase(c) /\ HasScores(c) /\ StartedLegally(c, WereStarted(c))
  BY <1>1
<1>30. PICK lineup \in BestLineups(c.players, c.slots, Scores(c)) :
         \E wrong \in Mistakes(c, lineup) : report = RecapReport(c, lineup, wrong)
  BY <1>1, <1>2 DEF RecapReports
<1>3. PICK wrong \in Mistakes(c, lineup) : report = RecapReport(c, lineup, wrong)
  BY <1>30
<1>4. /\ report.mistakes = wrong /\ report.actual = Total(Scores(c), WereStarted(c))
      /\ report.optimal = Total(Scores(c), Starters(lineup))
  BY <1>3 DEF RecapReport
<1>5. lineup \in Lineups(c.players, c.slots)
  <2>1. Pool(c.players, c.slots, Scores(c))
    BY <1>2, ScoresAre
  <2> QED
    BY <2>1, BestIsBest
<1>6. PICK done \in Dones(c) : done.found = wrong /\ FoundIs(c, lineup, Len(c.slots), done)
  BY <1>2, <1>3, <1>5, MistakesAreReal
<1>7. ASSUME NEW m \in wrong
      PROVE  /\ slot_accepts(c.players[m.started].slot, c.players[m.benched].pos)
             /\ Scored(c, m.benched) > Scored(c, m.started)
             /\ m.started \in WereStarted(c)
  <2>1. Scored(c, m.benched) > Scored(c, m.started) /\ m.started \in done.displaced
    BY <1>6 DEF FoundIs
  <2>2. PICK t \in 1..Len(c.slots) : /\ lineup[t] = m.benched /\ lineup[t] # Nobody
                                     /\ c.players[m.started].slot = c.slots[t]
    BY <1>6 DEF FoundIs
  <2>3. slot_accepts(c.slots[t], c.players[lineup[t]].pos)
    <3>1. DOMAIN c.slots = 1..Len(c.slots)
      BY <1>2 DEF IsRecapCase
    <3> QED
      BY <1>5, <2>2, <3>1 DEF Lineups
  <2>4. m.started \in WereStarted(c)
    BY <2>1 DEF Dones
  <2> QED
    BY <2>1, <2>2, <2>3, <2>4
<1>8. \A m, o \in wrong : o # m => o.started # m.started /\ o.benched # m.benched
  BY <1>6 DEF FoundIs
<1>9. Cardinality(WereStarted(c)) = Len(c.slots) =>
        /\ report.optimal >= report.actual
        /\ wrong = {} => report.optimal = report.actual
  BY <1>2, <1>3, <1>4, NothingLostUnseen
<1> QED
  BY <1>1, <1>4, <1>7, <1>8, <1>9 DEF RecapIsSound

(***************************************************************************)
(* Whatever was scored, every mistake the recap reports of a legal lineup  *)
(* was one: the benched player fits the slot and scored more, nobody is    *)
(* blamed or benched twice; and when it finds none in a full lineup        *)
(* nothing was lost (run, src/season/recap.py:186).                        *)
(***************************************************************************)
THEOREM RecapIsAlwaysSound ==
  RecapSpec => []RecapIsSound
<1>1. RecapInit => RecapIsAnswered
  BY DEF RecapInit, RecapIsAnswered
<1>2. RecapIsAnswered /\ [RecapRun]_adviceVars => RecapIsAnswered'
  BY DEF RecapIsAnswered, RecapRun, Answer, Asked, adviceVars
<1>3. RecapIsAnswered => RecapIsSound
  <2>1. CASE Answered("recap") /\ HasScores(case) /\ StartedLegally(case, WereStarted(case))
    BY <2>1, RecapIs DEF RecapIsAnswered, Answered
  <2>2. CASE ~(Answered("recap") /\ HasScores(case) /\ StartedLegally(case, WereStarted(case)))
    BY <2>2 DEF RecapIsSound
  <2> QED
    BY <2>1, <2>2
<1> QED
  BY <1>1, <1>2, <1>3, PTL DEF RecapSpec

-----------------------------------------------------------------------------
(* The bye planner: how many slots a set of players fills.                  *)

Among(c, S) == Restrict(c.players, S)

LEMMA AmongIs ==
  ASSUME NEW c, IsByeCase(c), NEW S \in SUBSET DOMAIN c.players
  PROVE  /\ DOMAIN Among(c, S) = S /\ \A k \in S : Among(c, S)[k] = c.players[k]
         /\ Nobody \notin S /\ c.slots \in Seq(STRING)
         /\ Pool(Among(c, S), c.slots, [k \in S |-> c.players[k].points])
<1>1. DOMAIN Among(c, S) = S /\ \A k \in S : Among(c, S)[k] = c.players[k]
  BY DEF Among, Restrict
<1>2. IsFiniteSet(S) /\ Nobody \notin S /\ c.slots \in Seq(STRING)
  BY FS_Subset DEF IsByeCase
<1>3. \A k \in S : c.players[k].points \in Int
  BY DEF IsByeCase
<1> QED
  BY <1>1, <1>2, <1>3 DEF Pool

LEMMA FillsIs ==
  ASSUME NEW c, IsByeCase(c), NEW S \in SUBSET DOMAIN c.players
  PROVE  /\ ByeLineups(c, S) # {}
         /\ Filled(c, S) \in 0..Len(c.slots)
         /\ \A l \in ByeLineups(c, S) : /\ l \in Lineups(Among(c, S), c.slots)
                                        /\ Cardinality(Starters(l)) = Filled(c, S)
                                        /\ IsComplete(l) <=> Filled(c, S) = Len(c.slots)
         /\ \A o \in Lineups(Among(c, S), c.slots) : Cardinality(Starters(o)) <= Filled(c, S)
<1> DEFINE best == ByeLineups(c, S)
           points == [k \in S |-> c.players[k].points]
<1>1. /\ DOMAIN Among(c, S) = S /\ Nobody \notin S /\ c.slots \in Seq(STRING)
      /\ Pool(Among(c, S), c.slots, points)
  BY AmongIs
<1>2. best = BestLineups(Among(c, S), c.slots, points)
  BY DEF ByeLineups, Among
<1> HIDE DEF points, best
<1>3. /\ best # {}
      /\ \A l \in best :
           /\ l \in Lineups(Among(c, S), c.slots)
           /\ \A o \in Lineups(Among(c, S), c.slots) :
                Cardinality(Starters(o)) <= Cardinality(Starters(l))
  BY <1>1, <1>2, BestIsBest
<1>4. PICK chosen \in best : Filled(c, S) = Cardinality(Starters(chosen))
  BY <1>3 DEF Filled, best
<1>5. \A l \in Lineups(Among(c, S), c.slots) :
        /\ Cardinality(Starters(l)) \in 0..Len(c.slots)
        /\ IsComplete(l) <=> Cardinality(Starters(l)) = Len(c.slots)
  BY <1>1, StartersFit
<1>6. \A l \in best : Cardinality(Starters(l)) = Filled(c, S)
  <2> SUFFICES ASSUME NEW l \in best
               PROVE  Cardinality(Starters(l)) = Filled(c, S)
    OBVIOUS
  <2>1. /\ Cardinality(Starters(l)) <= Cardinality(Starters(chosen))
        /\ Cardinality(Starters(chosen)) <= Cardinality(Starters(l))
    BY <1>3
  <2>2. Cardinality(Starters(l)) \in 0..Len(c.slots) /\ Cardinality(Starters(chosen)) \in 0..Len(c.slots)
    BY <1>3, <1>5
  <2>3. Len(c.slots) \in Nat
    BY <1>1
  <2> QED
    BY <1>4, <2>1, <2>2, <2>3
<1>7. Filled(c, S) \in 0..Len(c.slots)
  BY <1>3, <1>4, <1>5
<1>8. \A o \in Lineups(Among(c, S), c.slots) : Cardinality(Starters(o)) <= Filled(c, S)
  BY <1>3, <1>4
<1>9. \A l \in best : /\ l \in Lineups(Among(c, S), c.slots)
                      /\ IsComplete(l) <=> Filled(c, S) = Len(c.slots)
  BY <1>3, <1>5, <1>6
<1> QED
  BY <1>3, <1>6, <1>7, <1>8, <1>9 DEF best

LEMMA LineupsGrow ==
  ASSUME NEW c, IsByeCase(c), NEW R \in SUBSET DOMAIN c.players, NEW S \in SUBSET R,
         NEW l \in Lineups(Among(c, S), c.slots)
  PROVE  l \in Lineups(Among(c, R), c.slots)
<1>1. S \in SUBSET DOMAIN c.players
  OBVIOUS
<1>2. /\ DOMAIN Among(c, S) = S /\ \A k \in S : Among(c, S)[k] = c.players[k]
      /\ Nobody \notin S
  BY <1>1, AmongIs
<1>3. DOMAIN Among(c, R) = R /\ \A k \in R : Among(c, R)[k] = c.players[k]
  BY AmongIs
<1>4. l \in [DOMAIN c.slots -> S \cup {Nobody}]
  BY <1>2 DEF Lineups
<1>5. \A s \in DOMAIN c.slots : l[s] # Nobody => Among(c, R)[l[s]] = Among(c, S)[l[s]]
  BY <1>2, <1>3, <1>4
<1> QED
  BY <1>3, <1>4, <1>5 DEF Lineups

LEMMA WithoutHim ==
  ASSUME NEW c, IsByeCase(c), NEW S \in SUBSET DOMAIN c.players, NEW k \in DOMAIN c.players \ S,
         NEW l \in Lineups(Among(c, S \cup {k}), c.slots)
  PROVE  \E r \in Lineups(Among(c, S), c.slots) : Starters(r) = Starters(l) \ {k}
<1> DEFINE R == S \cup {k}
           D == DOMAIN c.slots
<1>1. R \in SUBSET DOMAIN c.players
  OBVIOUS
<1>2. DOMAIN Among(c, S) = S /\ (\A x \in S : Among(c, S)[x] = c.players[x]) /\ Nobody \notin S
  BY AmongIs
<1>3. DOMAIN Among(c, R) = R /\ (\A x \in R : Among(c, R)[x] = c.players[x]) /\ Nobody \notin R
  BY <1>1, AmongIs
<1>4. /\ l \in [D -> R \cup {Nobody}]
      /\ \A s \in D : l[s] # Nobody => /\ slot_accepts(c.slots[s], Among(c, R)[l[s]].pos)
                                       /\ \A t \in D \ {s} : l[t] # l[s]
  BY <1>3 DEF Lineups
<1>5. PICK r : r = [s \in D |-> IF l[s] = k THEN Nobody ELSE l[s]]
  OBVIOUS
<1>6. /\ r \in [D -> S \cup {Nobody}]
      /\ \A s \in D : r[s] # Nobody => r[s] = l[s] /\ r[s] \in S
      /\ \A s \in D : l[s] # k => r[s] = l[s]
  BY <1>4, <1>5
<1>7. ASSUME NEW s \in D, r[s] # Nobody
      PROVE  /\ slot_accepts(c.slots[s], Among(c, S)[r[s]].pos)
             /\ \A t \in D \ {s} : r[t] # r[s]
  <2>1. r[s] = l[s] /\ l[s] \in S /\ l[s] # Nobody
    BY <1>6, <1>7
  <2>2. Among(c, S)[r[s]] = Among(c, R)[l[s]]
    BY <2>1, <1>2, <1>3
  <2>3. ASSUME NEW t \in D \ {s}
        PROVE  r[t] # r[s]
    BY <2>1, <1>4, <1>6, <1>7
  <2> QED
    BY <2>1, <2>2, <2>3, <1>4
<1>8. r \in Lineups(Among(c, S), c.slots)
  BY <1>2, <1>6, <1>7 DEF Lineups
<1>9. /\ Starters(l) = {l[s] : s \in {t \in D : l[t] # Nobody}}
      /\ Starters(r) = {r[s] : s \in {t \in D : r[t] # Nobody}}
  BY <1>4, <1>6 DEF Starters, Range
<1>10. \A x \in Starters(r) : x \in Starters(l) \ {k}
  BY <1>6, <1>9
<1>11. \A x \in Starters(l) \ {k} : x \in Starters(r)
  BY <1>6, <1>9
<1> QED
  BY <1>8, <1>10, <1>11

LEMMA OneMoreFills ==
  ASSUME NEW c, IsByeCase(c), NEW S \in SUBSET DOMAIN c.players, NEW k \in DOMAIN c.players \ S,
         NEW l \in ByeLineups(c, S), NEW j \in 1..Len(c.slots), l[j] = Nobody,
         slot_accepts(c.slots[j], c.players[k].pos)
  PROVE  Filled(c, S \cup {k}) = Filled(c, S) + 1
<1>1. PICK R : R = S \cup {k}
  OBVIOUS
<1>2. R \in SUBSET DOMAIN c.players /\ S \in SUBSET R /\ k \in R
  BY <1>1
<1>3. /\ DOMAIN Among(c, R) = R /\ Among(c, R)[k] = c.players[k]
      /\ Nobody \notin DOMAIN Among(c, R) /\ c.slots \in Seq(STRING)
  BY <1>2, AmongIs
<1>4. l \in Lineups(Among(c, S), c.slots) /\ Cardinality(Starters(l)) = Filled(c, S)
  BY FillsIs
<1>5. Filled(c, S) \in Nat /\ Filled(c, R) \in Nat
  BY <1>2, FillsIs
<1>6. l \in Lineups(Among(c, R), c.slots)
  BY <1>2, <1>4, LineupsGrow
<1>7. k \notin Starters(l) /\ IsFiniteSet(Starters(l))
  <2>1. DOMAIN Among(c, S) = S /\ Nobody \notin S /\ c.slots \in Seq(STRING)
    BY AmongIs
  <2>2. Starters(l) \subseteq DOMAIN Among(c, S) /\ IsFiniteSet(Starters(l))
    BY <1>4, <2>1, StartersFit
  <2> QED
    BY <2>1, <2>2
<1>8. Filled(c, R) >= Filled(c, S) + 1
  <2>1. slot_accepts(c.slots[j], Among(c, R)[k].pos)
    BY <1>3
  <2>2. k \in DOMAIN Among(c, R)
    BY <1>2, <1>3
  <2>3. PICK pool : pool = Among(c, R)
    OBVIOUS
  <2>4. /\ [l EXCEPT ![j] = k] \in Lineups(pool, c.slots)
        /\ Starters([l EXCEPT ![j] = k]) = (Starters(l) \ {l[j]}) \cup {k}
    <3>1. /\ Nobody \notin DOMAIN pool /\ c.slots \in Seq(STRING)
          /\ l \in Lineups(pool, c.slots) /\ k \in DOMAIN pool /\ k \notin Starters(l)
          /\ slot_accepts(c.slots[j], pool[k].pos)
      BY <1>3, <1>6, <1>7, <2>1, <2>2, <2>3
    <3>2. /\ [l EXCEPT ![j] = k] \in Lineups(pool, c.slots)
          /\ Starters([l EXCEPT ![j] = k]) = (Starters(l) \ {l[j]}) \cup {k}
          /\ l[j] # Nobody => l[j] \in Starters(l)
      BY ONLY <3>1, j \in 1..Len(c.slots), PutIn
    <3> QED
      BY <3>2
  <2>5. PICK more \in Lineups(pool, c.slots) : Starters(more) = (Starters(l) \ {l[j]}) \cup {k}
    BY <2>4
  <2>6. Starters(more) = Starters(l) \cup {k}
    BY <2>5 DEF Starters
  <2>7. Cardinality(Starters(more)) = Filled(c, S) + 1
    BY <1>4, <1>7, <2>6, FS_AddElement
  <2>8. Cardinality(Starters(more)) <= Filled(c, R)
    BY <1>2, <2>3, FillsIs
  <2> QED
    BY <1>5, <2>7, <2>8
<1>9. Filled(c, R) <= Filled(c, S) + 1
  <2>1. PICK o \in ByeLineups(c, R) : TRUE
    BY <1>2, FillsIs
  <2>2. o \in Lineups(Among(c, R), c.slots) /\ Cardinality(Starters(o)) = Filled(c, R)
    BY <1>2, FillsIs
  <2>3. PICK r \in Lineups(Among(c, S), c.slots) : Starters(r) = Starters(o) \ {k}
    BY <1>1, <2>2, WithoutHim
  <2>4. Cardinality(Starters(r)) <= Filled(c, S)
    BY FillsIs
  <2>5. IsFiniteSet(Starters(o))
    BY <1>3, <2>2, StartersFit
  <2>6. Cardinality(Starters(r)) >= Filled(c, R) - 1
    <3>1. Cardinality(Starters(o) \ {k}) =
            IF k \in Starters(o) THEN Cardinality(Starters(o)) - 1 ELSE Cardinality(Starters(o))
      BY <2>5, FS_RemoveElement
    <3> QED
      BY <3>1, <2>2, <2>3, <1>5
  <2>7. Cardinality(Starters(r)) \in Int
    <3>1. Cardinality(Starters(o) \ {k}) = Filled(c, R) - 1 \/ Cardinality(Starters(o) \ {k}) = Filled(c, R)
      BY <2>2, <2>5, FS_RemoveElement
    <3> QED
      BY <3>1, <2>3, <1>5
  <2> QED
    BY <1>5, <2>4, <2>6, <2>7
<1> QED
  BY <1>1, <1>5, <1>8, <1>9

\* A suggestion is a free agent who plays that week and fits the slot.
LEMMA FixForIs ==
  ASSUME NEW c, NEW wire \in Orders(c.players, c.wire), IsFiniteSet(c.wire),
         NEW slot, NEW week, FixFor(c, wire, slot, week) # Nobody
  PROVE  /\ FixFor(c, wire, slot, week) \in c.wire
         /\ c.players[FixFor(c, wire, slot, week)].bye # week
         /\ slot_accepts(slot, c.players[FixFor(c, wire, slot, week)].pos)
<1> DEFINE n == Cardinality(c.wire)
           able == {i \in 1 .. Least(WIRE_LIMIT, Len(wire)) :
                      /\ OffTheBye(c, wire[i], week)
                      /\ slot_accepts(slot, c.players[wire[i]].pos)}
<1>1. n \in Nat
  BY FS_CardinalityType
<1>2. wire \in [1..n -> c.wire]
  BY DEF Orders
<1>3. Len(wire) = n
  BY <1>1, <1>2
<1>4. Least(WIRE_LIMIT, n) \in Nat /\ Least(WIRE_LIMIT, n) <= n
  BY <1>1, HorizonAssumption DEF Least
<1>5. able \subseteq 1..n /\ able \subseteq 0..n
  BY <1>1, <1>3, <1>4
<1>6. FixFor(c, wire, slot, week) = IF able = {} THEN Nobody ELSE wire[Min(able)]
  BY DEF FixFor
<1> HIDE DEF able
<1>7. able # {}
  BY <1>6
<1>8. Min(able) \in able
  BY <1>1, <1>5, <1>7, MinIsLeast
<1>9. PICK i \in able : FixFor(c, wire, slot, week) = wire[i]
  BY <1>6, <1>7, <1>8
<1>10. wire[i] \in c.wire
  BY <1>2, <1>5, <1>9
<1> QED
  BY <1>9, <1>10 DEF able, OffTheBye

GoodWeek(c, w, week) ==
  /\ w.covered <=> Filled(c, Around(c, week)) = Len(c.slots)
  /\ \A slot \in DOMAIN w.fixes :
       w.fixes[slot] # Nobody =>
         /\ c.players[w.fixes[slot]].bye # week
         /\ Filled(c, Around(c, week) \cup {w.fixes[slot]}) = Filled(c, Around(c, week)) + 1

LEMMA WeekIsSound ==
  ASSUME NEW c, IsByeCase(c), NEW wire \in Orders(c.players, c.wire), NEW week,
         NEW lineup \in ByeLineups(c, Around(c, week)),
         NEW w, w = Outlook(c, wire, week, lineup)
  PROVE  w.week = week /\ GoodWeek(c, w, week)
<1>1. PICK S : S = Around(c, week)
  OBVIOUS
<1>2. S \subseteq c.roster /\ S \in SUBSET DOMAIN c.players
  BY <1>1 DEF Around, IsByeCase
<1>3. /\ w.week = week /\ w.covered = IsComplete(lineup)
      /\ w.fixes = [slot \in EmptySlots(c, lineup) |-> FixFor(c, wire, slot, week)]
  BY DEF Outlook
<1>4. IsComplete(lineup) <=> Filled(c, S) = Len(c.slots)
  BY <1>1, <1>2, FillsIs
<1>5. c.slots \in Seq(STRING) /\ DOMAIN c.slots = 1..Len(c.slots)
  BY DEF IsByeCase
<1>6. IsFiniteSet(c.wire) /\ c.wire \subseteq DOMAIN c.players \ c.roster
  <2>1. IsFiniteSet(DOMAIN c.players) /\ c.wire \subseteq DOMAIN c.players \ c.roster
    BY DEF IsByeCase
  <2>2. c.wire \in SUBSET DOMAIN c.players
    BY <2>1
  <2> QED
    BY <2>1, <2>2, FS_Subset
<1>7. ASSUME NEW slot \in EmptySlots(c, lineup), FixFor(c, wire, slot, week) # Nobody
      PROVE  /\ c.players[FixFor(c, wire, slot, week)].bye # week
             /\ Filled(c, S \cup {FixFor(c, wire, slot, week)}) = Filled(c, S) + 1
  <2>1. PICK k : k = FixFor(c, wire, slot, week)
    OBVIOUS
  <2>2. k \in c.wire /\ c.players[k].bye # week /\ slot_accepts(slot, c.players[k].pos)
    BY <1>6, <1>7, <2>1, FixForIs
  <2>3. PICK j \in 1..Len(c.slots) : lineup[j] = Nobody /\ slot = c.slots[j]
    BY <1>5 DEF EmptySlots
  <2>4. k \in DOMAIN c.players \ S
    BY <1>2, <1>6, <2>2
  <2>5. Filled(c, S \cup {k}) = Filled(c, S) + 1
    BY <1>1, <1>2, <2>2, <2>3, <2>4, OneMoreFills
  <2> QED
    BY <2>1, <2>2, <2>5
<1> QED
  BY <1>1, <1>3, <1>4, <1>7 DEF GoodWeek

LEMMA FixesDoFill ==
  ASSUME IsByeCase(case), report \in ByeReports(case)
  PROVE  FixesFill
<1>1. PICK c : c = case
  OBVIOUS
<1>2. IsByeCase(c) /\ report \in ByeReports(c)
  BY <1>1
<1>3. CASE report = NoRoster
  BY <1>3 DEF FixesFill, NoRoster
<1>4. CASE report # NoRoster
  <2>1. PICK wire \in Orders(c.players, c.wire), f \in ComingLineups(c) :
          report = ByeReport(c, wire, f)
    BY <1>2, <1>4 DEF ByeReports
  <2>2. report.weeks = Outlooks(c, wire, f)
    BY <2>1 DEF ByeReport
  <2>3. ASSUME NEW i \in DOMAIN report.weeks
        PROVE  GoodWeek(c, report.weeks[i], report.weeks[i].week)
    <3>1. i \in 1..BYE_HORIZON
      BY <2>2 DEF Outlooks
    <3>2. PICK week : week = c.week + i
      OBVIOUS
    <3>3. week \in ComingWeeks(c)
      BY <1>2, <3>1, <3>2, HorizonAssumption DEF IsByeCase, ComingWeeks
    <3>4. PICK lineup \in ByeLineups(c, Around(c, week)) : lineup = f[week]
      BY <3>3 DEF ComingLineups
    <3>5. PICK w : w = report.weeks[i]
      OBVIOUS
    <3>6. w = Outlook(c, wire, week, lineup)
      BY <2>2, <3>1, <3>2, <3>4, <3>5 DEF Outlooks
    <3>7. w.week = week /\ GoodWeek(c, w, week)
      BY <1>2, <3>6, WeekIsSound
    <3> QED
      BY <3>5, <3>7
  <2>4. ASSUME NEW i \in DOMAIN report.weeks
        PROVE  LET w == report.weeks[i]
                   now == Filled(c, Around(c, w.week))
               IN /\ w.covered <=> now = Len(c.slots)
                  /\ \A slot \in DOMAIN w.fixes :
                       LET fix == w.fixes[slot] IN
                       fix # Nobody =>
                         Filled(c, Around(c, w.week) \cup
                                     (IF c.players[fix].bye # w.week THEN {fix} ELSE {})) = now + 1
    <3>1. PICK w : w = report.weeks[i]
      OBVIOUS
    <3>2. GoodWeek(c, w, w.week)
      BY <2>3, <3>1
    <3>3. ASSUME NEW slot \in DOMAIN w.fixes, w.fixes[slot] # Nobody
          PROVE  Filled(c, Around(c, w.week) \cup
                             (IF c.players[w.fixes[slot]].bye # w.week THEN {w.fixes[slot]} ELSE {}))
                   = Filled(c, Around(c, w.week)) + 1
      BY <3>2, <3>3 DEF GoodWeek
    <3>4. w.covered <=> Filled(c, Around(c, w.week)) = Len(c.slots)
      BY <3>2 DEF GoodWeek
    <3> QED
      BY <3>1, <3>3, <3>4
  <2> QED
    BY <1>1, <2>4 DEF FixesFill
<1> QED
  BY <1>3, <1>4

-----------------------------------------------------------------------------
(* The ranking of a position.                                               *)

LEMMA OrdersAre ==
  ASSUME NEW players, NEW S, IsFiniteSet(S), NEW q \in Orders(players, S),
         \A k \in S : players[k].points \in Int
  PROVE  /\ Cardinality(S) \in Nat /\ q \in [1 .. Cardinality(S) -> S]
         /\ \A k \in S : \E i \in 1 .. Cardinality(S) : q[i] = k
         /\ \A i, j \in 1 .. Cardinality(S) : i <= j => players[q[i]].points >= players[q[j]].points
<1> DEFINE n == Cardinality(S)
<1>1. n \in Nat
  BY FS_CardinalityType
<1>2. /\ q \in [1..n -> S]
      /\ \A i, j \in 1..n : i < j => q[i] # q[j] /\ players[q[i]].points >= players[q[j]].points
  BY DEF Orders
<1>3. \A i, j \in 1..n : i # j => q[i] # q[j]
  <2> SUFFICES ASSUME NEW i \in 1..n, NEW j \in 1..n, i # j
               PROVE  q[i] # q[j]
    OBVIOUS
  <2>1. i < j \/ j < i
    OBVIOUS
  <2> QED
    BY <1>2, <2>1
<1>4. q \in Injection(1..n, S)
  BY <1>2, <1>3 DEF Injection, IsInjective
<1>5. Cardinality(1..n) = n
  <2> HIDE DEF n
  <2> QED
    BY <1>1, NumbersTo
<1>6. q \in Surjection(1..n, S)
  BY <1>4, <1>5, FS_Injection
<1>7. \A i, j \in 1..n : i <= j => players[q[i]].points >= players[q[j]].points
  <2> SUFFICES ASSUME NEW i \in 1..n, NEW j \in 1..n, i <= j
               PROVE  players[q[i]].points >= players[q[j]].points
    OBVIOUS
  <2>1. CASE i = j
    <3>1. players[q[i]].points \in Int
      BY <1>2
    <3> QED
      BY <2>1, <3>1
  <2>2. CASE i < j
    BY <1>2, <2>2
  <2> QED
    BY <1>1, <2>1, <2>2
<1> QED
  BY <1>1, <1>2, <1>6, <1>7 DEF Surjection

\* Those who project more than the one at rank i are ranked before him.
LEMMA FewAreBetter ==
  ASSUME NEW players, NEW S, IsFiniteSet(S), NEW q \in Orders(players, S),
         \A k \in S : players[k].points \in Int, NEW i \in 1 .. Cardinality(S)
  PROVE  i > Cardinality({o \in S : players[o].points > players[q[i]].points})
<1> DEFINE n == Cardinality(S)
           better == {o \in S : players[o].points > players[q[i]].points}
           before == [j \in 1..(i - 1) |-> q[j]]
<1>1. /\ n \in Nat /\ q \in [1..n -> S]
      /\ \A k \in S : \E j \in 1..n : q[j] = k
      /\ \A a, b \in 1..n : a <= b => players[q[a]].points >= players[q[b]].points
  BY OrdersAre
<1>2. \A o \in better : \E j \in 1..(i - 1) : q[j] = o
  <2> SUFFICES ASSUME NEW o \in better
               PROVE  \E j \in 1..(i - 1) : q[j] = o
    OBVIOUS
  <2>1. PICK j \in 1..n : q[j] = o
    BY <1>1
  <2>2. ~(i <= j)
    <3>1. i <= j => players[q[i]].points >= players[o].points
      BY <1>1, <2>1
    <3>2. players[o].points > players[q[i]].points
      OBVIOUS
    <3>3. players[o].points \in Int /\ players[q[i]].points \in Int
      BY <1>1
    <3> HIDE DEF better
    <3> QED
      BY <3>1, <3>2, <3>3
  <2> QED
    BY <2>1, <2>2, <1>1
<1>3. i - 1 \in Nat /\ 1..(i - 1) \subseteq 1..n
  BY <1>1
<1>4. PICK m \in Nat : m = i - 1
  BY <1>3
<1> HIDE DEF better
<1>5. PICK T : T = {before[j] : j \in 1..m}
  OBVIOUS
<1>6. before \in Surjection(1..m, T)
  BY <1>4, <1>5 DEF Surjection
<1>7. IsFiniteSet(1..m) /\ Cardinality(1..m) = m
  BY <1>4, NumbersTo
<1>8. IsFiniteSet(T) /\ Cardinality(T) <= m
  BY <1>6, <1>7, FS_Surjection
<1>9. better \subseteq T
  BY <1>2, <1>4, <1>5
<1>10. Cardinality(better) <= Cardinality(T) /\ Cardinality(better) \in Nat /\ Cardinality(T) \in Nat
  BY <1>8, <1>9, FS_Subset, FS_CardinalityType
<1>11. i > Cardinality(better)
  BY <1>4, <1>8, <1>10
<1> QED
  BY <1>11 DEF better

LEMMA MineIs ==
  ASSUME IsStreamCase(case), report \in Rankings(case)
  PROVE  MineIsRanked
<1>1. PICK c : c = case
  OBVIOUS
<1>2. IsStreamCase(c) /\ report \in Rankings(c)
  BY <1>1
<1> DEFINE S == StreamField(c)
           n == Cardinality(S)
           pts(k) == c.players[k].points
           better(k) == {o \in S : c.players[o].points > c.players[k].points}
<1>3. IsFiniteSet(S) /\ (\A k \in S : pts(k) \in Int) /\ Nobody \notin S
  <2>1. IsFiniteSet(DOMAIN c.players) /\ S \in SUBSET DOMAIN c.players
    BY <1>2 DEF IsStreamCase, StreamField
  <2>2. IsFiniteSet(S)
    BY <2>1, FS_Subset
  <2> QED
    BY <1>2, <2>1, <2>2 DEF IsStreamCase
<1>4. PICK q \in Orders(c.players, S) : report = Ranking(c, q)
  BY <1>2 DEF Rankings
<1> DEFINE shown == {i \in 1..n : IsShown(c, i, q[i])}
           mine == {i \in 1..n : q[i] \in c.roster}
<1> HIDE DEF S
<1>5. /\ n \in Nat /\ q \in [1..n -> S]
      /\ \A k \in S : \E i \in 1..n : q[i] = k
      /\ \A i, j \in 1..n : i <= j => pts(q[i]) >= pts(q[j])
  BY <1>3, OrdersAre
<1>6. DOMAIN q = 1..n /\ Len(q) = n
  BY <1>5
<1>7. /\ report.options = {[key |-> q[i], rank |-> i] : i \in shown}
      /\ report.mine = IF mine = {} THEN Nobody ELSE q[Min(mine)]
  BY <1>4, <1>6 DEF Ranking
<1>8. ASSUME report.said = "yours is the best"
      PROVE  mine # {} /\ n # 0 /\ pts(q[Min(shown)]) - pts(q[Min(mine)]) <= 0
  <2>1. q # <<>>
    BY <1>4, <1>8 DEF Ranking
  <2>2. mine # {}
    BY <1>4, <1>6, <1>8 DEF Ranking
  <2>3. pts(q[Min(shown)]) - pts(q[Min(mine)]) <= 0
    BY <1>4, <1>6, <1>8 DEF Ranking
  <2>4. n # 0
    BY <2>2
  <2> QED
    BY <2>2, <2>3, <2>4
<1>9. mine \subseteq 0..n /\ shown \subseteq 0..n
  BY <1>5
<1>10. ASSUME mine # {}
       PROVE  /\ Min(mine) \in mine /\ \A j \in mine : Min(mine) <= j
  BY <1>5, <1>9, <1>10, MinIsLeast
<1>11. c.roster \cap S # {} =>
         /\ report.mine \in c.roster \cap S
         /\ \A k \in c.roster \cap S : pts(report.mine) >= pts(k)
  <2> SUFFICES ASSUME c.roster \cap S # {}
               PROVE  /\ report.mine \in c.roster \cap S
                      /\ \A k \in c.roster \cap S : pts(report.mine) >= pts(k)
    OBVIOUS
  <2>1. \A k \in c.roster \cap S : \E j \in mine : q[j] = k
    BY <1>5
  <2>2. mine # {}
    BY <2>1
  <2> HIDE DEF mine
  <2>3. PICK i \in mine : report.mine = q[i] /\ \A j \in mine : i <= j
    BY <1>7, <1>10, <2>2
  <2>4. i \in 1..n /\ q[i] \in c.roster \cap S
    BY <1>5 DEF mine
  <2>5. ASSUME NEW k \in c.roster \cap S
        PROVE  pts(q[i]) >= pts(k)
    <3>1. PICK j \in mine : q[j] = k
      BY <2>1
    <3>2. j \in 1..n /\ i <= j
      BY <2>3, <3>1 DEF mine
    <3> QED
      BY <1>5, <2>4, <3>1, <3>2
  <2> QED
    BY <2>3, <2>4, <2>5
<1>12. ASSUME NEW o \in report.options
       PROVE  o.rank > Cardinality(better(o.key))
  <2>1. PICK i \in shown : o = [key |-> q[i], rank |-> i]
    BY <1>7
  <2>2. i \in 1..n /\ o.key = q[i] /\ o.rank = i
    BY <2>1
  <2>3. i > Cardinality({x \in S : c.players[x].points > c.players[q[i]].points})
    BY <1>3, <2>2, FewAreBetter
  <2> QED
    BY <2>2, <2>3
<1>13. ASSUME report.said = "yours is the best"
       PROVE  better(report.mine) = {}
  <2>1. mine # {} /\ n # 0 /\ pts(q[Min(shown)]) - pts(q[Min(mine)]) <= 0
    BY <1>8, <1>13
  <2>2. PICK i \in mine : report.mine = q[i] /\ i = Min(mine)
    BY <1>7, <1>10, <2>1
  <2>3. 1 \in shown
    <3>1. c.shown \in Nat \ {0}
      BY <1>2 DEF IsStreamCase
    <3>2. IsShown(c, 1, q[1])
      BY <3>1 DEF IsShown
    <3> QED
      BY <1>5, <2>1, <3>2
  <2>4. \A j \in shown : 1 <= j
    BY <1>5
  <2> HIDE DEF shown, mine
  <2>5. Min(shown) \in shown /\ \A j \in shown : Min(shown) <= j
    BY <1>5, <1>9, <2>3, MinIsLeast
  <2>6. PICK f \in 0..n : f = Min(shown) /\ f <= 1 /\ 1 <= f
    BY <1>9, <2>3, <2>4, <2>5
  <2>7. f = 1
    BY <2>6
  <2>8. i \in 1..n /\ 1 \in 1..n
    BY <2>1, <1>5 DEF mine
  <2>9. pts(q[1]) <= pts(q[i])
    <3>1. pts(q[1]) \in Int /\ pts(q[i]) \in Int
      BY <1>3, <1>5, <2>8
    <3>2. pts(q[1]) - pts(q[i]) <= 0
      BY <2>1, <2>2, <2>6, <2>7
    <3> QED
      BY <3>1, <3>2
  <2>10. ASSUME NEW o \in S
         PROVE  ~(pts(o) > pts(q[i]))
    <3>1. PICK j \in 1..n : q[j] = o
      BY <1>5
    <3>2. pts(q[1]) >= pts(o)
      BY <1>5, <2>8, <3>1
    <3>3. pts(o) \in Int /\ pts(q[1]) \in Int /\ pts(q[i]) \in Int
      BY <1>3, <1>5, <2>8
    <3> QED
      BY <2>9, <3>2, <3>3
  <2> QED
    BY <2>2, <2>10
<1> QED
  BY <1>1, <1>11, <1>12, <1>13 DEF MineIsRanked, S

CalendarIsAnswered ==
  /\ case.job = "byes" => IsByeCase(case) /\ (report = Unanswered \/ report \in ByeReports(case))
  /\ case.job = "stream" => IsStreamCase(case) /\ (report = Unanswered \/ report \in Rankings(case))

(***************************************************************************)
(* Whatever the weeks hold, a week called covered can be fielded, one      *)
(* called a gap cannot and every suggestion fills one slot more; and the   *)
(* player one owns is ranked in the whole field and called the best only   *)
(* when nobody projects more (run, src/season/byes.py:142; rank,           *)
(* src/season/streamers.py:153).                                           *)
(***************************************************************************)
THEOREM CalendarIsAlwaysSound ==
  CalendarSpec => []CalendarIsSound
<1>1. CalendarInit => CalendarIsAnswered
  BY DEF CalendarInit, CalendarIsAnswered
<1>2. CalendarIsAnswered /\ [ByesRun \/ StreamRun]_adviceVars => CalendarIsAnswered'
  <2> SUFFICES ASSUME CalendarIsAnswered, [ByesRun \/ StreamRun]_adviceVars
               PROVE  CalendarIsAnswered'
    OBVIOUS
  <2>1. CASE ByesRun
    BY <2>1 DEF ByesRun, Answer, Asked, CalendarIsAnswered
  <2>2. CASE StreamRun
    BY <2>2 DEF StreamRun, Answer, Asked, CalendarIsAnswered
  <2>3. CASE UNCHANGED adviceVars
    BY <2>3 DEF adviceVars, CalendarIsAnswered
  <2> QED
    BY <2>1, <2>2, <2>3
<1>3. CalendarIsAnswered => CalendarIsSound
  BY FixesDoFill, MineIs DEF CalendarIsAnswered, CalendarIsSound, Answered
<1> QED
  BY <1>1, <1>2, <1>3, PTL DEF CalendarSpec

-----------------------------------------------------------------------------
(* The market: what a claim does to a lineup, and what is bid on it.        *)

LEMMA SomeIsGreatest ==
  ASSUME NEW S, IsFiniteSet(S), S # {}, NEW f, \A x \in S : f[x] \in Int
  PROVE  \E m \in S : \A x \in S : f[m] >= f[x]
<1> DEFINE R == {f[x] : x \in S}
           g == [x \in S |-> f[x]]
<1>1. g \in Surjection(S, R)
  BY DEF Surjection
<1>2. R \subseteq Int /\ R # {}
  OBVIOUS
<1> HIDE DEF g, R
<1>3. IsFiniteSet(R)
  BY <1>1, FS_Surjection
<1>4. Max(R) \in R /\ \A y \in R : Max(R) >= y
  BY <1>2, <1>3, MaxIsGreatest
<1>5. PICK m \in S : f[m] = Max(R)
  BY <1>4 DEF R
<1>6. \A x \in S : f[x] \in R
  BY DEF R
<1> QED
  BY <1>4, <1>5, <1>6

LEMMA LineupTotalIs ==
  ASSUME NEW players, NEW slots, NEW points, Pool(players, slots, points)
  PROVE  LineupTotal(players, slots, points) \in Int
<1> DEFINE l == CHOOSE l \in BestLineups(players, slots, points) : TRUE
<1>1. l \in Lineups(players, slots)
  BY BestIsBest
<1>2. LineupTotal(players, slots, points) = Total(points, Starters(l))
  BY DEF LineupTotal
<1> HIDE DEF l
<1>3. Starters(l) \in SUBSET DOMAIN players
  BY <1>1, StartersFit DEF Pool
<1> QED
  BY <1>2, <1>3, TotalAdds DEF Pool

LEMMA GainIs ==
  ASSUME NEW c, IsWaiverCase(c), NEW add \in c.wire, NEW drop
  PROVE  Gain(c, add, drop) \in Int
<1>1. ASSUME NEW S \in SUBSET DOMAIN c.players
      PROVE  Fields(c, S) \in Int
  <2> DEFINE points == [k \in S |-> c.players[k].points]
             players == Restrict(c.players, S)
  <2>1. DOMAIN players = S
    BY DEF Restrict
  <2>2. \A k \in S : points[k] \in Int
    BY DEF IsWaiverCase
  <2>3. IsFiniteSet(S) /\ Nobody \notin S /\ c.slots \in Seq(STRING)
    BY FS_Subset DEF IsWaiverCase
  <2>4. Fields(c, S) = LineupTotal(players, c.slots, points)
    BY DEF Fields
  <2> HIDE DEF players, points
  <2>5. Pool(players, c.slots, points)
    BY <2>1, <2>2, <2>3 DEF Pool
  <2> QED
    BY <2>4, <2>5, LineupTotalIs
<1>2. (c.roster \ {drop}) \cup {add} \in SUBSET DOMAIN c.players /\ c.roster \in SUBSET DOMAIN c.players
  BY DEF IsWaiverCase
<1>3. PICK a, b \in Int : a = Fields(c, (c.roster \ {drop}) \cup {add}) /\ b = Fields(c, c.roster)
  BY <1>1, <1>2
<1> QED
  BY <1>3 DEF Gain

\* Of those who may be dropped for a claim, best_drop finds one.
LEMMA BestDropIs ==
  ASSUME NEW c, IsWaiverCase(c), NEW add \in c.wire, NEW used
  PROVE  BestDrop(c, add, used) \in Options(c, add, used) \cup {Nobody}
<1> SUFFICES ASSUME Options(c, add, used) # {}
             PROVE  LeastMissed([d \in Options(c, add, used) |-> DropRank(c, add, d)])
                      \in Options(c, add, used)
  BY DEF BestDrop
<1> DEFINE S == Options(c, add, used)
           rank == [d \in S |-> DropRank(c, add, d)]
           f == [d \in S |-> Gain(c, add, d)]
           g == [d \in S |-> SamePosition(c, add, d)]
           h == [d \in S |-> -Value(c, d)]
           A == {d \in S : \A o \in S : f[d] >= f[o]}
           B == {d \in A : \A o \in A : g[d] >= g[o]}
           C == {d \in B : \A o \in B : h[d] >= h[o]}
<1>1. S \subseteq DOMAIN c.players /\ S \subseteq c.roster /\ IsFiniteSet(S)
  <2>1. S \subseteq c.roster /\ c.roster \subseteq DOMAIN c.players /\ IsFiniteSet(DOMAIN c.players)
    BY DEF Options, IsWaiverCase
  <2> HIDE DEF S
  <2> QED
    BY <2>1, FS_Subset
<1>2. \A d \in S : f[d] \in Int /\ g[d] \in Int /\ h[d] \in Int
  <2>1. \A d \in S : Gain(c, add, d) \in Int
    BY GainIs
  <2>2. \A d \in S : SamePosition(c, add, d) \in Int
    BY DEF SamePosition
  <2>3. \A d \in S : -Value(c, d) \in Int
    BY <1>1 DEF Value, IsWaiverCase
  <2> QED
    BY <2>1, <2>2, <2>3
<1>3. \A d \in S : rank[d] = <<f[d], g[d], h[d]>>
  BY DEF DropRank
<1>4. DOMAIN rank = S /\ S # {}
  OBVIOUS
<1> HIDE DEF S, rank, f, g, h
<1>5. A # {}
  BY <1>1, <1>2, <1>4, SomeIsGreatest
<1>6. B # {}
  <2>1. IsFiniteSet(A) /\ \A d \in A : g[d] \in Int
    BY <1>1, <1>2, FS_Subset
  <2> HIDE DEF A
  <2> QED
    BY <2>1, <1>5, SomeIsGreatest
<1>7. C # {}
  <2>1. IsFiniteSet(B) /\ \A d \in B : h[d] \in Int
    BY <1>1, <1>2, FS_Subset
  <2> HIDE DEF B
  <2> QED
    BY <2>1, <1>6, SomeIsGreatest
<1>8. PICK d \in S : d \in C
  BY <1>7
<1>9. \A o \in S : NotBelow(rank[d], rank[o])
  <2> SUFFICES ASSUME NEW o \in S
               PROVE  NotBelow(rank[d], rank[o])
    OBVIOUS
  <2>1. /\ f[d] >= f[o]
        /\ f[d] = f[o] => g[d] >= g[o]
        /\ f[d] = f[o] /\ g[d] = g[o] => h[d] >= h[o]
    <3>1. f[d] = f[o] => o \in A
      BY <1>2, <1>8
    <3>2. o \in A => g[d] >= g[o]
      BY <1>8
    <3>3. o \in A /\ g[d] = g[o] => o \in B
      BY <1>8
    <3>4. o \in B => h[d] >= h[o]
      BY <1>8
    <3>5. f[d] >= f[o]
      BY <1>8
    <3> HIDE DEF A, B, C
    <3> QED
      BY <3>1, <3>2, <3>3, <3>4, <3>5
  <2>2. rank[d] = <<f[d], g[d], h[d]>> /\ rank[o] = <<f[o], g[o], h[o]>>
    BY <1>3
  <2>3. f[d] \in Int /\ g[d] \in Int /\ f[o] \in Int /\ g[o] \in Int
    BY <1>2
  <2> HIDE DEF A, B, C
  <2> QED
    BY <2>1, <2>2, <2>3 DEF NotBelow
<1>10. LeastMissed(rank) \in S
  BY <1>4, <1>9 DEF LeastMissed
<1> QED
  BY <1>10 DEF S, rank

\* Whoever may be dropped leaves enough at every position behind.
LEMMA SpareIsSpare ==
  ASSUME NEW c, IsWaiverCase(c), NEW add \in c.wire, NEW drop \in Options(c, add, {}) \cup {Nobody},
         NEW pos \in DOMAIN Dedicated(c.slots)
  PROVE  Cardinality(Holds(c, (c.roster \ {drop}) \cup {add}, pos)) >=
           Least(Dedicated(c.slots)[pos], Cardinality(Holds(c, c.roster, pos)))
<1> DEFINE after == (c.roster \ {drop}) \cup {add}
           both == c.roster \cup {add}
           H == Holds(c, after, pos)
           R == Holds(c, c.roster, pos)
           B == Holds(c, both, pos)
           n == Dedicated(c.slots)[pos]
<1>1. IsFiniteSet(c.roster) /\ Nobody \notin c.roster /\ add \notin c.roster
  BY FS_Subset DEF IsWaiverCase
<1>2. IsFiniteSet(both)
  BY <1>1, FS_AddElement
<1>3. H \subseteq both /\ R \subseteq both /\ B \subseteq both
  BY DEF Holds
<1>4. /\ IsFiniteSet(H) /\ IsFiniteSet(R) /\ IsFiniteSet(B)
      /\ Cardinality(H) \in Nat /\ Cardinality(R) \in Nat /\ Cardinality(B) \in Nat
  <2> HIDE DEF H, R, B, both
  <2> QED
    BY <1>2, <1>3, FS_Subset, FS_CardinalityType
<1>5. n \in Int
  <2> DEFINE own == {i \in DOMAIN c.slots : c.slots[i] \notin DOMAIN FLEX_ELIGIBILITY \cup BENCH_SLOTS}
             name(s) == IF s \in DEFENSIVE_SLOTS THEN "DEF" ELSE s
             at == {i \in own : name(c.slots[i]) = pos}
  <2>1. DOMAIN c.slots = 1..Len(c.slots) /\ Len(c.slots) \in Nat
    BY DEF IsWaiverCase
  <2>2. n = Cardinality(at)
    BY DEF Dedicated
  <2>3. at \subseteq 1..Len(c.slots)
    BY <2>1
  <2> HIDE DEF at, n
  <2>4. IsFiniteSet(at)
    BY <2>1, <2>3, NumbersTo, FS_Subset
  <2> QED
    BY <2>2, <2>4, FS_CardinalityType
<1>6. CASE drop = Nobody \/ c.players[drop].pos # pos
  <2>1. R \subseteq H
    BY <1>1, <1>6 DEF Holds
  <2> HIDE DEF H, R
  <2>2. Cardinality(R) <= Cardinality(H)
    BY <1>4, <2>1, FS_Subset
  <2> HIDE DEF n
  <2>3. Cardinality(H) >= Least(n, Cardinality(R))
    BY <1>4, <1>5, <2>2 DEF Least
  <2> QED
    BY <2>3 DEF H, R, n
<1>7. CASE drop # Nobody /\ c.players[drop].pos = pos
  <2>1. drop \in c.roster /\ drop \notin Protected(c, both)
    BY <1>7 DEF Options
  <2>2. drop \in B
    BY <1>7, <2>1 DEF Holds
  <2>3. ~(Cardinality(B) <= n)
    BY <2>1, <2>2 DEF Protected
  <2>4. H = B \ {drop}
    BY <1>1, <2>1 DEF Holds
  <2> HIDE DEF H, R, B, n
  <2>5. Cardinality(H) = Cardinality(B) - 1
    BY <1>4, <2>2, <2>4, FS_RemoveElement
  <2>6. Cardinality(H) >= Least(n, Cardinality(R))
    BY <1>4, <1>5, <2>3, <2>5 DEF Least
  <2> QED
    BY <2>6 DEF H, R, n
<1> QED
  BY <1>6, <1>7

LEMMA Rounds ==
  ASSUME NEW n \in Int, NEW d \in Nat \ {0}
  PROVE  RoundHalfEven(n, d) \in Int /\ (n >= 0 => RoundHalfEven(n, d) >= 0)
<1>1. n \div d \in Int /\ n % d \in Int /\ (n >= 0 => n \div d >= 0)
  OBVIOUS
<1>2. PICK q \in Int : q = n \div d
  BY <1>1
<1>3. RoundHalfEven(n, d) \in {q, q + 1}
  BY <1>2 DEF RoundHalfEven
<1> HIDE DEF RoundHalfEven
<1> QED
  BY <1>1, <1>2, <1>3

\* The three numbers of a bid on a claim worth making.
Brackets(b, budget) ==
  /\ b \in Seq(Int)
  /\ 0 <= b[1] /\ b[1] <= b[2] /\ b[2] <= b[3] /\ b[3] <= budget
  /\ budget > 0 => b[2] >= 1

LEMMA BidBrackets ==
  ASSUME NEW gain \in Nat \ {0}, NEW heat \in Nat, NEW budget \in Nat, NEW weeksLeft \in Int,
         NEW maxGain \in Nat \ {0}
  PROVE  Brackets(Bid(gain, heat, budget, weeksLeft, maxGain), budget)
<1> DEFINE share   == Most(0, Least(maxGain, gain))
           urgency == 170 + 6 * Most(0, FINAL_WEEK - weeksLeft)
           top     == budget * share * (3500 + 45 * heat) * urgency
           core    == RoundHalfEven(top, maxGain * 10000 * 170)
           rec     == Most(IF gain > 0 THEN 1 ELSE 0, Least(core, budget))
<1>1. CASE budget = 0
  <2>1. Bid(gain, heat, budget, weeksLeft, maxGain) = <<0, 0, 0>>
    BY <1>1 DEF Bid
  <2>2. <<0, 0, 0>> \in Seq(Int) /\ <<0, 0, 0>>[1] = 0 /\ <<0, 0, 0>>[2] = 0 /\ <<0, 0, 0>>[3] = 0
    OBVIOUS
  <2>3. Brackets(<<0, 0, 0>>, budget)
    BY <1>1, <2>2 DEF Brackets
  <2> QED
    BY <2>1, <2>3
<1>2. CASE budget > 0
  <2>1. core \in Int
    <3>1. share \in Int /\ urgency \in Int /\ 3500 + 45 * heat \in Int
      BY DEF Most, Least, FINAL_WEEK
    <3>2. PICK x, y, z \in Int : x = share /\ y = 3500 + 45 * heat /\ z = urgency
      BY <3>1
    <3> HIDE DEF share, urgency
    <3>3. PICK v \in Int : v = budget * x
      OBVIOUS
    <3>4. PICK w \in Int : w = v * y
      OBVIOUS
    <3>5. PICK t \in Int : t = w * z
      OBVIOUS
    <3>6. top = t
      BY <3>2, <3>3, <3>4, <3>5
    <3>7. PICK d \in Nat \ {0} : d = maxGain * 10000 * 170
      OBVIOUS
    <3> HIDE DEF top
    <3> QED
      BY <3>6, <3>7, Rounds
  <2> HIDE DEF core
  <2>2. rec \in 1..budget
    BY <1>2, <2>1 DEF Most, Least
  <2>3. Bid(gain, heat, budget, weeksLeft, maxGain) =
          <<Least(rec, RoundHalfEven(55 * rec, 100)), rec,
            Least(budget, Most(rec, RoundHalfEven(18 * rec, 10)))>>
    BY <1>2 DEF Bid, core
  <2> HIDE DEF rec
  <2>4. PICK r \in 1..budget : r = rec
    BY <2>2
  <2>5. PICK lo, hi \in Nat : lo = RoundHalfEven(55 * r, 100) /\ hi = RoundHalfEven(18 * r, 10)
    <3>1. PICK x, y \in Nat : x = 55 * r /\ y = 18 * r
      OBVIOUS
    <3>2. RoundHalfEven(x, 100) \in Nat
      BY Rounds
    <3>3. RoundHalfEven(y, 10) \in Nat
      BY Rounds
    <3> QED
      BY <3>1, <3>2, <3>3
  <2>6. Bid(gain, heat, budget, weeksLeft, maxGain) =
          <<Least(r, lo), r, Least(budget, Most(r, hi))>>
    BY <2>3, <2>4, <2>5
  <2>7. PICK a, b \in Int : a = Least(r, lo) /\ b = Least(budget, Most(r, hi))
    BY DEF Least, Most
  <2>8. 0 <= a /\ a <= r /\ r <= b /\ b <= budget /\ r >= 1
    BY <2>4, <2>7 DEF Least, Most
  <2>9. <<a, r, b>> \in Seq(Int)
    OBVIOUS
  <2> QED
    BY <2>6, <2>7, <2>8, <2>9 DEF Brackets
<1> QED
  BY <1>1, <1>2

(* The walk over the wire.                                                  *)

ClaimsOf(c) ==
  {claim \in [add : c.wire, drop : c.roster \cup {Nobody}, gain : Int, bid : Seq(Int)] :
     /\ claim.drop \in Options(c, claim.add, {}) \cup {Nobody}
     /\ claim.bid = Free \/ Brackets(claim.bid, c.budget)}

Shopping(c) == [used : SUBSET c.roster, made : Seq(ClaimsOf(c))]

\* Nobody is dropped twice.
DropsOnce(made) ==
  \A i, j \in DOMAIN made : i # j /\ made[i].drop # Nobody => made[i].drop # made[j].drop

DropsAreUsed(done) ==
  \A i \in DOMAIN done.made : done.made[i].drop # Nobody => done.made[i].drop \in done.used

LEMMA HealthyAre ==
  ASSUME NEW c, IsWaiverCase(c)
  PROVE  /\ IsFiniteSet(Healthy(c)) /\ Healthy(c) \subseteq c.wire
         /\ \A k \in Healthy(c) : Gain(c, k, Nobody) \in Int /\ Gain(c, k, Nobody) <= MaxGain(c)
         /\ MaxGain(c) \in Nat
<1> DEFINE S == {Gain(c, k, Nobody) : k \in Healthy(c)}
           g == [k \in Healthy(c) |-> Gain(c, k, Nobody)]
           all == {0} \cup S
<1>1. Healthy(c) \subseteq c.wire
  BY DEF Healthy
<1>2. IsFiniteSet(Healthy(c))
  <2>1. IsFiniteSet(c.wire)
    BY FS_Subset DEF IsWaiverCase
  <2> QED
    BY <1>1, <2>1, FS_Subset
<1>3. \A k \in Healthy(c) : Gain(c, k, Nobody) \in Int
  BY <1>1, GainIs
<1>4. g \in Surjection(Healthy(c), S)
  BY DEF Surjection
<1>5. S \subseteq Int
  BY <1>3
<1>6. \A k \in Healthy(c) : Gain(c, k, Nobody) \in S
  OBVIOUS
<1>7. MaxGain(c) = Max(all)
  BY DEF MaxGain
<1> HIDE DEF g, S
<1>8. IsFiniteSet(S)
  BY <1>2, <1>4, FS_Surjection
<1>9. IsFiniteSet(all) /\ all \subseteq Int /\ 0 \in all
  BY <1>5, <1>8, FS_AddElement
<1> HIDE DEF all
<1>10. Max(all) \in all /\ \A y \in all : Max(all) >= y
  BY <1>9, MaxIsGreatest
<1>11. MaxGain(c) \in Int /\ MaxGain(c) >= 0
  BY <1>7, <1>9, <1>10
<1>12. ASSUME NEW k \in Healthy(c)
       PROVE  Gain(c, k, Nobody) <= MaxGain(c)
  <2>1. PICK x \in Int : x = Gain(c, k, Nobody)
    BY <1>3
  <2>2. x \in all
    BY <1>6, <2>1 DEF all
  <2>3. Max(all) >= x
    BY <1>10, <2>2
  <2> QED
    BY <1>7, <1>11, <2>1, <2>3
<1> QED
  BY <1>1, <1>2, <1>3, <1>11, <1>12

LEMMA ConsideredKeeps ==
  ASSUME NEW c, IsWaiverCase(c), NEW done \in Shopping(c), DropsOnce(done.made), DropsAreUsed(done),
         NEW add \in Healthy(c), NEW drop \in Options(c, add, done.used) \cup {Nobody}
  PROVE  LET next == Considered(c, done, add, drop) IN
         next \in Shopping(c) /\ DropsOnce(next.made) /\ DropsAreUsed(next)
<1> DEFINE gain == Gain(c, add, drop)
           claim == [add |-> add, drop |-> drop, gain |-> gain,
                     bid |-> Price(c, add, gain, MaxGain(c))]
           next == Considered(c, done, add, drop)
<1>1. CASE ~Worthwhile(c, add, gain)
  <2>1. next = done
    BY <1>1 DEF Considered
  <2> QED
    BY <2>1
<1>2. CASE Worthwhile(c, add, gain)
  <2>1. next = [used |-> UsedNow(done.used, drop), made |-> Append(done.made, claim)]
    BY <1>2 DEF Considered
  <2>2. done.used \in SUBSET c.roster /\ done.made \in Seq(ClaimsOf(c))
    BY DEF Shopping
  <2>3. add \in c.wire /\ gain \in Int
    BY HealthyAre, GainIs
  <2>4. drop \in Options(c, add, {}) \cup {Nobody} /\ drop \notin done.used
    <3>1. Nobody \notin c.roster
      BY DEF IsWaiverCase
    <3> QED
      BY <2>2, <3>1 DEF Options
  <2>5. Price(c, add, gain, MaxGain(c)) = Free
          \/ Brackets(Price(c, add, gain, MaxGain(c)), c.budget)
    <3>1. c.margin \in Nat \ {0} /\ c.budget \in Nat
      BY DEF IsWaiverCase
    <3>2. gain \in Nat \ {0}
      BY <1>2, <2>3, <3>1 DEF Worthwhile
    <3>3. MaxGain(c) \in Nat \ {0}
      <4>1. PICK x \in Int : x = Gain(c, add, Nobody)
        BY HealthyAre
      <4>2. x >= c.margin /\ x <= MaxGain(c) /\ MaxGain(c) \in Nat
        BY <1>2, <4>1, HealthyAre DEF Worthwhile
      <4> QED
        BY <3>1, <4>2
    <3>4. c.players[add].trending \in Nat
      BY <2>3 DEF IsWaiverCase
    <3>5. Weeks(c.week) \in Int
      BY DEF Weeks, Most, FINAL_WEEK, IsWaiverCase
    <3>6. Brackets(Bid(gain, c.players[add].trending, c.budget, Weeks(c.week), MaxGain(c)), c.budget)
      BY <3>1, <3>2, <3>3, <3>4, <3>5, BidBrackets
    <3> QED
      BY <3>6 DEF Price
  <2>6. claim \in ClaimsOf(c)
    <3>1. Price(c, add, gain, MaxGain(c)) \in Seq(Int)
      <4>1. Free \in Seq(Int)
        BY DEF Free
      <4>2. \A b : Brackets(b, c.budget) => b \in Seq(Int)
        BY DEF Brackets
      <4> HIDE DEF gain
      <4> QED
        BY <2>5, <4>1, <4>2
    <3>2. drop \in c.roster \cup {Nobody}
      BY DEF Options
    <3> HIDE DEF gain
    <3> QED
      BY <2>3, <2>4, <2>5, <3>1, <3>2 DEF ClaimsOf
  <2> HIDE DEF gain
  <2>7. claim.drop = drop
    OBVIOUS
  <2> HIDE DEF claim
  <2>8. PICK n \in Nat : n = Len(done.made)
    BY <2>2
  <2>9. PICK made : made = Append(done.made, claim)
    OBVIOUS
  <2>10. /\ made \in Seq(ClaimsOf(c)) /\ DOMAIN made = 1..(n + 1) /\ DOMAIN done.made = 1..n
         /\ \A i \in 1..n : made[i] = done.made[i]
         /\ made[n + 1] = claim
    BY <2>2, <2>6, <2>8, <2>9
  <2>11. PICK used : used = UsedNow(done.used, drop)
    OBVIOUS
  <2>12. /\ used \in SUBSET c.roster /\ done.used \subseteq used
         /\ drop # Nobody => drop \in used
    <3>1. drop \in c.roster \cup {Nobody}
      BY DEF Options
    <3> QED
      BY <2>2, <2>11, <3>1 DEF UsedNow
  <2>13. next = [used |-> used, made |-> made]
    BY <2>1, <2>9, <2>11
  <2>14. \A i \in 1..n : made[i].drop # Nobody => made[i].drop \in done.used
    BY <2>10 DEF DropsAreUsed
  <2>15. DropsOnce(made)
    <3> SUFFICES ASSUME NEW i \in 1..(n + 1), NEW j \in 1..(n + 1), i # j, made[i].drop # Nobody
                 PROVE  made[i].drop # made[j].drop
      BY <2>10 DEF DropsOnce
    <3>1. CASE i \in 1..n /\ j \in 1..n
      BY <3>1, <2>10 DEF DropsOnce
    <3>2. CASE i \in 1..n /\ j = n + 1
      BY <3>2, <2>4, <2>7, <2>10, <2>14
    <3>3. CASE i = n + 1 /\ j \in 1..n
      BY <3>3, <2>4, <2>7, <2>10, <2>14
    <3> QED
      BY <3>1, <3>2, <3>3
  <2>16. DropsAreUsed([used |-> used, made |-> made])
    <3> SUFFICES ASSUME NEW i \in 1..(n + 1), made[i].drop # Nobody
                 PROVE  made[i].drop \in used
      BY <2>10 DEF DropsAreUsed
    <3>1. CASE i \in 1..n
      BY <3>1, <2>12, <2>14
    <3>2. CASE i = n + 1
      BY <3>2, <2>7, <2>10, <2>12
    <3> QED
      BY <3>1, <3>2
  <2>17. [used |-> used, made |-> made] \in Shopping(c)
    BY <2>10, <2>12 DEF Shopping
  <2> HIDE DEF next
  <2> QED
    BY <2>13, <2>15, <2>16, <2>17 DEF next
<1> QED
  BY <1>1, <1>2

LEMMA ClaimsAreMade ==
  ASSUME NEW c, IsWaiverCase(c), NEW healthy \in Orders(c.players, Healthy(c))
  PROVE  ClaimsMade(c, healthy) \in Seq(ClaimsOf(c)) /\ DropsOnce(ClaimsMade(c, healthy))
<1> DEFINE n == Len(healthy)
           T == Shopping(c)
           base == [used |-> {}, made |-> <<>>]
           Next(d, i) == Considered(c, d, healthy[i], BestDrop(c, healthy[i], d.used))
           step == [z \in (1..n) \X T |-> Next(z[2], z[1])]
           Is(g) == g = [i \in 0..n |-> IF i = 0 THEN base ELSE Next(g[i - 1], i)]
           done == CHOOSE g : Is(g)
           Kept(d) == d \in T /\ DropsOnce(d.made) /\ DropsAreUsed(d)
           U == {d \in T : Kept(d)}
<1>1. n \in Nat /\ \A i \in 1..n : healthy[i] \in Healthy(c)
  <2>1. /\ Cardinality(Healthy(c)) \in Nat
        /\ healthy \in [1 .. Cardinality(Healthy(c)) -> Healthy(c)]
    BY HealthyAre, FS_CardinalityType DEF Orders
  <2> QED
    BY <2>1
<1>2. Kept(base)
  BY DEF Shopping, DropsOnce, DropsAreUsed
<1>3. ASSUME NEW i \in 1..n, NEW d, Kept(d)
      PROVE  Kept(Next(d, i))
  <2>1. PICK k \in Healthy(c) : k = healthy[i]
    BY <1>1
  <2>2. PICK drop : drop = BestDrop(c, k, d.used)
    OBVIOUS
  <2>3. drop \in Options(c, k, d.used) \cup {Nobody}
    BY <2>2, HealthyAre, BestDropIs
  <2>4. PICK next : next = Considered(c, d, k, drop)
    OBVIOUS
  <2>5. next \in Shopping(c) /\ DropsOnce(next.made) /\ DropsAreUsed(next)
    BY <1>3, <2>3, <2>4, ConsideredKeeps
  <2> QED
    BY <2>1, <2>2, <2>4, <2>5
<1> HIDE DEF T, Next, base, Kept
<1>4. base \in U /\ \A i \in 1..n : \A d \in U : Next(d, i) \in U
  <2>1. \A d : Kept(d) => d \in T
    BY DEF Kept
  <2> QED
    BY <1>2, <1>3, <2>1
<1> DEFINE move == [z \in (1..n) \X U |-> Next(z[2], z[1])]
<1> HIDE DEF U, n
<1>5. PICK g : Iterated(g, n, U, base, move)
  <2>1. \A i \in 1..n : \A d \in U : move[<<i, d>>] \in U
    BY <1>4
  <2> HIDE DEF move
  <2> QED
    BY <1>1, <1>4, <2>1, Iterates
<1>6. g \in [0..n -> U] /\ g[0] = base /\ \A i \in 1..n : g[i] = move[<<i, g[i - 1]>>]
  BY <1>5 DEF Iterated
<1>7. Is(g)
  <2>1. ASSUME NEW i \in 0..n, i # 0
        PROVE  g[i] = Next(g[i - 1], i)
    <3>1. i \in 1..n /\ i - 1 \in 0..n
      BY <1>1, <2>1
    <3>2. g[i - 1] \in U
      BY <1>6, <3>1
    <3>3. move[<<i, g[i - 1]>>] = Next(g[i - 1], i)
      BY <3>1, <3>2
    <3> HIDE DEF move
    <3> QED
      BY <3>1, <3>3, <1>6
  <2> HIDE DEF move
  <2> QED
    BY <1>6, <2>1
<1>8. Is(done)
  BY <1>7
<1>9. ClaimsMade(c, healthy) = done[n].made
  BY DEF ClaimsMade, Next, base, n
<1> HIDE DEF done, move
<1>10. done[0] = base
  BY <1>1, <1>8
<1>11. \A i \in 0..(n - 1) : done[i + 1] = Next(done[i], i + 1)
  <2> SUFFICES ASSUME NEW i \in 0..(n - 1)
               PROVE  done[i + 1] = Next(done[i], i + 1)
    OBVIOUS
  <2>1. i + 1 \in 0..n /\ i + 1 # 0 /\ (i + 1) - 1 = i
    BY <1>1
  <2> QED
    BY <1>8, <2>1
<1> DEFINE Good == {i \in 0..n : done[i] \in U}
<1>12. 0 \in Good
  BY <1>1, <1>4, <1>10
<1>13. ASSUME NEW i \in 0..(n - 1), i \in Good
       PROVE  i + 1 \in Good
  <2>1. i + 1 \in 1..n /\ i + 1 \in 0..n
    BY <1>1
  <2> QED
    BY <1>4, <1>11, <1>13, <2>1
<1> HIDE DEF Good
<1>14. 0..n \subseteq Good
  BY <1>1, <1>12, <1>13, Climb
<1>15. n \in Good
  BY <1>1, <1>14
<1>16. done[n] \in U
  BY <1>15 DEF Good
<1> QED
  BY <1>9, <1>16 DEF U, Kept, T, Shopping

LEMMA ClaimsAreSound ==
  ASSUME NEW c, IsWaiverCase(c), NEW claims \in ClaimLists(c)
  PROVE  claims \in Seq(ClaimsOf(c)) /\ DropsOnce(claims)
<1>1. PICK healthy \in Orders(c.players, Healthy(c)) :
        \E order \in BestFirst(ClaimsMade(c, healthy)) :
          claims = Top(ClaimsMade(c, healthy), order)
  BY DEF ClaimLists
<1>2. PICK made : made = ClaimsMade(c, healthy)
  OBVIOUS
<1>3. made \in Seq(ClaimsOf(c)) /\ DropsOnce(made)
  BY <1>2, ClaimsAreMade
<1>4. PICK order \in BestFirst(made) : claims = Top(made, order)
  BY <1>1, <1>2
<1>5. PICK n \in Nat : n = Len(made) /\ DOMAIN made = 1..n
  BY <1>3
<1>6. order \in [1..n -> 1..n] /\ \A p, q \in 1..n : p < q => Before(made, order[p], order[q])
  BY <1>4, <1>5 DEF BestFirst
<1>7. \A i \in 1..n : made[i].gain \in Int
  BY <1>3, <1>5 DEF ClaimsOf
<1>8. \A p, q \in 1..n : p # q => order[p] # order[q]
  <2>1. \A i \in 1..n : ~Before(made, i, i)
    BY <1>7 DEF Before
  <2>2. \A p, q \in 1..n : p < q => order[p] # order[q]
    BY <1>6, <2>1
  <2> QED
    BY <2>2
<1>9. PICK m \in 0..n : m = Least(TopN, n)
  BY TopNAssumption DEF Least
<1>10. claims = [p \in 1..m |-> made[order[p]]]
  BY <1>4, <1>5, <1>9 DEF Top
<1>11. \A p \in 1..m : made[order[p]] \in ClaimsOf(c) /\ order[p] \in 1..n
  BY <1>3, <1>5, <1>6
<1>12. claims \in Seq(ClaimsOf(c)) /\ DOMAIN claims = 1..m
  BY <1>10, <1>11
<1>13. DropsOnce(claims)
  <2> SUFFICES ASSUME NEW i \in 1..m, NEW j \in 1..m, i # j, claims[i].drop # Nobody
               PROVE  claims[i].drop # claims[j].drop
    BY <1>12 DEF DropsOnce
  <2>1. claims[i] = made[order[i]] /\ claims[j] = made[order[j]]
    BY <1>10
  <2>2. order[i] # order[j] /\ order[i] \in 1..n /\ order[j] \in 1..n
    BY <1>8, <1>11
  <2> QED
    BY <1>3, <1>5, <2>1, <2>2 DEF DropsOnce
<1> QED
  BY <1>12, <1>13

LEMMA WaiversAre ==
  ASSUME case.job = "waivers", IsWaiverCase(case), report \in WaiverReports(case)
  PROVE  WaiversAreSound
<1>1. CASE case.roster = {}
  <2>1. report = NothingToReport
    BY <1>1 DEF WaiverReports
  <2>2. report.claims = <<>> /\ report.handcuffs = {}
    BY <2>1 DEF NothingToReport
  <2> QED
    BY <2>2 DEF WaiversAreSound, CoverageIsKept, BidsBracket, OnlyTheAvailable
<1>2. CASE case.roster # {}
  <2>1. PICK claims \in ClaimLists(case) : report = WaiverReport(case, claims)
    BY <1>2 DEF WaiverReports
  <2>2. report.claims = claims /\ report.handcuffs = Handcuffs(case)
    BY <2>1 DEF WaiverReport
  <2>3. claims \in Seq(ClaimsOf(case)) /\ DropsOnce(claims)
    BY ClaimsAreSound
  <2>4. ASSUME NEW i \in DOMAIN claims
        PROVE  /\ claims[i].add \in case.wire
               /\ claims[i].drop \in Options(case, claims[i].add, {}) \cup {Nobody}
               /\ claims[i].bid = Free \/ Brackets(claims[i].bid, case.budget)
    <3>1. claims[i] \in ClaimsOf(case)
      BY <2>3
    <3> QED
      BY <3>1 DEF ClaimsOf
  <2>5. CoverageIsKept
    <3> SUFFICES ASSUME NEW i \in DOMAIN claims
                 PROVE  /\ \A pos \in DOMAIN Dedicated(case.slots) :
                             Cardinality(Holds(case, (case.roster \ {claims[i].drop}) \cup {claims[i].add}, pos)) >=
                               Least(Dedicated(case.slots)[pos], Cardinality(Holds(case, case.roster, pos)))
                        /\ \A j \in DOMAIN claims \ {i} :
                             claims[i].drop # Nobody => claims[j].drop # claims[i].drop
      BY <2>2 DEF CoverageIsKept
    <3>1. PICK add, drop : add = claims[i].add /\ drop = claims[i].drop
      OBVIOUS
    <3>2. \A pos \in DOMAIN Dedicated(case.slots) :
             Cardinality(Holds(case, (case.roster \ {drop}) \cup {add}, pos)) >=
               Least(Dedicated(case.slots)[pos], Cardinality(Holds(case, case.roster, pos)))
      BY <2>4, <3>1, SpareIsSpare
    <3>3. \A j \in DOMAIN claims \ {i} :
             claims[i].drop # Nobody => claims[j].drop # claims[i].drop
      BY <2>3 DEF DropsOnce
    <3> QED
      BY <3>1, <3>2, <3>3
  <2>6. BidsBracket
    BY <2>2, <2>4 DEF BidsBracket, Brackets
  <2>7. OnlyTheAvailable
    <3>1. \A h \in report.handcuffs : OpenBackup(case, h[2])
      BY <2>2 DEF Handcuffs
    <3> QED
      BY <1>2, <2>2, <2>4, <3>1 DEF OnlyTheAvailable, OpenBackup
  <2> QED
    BY <2>5, <2>6, <2>7 DEF WaiversAreSound
<1> QED
  BY <1>1, <1>2

-----------------------------------------------------------------------------
(* Trades: what a list of players is worth, whatever its order.             *)

LEMMA TotalMoves ==
  ASSUME NEW S, IsFiniteSet(S), NEW f, \A x \in S : f[x] \in Int,
         NEW T, NEW g \in Injection(S, T), NEW h, \A x \in S : h[g[x]] = f[x]
  PROVE  /\ Total(h, {g[x] : x \in S}) = Total(f, S)
         /\ Cardinality({g[x] : x \in S}) = Cardinality(S)
<1> DEFINE Of(R) == {g[x] : x \in R}
           F == {R \in SUBSET S : Total(h, Of(R)) = Total(f, R)}
           gS == [x \in S |-> g[x]]
<1>1. \A x, y \in S : g[x] = g[y] => x = y
  BY DEF Injection, IsInjective
<1>2. gS \in Bijection(S, Of(S))
  BY <1>1 DEF Bijection, Injection, Surjection, IsInjective
<1> HIDE DEF gS
<1>3. IsFiniteSet(Of(S)) /\ Cardinality(Of(S)) = Cardinality(S)
  <2>1. ExistsBijection(S, Of(S))
    BY <1>2 DEF ExistsBijection
  <2> HIDE DEF Of
  <2> QED
    BY <2>1, FS_Bijection
<1>4. \A y \in Of(S) : h[y] \in Int
  OBVIOUS
<1>5. /\ Total(f, {}) = 0
      /\ \A Q \in SUBSET S : Total(f, Q) \in Int
      /\ \A Q \in SUBSET S : \A x \in S \ Q : Total(f, Q \cup {x}) = Total(f, Q) + f[x]
  BY TotalAdds
<1>6. PICK O : O = Of(S)
  OBVIOUS
<1>7. /\ Total(h, {}) = 0
      /\ \A Q \in SUBSET O : Total(h, Q) \in Int
      /\ \A Q \in SUBSET O : \A y \in O \ Q : Total(h, Q \cup {y}) = Total(h, Q) + h[y]
  <2>1. IsFiniteSet(O) /\ \A y \in O : h[y] \in Int
    BY <1>3, <1>4, <1>6
  <2> QED
    BY ONLY <2>1, TotalAdds
<1>8. {} \in F
  <2>1. Of({}) = {}
    OBVIOUS
  <2> HIDE DEF Of
  <2> QED
    BY <1>5, <1>7, <2>1
<1>9. ASSUME NEW R \in SUBSET S, R # {}, \A x \in R : R \ {x} \in F
      PROVE  R \in F
  <2>1. PICK x \in R : TRUE
    BY <1>9
  <2>2. PICK Q : Q = R \ {x}
    OBVIOUS
  <2>3. PICK y : y = g[x]
    OBVIOUS
  <2>4. Q \in SUBSET S /\ x \in S \ Q /\ R = Q \cup {x}
    BY <2>1, <2>2
  <2>5. Of(R) = Of(Q) \cup {y} /\ Of(Q) \in SUBSET O /\ y \in O \ Of(Q) /\ h[y] = f[x]
    BY <1>1, <1>6, <2>1, <2>2, <2>3
  <2>6. Total(h, Of(Q)) = Total(f, Q)
    BY <1>9, <2>1, <2>2
  <2> HIDE DEF Of
  <2>7. Total(h, Of(R)) = Total(h, Of(Q)) + h[y]
    BY <1>7, <2>5
  <2>8. Total(f, R) = Total(f, Q) + f[x]
    BY <1>5, <2>4
  <2> QED
    BY <2>5, <2>6, <2>7, <2>8
<1> HIDE DEF F
<1>10. S \in F
  BY <1>8, <1>9, Grow
<1> QED
  BY <1>3, <1>10 DEF F

\* The same players under other names make the same lineups.
Renames(g, players, points, others, otherPoints) ==
  /\ g \in Injection(DOMAIN players, DOMAIN others)
  /\ \A k \in DOMAIN players : others[g[k]].pos = players[k].pos /\ otherPoints[g[k]] = points[k]

LEMMA LineupsMove ==
  ASSUME NEW players, NEW points, NEW others, NEW otherPoints, NEW slots, NEW g,
         Pool(players, slots, points), Pool(others, slots, otherPoints),
         Renames(g, players, points, others, otherPoints),
         NEW l \in Lineups(players, slots)
  PROVE  \E m \in Lineups(others, slots) :
           /\ Cardinality(Starters(m)) = Cardinality(Starters(l))
           /\ Total(otherPoints, Starters(m)) = Total(points, Starters(l))
<1> DEFINE n == Len(slots)
           m == [s \in 1..n |-> IF l[s] = Nobody THEN Nobody ELSE g[l[s]]]
           S == Starters(l)
           gS == [k \in S |-> g[k]]
<1>1. DOMAIN slots = 1..n /\ Nobody \notin DOMAIN players /\ Nobody \notin DOMAIN others
  BY DEF Pool
<1>2. /\ l \in [1..n -> DOMAIN players \cup {Nobody}]
      /\ \A s \in 1..n : l[s] # Nobody =>
           /\ slot_accepts(slots[s], players[l[s]].pos)
           /\ \A t \in 1..n \ {s} : l[t] # l[s]
  BY <1>1 DEF Lineups
<1>3. /\ g \in [DOMAIN players -> DOMAIN others]
      /\ \A a, b \in DOMAIN players : g[a] = g[b] => a = b
  BY DEF Renames, Injection, IsInjective
<1>4. m \in [1..n -> DOMAIN others \cup {Nobody}]
  BY <1>2, <1>3
<1>5. ASSUME NEW s \in 1..n, m[s] # Nobody
      PROVE  /\ slot_accepts(slots[s], others[m[s]].pos)
             /\ \A t \in 1..n \ {s} : m[t] # m[s]
  <2>1. l[s] # Nobody /\ l[s] \in DOMAIN players /\ m[s] = g[l[s]]
    BY <1>2, <1>5
  <2>2. slot_accepts(slots[s], players[l[s]].pos) /\ others[m[s]].pos = players[l[s]].pos
    BY <1>2, <2>1 DEF Renames
  <2>3. ASSUME NEW t \in 1..n \ {s}
        PROVE  m[t] # m[s]
    <3>1. CASE l[t] = Nobody
      BY <1>5, <3>1
    <3>2. CASE l[t] # Nobody
      <4>1. l[t] \in DOMAIN players /\ l[t] # l[s] /\ m[t] = g[l[t]]
        BY <1>2, <2>1, <3>2
      <4> HIDE DEF m
      <4> QED
        BY <1>3, <2>1, <4>1
    <3> QED
      BY <3>1, <3>2
  <2> HIDE DEF m
  <2> QED
    BY <2>2, <2>3
<1>6. m \in Lineups(others, slots)
  BY <1>1, <1>4, <1>5 DEF Lineups
<1>7. Starters(m) = {g[k] : k \in S}
  <2>1. S = {l[s] : s \in {t \in 1..n : l[t] # Nobody}}
    BY <1>2 DEF Starters, Range
  <2>2. Starters(m) = {m[s] : s \in {t \in 1..n : m[t] # Nobody}}
    BY <1>4 DEF Starters, Range
  <2>3. \A s \in 1..n : /\ m[s] # Nobody <=> l[s] # Nobody
                        /\ l[s] # Nobody => m[s] = g[l[s]]
    BY <1>1, <1>2, <1>3
  <2> HIDE DEF m, S
  <2> QED
    BY <2>1, <2>2, <2>3
<1> HIDE DEF m
<1>8. S \subseteq DOMAIN players /\ IsFiniteSet(S)
  BY <1>1, StartersFit DEF Pool
<1> HIDE DEF S
<1>9. \A k \in S : points[k] \in Int /\ otherPoints[gS[k]] = points[k] /\ gS[k] = g[k]
  BY <1>8 DEF Pool, Renames
<1>10. gS \in Injection(S, DOMAIN others)
  BY <1>3, <1>8 DEF Injection, IsInjective
<1>11. {g[k] : k \in S} = {gS[k] : k \in S}
  OBVIOUS
<1> HIDE DEF gS
<1>12. /\ Total(otherPoints, {gS[k] : k \in S}) = Total(points, S)
       /\ Cardinality({gS[k] : k \in S}) = Cardinality(S)
  BY <1>8, <1>9, <1>10, TotalMoves
<1> QED
  BY <1>6, <1>7, <1>11, <1>12 DEF S

LEMMA LineupTotalMoves ==
  ASSUME NEW players, NEW points, NEW others, NEW otherPoints, NEW slots, NEW g, NEW h,
         Pool(players, slots, points), Pool(others, slots, otherPoints),
         Renames(g, players, points, others, otherPoints),
         Renames(h, others, otherPoints, players, points)
  PROVE  LineupTotal(players, slots, points) = LineupTotal(others, slots, otherPoints)
<1> DEFINE IsBest(l, ps, pts) ==
             /\ l \in Lineups(ps, slots)
             /\ LineupTotal(ps, slots, pts) = Total(pts, Starters(l))
             /\ \A o \in Lineups(ps, slots) :
                  /\ Cardinality(Starters(o)) <= Cardinality(Starters(l))
                  /\ Cardinality(Starters(o)) = Cardinality(Starters(l)) =>
                       Total(pts, Starters(o)) <= Total(pts, Starters(l))
<1>1. PICK a \in Lineups(players, slots) : IsBest(a, players, points)
  <2> DEFINE l == CHOOSE l \in BestLineups(players, slots, points) : TRUE
  <2>1. l \in BestLineups(players, slots, points)
    BY BestIsBest
  <2>2. LineupTotal(players, slots, points) = Total(points, Starters(l))
    BY DEF LineupTotal
  <2> HIDE DEF l
  <2> QED
    BY <2>1, <2>2, BestIsBest
<1>2. PICK b \in Lineups(others, slots) : IsBest(b, others, otherPoints)
  <2> DEFINE l == CHOOSE l \in BestLineups(others, slots, otherPoints) : TRUE
  <2>1. l \in BestLineups(others, slots, otherPoints)
    BY BestIsBest
  <2>2. LineupTotal(others, slots, otherPoints) = Total(otherPoints, Starters(l))
    BY DEF LineupTotal
  <2> HIDE DEF l
  <2> QED
    BY <2>1, <2>2, BestIsBest
<1>3. PICK c \in Lineups(others, slots) :
        /\ Cardinality(Starters(c)) = Cardinality(Starters(a))
        /\ Total(otherPoints, Starters(c)) = Total(points, Starters(a))
  BY LineupsMove
<1>4. PICK d \in Lineups(players, slots) :
        /\ Cardinality(Starters(d)) = Cardinality(Starters(b))
        /\ Total(points, Starters(d)) = Total(otherPoints, Starters(b))
  BY LineupsMove
<1>5. Cardinality(Starters(a)) \in Nat /\ Cardinality(Starters(b)) \in Nat
  BY StartersFit DEF Pool
<1>6. Total(points, Starters(a)) \in Int /\ Total(otherPoints, Starters(b)) \in Int
  <2>1. Starters(a) \in SUBSET DOMAIN players /\ Starters(b) \in SUBSET DOMAIN others
    BY StartersFit DEF Pool
  <2>2. Total(points, Starters(a)) \in Int
    BY <2>1, TotalAdds DEF Pool
  <2>3. Total(otherPoints, Starters(b)) \in Int
    BY <2>1, TotalAdds DEF Pool
  <2> QED
    BY <2>2, <2>3
<1>7. Cardinality(Starters(a)) <= Cardinality(Starters(b))
  BY <1>2, <1>3
<1>8. Cardinality(Starters(b)) <= Cardinality(Starters(a))
  BY <1>1, <1>4
<1>9. Cardinality(Starters(a)) = Cardinality(Starters(b))
  BY <1>5, <1>7, <1>8
<1>10. Total(points, Starters(a)) <= Total(otherPoints, Starters(b))
  BY <1>2, <1>3, <1>9
<1>11. Total(otherPoints, Starters(b)) <= Total(points, Starters(a))
  BY <1>1, <1>4, <1>9
<1> QED
  BY <1>1, <1>2, <1>6, <1>10, <1>11

\* A list of players, some places perhaps left out.
IsListing(c, list) ==
  /\ \E n \in Nat : DOMAIN list \subseteq 1..n
  /\ \A i \in DOMAIN list : list[i] \in DOMAIN c.players

LEMMA ListingIsPool ==
  ASSUME NEW c, ArePlayers(c), NEW list, IsListing(c, list)
  PROVE  Pool(Listing(c, list), c.slots, ListPoints(c, list)) /\ Worth(c, list) \in Int
<1>1. PICK n \in Nat : DOMAIN list \subseteq 1..n
  BY DEF IsListing
<1>2. IsFiniteSet(DOMAIN list) /\ Nobody \notin DOMAIN list
  BY <1>1, NumbersTo, FS_Subset, NobodyAssumption
<1>3. DOMAIN Listing(c, list) = DOMAIN list
  BY DEF Listing
<1>4. \A i \in DOMAIN list : ListPoints(c, list)[i] \in Int
  BY DEF ListPoints, IsListing, ArePlayers
<1>5. Pool(Listing(c, list), c.slots, ListPoints(c, list))
  BY <1>2, <1>3, <1>4 DEF Pool, ArePlayers
<1> QED
  BY <1>5, LineupTotalIs DEF Worth

LEMMA WorthOfTheListed ==
  ASSUME NEW c, ArePlayers(c), NEW list, IsListing(c, list),
         \A i, j \in DOMAIN list : list[i] = list[j] => i = j
  PROVE  LET S == {list[i] : i \in DOMAIN list}
             points == [k \in DOMAIN c.players |-> c.players[k].points]
         IN Worth(c, list) = LineupTotal(Restrict(c.players, S), c.slots, Restrict(points, S))
<1> DEFINE S == {list[i] : i \in DOMAIN list}
           points == [k \in DOMAIN c.players |-> c.players[k].points]
           players == Restrict(c.players, S)
           worth == Restrict(points, S)
           g == [i \in DOMAIN list |-> list[i]]
           h == [k \in S |-> CHOOSE i \in DOMAIN list : list[i] = k]
<1>1. S \subseteq DOMAIN c.players
  BY DEF IsListing
<1>2. DOMAIN players = S /\ \A k \in S : players[k] = c.players[k] /\ worth[k] = c.players[k].points
  BY <1>1 DEF Restrict
<1>3. \A i \in DOMAIN list : g[i] = list[i] /\ list[i] \in S
  OBVIOUS
<1>4. \A k \in S : h[k] \in DOMAIN list /\ list[h[k]] = k
  OBVIOUS
<1>5. g \in Injection(DOMAIN list, S)
  BY DEF Injection, IsInjective
<1>6. h \in Injection(S, DOMAIN list)
  <2>1. h \in [S -> DOMAIN list]
    BY <1>4
  <2> HIDE DEF h, S
  <2>2. \A a, b \in S : h[a] = h[b] => a = b
    BY <1>4
  <2> QED
    BY <2>1, <2>2 DEF Injection, IsInjective
<1>7. Pool(players, c.slots, worth)
  <2>1. IsFiniteSet(S) /\ Nobody \notin S /\ c.slots \in Seq(STRING)
    BY <1>1, FS_Subset DEF ArePlayers
  <2>2. \A k \in S : worth[k] \in Int
    BY <1>1, <1>2 DEF ArePlayers
  <2> HIDE DEF S, players, worth
  <2> QED
    BY <1>2, <2>1, <2>2 DEF Pool
<1>8. /\ DOMAIN Listing(c, list) = DOMAIN list
      /\ \A i \in DOMAIN list : /\ Listing(c, list)[i] = c.players[list[i]]
                                /\ ListPoints(c, list)[i] = c.players[list[i]].points
  BY DEF Listing, ListPoints
<1> HIDE DEF S, players, worth, g, h
<1>9. Renames(g, Listing(c, list), ListPoints(c, list), players, worth)
  <2>1. \A i \in DOMAIN list : /\ players[g[i]].pos = Listing(c, list)[i].pos
                               /\ worth[g[i]] = ListPoints(c, list)[i]
    BY <1>2, <1>3, <1>8
  <2> QED
    BY <1>2, <1>5, <1>8, <2>1 DEF Renames
<1>10. Renames(h, players, worth, Listing(c, list), ListPoints(c, list))
  <2>1. \A k \in S : /\ Listing(c, list)[h[k]].pos = players[k].pos
                     /\ ListPoints(c, list)[h[k]] = worth[k]
    BY <1>2, <1>4, <1>8
  <2> QED
    BY <1>2, <1>6, <1>8, <2>1 DEF Renames
<1>11. LineupTotal(Listing(c, list), c.slots, ListPoints(c, list))
         = LineupTotal(players, c.slots, worth)
  BY <1>7, <1>9, <1>10, ListingIsPool, LineupTotalMoves
<1> QED
  BY <1>11 DEF Worth, players, worth, S

LEMMA AfterIs ==
  ASSUME NEW c, NEW list \in Seq(DOMAIN c.players), NEW received \in Seq(DOMAIN c.players), NEW sent
  PROVE  /\ IsListing(c, list) /\ IsListing(c, After(list, sent, received))
         /\ DOMAIN After(list, sent, received) =
              {i \in 1..(Len(list) + Len(received)) :
                 i > Len(list) \/ (list \o received)[i] \notin sent}
         /\ \A i \in DOMAIN After(list, sent, received) :
              After(list, sent, received)[i] = IF i <= Len(list) THEN list[i]
                                               ELSE received[i - Len(list)]
<1> DEFINE all == list \o received
           I == {i \in DOMAIN all : i > Len(list) \/ all[i] \notin sent}
<1>1. PICK n, m \in Nat : n = Len(list) /\ m = Len(received)
  OBVIOUS
<1>2. /\ DOMAIN all = 1..(n + m)
      /\ \A i \in 1..(n + m) : all[i] = IF i <= n THEN list[i] ELSE received[i - n]
  BY <1>1
<1>3. \A i \in 1..(n + m) : all[i] \in DOMAIN c.players
  BY <1>1
<1>4. After(list, sent, received) = [i \in I |-> all[i]]
  BY DEF After, Restrict
<1> HIDE DEF all
<1>5. I \subseteq 1..(n + m) /\ n + m \in Nat
  BY <1>2
<1>6. IsListing(c, list)
  BY <1>1 DEF IsListing
<1>7. IsListing(c, After(list, sent, received))
  BY <1>3, <1>4, <1>5 DEF IsListing
<1> QED
  BY <1>1, <1>2, <1>4, <1>6, <1>7 DEF all

\* Nobody whom the scout would trade is the one best player of his team.
LEMMA CandidatesAre ==
  ASSUME NEW c, ArePlayers(c), NEW list \in Seq(DOMAIN c.players), IsInjective(list),
         NEW k \in TradeCandidates(c, list)
  PROVE  /\ k \in ToSet(list) /\ k \in DOMAIN c.players
         /\ {x \in ToSet(list) : \A o \in ToSet(list) : c.players[x].points >= c.players[o].points}
              # {k}
<1>1. PICK i \in DOMAIN list : k = list[i] /\ Cardinality(ListedBefore(c, list, i)) \in 1..7
  BY DEF TradeCandidates
<1>2. ListedBefore(c, list, i) # {}
  <2>1. Cardinality(ListedBefore(c, list, i)) # 0
    BY <1>1
  <2>2. Cardinality({}) = 0
    BY FS_EmptySet
  <2> QED
    BY <2>1, <2>2
<1>3. PICK j \in ListedBefore(c, list, i) : TRUE
  BY <1>2
<1>4. \A o \in ToSet(list) : o \in DOMAIN c.players /\ c.players[o].points \in Int
  BY DEF ToSet, ArePlayers
<1>5. list[i] \in ToSet(list) /\ j \in DOMAIN list /\ list[j] \in ToSet(list)
  BY <1>3 DEF ToSet, ListedBefore
<1>6. c.players[list[j]].points >= c.players[list[i]].points /\ j # i
  BY <1>3, <1>4, <1>5 DEF ListedBefore
<1>7. list[j] # list[i]
  BY <1>5, <1>6 DEF IsInjective
<1>8. ASSUME \A o \in ToSet(list) : c.players[k].points >= c.players[o].points
      PROVE  \A o \in ToSet(list) : c.players[list[j]].points >= c.players[o].points
  BY <1>1, <1>4, <1>5, <1>6, <1>8
<1> QED
  BY <1>1, <1>4, <1>5, <1>7, <1>8

LEMMA DealsAre ==
  ASSUME NEW c, IsScoutCase(c), NEW t \in DOMAIN c.rosters
  PROVE  /\ IsFiniteSet(Deals(c, t))
         /\ \A d \in Deals(c, t) :
              /\ Joint(d) \in Int
              /\ d.team = t /\ HelpsBoth(d, c.minGain)
              /\ d.give \in TradeCandidates(c, c.rosters[c.mine])
              /\ d.get \in TradeCandidates(c, c.rosters[t])
<1> DEFINE A == TradeCandidates(c, c.rosters[c.mine])
           B == TradeCandidates(c, c.rosters[t])
           D == {Deal(c, t, give, get) : give \in A, get \in B}
           f == [p \in A \X B |-> Deal(c, t, p[1], p[2])]
<1>1. /\ ArePlayers(c) /\ IsFiniteSet(DOMAIN c.players)
      /\ c.rosters[c.mine] \in Seq(DOMAIN c.players) /\ IsInjective(c.rosters[c.mine])
      /\ c.rosters[t] \in Seq(DOMAIN c.players) /\ IsInjective(c.rosters[t])
  BY DEF IsScoutCase, ArePlayers
<1>2. A \subseteq DOMAIN c.players /\ B \subseteq DOMAIN c.players
  BY <1>1, CandidatesAre
<1>3. IsFiniteSet(A) /\ IsFiniteSet(B)
  BY <1>1, <1>2, FS_Subset
<1> HIDE DEF A, B
<1>4. f \in Surjection(A \X B, D)
  <2>1. f \in [A \X B -> D]
    OBVIOUS
  <2>2. ASSUME NEW d \in D
        PROVE  \E p \in A \X B : f[p] = d
    <3>1. PICK give \in A, get \in B : d = Deal(c, t, give, get)
      OBVIOUS
    <3>2. <<give, get>> \in A \X B /\ f[<<give, get>>] = Deal(c, t, give, get)
      OBVIOUS
    <3> HIDE DEF f
    <3> QED
      BY <3>1, <3>2
  <2> HIDE DEF f, D
  <2> QED
    BY <2>1, <2>2 DEF Surjection
<1>5. IsFiniteSet(A \X B)
  BY <1>3, FS_Product
<1> HIDE DEF f, D
<1>6. IsFiniteSet(D)
  BY <1>4, <1>5, FS_Surjection
<1>7. Deals(c, t) \subseteq D /\ \A d \in Deals(c, t) : HelpsBoth(d, c.minGain)
  BY DEF Deals, D, A, B
<1>8. IsFiniteSet(Deals(c, t))
  BY <1>6, <1>7, FS_Subset
<1>9. ASSUME NEW d \in Deals(c, t)
      PROVE  /\ Joint(d) \in Int /\ d.team = t /\ d.give \in A /\ d.get \in B
  <2>1. PICK give \in A, get \in B : d = Deal(c, t, give, get)
    BY <1>7 DEF D
  <2>2. PICK mine, theirs \in Seq(DOMAIN c.players) : mine = c.rosters[c.mine] /\ theirs = c.rosters[t]
    BY <1>1
  <2>3. PICK x : x = After(mine, {give}, <<get>>)
    OBVIOUS
  <2>4. PICK y : y = After(theirs, {get}, <<give>>)
    OBVIOUS
  <2>5. d = [team |-> t, give |-> give, get |-> get,
             myGain |-> Worth(c, x) - Worth(c, mine),
             theirGain |-> Worth(c, y) - Worth(c, theirs)]
    BY <2>1, <2>2, <2>3, <2>4 DEF Deal
  <2>6. <<get>> \in Seq(DOMAIN c.players) /\ <<give>> \in Seq(DOMAIN c.players)
    <3>1. PICK K : K = DOMAIN c.players
      OBVIOUS
    <3>2. get \in K /\ give \in K
      BY <1>2, <2>1, <3>1
    <3>3. <<get>> \in Seq(K) /\ <<give>> \in Seq(K)
      BY ONLY <3>2
    <3> QED
      BY <3>1, <3>3
  <2>7. IsListing(c, x) /\ IsListing(c, mine)
    BY <2>3, <2>6, AfterIs
  <2>8. IsListing(c, y) /\ IsListing(c, theirs)
    BY <2>4, <2>6, AfterIs
  <2>9. PICK a, b, p, q \in Int : a = Worth(c, x) /\ b = Worth(c, mine) /\ p = Worth(c, y) /\ q = Worth(c, theirs)
    BY <1>1, <2>7, <2>8, ListingIsPool
  <2>10. d.myGain \in Int /\ d.theirGain \in Int
    BY <2>5, <2>9
  <2>11. d.team = t /\ d.give = give /\ d.get = get
    BY <2>5
  <2> QED
    BY <2>10, <2>11 DEF Joint, Least
<1> QED
  BY <1>7, <1>8, <1>9 DEF A, B

LEMMA IdeasAre ==
  ASSUME case.job = "scout", IsScoutCase(case), report \in IdeaLists(case)
  PROVE  IdeasCanBeProposed
<1>1. CASE case.rosters[case.mine] = <<>>
  <2>1. report = <<>>
    BY <1>1 DEF IdeaLists
  <2> QED
    BY <2>1 DEF IdeasCanBeProposed
<1>2. CASE case.rosters[case.mine] # <<>>
  <2> DEFINE P == Partners(case)
             N == Cardinality(P)
  <2>1. PICK q \in [1..N -> P] :
          /\ \A i, j \in 1..N : i < j => Sooner(BestDeal(case, q[i]), BestDeal(case, q[j]))
          /\ report = Ideas(case, q)
    BY <1>2 DEF IdeaLists
  <2>2. P \subseteq DOMAIN case.rosters /\ N \in Nat
    <3>1. P \subseteq DOMAIN case.rosters /\ IsFiniteSet(DOMAIN case.rosters)
      BY DEF Partners, IsScoutCase
    <3> HIDE DEF P
    <3> QED
      BY <3>1, FS_Subset, FS_CardinalityType
  <2>3. PICK m \in 0..N : m = Least(case.ideas, N)
    BY <2>2 DEF Least, IsScoutCase
  <2>4. DOMAIN report = 1..m /\ \A i \in 1..m : report[i] = BestDeal(case, q[i])
    BY <2>1, <2>3 DEF Ideas
  <2>5. ASSUME NEW t \in P
        PROVE  BestDeal(case, t) \in Deals(case, t)
    <3> DEFINE S == Deals(case, t)
               f == [d \in S |-> Joint(d)]
    <3>1. S # {} /\ t \in DOMAIN case.rosters
      BY DEF Partners
    <3>2. IsFiniteSet(S) /\ \A d \in S : f[d] \in Int
      BY <3>1, DealsAre
    <3>3. \E d \in S : \A o \in S : f[d] >= f[o]
      <4> HIDE DEF S, f
      <4> QED
        BY <3>1, <3>2, SomeIsGreatest
    <3>4. \E d \in S : \A o \in S : Joint(d) >= Joint(o)
      BY <3>3
    <3> QED
      BY <3>4 DEF BestDeal
  <2> HIDE DEF P, N
  <2>6. ASSUME NEW i \in 1..m
        PROVE  /\ i \in 1..N /\ q[i] \in P /\ q[i] \in DOMAIN case.rosters
               /\ report[i] \in Deals(case, q[i])
    <3>1. i \in 1..N
      BY <2>2, <2>3
    <3> QED
      BY <2>1, <2>2, <2>4, <2>5, <3>1
  <2>7. ASSUME NEW i \in 1..m
        PROVE  /\ report[i].myGain >= case.minGain /\ report[i].theirGain >= case.minGain
               /\ report[i].team = q[i] /\ Joint(report[i]) \in Int
               /\ report[i].give \in TradeCandidates(case, case.rosters[case.mine])
               /\ report[i].get \in TradeCandidates(case, case.rosters[q[i]])
    BY <2>6, DealsAre DEF HelpsBoth
  <2> DEFINE best(t) == {k \in ToSet(case.rosters[t]) : \A o \in ToSet(case.rosters[t]) :
                           case.players[k].points >= case.players[o].points}
  <2>8. ASSUME NEW t \in DOMAIN case.rosters, NEW k \in TradeCandidates(case, case.rosters[t])
        PROVE  k \in ToSet(case.rosters[t]) /\ best(t) # {k}
    <3>1. case.rosters[t] \in Seq(DOMAIN case.players) /\ IsInjective(case.rosters[t])
      BY DEF IsScoutCase
    <3> QED
      BY <3>1, CandidatesAre DEF IsScoutCase
  <2> HIDE DEF best
  <2>9. ASSUME NEW i \in 1..m
        PROVE  /\ report[i].myGain >= case.minGain /\ report[i].theirGain >= case.minGain
               /\ best(case.mine) # {report[i].give} /\ best(report[i].team) # {report[i].get}
               /\ report[i].give \in ToSet(case.rosters[case.mine])
               /\ report[i].get \in ToSet(case.rosters[report[i].team])
    <3>1. case.mine \in DOMAIN case.rosters
      BY DEF IsScoutCase
    <3> QED
      BY <2>6, <2>7, <2>8, <3>1
  <2>10. ASSUME NEW i \in 1..m, NEW j \in 1..m, i < j
         PROVE  report[i].team # report[j].team /\ Joint(report[i]) >= Joint(report[j])
    <3>1. Sooner(report[i], report[j])
      BY <2>1, <2>4, <2>6, <2>10
    <3>2. Joint(report[i]) \in Int /\ Joint(report[j]) \in Int
      BY <2>7
    <3>3. ASSUME report[i].team = report[j].team
          PROVE  FALSE
      <4>1. report[i] = report[j]
        BY <2>4, <2>7, <3>3
      <4>2. q[i] \in Int
        BY <2>6 DEF IsScoutCase
      <4> QED
        BY <2>7, <3>1, <3>2, <4>1, <4>2 DEF Sooner
    <3> QED
      BY <3>1, <3>2, <3>3 DEF Sooner
  <2> QED
    BY <2>4, <2>9, <2>10 DEF IdeasCanBeProposed, best
<1> QED
  BY <1>1, <1>2

LEMMA ListedOnce ==
  ASSUME NEW K, NEW list \in Seq(K), NEW received \in Seq(K), NEW sent,
         IsInjective(list), IsInjective(received), ToSet(received) \cap ToSet(list) = {}
  PROVE  LET after == After(list, sent, received) IN
         /\ \A i, j \in DOMAIN after : after[i] = after[j] => i = j
         /\ {after[i] : i \in DOMAIN after} = (ToSet(list) \ sent) \cup ToSet(received)
<1> DEFINE all == list \o received
           I == {i \in DOMAIN all : i > Len(list) \/ all[i] \notin sent}
           after == After(list, sent, received)
<1>1. PICK n, m \in Nat : n = Len(list) /\ m = Len(received)
  OBVIOUS
<1>2. /\ DOMAIN all = 1..(n + m)
      /\ \A i \in 1..(n + m) : all[i] = IF i <= n THEN list[i] ELSE received[i - n]
  BY <1>1
<1>3. ToSet(list) = {list[i] : i \in 1..n} /\ ToSet(received) = {received[i] : i \in 1..m}
  BY <1>1 DEF ToSet
<1>4. after = [i \in I |-> all[i]]
  BY DEF After, Restrict
<1>5. /\ \A i, j \in 1..n : list[i] = list[j] => i = j
      /\ \A i, j \in 1..m : received[i] = received[j] => i = j
  BY <1>1 DEF IsInjective
<1> HIDE DEF all, after
<1>6. I = {i \in 1..(n + m) : i > n \/ all[i] \notin sent}
  BY <1>1, <1>2
<1>7. \A i \in 1..n : \A j \in 1..m : list[i] # received[j]
  BY <1>3
<1>8. ASSUME NEW i \in 1..(n + m), NEW j \in 1..(n + m), all[i] = all[j]
      PROVE  i = j
  <2>1. CASE i <= n /\ j <= n
    BY <1>2, <1>5, <1>8, <2>1
  <2>2. CASE i > n /\ j > n
    <3>1. i - n \in 1..m /\ j - n \in 1..m /\ all[i] = received[i - n] /\ all[j] = received[j - n]
      BY <1>2, <2>2
    <3>2. i - n = j - n
      BY <1>5, <1>8, <3>1
    <3> QED
      BY <3>2
  <2>3. CASE i <= n /\ j > n
    <3>1. i \in 1..n /\ j - n \in 1..m /\ all[i] = list[i] /\ all[j] = received[j - n]
      BY <1>2, <2>3
    <3> QED
      BY <1>7, <1>8, <3>1
  <2>4. CASE i > n /\ j <= n
    <3>1. j \in 1..n /\ i - n \in 1..m /\ all[j] = list[j] /\ all[i] = received[i - n]
      BY <1>2, <2>4
    <3> QED
      BY <1>7, <1>8, <3>1
  <2> QED
    BY <2>1, <2>2, <2>3, <2>4
<1>9. {all[i] : i \in I} = (ToSet(list) \ sent) \cup ToSet(received)
  <2>1. ASSUME NEW i \in I
        PROVE  all[i] \in (ToSet(list) \ sent) \cup ToSet(received)
    <3>1. CASE i <= n
      <4>1. i \in 1..n /\ all[i] = list[i] /\ all[i] \notin sent
        BY <1>2, <1>6, <3>1
      <4> QED
        BY <1>3, <4>1
    <3>2. CASE i > n
      <4>1. i - n \in 1..m /\ all[i] = received[i - n]
        BY <1>2, <1>6, <3>2
      <4> QED
        BY <1>3, <4>1
    <3> QED
      BY <1>6, <3>1, <3>2
  <2>2. ASSUME NEW k \in ToSet(list) \ sent
        PROVE  \E i \in I : all[i] = k
    <3>1. PICK i \in 1..n : k = list[i]
      BY <1>3
    <3>2. i \in 1..(n + m) /\ all[i] = k
      BY <1>2, <3>1
    <3> QED
      BY <1>6, <3>2
  <2>3. ASSUME NEW k \in ToSet(received)
        PROVE  \E i \in I : all[i] = k
    <3>1. PICK j \in 1..m : k = received[j]
      BY <1>3
    <3>2. n + j \in 1..(n + m) /\ n + j > n /\ (n + j) - n = j
      OBVIOUS
    <3>3. all[n + j] = k
      BY <1>2, <3>1, <3>2
    <3> QED
      BY <1>6, <3>2, <3>3
  <2> HIDE DEF I
  <2> QED
    BY <2>1, <2>2, <2>3
<1>10. DOMAIN after = I /\ \A i \in I : after[i] = all[i]
  BY <1>4
<1>11. I \subseteq 1..(n + m)
  BY <1>6
<1> HIDE DEF I
<1>12. \A i, j \in DOMAIN after : after[i] = after[j] => i = j
  BY <1>8, <1>10, <1>11
<1>13. {after[i] : i \in DOMAIN after} = (ToSet(list) \ sent) \cup ToSet(received)
  BY <1>9, <1>10
<1> QED
  BY <1>12, <1>13 DEF after

LEMMA OfferIs ==
  ASSUME case.job = "offer", IsOfferCase(case), report = Judged(case)
  PROVE  OnlyRealTradesAreTaken
<1> DEFINE kept == ToSet(case.roster) \ ToSet(case.give)
           points == [k \in DOMAIN case.players |-> case.players[k].points]
           worth(S) == LineupTotal(Restrict(case.players, S), case.slots, Restrict(points, S))
           after == After(case.roster, ToSet(case.give), case.get)
           gain == Worth(case, after) - Worth(case, case.roster)
<1> SUFFICES ASSUME report.verdict # "none", Listed(case.get), Listed(case.roster)
             PROVE  /\ ~Unknown(case, case.roster \o case.give \o case.get \o case.theirs)
                    /\ ToSet(case.give) \subseteq ToSet(case.roster)
                    /\ kept \cap ToSet(case.get) = {}
                    /\ (report.verdict = "take it") <=>
                         worth(kept \cup ToSet(case.get)) > worth(ToSet(case.roster))
  BY DEF OnlyRealTradesAreTaken
<1>1. report = Verdict(case)
  BY DEF Judged, NoVerdict
<1>2. /\ ~Unknown(case, case.roster \o case.give \o case.get)
      /\ ~Impossible(case) /\ ~Unknown(case, case.theirs)
  <2>1. \A why : NoVerdict(why).verdict = "none"
    BY DEF NoVerdict
  <2>2. /\ Verdict(case) # NoVerdict("unmatched")
        /\ Verdict(case) # NoVerdict("impossible")
    BY <1>1, <2>1
  <2> QED
    BY <2>2 DEF Verdict
<1>3. report.verdict = IF gain > 0 THEN "take it" ELSE "decline"
  <2>1. \E o, w : Verdict(case) = [verdict |-> IF gain > 0 THEN "take it" ELSE "decline",
                                  gain |-> gain, over |-> o, weakensThem |-> w]
    BY <1>2, Zenon DEF Verdict
  <2>2. PICK said : said = IF gain > 0 THEN "take it" ELSE "decline"
    OBVIOUS
  <2>3. PICK o, w : report = [verdict |-> said, gain |-> gain, over |-> o, weakensThem |-> w]
    BY <1>1, <2>1, <2>2, Zenon
  <2> HIDE DEF gain
  <2>4. report.verdict = said
    BY <2>3
  <2> QED
    BY <2>2, <2>4
<1>4. /\ case.roster \in Seq(DOMAIN case.players) /\ case.give \in Seq(DOMAIN case.players)
      /\ case.get \in Seq(DOMAIN case.players) /\ case.theirs \in Seq(DOMAIN case.players)
  BY DEF IsOfferCase
<1>5. ToSet(case.give) \subseteq ToSet(case.roster) /\ ToSet(case.get) \cap ToSet(case.roster) = {}
  BY <1>2 DEF Impossible
<1>6. ~Unknown(case, case.roster \o case.give \o case.get \o case.theirs)
  <2> DEFINE first == case.roster \o case.give \o case.get
  <2>1. first \in Seq(DOMAIN case.players)
    <3>1. PICK K : K = DOMAIN case.players
      OBVIOUS
    <3>2. PICK a, b, d \in Seq(K) : a = case.roster /\ b = case.give /\ d = case.get
      BY <1>4, <3>1
    <3>3. a \o b \o d \in Seq(K)
      BY ONLY <3>2
    <3> QED
      BY <3>1, <3>2, <3>3
  <2>2. ~Unknown(case, first)
    BY <1>2
  <2> HIDE DEF first
  <2>3. ASSUME NEW k \in ToSet(first \o case.theirs)
        PROVE  k \in ToSet(first) \/ k \in ToSet(case.theirs)
    <3>1. PICK i \in DOMAIN (first \o case.theirs) : k = (first \o case.theirs)[i]
      BY DEF ToSet
    <3>2. PICK n, m \in Nat : n = Len(first) /\ m = Len(case.theirs)
      BY <1>4, <2>1
    <3>3. i \in 1..(n + m) /\ k = IF i <= n THEN first[i] ELSE case.theirs[i - n]
      BY <1>4, <2>1, <3>1, <3>2
    <3>4. CASE i <= n
      BY <2>1, <3>2, <3>3, <3>4 DEF ToSet
    <3>5. CASE i > n
      <4>1. i - n \in 1..m /\ k = case.theirs[i - n]
        BY <3>3, <3>5
      <4> QED
        BY <1>4, <3>2, <4>1 DEF ToSet
    <3> QED
      BY <3>3, <3>4, <3>5
  <2>4. ~Unknown(case, first \o case.theirs)
    BY <1>2, <2>2, <2>3 DEF Unknown
  <2> QED
    BY <2>4 DEF first
<1>7. Worth(case, case.roster) = worth(ToSet(case.roster)) /\ Worth(case, case.roster) \in Int
  <2>1. ArePlayers(case) /\ IsListing(case, case.roster)
    BY <1>4, AfterIs DEF IsOfferCase
  <2>2. \A i, j \in DOMAIN case.roster : case.roster[i] = case.roster[j] => i = j
    BY DEF Listed, IsInjective
  <2>3. ToSet(case.roster) = {case.roster[i] : i \in DOMAIN case.roster}
    BY DEF ToSet
  <2>4. Worth(case, case.roster) = worth({case.roster[i] : i \in DOMAIN case.roster})
    BY <2>1, <2>2, WorthOfTheListed
  <2>5. Worth(case, case.roster) \in Int
    BY <2>1, ListingIsPool
  <2> HIDE DEF worth
  <2> QED
    BY <2>3, <2>4, <2>5
<1>8. Worth(case, after) = worth(kept \cup ToSet(case.get)) /\ Worth(case, after) \in Int
  <2>1. ArePlayers(case) /\ IsListing(case, after)
    BY <1>4, AfterIs DEF IsOfferCase
  <2>2. /\ \A i, j \in DOMAIN after : after[i] = after[j] => i = j
        /\ {after[i] : i \in DOMAIN after} = kept \cup ToSet(case.get)
    <3>1. IsInjective(case.roster) /\ IsInjective(case.get)
      BY DEF Listed
    <3>2. PICK K, sent : K = DOMAIN case.players /\ sent = ToSet(case.give)
      OBVIOUS
    <3>3. /\ case.roster \in Seq(K) /\ case.get \in Seq(K)
          /\ after = After(case.roster, sent, case.get)
          /\ kept = ToSet(case.roster) \ sent
      BY <1>4, <3>2
    <3> HIDE DEF after, kept
    <3> QED
      BY ONLY <3>1, <3>3, <1>5, ListedOnce
  <2> HIDE DEF after
  <2>3. Worth(case, after) = worth({after[i] : i \in DOMAIN after})
    BY <2>1, <2>2, WorthOfTheListed
  <2>4. Worth(case, after) \in Int
    BY <2>1, ListingIsPool
  <2> HIDE DEF worth, kept
  <2> QED
    BY <2>2, <2>3, <2>4
<1>9. kept \cap ToSet(case.get) = {}
  BY <1>5
<1>10. (report.verdict = "take it") <=> gain > 0
  BY <1>3
<1> HIDE DEF worth, kept, after
<1>11. gain > 0 <=> worth(kept \cup ToSet(case.get)) > worth(ToSet(case.roster))
  BY <1>7, <1>8
<1> HIDE DEF gain
<1> QED
  BY <1>5, <1>6, <1>9, <1>10, <1>11

MarketIsAnswered ==
  /\ case.job = "waivers" =>
       IsWaiverCase(case) /\ (report = Unanswered \/ report \in WaiverReports(case))
  /\ case.job = "scout" =>
       IsScoutCase(case) /\ (report = Unanswered \/ report \in IdeaLists(case))
  /\ case.job = "offer" =>
       IsOfferCase(case) /\ (report = Unanswered \/ report = Judged(case))

(***************************************************************************)
(* Whatever the rosters and the wire hold: no claim advised empties a      *)
(* position, drops a player twice or bids outside its own bracket and the  *)
(* budget; every trade proposed helps both sides and asks nobody for his   *)
(* best player; and "take it" is said only of a trade that can happen and  *)
(* makes the lineup better (run, src/season/waivers.py:409; run,           *)
(* src/season/trades.py:149; evaluate, src/season/trade_offer.py:126).     *)
(***************************************************************************)
THEOREM MarketIsAlwaysSound ==
  MarketSpec => []MarketIsSound
<1>1. MarketInit => MarketIsAnswered
  BY DEF MarketInit, MarketIsAnswered
<1>2. MarketIsAnswered /\ [WaiverRun \/ ScoutRun \/ OfferRun]_adviceVars => MarketIsAnswered'
  <2> SUFFICES ASSUME MarketIsAnswered, [WaiverRun \/ ScoutRun \/ OfferRun]_adviceVars
               PROVE  MarketIsAnswered'
    OBVIOUS
  <2>1. CASE WaiverRun
    BY <2>1 DEF WaiverRun, Answer, Asked, MarketIsAnswered
  <2>2. CASE ScoutRun
    BY <2>2 DEF ScoutRun, Answer, Asked, MarketIsAnswered
  <2>3. CASE OfferRun
    BY <2>3 DEF OfferRun, Answer, Asked, MarketIsAnswered
  <2>4. CASE UNCHANGED adviceVars
    BY <2>4 DEF adviceVars, MarketIsAnswered
  <2> QED
    BY <2>1, <2>2, <2>3, <2>4
<1>3. MarketIsAnswered => MarketIsSound
  <2> SUFFICES ASSUME MarketIsAnswered
               PROVE  MarketIsSound
    OBVIOUS
  <2>1. WaiversAreSound
    BY WaiversAre DEF MarketIsAnswered, WaiversAreSound, Answered
  <2>2. Answered("scout") => IdeasCanBeProposed
    BY IdeasAre DEF MarketIsAnswered, Answered
  <2>3. Answered("offer") => OnlyRealTradesAreTaken
    BY OfferIs DEF MarketIsAnswered, Answered
  <2> QED
    BY <2>1, <2>2, <2>3 DEF MarketIsSound, TradesAreSound
<1> QED
  BY <1>1, <1>2, <1>3, PTL DEF MarketSpec

-----------------------------------------------------------------------------
(* The draft page: numbers.                                                *)

\* The next pick follows all that are taken.
LEMMA NextPickSays ==
  ASSUME NEW board
  PROVE  /\ NextPick(board) \in Nat \ {0}
         /\ \A n \in Picks : Occupied(board, n) => n < NextPick(board)
         /\ (\A n \in Picks : ~Occupied(board, n)) => NextPick(board) = 1
<1> DEFINE T == {n \in Picks : Occupied(board, n)} \cup {0}
<1>1. T # {} /\ T \subseteq 0..LastPick /\ LastPick \in Nat
  BY PageAssumption DEF Picks
<1>2. NextPick(board) = 1 + Max(T)
  BY DEF NextPick
<1> HIDE DEF T
<1>3. Max(T) \in T /\ \A n \in T : Max(T) >= n
  BY <1>1, GreatestExists DEF Max
<1>4. \A m \in T : m \in Nat
  BY <1>1
<1>5. \A n \in Picks : Occupied(board, n) => n \in T /\ n \in Nat
  BY DEF T, Picks
<1>6. (\A n \in Picks : ~Occupied(board, n)) => Max(T) = 0
  BY <1>3 DEF T
<1> QED
  <2>1. /\ Max(T) \in Nat
        /\ \A n \in Picks : Occupied(board, n) => n \in Nat /\ Max(T) >= n
    BY <1>3, <1>4, <1>5
  <2> HIDE DEF T
  <2> QED
    BY <1>2, <1>6, <2>1

-----------------------------------------------------------------------------
(* The draft page: a run of it.                                            *)

PageFields == {"board", "box", "value", "applied", "resumed", "skipped"}

IsPage(p) ==
  /\ p = [f \in PageFields |-> p[f]]
  /\ p.board = [n \in Picks |-> p.board[n]]
  /\ p.box \in Nat /\ p.value \in Nat /\ p.applied \in Nat

Calm(p) ==
  \/ p.box = 1
  \/ keeps /\ p.box = p.applied
  \/ ~keeps /\ p.box = p.value

\* The box shows the number it holds, or the next pick.
LEMMA BoxSays ==
  ASSUME NEW p, IsPage(p)
  PROVE  /\ BoxShows(p) \in Nat \ {0}
         /\ p.box # None /\ (keeps \/ p.value = NextPick(p.board)) => BoxShows(p) = p.box
         /\ p.box = None \/ (~keeps /\ p.value # NextPick(p.board))
              => BoxShows(p) = NextPick(p.board)
BY NextPickSays DEF BoxShows, IsPage, None

\* The number last applied, to this run of the page.
LastApplied(p) == IF p.applied = None THEN BoxShows(p) ELSE p.applied

\* What a run skips to, if it does.
Target(p) == PickToApply(BoxShows(p), NextPick(p.board), LastApplied(p))

LEMMA ShownSays ==
  ASSUME NEW p, IsPage(p)
  PROVE  /\ Shown(p).box = BoxShows(p)
         /\ DOMAIN Shown(p) = PageFields
         /\ Target(p) = None =>
              /\ Shown(p).board = p.board /\ Shown(p).value = NextPick(p.board)
              /\ Shown(p).applied = IF BoxShows(p) # NextPick(p.board)
                                      THEN BoxShows(p) ELSE LastApplied(p)
         /\ Target(p) # None =>
              /\ Shown(p).board = SkipTo(p.board, Target(p))
              /\ Shown(p).value = Target(p) /\ Shown(p).applied = Target(p)
<1> DEFINE rest == [p EXCEPT !.box = BoxShows(p), !.value = NextPick(p.board)]
           on == [rest EXCEPT !.applied = IF BoxShows(p) # NextPick(p.board)
                                           THEN BoxShows(p) ELSE LastApplied(p),
                              !.skipped = FALSE]
           skip == [rest EXCEPT !.board = SkipTo(p.board, Target(p)), !.applied = Target(p),
                                !.value = Target(p), !.skipped = TRUE]
<1>1. Shown(p) = IF Target(p) # None THEN skip ELSE on
  BY DEF Shown, Target, LastApplied
<1>2. DOMAIN p = PageFields
  BY DEF IsPage
<1>3. /\ DOMAIN rest = PageFields /\ rest.box = BoxShows(p) /\ rest.board = p.board
      /\ rest.value = NextPick(p.board)
  BY <1>2 DEF PageFields
<1> HIDE DEF rest
<1>4. /\ DOMAIN on = PageFields /\ on.box = BoxShows(p) /\ on.board = p.board
      /\ on.value = NextPick(p.board)
      /\ on.applied = IF BoxShows(p) # NextPick(p.board)
                        THEN BoxShows(p) ELSE LastApplied(p)
  BY <1>3 DEF PageFields
<1>5. /\ DOMAIN skip = PageFields /\ skip.box = BoxShows(p)
      /\ skip.board = SkipTo(p.board, Target(p))
      /\ skip.value = Target(p) /\ skip.applied = Target(p)
  BY <1>3 DEF PageFields
<1> HIDE DEF on, skip
<1> QED
  BY <1>1, <1>4, <1>5

\* A run says that it skipped exactly when it did.
LEMMA SkippedSays ==
  ASSUME NEW p, IsPage(p)
  PROVE  /\ Shown(p).skipped \in BOOLEAN
         /\ Shown(p).skipped <=> Target(p) # None
<1> DEFINE rest == [p EXCEPT !.box = BoxShows(p), !.value = NextPick(p.board)]
           on == [rest EXCEPT !.applied = IF BoxShows(p) # NextPick(p.board)
                                           THEN BoxShows(p) ELSE LastApplied(p),
                              !.skipped = FALSE]
           skip == [rest EXCEPT !.board = SkipTo(p.board, Target(p)), !.applied = Target(p),
                                !.value = Target(p), !.skipped = TRUE]
<1>1. Shown(p) = IF Target(p) # None THEN skip ELSE on
  BY DEF Shown, Target, LastApplied
<1>2. "skipped" \in DOMAIN rest
  BY DEF IsPage, PageFields
<1> HIDE DEF rest
<1>3. on["skipped"] = FALSE /\ skip["skipped"] = TRUE
  BY <1>2
<1> HIDE DEF on, skip
<1>4. CASE Target(p) # None
  BY <1>1, <1>3, <1>4, Zenon
<1>5. CASE Target(p) = None
  BY <1>1, <1>3, <1>5, Zenon
<1> QED
  BY <1>4, <1>5, Zenon

\* A run leaves a page a page.
LEMMA ShownIsPage ==
  ASSUME NEW p, IsPage(p)
  PROVE  IsPage(Shown(p)) /\ Shown(p).box # None
<1>1. BoxShows(p) \in Nat \ {0} /\ NextPick(p.board) \in Nat /\ LastApplied(p) \in Nat
  BY BoxSays, NextPickSays DEF LastApplied, IsPage
<1>2. Target(p) \in Nat
  BY <1>1 DEF Target, PickToApply, None
<1>3. Shown(p) = [f \in PageFields |-> Shown(p)[f]]
  <2> DEFINE rest == [p EXCEPT !.box = BoxShows(p), !.value = NextPick(p.board)]
             on == [rest EXCEPT !.applied = IF BoxShows(p) # NextPick(p.board)
                                             THEN BoxShows(p) ELSE LastApplied(p),
                                !.skipped = FALSE]
             skip == [rest EXCEPT !.board = SkipTo(p.board, Target(p)),
                                  !.applied = Target(p), !.value = Target(p), !.skipped = TRUE]
  <2>1. Shown(p) = skip \/ Shown(p) = on
    BY DEF Shown, Target, LastApplied
  <2> HIDE DEF rest
  <2>2. on = [f \in DOMAIN on |-> on[f]] /\ skip = [f \in DOMAIN skip |-> skip[f]]
    OBVIOUS
  <2>3. DOMAIN Shown(p) = PageFields
    BY ShownSays
  <2> HIDE DEF on, skip
  <2> QED
    BY <2>1, <2>2, <2>3, Zenon
<1>4. Shown(p).board = [n \in Picks |-> Shown(p).board[n]]
  <2>1. SkipTo(p.board, Target(p)) = [n \in Picks |-> SkipTo(p.board, Target(p))[n]]
    BY DEF SkipTo
  <2>2. p.board = [n \in Picks |-> p.board[n]]
    BY DEF IsPage
  <2> QED
    BY <2>1, <2>2, ShownSays, Zenon
<1>5. Shown(p).box \in Nat \ {0} /\ Shown(p).value \in Nat /\ Shown(p).applied \in Nat
  BY <1>1, <1>2, ShownSays
<1> QED
  BY <1>3, <1>4, <1>5 DEF IsPage, None

\* A calm page stays calm and skips nothing.
LEMMA CalmStays ==
  ASSUME NEW p, IsPage(p), p.box # None, Calm(p)
  PROVE  Target(p) = None /\ Calm(Shown(p))
<1> DEFINE next == NextPick(p.board)
           box == BoxShows(p)
           last == LastApplied(p)
<1>1. /\ next \in Nat \ {0} /\ box \in Nat \ {0} /\ last \in Nat
      /\ p.box \in Nat \ {0} /\ p.applied \in Nat /\ p.value \in Nat
  BY BoxSays, NextPickSays DEF LastApplied, IsPage, None
<1>2. /\ keeps \/ p.value = next => box = p.box
      /\ ~keeps /\ p.value # next => box = next
  BY BoxSays DEF None
<1>3. /\ Target(p) = PickToApply(box, next, last)
      /\ last = IF p.applied = None THEN box ELSE p.applied
  BY DEF Target, LastApplied
<1>4. /\ Shown(p).box = box
      /\ Target(p) = None => /\ Shown(p).value = next
                             /\ Shown(p).applied = IF box # next THEN box ELSE last
  BY ShownSays
<1> HIDE DEF next, box, last
<1>5. CASE p.box = 1
  <2>1. box = 1 \/ (~keeps /\ box = next)
    BY <1>2, <1>5, Zenon
  <2>2. box <= next
    BY <1>1, <2>1
  <2> QED
    BY <1>3, <1>4, <2>1, <2>2 DEF PickToApply, Calm, None
<1>6. CASE keeps /\ p.box = p.applied
  <2>1. box = last
    BY <1>1, <1>2, <1>3, <1>6
  <2> QED
    BY <1>3, <1>4, <1>6, <2>1 DEF PickToApply, Calm, None
<1>7. CASE ~keeps /\ p.box = p.value
  <2>1. box = next
    BY <1>2, <1>7
  <2> QED
    BY <1>1, <1>3, <1>4, <1>7, <2>1 DEF PickToApply, Calm, None
<1> QED
  BY <1>5, <1>6, <1>7 DEF Calm

\* So is a page whose box is empty: its number is the next pick's, and either
\* nothing was applied before, or the draft starts.
LEMMA EmptyBoxIsCalm ==
  ASSUME NEW p, IsPage(p), p.box = None, p.applied = None \/ NextPick(p.board) = 1
  PROVE  Target(p) = None /\ Calm(Shown(p))
<1>1. /\ BoxShows(p) = NextPick(p.board) /\ NextPick(p.board) \in Nat \ {0}
  BY BoxSays, NextPickSays
<1>2. Target(p) = None
  BY <1>1 DEF Target, PickToApply, None
<1>3. /\ Shown(p).box = NextPick(p.board) /\ Shown(p).value = NextPick(p.board)
      /\ Shown(p).applied = LastApplied(p)
  BY <1>1, <1>2, ShownSays
<1>4. p.applied = None => LastApplied(p) = NextPick(p.board)
  BY <1>1 DEF LastApplied
<1> QED
  BY <1>2, <1>3, <1>4 DEF Calm

\* A page that has skipped is calm: the number was applied.
LEMMA SkippingCalms ==
  ASSUME NEW p, IsPage(p), Target(p) # None
  PROVE  Calm(Shown(p))
<1>1. Target(p) = BoxShows(p)
  BY DEF Target, PickToApply
<1> QED
  BY <1>1, ShownSays DEF Calm

\* A run in which the box changes of itself leaves it following the draft.
LEMMA FollowingIsCalm ==
  ASSUME NEW p, IsPage(p), p.box # None, Shown(p).box # p.box
  PROVE  Target(p) = None /\ Calm(Shown(p))
<1>1. ~keeps /\ p.value # NextPick(p.board) /\ BoxShows(p) = NextPick(p.board)
  BY BoxSays, ShownSays DEF None
<1>2. Target(p) = None
  BY <1>1, NextPickSays DEF Target, PickToApply, None
<1> QED
  BY <1>1, <1>2, ShownSays DEF Calm

-----------------------------------------------------------------------------
(* The draft page: rosters.                                                *)

\* Skipping gives nobody to anybody.
LEMMA SkippingGivesNobody ==
  ASSUME NEW board, NEW target, NEW team
  PROVE  RosterOf(SkipTo(board, target), team) \subseteq RosterOf(board, team)
BY DEF RosterOf, SkipTo, EntryFor

LEMMA ShownGivesNobody ==
  ASSUME NEW p, IsPage(p), NEW team
  PROVE  RosterOf(Shown(p).board, team) \subseteq RosterOf(p.board, team)
BY ShownSays, SkippingGivesNobody

\* A recorded pick leaves its player on the roster of its team only, and moves
\* nobody else.
LEMMA RecordingMoves ==
  ASSUME NEW board, NEW n, NEW player, NEW team, NEW mine
  PROVE  LET after == RosterOf(RecordAt(board, n, player, team), mine) IN
         /\ after \subseteq RosterOf(board, mine) \cup {player}
         /\ player = NoOne \/ team # mine => after \subseteq RosterOf(board, mine) \ {player}
<1> DEFINE cleared == Without(board, Earlier(board, n, player))
           new == RecordAt(board, n, player, team)
<1>1. /\ \A m \in Picks : m # n => new[m] = cleared[m]
      /\ n \in Picks => new[n] = EntryFor(player, team)
  BY DEF RecordAt, Without
<1>2. \A m \in Picks : m # n /\ cleared[m].player # NoOne =>
        cleared[m] = board[m] /\ board[m].player # player
  BY DEF Without, Earlier, Vacant
<1>3. EntryFor(player, team).player = player /\ EntryFor(player, team).team = team
  BY DEF EntryFor
<1> HIDE DEF cleared, new
<1>4. ASSUME NEW x \in RosterOf(new, mine)
      PROVE  /\ x # NoOne
             /\ \/ x = player /\ team = mine
                \/ x # player /\ x \in RosterOf(board, mine)
  <2>1. PICK m \in Picks : new[m].team = mine /\ x = new[m].player /\ x # NoOne
    BY <1>4 DEF RosterOf
  <2>2. CASE m = n
    BY <1>1, <1>3, <2>1, <2>2
  <2>3. CASE m # n
    <3>1. new[m] = board[m] /\ x # player
      BY <1>1, <1>2, <2>1, <2>3
    <3> QED
      BY <2>1, <3>1 DEF RosterOf
  <2> QED
    BY <2>2, <2>3
<1> QED
  BY <1>4 DEF new

-----------------------------------------------------------------------------
(* The draft page: its invariant.                                          *)

PageInv ==
  /\ IsPage(page) /\ page.box # None
  /\ typed \in BOOLEAN
  /\ ~typed => Calm(page)
  /\ FALSE \notin phantom
  /\ GoneIsNotMine

\* What a handler may make of the page it was shown.
Handled(h) ==
  /\ IsPage(h)
  /\ h.value = Seen.value /\ h.applied = Seen.applied
  /\ h.box = Seen.box \/ (h.box = None /\ NextPick(h.board) = 1)

LEMMA PageInvInit == PageInit => PageInv
<1> SUFFICES ASSUME PageInit
             PROVE  PageInv
  OBVIOUS
<1>1. /\ page = Shown(FreshPage(EmptyBoard)) /\ typed = FALSE /\ gone = {} /\ phantom = {}
  BY DEF PageInit
<1>2. IsPage(FreshPage(EmptyBoard))
  BY DEF FreshPage, IsPage, PageFields, EmptyBoard, None
<1>3. FreshPage(EmptyBoard).box = None /\ FreshPage(EmptyBoard).applied = None
  BY DEF FreshPage
<1> QED
  BY <1>1, <1>2, <1>3, ShownIsPage, EmptyBoxIsCalm DEF PageInv, GoneIsNotMine

\* After an event in which nobody set the box, a page in which nothing was
\* skipped at a number nobody typed, and which is calm if the number is not
\* that person's any more.
LEMMA SettlesSafely ==
  ASSUME PageInv, NEW before, NEW after, Settles(before, after),
         IsPage(after), after.box # None,
         before.skipped \in BOOLEAN, after.skipped \in BOOLEAN,
         ~typed => ~before.skipped /\ ~after.skipped /\ Calm(after),
         before.skipped \/ after.skipped \/ after.box # page.box => Calm(after),
         gone' \cap RosterOf(after.board, MySlot) = {}
  PROVE  PageInv'
<1>1. page' = after /\ keeps' = keeps
  BY DEF Settles
<1>2. typed \in BOOLEAN /\ FALSE \notin phantom
  BY DEF PageInv
<1>3. typed' = (typed /\ ~before.skipped /\ ~after.skipped /\ after.box = page.box)
  BY DEF Settles
<1>4. typed' \in BOOLEAN /\ (~typed' => Calm(after))
  BY <1>2, <1>3, Zenon
<1>5. FALSE \notin phantom'
  <2>1. CASE typed = TRUE
    BY <1>2, <2>1, Zenon DEF Settles
  <2>2. CASE typed = FALSE
    <3>1. phantom' = phantom \cup {}
      BY <2>2, Zenon DEF Settles
    <3> QED
      BY <1>2, <3>1, Zenon
  <2> QED
    BY <1>2, <2>1, <2>2, Zenon
<1>6. ~typed' => Calm(page)'
  BY <1>1, <1>4, Zenon DEF Calm
<1>7. IsPage(page)' /\ (page.box # None)' /\ GoneIsNotMine'
  BY <1>1 DEF IsPage, GoneIsNotMine, None
<1> QED
  BY <1>4, <1>5, <1>6, <1>7, Zenon DEF PageInv

\* A tap, then, keeps the invariant, if its handler gives nobody marked to me.
LEMMA TapIsSafe ==
  ASSUME PageInv, NEW asked, NEW handled, NEW marks, Tap(asked, handled, marks),
         Handled(handled), marks \cap RosterOf(handled.board, MySlot) = {}
  PROVE  PageInv'
<1>1. /\ IsPage(page) /\ page.box # None /\ IsPage(Seen) /\ Seen.box # None
      /\ IsPage(handled)
  BY ShownIsPage DEF PageInv, Seen, Handled
<1>2. /\ ~typed => Target(page) = None /\ Calm(Seen)
      /\ Target(page) # None => Calm(Seen)
      /\ Seen.box # page.box => Calm(Seen)
  BY <1>1, CalmStays, SkippingCalms, FollowingIsCalm DEF PageInv, Seen
<1>3. Seen.skipped \in BOOLEAN /\ (Seen.skipped <=> Target(page) # None)
  BY <1>1, SkippedSays DEF Seen
<1>4. CASE Target(page) # None
  <2>1. Settles(Seen, Shown(Seen)) /\ gone' = gone
    BY <1>3, <1>4 DEF Tap
  <2>2. IsPage(Shown(Seen)) /\ Shown(Seen).box # None /\ Calm(Shown(Seen))
        /\ Target(Seen) = None
    BY <1>1, <1>2, <1>4, ShownIsPage, CalmStays
  <2>3. Shown(Seen).skipped \in BOOLEAN
    BY <1>1, SkippedSays
  <2>4. RosterOf(Shown(Seen).board, MySlot) \subseteq RosterOf(page.board, MySlot)
    BY <1>1, ShownGivesNobody DEF Seen
  <2>5. gone' \cap RosterOf(Shown(Seen).board, MySlot) = {}
    BY <2>1, <2>4 DEF PageInv, GoneIsNotMine
  <2>6. typed
    BY <1>2, <1>4
  <2> DEFINE seen == Seen
             after == Shown(Seen)
  <2> HIDE DEF seen, after
  <2> QED
    BY <1>3, <2>1, <2>2, <2>3, <2>5, <2>6, SettlesSafely
<1>5. CASE Target(page) = None
  <2>1. Settles(Seen, Shown(handled)) /\ gone' = marks
    BY <1>3, <1>5 DEF Tap
  <2>2. IsPage(Shown(handled)) /\ Shown(handled).box # None
    BY <1>1, ShownIsPage
  <2>3. /\ ~typed => Target(handled) = None /\ Calm(Shown(handled))
        /\ Target(handled) # None => Calm(Shown(handled))
        /\ Shown(handled).box # page.box => Calm(Shown(handled))
    <3>1. CASE handled.box = None
      BY <1>1, <3>1, EmptyBoxIsCalm DEF Handled
    <3>2. CASE handled.box # None
      <4>1. handled.box = Seen.box /\ (Calm(Seen) => Calm(handled))
        BY <3>2 DEF Handled, Calm
      <4>2. Calm(handled) => Target(handled) = None /\ Calm(Shown(handled))
        BY <1>1, <3>2, CalmStays
      <4>3. Target(handled) # None => Calm(Shown(handled))
        BY <1>1, SkippingCalms
      <4>4. Shown(handled).box # handled.box => Calm(Shown(handled))
        BY <1>1, <3>2, FollowingIsCalm
      <4> QED
        BY <1>2, <4>1, <4>2, <4>3, <4>4
    <3> QED
      BY <3>1, <3>2
  <2>4. Shown(handled).skipped \in BOOLEAN /\ (Shown(handled).skipped <=> Target(handled) # None)
    BY <1>1, SkippedSays
  <2>5. RosterOf(Shown(handled).board, MySlot) \subseteq RosterOf(handled.board, MySlot)
    BY <1>1, ShownGivesNobody
  <2>6. gone' \cap RosterOf(Shown(handled).board, MySlot) = {}
    BY <2>1, <2>5
  <2> DEFINE seen == Seen
             after == Shown(handled)
  <2>7. /\ Settles(seen, after) /\ seen.skipped = FALSE /\ seen.skipped \in BOOLEAN
        /\ after.skipped \in BOOLEAN
        /\ ~typed => ~after.skipped /\ Calm(after)
        /\ after.skipped \/ after.box # page.box => Calm(after)
    BY <1>3, <1>5, <2>1, <2>3, <2>4, Zenon
  <2> HIDE DEF seen, after
  <2>8. IsPage(after) /\ after.box # None /\ gone' \cap RosterOf(after.board, MySlot) = {}
    BY <2>2, <2>6 DEF after
  <2> QED
    BY <2>7, <2>8, SettlesSafely, Zenon
<1> QED
  BY <1>4, <1>5

\* Another board makes another page.
LEMMA AnotherBoard ==
  ASSUME NEW p, IsPage(p), NEW board, board = [n \in Picks |-> board[n]]
  PROVE  LET q == [p EXCEPT !.board = board] IN
         /\ IsPage(q) /\ q.board = board
         /\ q.box = p.box /\ q.value = p.value /\ q.applied = p.applied
BY DEF IsPage, PageFields

\* A recorded pick is a handler's work, and gives its player to its team.
LEMMA RecordedIsHandled ==
  ASSUME PageInv, NEW player, NEW team
  PROVE  /\ Handled(Recorded(player, team))
         /\ LET after == RosterOf(Recorded(player, team).board, MySlot) IN
            /\ after \subseteq RosterOf(page.board, MySlot) \cup {player}
            /\ player = NoOne \/ team # MySlot
                 => after \subseteq RosterOf(page.board, MySlot) \ {player}
<1> DEFINE n == NextPick(Seen.board)
           new == RecordAt(Seen.board, n, player, team)
<1>1. IsPage(page) /\ IsPage(Seen)
  BY ShownIsPage DEF PageInv, Seen
<1>2. new = [m \in Picks |-> new[m]]
  BY DEF RecordAt, Without
<1>3. Recorded(player, team) = [Seen EXCEPT !.board = new]
  BY DEF Recorded
<1>4. RosterOf(Seen.board, MySlot) \subseteq RosterOf(page.board, MySlot)
  BY <1>1, ShownGivesNobody DEF Seen
<1>5. LET after == RosterOf(new, MySlot) IN
      /\ after \subseteq RosterOf(Seen.board, MySlot) \cup {player}
      /\ player = NoOne \/ team # MySlot
           => after \subseteq RosterOf(Seen.board, MySlot) \ {player}
  BY RecordingMoves
<1> HIDE DEF new, n
<1>6. Handled(Recorded(player, team)) /\ Recorded(player, team).board = new
  BY <1>1, <1>2, <1>3, AnotherBoard DEF Handled
<1> QED
  BY <1>4, <1>5, <1>6

\* My slot is not "somebody else's".
LEMMA SomebodyElseIsNotMe == SomebodyElse # MySlot
BY PageAssumption DEF SomebodyElse

\* Every event keeps the invariant.
LEMMA PageInvStep == PageInv /\ [PageNext]_pageVars => PageInv'
<1> SUFFICES ASSUME PageInv, [PageNext]_pageVars
             PROVE  PageInv'
  OBVIOUS
<1>0. /\ IsPage(page) /\ page.box # None /\ IsPage(Seen)
      /\ gone \cap RosterOf(page.board, MySlot) = {}
      /\ RosterOf(Seen.board, MySlot) \subseteq RosterOf(page.board, MySlot)
  BY ShownIsPage, ShownGivesNobody DEF PageInv, Seen, GoneIsNotMine
<1>1. CASE DidntCatchIt
  <2>1. Tap(FALSE, Recorded(NoOne, OnTheClock), gone)
    BY <1>1 DEF DidntCatchIt
  <2>2. gone \cap RosterOf(Recorded(NoOne, OnTheClock).board, MySlot) = {}
    BY <1>0, RecordedIsHandled
  <2> QED
    BY <2>1, <2>2, RecordedIsHandled, TapIsSafe
<1>2. CASE Mark
  <2>1. PICK player \in Available :
          Tap(FALSE, Recorded(player, OnTheClock), gone \ {player})
    BY <1>2 DEF Mark
  <2>2. (gone \ {player}) \cap RosterOf(Recorded(player, OnTheClock).board, MySlot) = {}
    BY <1>0, RecordedIsHandled
  <2> QED
    BY <2>1, <2>2, RecordedIsHandled, TapIsSafe
<1>3. CASE Take
  <2>1. PICK player \in Available : Tap(FALSE, Recorded(player, MySlot), gone \ {player})
    BY <1>3 DEF Take
  <2>2. (gone \ {player}) \cap RosterOf(Recorded(player, MySlot).board, MySlot) = {}
    BY <1>0, RecordedIsHandled
  <2> QED
    BY <2>1, <2>2, RecordedIsHandled, TapIsSafe
<1>4. CASE Gone
  <2>1. PICK player \in Available :
          Tap(FALSE, Recorded(player, SomebodyElse), gone \cup {player})
    BY <1>4 DEF Gone
  <2>2. RosterOf(Recorded(player, SomebodyElse).board, MySlot)
          \subseteq RosterOf(page.board, MySlot) \ {player}
    BY RecordedIsHandled, SomebodyElseIsNotMe
  <2>3. (gone \cup {player}) \cap RosterOf(Recorded(player, SomebodyElse).board, MySlot) = {}
    BY <1>0, <2>2
  <2> QED
    BY <2>1, <2>3, RecordedIsHandled, TapIsSafe
<1>5. CASE Undo
  <2> DEFINE board == [n \in Picks |-> IF IsLast(Seen.board, n) THEN Vacant ELSE Seen.board[n]]
             h == [Seen EXCEPT !.board = board]
  <2>1. Tap(FALSE, h, gone)
    BY <1>5 DEF Undo
  <2>2. board = [n \in Picks |-> board[n]]
    OBVIOUS
  <2>3. RosterOf(board, MySlot) \subseteq RosterOf(Seen.board, MySlot)
    BY DEF RosterOf, Vacant
  <2> HIDE DEF board
  <2>4. Handled(h) /\ h.board = board
    BY <1>0, <2>2, AnotherBoard DEF Handled
  <2>5. gone \cap RosterOf(h.board, MySlot) = {}
    BY <1>0, <2>3, <2>4
  <2> HIDE DEF h
  <2> QED
    BY <2>1, <2>4, <2>5, TapIsSafe
<1>6. CASE Continue
  <2> DEFINE h == [Seen EXCEPT !.resumed = TRUE]
  <2>1. Tap(TRUE, h, gone)
    BY <1>6 DEF Continue
  <2>2. Handled(h) /\ h.board = Seen.board
    BY <1>0 DEF Handled, IsPage, PageFields
  <2>3. gone \cap RosterOf(h.board, MySlot) = {}
    BY <1>0, <2>2
  <2> HIDE DEF h
  <2> QED
    BY <2>1, <2>2, <2>3, TapIsSafe
<1>7. CASE StartNewDraft
  <2> DEFINE h == [Seen EXCEPT !.board = EmptyBoard, !.resumed = TRUE, !.box = None]
  <2>1. Tap(TRUE, h, {})
    BY <1>7 DEF StartNewDraft
  <2>2. NextPick(EmptyBoard) = 1 /\ EmptyBoard = [n \in Picks |-> EmptyBoard[n]]
    BY NextPickSays DEF EmptyBoard, Occupied
  <2>3. Handled(h)
    BY <1>0, <2>2 DEF Handled, IsPage, PageFields, None
  <2> HIDE DEF h
  <2> QED
    BY <2>1, <2>3, TapIsSafe
<1>8. CASE SetTheBox
  <2>1. PICK n \in Picks \ {page.box} :
          LET p == Shown([page EXCEPT !.box = n]) IN
          /\ page' = IF p.skipped THEN Shown(p) ELSE p
          /\ typed' = ~p.skipped
    BY <1>8 DEF SetTheBox
  <2> DEFINE q == [page EXCEPT !.box = n]
             p == Shown(q)
  <2>2. IsPage(q) /\ q.board = page.board
    <3>1. n \in Nat
      BY PageAssumption DEF Picks
    <3> QED
      BY <1>0, <3>1 DEF IsPage, PageFields
  <2> HIDE DEF q
  <2>3. /\ IsPage(p) /\ p.box # None /\ IsPage(Shown(p)) /\ Shown(p).box # None
        /\ p.skipped \in BOOLEAN
        /\ p.skipped => Calm(p) /\ Calm(Shown(p))
    BY <2>2, ShownIsPage, SkippedSays, SkippingCalms, CalmStays
  <2>4. RosterOf(Shown(p).board, MySlot) \subseteq RosterOf(p.board, MySlot)
        /\ RosterOf(p.board, MySlot) \subseteq RosterOf(page.board, MySlot)
    BY <2>2, <2>3, ShownGivesNobody
  <2>5. UNCHANGED <<keeps, gone, phantom>>
    BY <1>8 DEF SetTheBox
  <2>6. page' = (IF p.skipped THEN Shown(p) ELSE p) /\ typed' = ~p.skipped
    BY <2>1 DEF q
  <2> HIDE DEF p
  <2>7. CASE p.skipped
    BY <2>3, <2>4, <2>5, <2>6, <2>7, <1>0
       DEF PageInv, IsPage, Calm, GoneIsNotMine, None
  <2>8. CASE ~p.skipped
    BY <2>3, <2>4, <2>5, <2>6, <2>8, <1>0
       DEF PageInv, IsPage, Calm, GoneIsNotMine, None
  <2> QED
    BY <2>7, <2>8
<1>9. CASE Reopen
  <2> DEFINE q == FreshPage(page.board)
             p == Shown(q)
  <2>1. page' = p /\ typed' = FALSE /\ UNCHANGED <<keeps, gone, phantom>>
    BY <1>9 DEF Reopen
  <2>2. IsPage(q) /\ q.board = page.board /\ q.box = None /\ q.applied = None
    BY <1>0 DEF FreshPage, IsPage, PageFields, None
  <2> HIDE DEF q
  <2>3. IsPage(p) /\ p.box # None /\ Calm(p)
    BY <2>2, ShownIsPage, EmptyBoxIsCalm
  <2>4. RosterOf(p.board, MySlot) \subseteq RosterOf(page.board, MySlot)
    BY <2>2, ShownGivesNobody
  <2> HIDE DEF p
  <2> QED
    BY <2>1, <2>3, <2>4, <1>0 DEF PageInv, IsPage, Calm, GoneIsNotMine, None
<1>10. CASE Elsewhere
  <2>1. UNCHANGED <<keeps, typed, gone, phantom>>
    BY <1>10 DEF Elsewhere
  <2>2. PICK board :
          /\ page' = [page EXCEPT !.board = board]
          /\ board = [n \in Picks |-> board[n]]
          /\ RosterOf(board, MySlot) \subseteq RosterOf(page.board, MySlot)
    <3>1. CASE page' = [page EXCEPT !.board =
                          RecordAt(@, NextPick(@), NoOne, SlotOf(NextPick(@)))]
      <4> DEFINE n == NextPick(page.board)
                 new == RecordAt(page.board, n, NoOne, SlotOf(n))
      <4>1. new = [m \in Picks |-> new[m]]
        BY DEF RecordAt, Without
      <4>2. RosterOf(new, MySlot) \subseteq RosterOf(page.board, MySlot)
        BY RecordingMoves
      <4> QED
        BY <3>1, <4>1, <4>2
    <3>2. CASE \E n \in Picks : page' = [page EXCEPT !.board[n] = Vacant]
      <4>1. PICK n \in Picks : page' = [page EXCEPT !.board[n] = Vacant]
        BY <3>2
      <4> DEFINE new == [page.board EXCEPT ![n] = Vacant]
      <4>2. page' = [page EXCEPT !.board = new]
        BY <4>1
      <4>3. new = [m \in Picks |-> new[m]]
        BY <1>0 DEF IsPage
      <4>4. RosterOf(new, MySlot) \subseteq RosterOf(page.board, MySlot)
        BY <1>0 DEF RosterOf, Vacant, IsPage
      <4> HIDE DEF new
      <4> QED
        BY <4>2, <4>3, <4>4
    <3> QED
      BY <1>10, <3>1, <3>2 DEF Elsewhere
  <2>3. /\ IsPage(page') /\ page'.board = board
        /\ page'.box = page.box /\ page'.value = page.value /\ page'.applied = page.applied
    BY <1>0, <2>2, AnotherBoard
  <2> QED
    BY <2>1, <2>2, <2>3, <1>0 DEF PageInv, IsPage, Calm, GoneIsNotMine, None
<1>11. CASE UNCHANGED pageVars
  BY <1>11 DEF pageVars, PageInv, IsPage, Calm, GoneIsNotMine
<1> QED
  BY <1>1, <1>2, <1>3, <1>4, <1>5, <1>6, <1>7, <1>8, <1>9, <1>10, <1>11 DEF PageNext

(***************************************************************************)
(* Whatever is tapped, typed, reloaded, started anew, taken back or picked *)
(* elsewhere, with either release of Streamlit: a number nobody put into   *)
(* the box skips no pick, and nobody marked "Gone" is on my roster         *)
(* (src/dashboard.py:46-53, 534).                                          *)
(***************************************************************************)
THEOREM PageIsAlwaysSound == PageSpec => []PageIsSound
<1>1. PageInv => PageIsSound
  BY DEF PageInv, PageIsSound, NobodysNumberIsNotObeyed
<1> QED
  BY PageInvInit, PageInvStep, <1>1, PTL DEF PageSpec
=============================================================================

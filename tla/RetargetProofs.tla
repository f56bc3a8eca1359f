--------------------------- MODULE RetargetProofs ---------------------------
(***************************************************************************)
(* The step bound of Retarget, for every window, target, base and sequence *)
(* of solve times, and the rise of the difficulty on a fast chain, for     *)
(* every window of at least two blocks.                                    *)
(***************************************************************************)
EXTENDS Retarget, DifficultyProofs, WellFoundedInduction

(* The two vectors are in step and the last block has difficulty base. *)
VectorsInv ==
  /\ base \in Nat \ {0} /\ pace \in Int
  /\ ts \in Seq(Int) /\ cds \in Seq(Int)
  /\ Len(ts) = Len(cds) /\ Len(ts) >= 1
  /\ Len(ts) >= 2 => PrevDifficulty(ts, cds) = base

LEMMA InitVectors == Init => VectorsInv
  BY InputsAssumption DEF Init, VectorsInv

LEMMA StepVectors == VectorsInv /\ [Next]_vars => VectorsInv'
<1> SUFFICES ASSUME VectorsInv, [Next]_vars PROVE VectorsInv'
  OBVIOUS
<1>1. ASSUME NEW s \in Int, PushBlock(s) PROVE VectorsInv'
  <2>1. ts[Len(ts)] \in Int /\ cds[Len(cds)] \in Int
    BY DEF VectorsInv
  <2>2. /\ ts' \in Seq(Int) /\ cds' \in Seq(Int)
        /\ Len(ts') = Len(ts) + 1 /\ Len(cds') = Len(cds) + 1
        /\ cds'[Len(cds) + 1] = cds[Len(cds)] + base
        /\ cds'[Len(cds)] = cds[Len(cds)]
    BY <1>1, <2>1 DEF PushBlock, VectorsInv
  <2>3. PrevDifficulty(ts', cds') = base
    BY <2>1, <2>2 DEF PrevDifficulty, VectorsInv
  <2> QED
    BY <1>1, <2>2, <2>3 DEF PushBlock, VectorsInv, PrevDifficulty
<1>2. CASE Next
  BY <1>1, <1>2, InputsAssumption DEF Next, VectorsInv
<1>3. CASE UNCHANGED vars
  BY <1>3 DEF vars, VectorsInv, PrevDifficulty
<1> QED
  BY <1>2, <1>3

(* A chain of any length whose blocks have difficulty base > 10, with any  *)
(* solve times, has its next difficulty within 15 percent of base, and at  *)
(* least 1 for any base (difficulty.cpp:64-72).                            *)
THEOREM StepAlwaysBounded == Spec => []StepBounded
<1>1. VectorsInv => StepBounded
  <2> SUFFICES ASSUME VectorsInv, NEW d \in next_difficulty_lwma3(ts, cds)
               PROVE  /\ d >= 1
                      /\ Len(ts) >= 2 /\ base > 10 =>
                           100 * d <= 115 * base /\ 100 * d > 85 * base - 100
    BY DEF StepBounded, next
  <2>1. d >= 1
    BY NextDifficultyPositive DEF VectorsInv
  <2>2. ASSUME Len(ts) >= 2, base > 10
        PROVE  100 * d <= 115 * base /\ 100 * d > 85 * base - 100
    BY <2>2, NextDifficultyStep DEF VectorsInv
  <2> QED
    BY <2>1, <2>2
<1> QED
  BY <1>1, InitVectors, StepVectors, PTL DEF Spec
-----------------------------------------------------------------------------
(* Induction up to n: a set that holds 0 and, with k - 1, also k, holds    *)
(* every number up to n, since the least number missing would be neither.  *)
LEMMA LeastNat ==
  ASSUME NEW T, T \subseteq Nat, T # {}
  PROVE  \E n \in T : \A k \in T : n <= k
<1> DEFINE R == {ss \in Nat \X Nat : ss[1] < ss[2]}
<1>1. IsWellFoundedOn(R, Nat)
  BY NatLessThanWellFounded DEF OpToRel
<1>2. PICK x \in T : \A y \in T : ~ (<<y, x>> \in R)
  <2> HIDE DEF R
  <2> QED
    BY <1>1, WFMin
<1>3. ASSUME NEW y \in T PROVE x <= y
  <2>1. ~ (<<y, x>> \in R)
    BY <1>2
  <2> QED
    BY <2>1
<1> QED
  BY <1>3

LEMMA UpTo ==
  ASSUME NEW n \in Nat, NEW P, 0 \in P, \A k \in 1..n : k - 1 \in P => k \in P
  PROVE  0..n \subseteq P
<1> SUFFICES ASSUME (0..n) \ P # {} PROVE FALSE
  OBVIOUS
<1> DEFINE T == (0..n) \ P
<1>0. T \subseteq Nat /\ T # {}
  OBVIOUS
<1>1. PICK m \in T : \A k \in T : m <= k
  <2> HIDE DEF T
  <2> QED
    BY <1>0, LeastNat
<1>2. m # 0 /\ m \in 1..n /\ m - 1 \in 0..n
  OBVIOUS
<1>3. m - 1 \in P
  BY <1>1, <1>2
<1> QED
  BY <1>2, <1>3

(* The sum of the weights 1 .. i, as the code writes it. *)
Weights(i) == (i * (i + 1)) \div 2

LEMMA WeightsStep ==
  /\ Weights(0) = 0
  /\ \A i \in Nat \ {0} : Weights(i) = Weights(i - 1) + i
  /\ \A i \in Nat : Weights(i) \in Nat
  /\ \A i \in Nat \ {0} : Weights(i) >= 1
<1>1. Weights(0) = 0
  BY DEF Weights
<1>2. ASSUME NEW i \in Nat \ {0} PROVE Weights(i) = Weights(i - 1) + i
  <2> DEFINE z == (i - 1) * i
  <2>1. z \in Int /\ i * (i + 1) = z + 2 * i /\ (i - 1) * ((i - 1) + 1) = z
    OBVIOUS
  <2> HIDE DEF z
  <2>2. (z + 2 * i) \div 2 = (z \div 2) + i
    BY <2>1
  <2> QED
    BY <2>1, <2>2 DEF Weights
<1>3. ASSUME NEW i \in Nat PROVE Weights(i) \in Nat
  <2>1. i * (i + 1) \in Nat
    OBVIOUS
  <2> DEFINE z == i * (i + 1)
  <2> HIDE DEF z
  <2>2. z \in Nat => z \div 2 \in Nat
    OBVIOUS
  <2> QED
    BY <2>1, <2>2 DEF Weights, z
<1>4. ASSUME NEW i \in Nat \ {0} PROVE Weights(i) >= 1
  <2>1. i - 1 \in Nat /\ Weights(i - 1) \in Nat
    BY <1>3
  <2> QED
    BY <1>2, <2>1
<1> QED
  BY <1>1, <1>2, <1>3, <1>4

(* Equal solve times p: the weighted sum is p times the sum of weights. *)
LEMMA EvenLwmaSum ==
  ASSUME NEW t, NEW n \in Nat, NEW p \in Int,
         \A i \in 1..n : SolveTime(t, Len(t) - n + i) = p
  PROVE  LwmaSum(t, n) = p * Weights(n)
<1> DEFINE Sums(g) == g = [i \in 0..n |-> IF i = 0 THEN 0
                                         ELSE g[i-1] + SolveTime(t, Len(t) - n + i) * i]
           f == [i \in 0..n |-> p * Weights(i)]
<1>1. ASSUME NEW i \in 1..n
      PROVE  p * Weights(i) = p * Weights(i - 1) + SolveTime(t, Len(t) - n + i) * i
  <2>1. Weights(i) = Weights(i - 1) + i /\ Weights(i - 1) \in Nat
    BY WeightsStep
  <2>2. p * (Weights(i - 1) + i) = p * Weights(i - 1) + p * i
    BY <2>1
  <2> QED
    BY <2>1, <2>2
<1>2. Sums(f)
  <2>1. ASSUME NEW i \in 0..n
        PROVE  f[i] = IF i = 0 THEN 0 ELSE f[i-1] + SolveTime(t, Len(t) - n + i) * i
    <3>1. CASE i = 0
      BY <3>1, WeightsStep
    <3>2. CASE i # 0
      <4>1. i \in 1..n /\ i - 1 \in 0..n
        BY <3>2
      <4> QED BY <1>1, <3>2, <4>1
    <3> QED BY <3>1, <3>2
  <2> QED
    BY <2>1
<1> HIDE DEF f
<1>3. \E g : Sums(g) /\ LwmaSum(t, n) = g[n]
  BY <1>2 DEF LwmaSum
<1>4. PICK g : Sums(g) /\ LwmaSum(t, n) = g[n]
  BY <1>3
<1>5. g[0] = 0 /\ \A i \in 1..n : g[i] = g[i-1] + SolveTime(t, Len(t) - n + i) * i
  BY <1>4
<1> DEFINE P == {i \in 0..n : g[i] = p * Weights(i)}
<1>6. 0 \in P
  <2>1. p * Weights(0) = 0
    BY WeightsStep
  <2> QED BY <1>5, <2>1
<1>7. ASSUME NEW i \in 1..n, i - 1 \in P PROVE i \in P
  <2>1. g[i-1] = p * Weights(i - 1)
    BY <1>7
  <2> QED
    BY <1>1, <1>5, <2>1
<1>8. 0..n \subseteq P
  <2> HIDE DEF P
  <2> QED
    BY <1>6, <1>7, UpTo
<1>9. g[n] = p * Weights(n)
  BY <1>8
<1> QED
  BY <1>4, <1>9

LEMMA Multiples ==
  ASSUME NEW x \in Int, NEW u \in Nat \ {0}, x * u < 3 * u
  PROVE  x < 3
<1> SUFFICES ASSUME x >= 3 PROVE FALSE
  OBVIOUS
<1>1. PICK k \in Nat : x = 3 + k
  <2>1. x - 3 \in Nat /\ x = 3 + (x - 3)
    OBVIOUS
  <2> QED BY <2>1
<1>2. x * u = 3 * u + k * u /\ k * u \in Nat
  BY <1>1
<1> QED
  BY <1>2

(* The quotient m / 3, computed as p / q in double precision and           *)
(* truncated, is less than 2 short.                                        *)
LEMMA TruncatedThirds ==
  ASSUME NEW p \in Nat, NEW q \in Nat \ {0}, NEW m \in Nat, 3 * p = m * q,
         NEW r \in Truncations(p, q)
  PROVE  r \in Nat /\ 3 * r >= m - 5
<1> DEFINE Q == p \div q
<1>1. r \in Nat /\ r >= Q - 1 /\ Q \in Int
  <2>1. r \in Nat /\ r \in {Q, Q - 1}
    BY DEF Truncations
  <2>2. Q \in Int
    OBVIOUS
  <2> HIDE DEF Q
  <2> QED BY <2>1, <2>2
<1>2. p - Q * q < q
  OBVIOUS
<1> HIDE DEF Q
<1>3. Q * q \in Int /\ m * q \in Int /\ 3 * (p - Q * q) = m * q - 3 * (Q * q)
      /\ (m - 3 * Q) * q = m * q - 3 * (Q * q)
  BY <1>1
<1>4. (m - 3 * Q) * q < 3 * q
  BY <1>2, <1>3
<1>5. m - 3 * Q < 3
  <2>1. m - 3 * Q \in Int
    BY <1>1
  <2> QED BY <1>4, <2>1, Multiples
<1> QED
  BY <1>1, <1>5

(* What a chain of blocks of difficulty base looks like to the rule, and a *)
(* steady one in addition.                                                 *)
SteadyInv ==
  /\ VectorsInv
  /\ \A k \in 1..Len(cds) : cds[k] = k * base
  /\ steady => \A k \in 1..Len(ts) : ts[k] = 100 + (k - 1) * pace

LEMMA InitSteady == Init => SteadyInv
<1> SUFFICES ASSUME Init PROVE SteadyInv
  OBVIOUS
<1>1. VectorsInv /\ ts = <<100>> /\ cds = <<base>>
  BY InitVectors DEF Init
<1>2. base \in Int /\ pace \in Int
  BY <1>1 DEF VectorsInv
<1>3. 1 * base = base /\ 100 + (1 - 1) * pace = 100
  BY <1>2
<1>4. /\ Len(cds) = 1 /\ cds[1] = base /\ Len(ts) = 1 /\ ts[1] = 100
      /\ \A k \in 1..1 : k = 1
  BY <1>1
<1> QED
  BY <1>1, <1>3, <1>4 DEF SteadyInv

LEMMA StepSteady == SteadyInv /\ [Next]_vars => SteadyInv'
<1> SUFFICES ASSUME SteadyInv, [Next]_vars PROVE SteadyInv'
  OBVIOUS
<1>0. VectorsInv' /\ base' = base /\ pace' = pace
  BY StepVectors DEF SteadyInv, Next, PushBlock, vars
<1>1. ASSUME NEW s \in Int, PushBlock(s) PROVE SteadyInv'
  <2> DEFINE n == Len(ts)
  <2>1. /\ ts \in Seq(Int) /\ cds \in Seq(Int) /\ Len(cds) = n /\ n \in Nat /\ n >= 1
        /\ base \in Int /\ pace \in Int
    BY DEF SteadyInv, VectorsInv
  <2>2. ts[n] \in Int /\ cds[n] \in Int /\ n \in 1..n
    BY <2>1
  <2>3. /\ ts' = Append(ts, ts[n] + s) /\ cds' = Append(cds, cds[n] + base)
        /\ steady' = (steady /\ s = pace)
    BY <1>1, <2>1 DEF PushBlock
  <2>4. /\ Len(ts') = n + 1 /\ ts'[n + 1] = ts[n] + s
        /\ \A k \in 1..n : ts'[k] = ts[k]
    BY <2>1, <2>2, <2>3
  <2>5. /\ Len(cds') = n + 1 /\ cds'[n + 1] = cds[n] + base
        /\ \A k \in 1..n : cds'[k] = cds[k]
    BY <2>1, <2>2, <2>3
  <2> HIDE DEF n
  <2>6. \A k \in 1..(n + 1) : k \in 1..n \/ k = n + 1
    BY <2>1
  <2>7. cds'[n + 1] = (n + 1) * base
    <3>1. cds[n] = n * base
      BY <2>1, <2>2 DEF SteadyInv
    <3>2. n * base + base = (n + 1) * base
      BY <2>1
    <3> QED BY <2>5, <3>1, <3>2
  <2>8. \A k \in 1..Len(cds') : cds'[k] = k * base'
    BY <1>0, <2>1, <2>5, <2>6, <2>7 DEF SteadyInv
  <2>9. ASSUME steady' PROVE \A k \in 1..Len(ts') : ts'[k] = 100 + (k - 1) * pace'
    <3>1. steady /\ s = pace
      BY <2>3, <2>9
    <3>2. \A k \in 1..n : ts[k] = 100 + (k - 1) * pace
      BY <3>1 DEF SteadyInv, n
    <3>3. ts[n] = 100 + (n - 1) * pace
      BY <2>2, <3>2
    <3>4. (100 + (n - 1) * pace) + pace = 100 + ((n + 1) - 1) * pace
      BY <2>1
    <3>5. ts'[n + 1] = 100 + ((n + 1) - 1) * pace
      BY <2>4, <3>1, <3>3, <3>4
    <3> QED
      BY <1>0, <2>4, <2>6, <3>2, <3>5
  <2> QED
    BY <1>0, <2>8, <2>9 DEF SteadyInv
<1>2. CASE Next
  <2>1. pace \in Int /\ Pauses \subseteq Int
    BY InputsAssumption DEF SteadyInv, VectorsInv
  <2> QED
    BY <1>1, <1>2, <2>1 DEF Next
<1>3. CASE UNCHANGED vars
  BY <1>0, <1>3 DEF vars, SteadyInv
<1> QED
  BY <1>2, <1>3

(* The raw difficulty of a steady chain whose pace is c / 3 of the target: *)
(* c / 3 of the difficulty of the WHOLE window.                            *)
LEMMA SteadyRaw ==
  ASSUME SteadyInv, steady, NEW c \in 1..18, 3 * pace = c * Target,
         Len(ts) > Window, NEW r \in RawDifficulties(ts, cds)
  PROVE  r \in Nat /\ 3 * r >= c * (Window * base) - 5
<1> DEFINE n == Len(ts)
           W == Window
           w == Weights(W)
<1>1. /\ n \in Nat /\ Len(cds) = n /\ base \in Nat \ {0} /\ pace \in Int
      /\ W \in Nat \ {0} /\ Target \in Nat \ {0}
  BY WindowAssumption, TargetAssumption DEF SteadyInv, VectorsInv
<1>2. pace \in Nat \ {0} /\ 1 <= pace /\ pace <= 6 * Target
  <2>1. Target <= c * Target /\ c * Target <= 18 * Target /\ c * Target \in Nat
    BY <1>1
  <2> QED BY <1>1, <2>1
<1>3. WindowSize(ts) = W
  BY <1>1 DEF WindowSize, Clamp
<1>4. ASSUME NEW i \in 1..W PROVE SolveTime(ts, n - W + i) = pace
  <2> DEFINE k == n - W + i
  <2>1. k \in 1..n /\ k - 1 \in 1..n
    BY <1>1
  <2> HIDE DEF k
  <2>2. ts[k] = 100 + (k - 1) * pace /\ ts[k-1] = 100 + ((k - 1) - 1) * pace
    BY <2>1 DEF SteadyInv
  <2>3. (100 + (k - 1) * pace) - (100 + ((k - 1) - 1) * pace) = pace
    BY <1>1, <2>1
  <2>4. SolveTime(ts, k) = Clamp(pace, 1, 6 * Target)
    BY <2>2, <2>3 DEF SolveTime
  <2>5. SolveTime(ts, k) = pace
    BY <1>1, <1>2, <2>4 DEF Clamp
  <2> QED
    BY <2>5 DEF k
<1>5. LwmaSum(ts, W) = pace * w
  BY <1>1, <1>4, EvenLwmaSum
<1>6. cds[Len(cds)] - cds[n - W] = W * base
  <2>1. n \in 1..n /\ n - W \in 1..n
    BY <1>1
  <2>2. cds[n] = n * base /\ cds[n - W] = (n - W) * base
    BY <1>1, <2>1 DEF SteadyInv
  <2>3. n * base - (n - W) * base = W * base
    BY <1>1
  <2> QED
    BY <1>1, <2>2, <2>3
<1>7. w \in Nat \ {0} /\ ((W * (W + 1)) \div 2) = w
  <2>1. Weights(W) \in Nat /\ Weights(W) >= 1
    BY <1>1, WeightsStep
  <2> QED BY <2>1 DEF Weights
<1>8. r \in Truncations((W * base) * (pace * w), w * Target)
  BY <1>3, <1>5, <1>6, <1>7 DEF RawDifficulties
<1> HIDE DEF n, W, w
<1>9. /\ (W * base) * (pace * w) \in Nat /\ w * Target \in Nat \ {0}
      /\ c * (W * base) \in Nat
  <2>1. W * base \in Nat /\ pace * w \in Nat
    BY <1>1, <1>2, <1>7
  <2>2. w * Target \in Nat \ {0}
    BY <1>1, <1>7
  <2>3. (W * base) * (pace * w) \in Nat /\ c * (W * base) \in Nat
    BY <2>1
  <2> QED BY <2>2, <2>3
<1>10. 3 * ((W * base) * (pace * w)) = (c * (W * base)) * (w * Target)
  <2> DEFINE A == W * base
  <2>1. A \in Int /\ w \in Int /\ pace \in Int /\ Target \in Int
    BY <1>1, <1>7
  <2> HIDE DEF A
  <2>2. 3 * (A * (pace * w)) = (A * w) * (3 * pace)
    BY <2>1
  <2>3. (A * w) * (c * Target) = (c * A) * (w * Target)
    BY <2>1
  <2> QED BY <2>2, <2>3 DEF A
<1>11. r \in Nat /\ 3 * r >= c * (W * base) - 5
  <2> DEFINE p == (W * base) * (pace * w)
             q == w * Target
             m == c * (W * base)
  <2>1. /\ p \in Nat /\ q \in Nat \ {0} /\ m \in Nat /\ 3 * p = m * q
        /\ r \in Truncations(p, q)
    BY <1>8, <1>9, <1>10
  <2> HIDE DEF p, q, m
  <2>2. r \in Nat /\ 3 * r >= m - 5
    BY <2>1, TruncatedThirds
  <2> QED BY <2>2 DEF m
<1> QED
  BY <1>11 DEF W

(* The time the last Window blocks of a steady chain took. *)
LEMMA SteadyEpoch ==
  ASSUME SteadyInv, steady, Len(ts) > Window
  PROVE  ts[Len(ts)] - ts[Len(ts) - Window] = Window * pace
<1> DEFINE n == Len(ts)
<1>1. n \in Nat /\ pace \in Int /\ Window \in Nat \ {0}
  BY WindowAssumption DEF SteadyInv, VectorsInv
<1>2. n \in 1..n /\ n - Window \in 1..n
  BY <1>1
<1>3. ts[n] = 100 + (n - 1) * pace /\ ts[n - Window] = 100 + ((n - Window) - 1) * pace
  BY <1>2 DEF SteadyInv
<1>4. (100 + (n - 1) * pace) - (100 + ((n - Window) - 1) * pace) = Window * pace
  BY <1>1
<1> QED
  BY <1>3, <1>4

(* The epoch anchor as a function of the epoch time. *)
LEMMA AnchorCases ==
  ASSUME NEW r \in Nat, Len(ts) \in Nat, Len(ts) > Window,
         NEW actual \in Nat, NEW expected \in Nat \ {0},
         actual = ts[Len(ts)] - ts[Len(ts) - Window], expected = Window * Target
  PROVE  /\ actual > 0 /\ 2 * actual <= expected => Anchored(r, ts) = {2 * r}
         /\ actual >= 2 * expected => Anchored(r, ts) = {r \div 2}
<1>1. ~(Len(ts) < Window + 1) /\ Len(ts) >= Window + 1
  BY WindowAssumption
<1>2. Anchored(r, ts) =
        CASE Len(ts) < Window + 1 -> {r}
          [] Len(ts) >= Window + 1 /\ actual \in {0, expected} -> {r}
          [] Len(ts) >= Window + 1 /\ actual > 0 /\ 2 * actual <= expected -> {2 * r}
          [] Len(ts) >= Window + 1 /\ (actual < 0 \/ actual >= 2 * expected) -> {r \div 2}
          [] OTHER -> Truncations(r * expected, actual)
  BY DEF Anchored
<1>3. ASSUME actual > 0, 2 * actual <= expected PROVE Anchored(r, ts) = {2 * r}
  <2>1. actual # 0 /\ actual # expected /\ ~(actual < 0) /\ ~(actual >= 2 * expected)
    BY <1>3
  <2> QED BY <1>1, <1>2, <1>3, <2>1
<1>4. ASSUME actual >= 2 * expected PROVE Anchored(r, ts) = {r \div 2}
  <2>1. actual # 0 /\ actual # expected /\ ~(2 * actual <= expected)
    BY <1>4
  <2> QED BY <1>1, <1>2, <1>4, <2>1
<1> QED
  BY <1>3, <1>4

(* It doubles the difficulty of a chain three times too fast ... *)
LEMMA FastAnchor ==
  ASSUME SteadyInv, steady, 3 * pace = Target, Len(ts) > Window,
         NEW r \in Nat, NEW a \in Anchored(r, ts)
  PROVE  a = 2 * r
<1> DEFINE actual == Window * pace
           expected == Window * Target
<1>1. Len(ts) \in Nat /\ pace \in Int /\ Window \in Nat \ {0} /\ Target \in Nat \ {0}
  BY WindowAssumption, TargetAssumption DEF SteadyInv, VectorsInv
<1>2. actual \in Nat \ {0} /\ expected = 3 * actual
  <2>1. pace \in Nat \ {0}
    BY <1>1
  <2>2. Window * pace \in Nat \ {0}
    BY <1>1, <2>1
  <2>3. Window * (3 * pace) = 3 * (Window * pace)
    BY <1>1
  <2> QED BY <2>2, <2>3
<1>3. actual = ts[Len(ts)] - ts[Len(ts) - Window] /\ expected = Window * Target
  BY SteadyEpoch
<1> HIDE DEF actual, expected
<1>4. Anchored(r, ts) = {2 * r}
  BY <1>1, <1>2, <1>3, AnchorCases
<1> QED
  BY <1>4

(* ... and halves that of one 10/3 times too slow. *)
LEMMA SlowAnchor ==
  ASSUME SteadyInv, steady, 3 * pace = 10 * Target, Len(ts) > Window,
         NEW r \in Nat, NEW a \in Anchored(r, ts)
  PROVE  a = r \div 2
<1> DEFINE actual == Window * pace
           expected == Window * Target
<1>1. Len(ts) \in Nat /\ pace \in Int /\ Window \in Nat \ {0} /\ Target \in Nat \ {0}
  BY WindowAssumption, TargetAssumption DEF SteadyInv, VectorsInv
<1>2. actual \in Nat /\ expected \in Nat \ {0} /\ 3 * actual = 10 * expected
  <2>1. pace \in Nat
    BY <1>1
  <2>2. Window * pace \in Nat /\ Window * Target \in Nat \ {0}
    BY <1>1, <2>1
  <2>3. 3 * (Window * pace) = Window * (3 * pace) /\ Window * (10 * Target) = 10 * (Window * Target)
    BY <1>1
  <2> QED BY <2>2, <2>3
<1>3. actual = ts[Len(ts)] - ts[Len(ts) - Window] /\ expected = Window * Target
  BY SteadyEpoch
<1> HIDE DEF actual, expected
<1>4. Anchored(r, ts) = {r \div 2}
  BY <1>1, <1>2, <1>3, AnchorCases
<1> QED
  BY <1>4

(* If every anchored difficulty is above base, so is the result: the step  *)
(* clamp leaves room for a rise.                                           *)
LEMMA ClampLetsRise ==
  ASSUME SteadyInv, Len(ts) > Window, base > 10, NEW d \in next_difficulty_lwma3(ts, cds),
         \A r \in RawDifficulties(ts, cds) : \A a \in Anchored(r, ts) : a \in Nat /\ a > base
  PROVE  d > base
<1>1. /\ Len(ts) \in Nat /\ Len(cds) = Len(ts) /\ base \in Nat /\ Window \in Nat
      /\ Len(ts) >= 2
  BY WindowAssumption DEF SteadyInv, VectorsInv
<1>2. PrevDifficulty(ts, cds) = base
  BY <1>1 DEF SteadyInv, VectorsInv
<1>3. PICK a \in UNION {Anchored(r, ts) : r \in RawDifficulties(ts, cds)} :
        d = IF StepClamp(a, base) > 1 THEN StepClamp(a, base) ELSE 1
  BY <1>1, <1>2 DEF next_difficulty_lwma3, PrevDifficulty
<1>4. a \in Nat /\ a > base
  BY <1>3
<1>5. StepClamp(a, base) > base /\ StepClamp(a, base) \in Int
  BY <1>1, <1>4 DEF StepClamp, Clamp
<1> QED
  BY <1>1, <1>3, <1>5

(* For every window of at least two blocks, target, base above the step    *)
(* clamp's threshold and chain length: a steady chain whose blocks come    *)
(* three times too fast gets a higher difficulty, whichever way the        *)
(* floating-point quotients round (tests/test_consensus_tdd.cpp:60).  With *)
(* a window of one block it would not.                                     *)
THEOREM FastBlocksAlwaysRaise ==
  ASSUME Window >= 2
  PROVE  Spec => []FastBlocksRaise
<1>1. SteadyInv => FastBlocksRaise
  <2> SUFFICES ASSUME SteadyInv, steady, 3 * pace = Target, Len(ts) > Window, base > 10,
                      NEW d \in next_difficulty_lwma3(ts, cds)
               PROVE  d > base
    BY DEF FastBlocksRaise, next
  <2>1. base \in Nat /\ Window \in Nat /\ Target \in Nat
    BY WindowAssumption, TargetAssumption DEF SteadyInv, VectorsInv
  <2>2. ASSUME NEW r \in RawDifficulties(ts, cds), NEW a \in Anchored(r, ts)
        PROVE  a \in Nat /\ a > base
    <3>1. 3 * pace = 1 * Target /\ 1 * (Window * base) = Window * base
          /\ Window * base \in Int
      BY <2>1
    <3>2. r \in Nat /\ 3 * r >= 1 * (Window * base) - 5
      BY <3>1, SteadyRaw
    <3>3. a = 2 * r
      BY <3>2, FastAnchor
    <3>4. Window * base >= 2 * base
      <4>1. PICK k \in Nat : Window = 2 + k
        <5>1. Window - 2 \in Nat /\ Window = 2 + (Window - 2)
          BY <2>1
        <5> QED BY <5>1
      <4>2. Window * base = 2 * base + k * base /\ k * base \in Nat
        BY <2>1, <4>1
      <4> QED BY <2>1, <4>2
    <3> QED BY <2>1, <3>1, <3>2, <3>3, <3>4
  <2> QED
    BY <2>2, ClampLetsRise
<1> QED
  BY <1>1, InitSteady, StepSteady, PTL DEF Spec

(* On a steady chain 10/3 times too slow the difficulty rises as well. *)
SlowBlocksRaise ==
  steady /\ 3 * pace = 10 * Target /\ Len(ts) > Window /\ base > 10 =>
    \A d \in next : d > base

(* The disagreement with tests/test_consensus_tdd.cpp:80 is no accident of *)
(* one window or base: for every window, target, base above 10 and length, *)
(* blocks that come 10/3 times too slowly RAISE the difficulty, since the  *)
(* raw value is the whole window's difficulty, not an average, and grows   *)
(* with the solve times (difficulty.cpp:38-44); the anchor only halves it. *)
THEOREM SlowBlocksAlwaysRaise == Spec => []SlowBlocksRaise
<1>1. SteadyInv => SlowBlocksRaise
  <2> SUFFICES ASSUME SteadyInv, steady, 3 * pace = 10 * Target, Len(ts) > Window, base > 10,
                      NEW d \in next_difficulty_lwma3(ts, cds)
               PROVE  d > base
    BY DEF SlowBlocksRaise, next
  <2>1. base \in Nat /\ Window \in Nat \ {0} /\ Target \in Nat
    BY WindowAssumption, TargetAssumption DEF SteadyInv, VectorsInv
  <2>2. ASSUME NEW r \in RawDifficulties(ts, cds), NEW a \in Anchored(r, ts)
        PROVE  a \in Nat /\ a > base
    <3>1. r \in Nat /\ 3 * r >= 10 * (Window * base) - 5
      BY SteadyRaw
    <3>2. a = r \div 2
      BY <3>1, SlowAnchor
    <3>3. Window * base >= base /\ Window * base \in Int
      BY <2>1
    <3> QED BY <2>1, <3>1, <3>2, <3>3
  <2> QED
    BY <2>2, ClampLetsRise
<1> QED
  BY <1>1, InitSteady, StepSteady, PTL DEF Spec
=============================================================================

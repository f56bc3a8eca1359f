---------------------------- MODULE WalletProofs ----------------------------
(***************************************************************************)
(* Proofs about the wallet and the emission sums it rescans.  The sums are *)
(* recursive functions; what they compute is proved by induction in the    *)
(* form "a set of numbers that holds 0 and, with k - 1, also k, holds      *)
(* every number up to n".                                                  *)
(***************************************************************************)
EXTENDS Wallet, WellFoundedInduction, TLAPS

-----------------------------------------------------------------------------
(* Induction and recursion on an initial interval of the numbers. *)

LEMMA LeastNat ==
  ASSUME NEW T, T \subseteq Nat, T # {}
  PROVE  \E n \in T : \A k \in T : n <= k
<1> DEFINE R == {ss \in Nat \X Nat : ss[1] < ss[2]}
<1>1. IsWellFoundedOn(R, Nat)
  BY NatLessThanWellFounded DEF OpToRel
<1>2. PICK x \in T : \A y \in T : ~ (<<y, x>> \in R)
  <2> HIDE DEF R
  <2> QED
    BY <1>1, WFMin
<1>3. ASSUME NEW y \in T PROVE x <= y
  <2>1. ~ (<<y, x>> \in R)
    BY <1>2
  <2> QED
    BY <2>1
<1> QED
  BY <1>3

(* Induction up to n. *)
LEMMA UpTo ==
  ASSUME NEW n \in Nat, NEW P, 0 \in P, \A k \in 1..n : k - 1 \in P => k \in P
  PROVE  0..n \subseteq P
<1> SUFFICES ASSUME (0..n) \ P # {} PROVE FALSE
  OBVIOUS
<1> DEFINE T == (0..n) \ P
<1>0. T \subseteq Nat /\ T # {}
  OBVIOUS
<1>1. PICK m \in T : \A k \in T : m <= k
  <2> HIDE DEF T
  <2> QED
    BY <1>0, LeastNat
<1>2. m # 0 /\ m \in 1..n /\ m - 1 \in 0..n
  OBVIOUS
<1>3. m - 1 \in P
  BY <1>1, <1>2
<1> QED
  BY <1>2, <1>3

(* f starts with a and computes f[k] from k and f[k-1]. *)
Computes(f, n, V, a, step) ==
  /\ f \in [0..n -> V]
  /\ f[0] = a /\ \A k \in 1..n : f[k] = step[<<k, f[k-1]>>]

(* Such a function exists. *)
LEMMA RecursionExists ==
  ASSUME NEW n \in Nat, NEW V, NEW a \in V, NEW step \in [(1..n) \X V -> V]
  PROVE  \E f : Computes(f, n, V, a, step)
<1> DEFINE Rec(f, m) == f[0] = a /\ \A k \in 1..m : f[k] = step[<<k, f[k-1]>>]
           P == {m \in 0..n : \E f \in [0..m -> V] : Rec(f, m)}
<1>1. 0 \in P
  <2> DEFINE f == [k \in 0..0 |-> a]
  <2>1. f \in [0..0 -> V] /\ Rec(f, 0)
    OBVIOUS
  <2> HIDE DEF f, Rec
  <2>2. \E g \in [0..0 -> V] : Rec(g, 0)
    BY <2>1
  <2> QED
    BY <2>2
<1>2. ASSUME NEW m \in 1..n, m - 1 \in P PROVE m \in P
  <2>1. PICK f \in [0..(m-1) -> V] : Rec(f, m - 1)
    BY <1>2
  <2> DEFINE g == [k \in 0..m |-> IF k = m THEN step[<<m, f[m-1]>>] ELSE f[k]]
  <2>2. m - 1 \in 0..(m-1) /\ f[m-1] \in V /\ step[<<m, f[m-1]>>] \in V
    OBVIOUS
  <2>3. \A k \in 0..(m-1) : k \in 0..m /\ k # m
    OBVIOUS
  <2>4. g \in [0..m -> V] /\ g[m] = step[<<m, f[m-1]>>] /\ \A k \in 0..(m-1) : g[k] = f[k]
    BY <2>2, <2>3
  <2> HIDE DEF g
  <2>5. ASSUME NEW k \in 1..m PROVE g[k] = step[<<k, g[k-1]>>]
    <3>1. k - 1 \in 0..(m-1)
      OBVIOUS
    <3>2. CASE k = m
      BY <2>4, <3>1, <3>2
    <3>3. CASE k # m
      <4>1. k \in 1..(m-1) /\ k \in 0..(m-1)
        BY <3>3
      <4> QED
        BY <2>1, <2>4, <3>1, <4>1
    <3> QED
      BY <3>2, <3>3
  <2>6. Rec(g, m)
    BY <2>1, <2>4, <2>5
  <2> HIDE DEF Rec
  <2> QED
    BY <2>4, <2>6
<1>3. 0..n \subseteq P
  <2> HIDE DEF P
  <2> QED
    BY <1>1, <1>2, UpTo
<1>4. n \in P
  BY <1>3
<1> QED
  BY <1>4 DEF Computes
-----------------------------------------------------------------------------
(* Arithmetic of unsigned integers of Word values. *)

LEMMA Multiples ==
  ASSUME NEW n \in Nat, NEW d \in Int, NEW e \in Int, d < e
  PROVE  d * n + n <= e * n
<1>1. PICK k \in Nat : e = d + 1 + k
  <2>1. e - d - 1 \in Nat /\ e = d + 1 + (e - d - 1)
    OBVIOUS
  <2> QED
    BY <2>1
<1> QED
  BY <1>1

LEMMA RemainderUnique ==
  ASSUME NEW n \in Nat \ {0}, NEW d \in Int, NEW e \in Int,
         NEW r \in 0 .. n - 1, NEW s \in 0 .. n - 1, d * n + r = e * n + s
  PROVE  r = s
<1>0. d * n \in Int /\ e * n \in Int
  OBVIOUS
<1>1. ~(d < e)
  <2> SUFFICES ASSUME d < e PROVE FALSE
    OBVIOUS
  <2>1. d * n + n <= e * n
    BY Multiples
  <2> QED
    BY <1>0, <2>1
<1>2. ~(e < d)
  <2> SUFFICES ASSUME e < d PROVE FALSE
    OBVIOUS
  <2>1. e * n + n <= d * n
    BY Multiples
  <2> QED
    BY <1>0, <2>1
<1>3. d = e
  BY <1>1, <1>2
<1> QED
  BY <1>0, <1>3

LEMMA Division ==
  ASSUME NEW x \in Int
  PROVE  x % Word \in 0 .. Word - 1 /\ x \div Word \in Int
         /\ x = (x \div Word) * Word + (x % Word)
BY EmissionAssumption

(* A word is its own remainder. *)
LEMMA WordMod == ASSUME NEW x \in 0 .. Word - 1 PROVE x % Word = x
BY EmissionAssumption

(* Subtracting before or after the wrap makes no difference. *)
LEMMA ModMinus ==
  ASSUME NEW x \in Int, NEW y \in Int
  PROVE  ((x % Word) - y) % Word = (x - y) % Word
<1> DEFINE q == x \div Word
           r == x % Word
           p == (x - y) \div Word
           t == (x - y) % Word
           v == (r - y) \div Word
           u == (r - y) % Word
<1>0. Word \in Nat \ {0}
  BY EmissionAssumption
<1>1. r \in 0 .. Word - 1 /\ q \in Int /\ x = q * Word + r
  BY Division
<1>2. x - y \in Int /\ r - y \in Int
  BY <1>0, <1>1
<1>3. t \in 0 .. Word - 1 /\ p \in Int /\ x - y = p * Word + t
  BY <1>2, Division
<1>4. u \in 0 .. Word - 1 /\ v \in Int /\ r - y = v * Word + u
  BY <1>2, Division
<1> HIDE DEF q, r, p, t, v, u
<1>5. p * Word + t = (q + v) * Word + u
  <2>1. (q + v) * Word = q * Word + v * Word /\ q * Word \in Int /\ v * Word \in Int
        /\ p * Word \in Int
    BY <1>0, <1>1, <1>3, <1>4
  <2> HIDE DEF q, r, p, t, v, u
  <2> QED
    BY <1>0, <1>1, <1>2, <1>3, <1>4, <2>1
<1>6. t = u
  BY <1>0, <1>1, <1>3, <1>4, <1>5, RemainderUnique
<1> QED
  BY <1>6 DEF t, u, r
-----------------------------------------------------------------------------
(* The sum over the history. *)

(* Taken is the last value of the running sum. *)
LEMMA TakenSum ==
  ASSUME NEW h \in Seq(Int), NEW from \in Nat
  PROVE  \E f \in [0..Len(h) -> Int] :
           /\ Taken(h, from) = f[Len(h)] /\ f[0] = 0
           /\ \A k \in 1..Len(h) : f[k] = IF k <= from THEN 0 ELSE f[k-1] + h[k] + Fee
<1> DEFINE n == Len(h)
           Sums(g) == g = [k \in 0..n |-> IF k <= from THEN 0 ELSE g[k-1] + h[k] + Fee]
           step == [p \in (1..n) \X Int |-> IF p[1] <= from THEN 0 ELSE p[2] + h[p[1]] + Fee]
<1>0. n \in Nat /\ Fee \in Int /\ \A k \in 1..n : h[k] \in Int
  BY EmissionAssumption, WalletAssumption
<1>1. step \in [(1..n) \X Int -> Int]
  <2>1. ASSUME NEW p \in (1..n) \X Int
        PROVE  (IF p[1] <= from THEN 0 ELSE p[2] + h[p[1]] + Fee) \in Int
    <3>1. p[1] \in 1..n /\ p[2] \in Int
      OBVIOUS
    <3>2. h[p[1]] \in Int
      BY <1>0, <3>1
    <3> QED
      BY <1>0, <3>1, <3>2
  <2> QED
    BY <2>1
<1>2. \A k \in 1..n, v \in Int : step[<<k, v>>] = IF k <= from THEN 0 ELSE v + h[k] + Fee
  OBVIOUS
<1>3. PICK f \in [0..n -> Int] : f[0] = 0 /\ \A k \in 1..n : f[k] = step[<<k, f[k-1]>>]
  <2> DEFINE V == Int
             a == 0
  <2>1. n \in Nat /\ a \in V /\ step \in [(1..n) \X V -> V]
    BY <1>0, <1>1
  <2> HIDE DEF step, n, V, a
  <2>2. \E f : Computes(f, n, V, a, step)
    BY <2>1, RecursionExists
  <2> QED
    BY <2>2 DEF V, a, Computes
<1> HIDE DEF step
<1>4. \A k \in 1..n : f[k] = IF k <= from THEN 0 ELSE f[k-1] + h[k] + Fee
  <2> SUFFICES ASSUME NEW k \in 1..n
               PROVE  f[k] = IF k <= from THEN 0 ELSE f[k-1] + h[k] + Fee
    OBVIOUS
  <2>1. f[k-1] \in Int
    BY <1>0
  <2> QED
    BY <1>2, <1>3, <2>1
<1>5. Sums(f)
  <2>1. ASSUME NEW k \in 0..n
        PROVE  f[k] = IF k <= from THEN 0 ELSE f[k-1] + h[k] + Fee
    <3>1. k = 0 \/ k \in 1..n
      OBVIOUS
    <3> QED
      BY <1>3, <1>4, <3>1
  <2> QED
    BY <2>1
<1>6. \E g : Sums(g) /\ Taken(h, from) = g[n]
  BY <1>5 DEF Taken
<1>7. PICK g : Sums(g) /\ Taken(h, from) = g[n]
  BY <1>6
<1>8. \A k \in 0..n : g[k] = IF k <= from THEN 0 ELSE g[k-1] + h[k] + Fee
  BY <1>7
<1> DEFINE P == {k \in 0..n : g[k] = f[k]}
<1>9. 0 \in P
  BY <1>0, <1>3, <1>8
<1>10. ASSUME NEW k \in 1..n, k - 1 \in P PROVE k \in P
  BY <1>0, <1>4, <1>8, <1>10
<1>11. 0..n \subseteq P
  <2> HIDE DEF P, n
  <2> QED
    BY <1>0, <1>9, <1>10, UpTo
<1>12. g[n] = f[n]
  BY <1>0, <1>11
<1> QED
  BY <1>3, <1>4, <1>7, <1>12

(* Nothing was taken when the balances have just been set. *)
LEMMA TakenNothing ==
  ASSUME NEW h \in Seq(Int)
  PROVE  Taken(h, Len(h)) = 0
<1>0. Len(h) \in Nat
  OBVIOUS
<1>1. PICK f \in [0..Len(h) -> Int] :
        /\ Taken(h, Len(h)) = f[Len(h)] /\ f[0] = 0
        /\ \A k \in 1..Len(h) : f[k] = IF k <= Len(h) THEN 0 ELSE f[k-1] + h[k] + Fee
  BY <1>0, TakenSum
<1> QED
  BY <1>0, <1>1

(* One more transfer takes its amount and its fee. *)
LEMMA TakenMore ==
  ASSUME NEW h \in Seq(Int), NEW a \in Int, NEW from \in 0..Len(h)
  PROVE  /\ Taken(h, from) \in Int
         /\ Taken(Append(h, a), from) = Taken(h, from) + a + Fee
<1> DEFINE n == Len(h)
           h2 == Append(h, a)
<1>0. /\ n \in Nat /\ from \in Nat /\ h2 \in Seq(Int) /\ Len(h2) = n + 1
      /\ h2[n + 1] = a /\ \A k \in 1..n : h2[k] = h[k]
  OBVIOUS
<1>1. PICK f \in [0..n -> Int] :
        /\ Taken(h, from) = f[n] /\ f[0] = 0
        /\ \A k \in 1..n : f[k] = IF k <= from THEN 0 ELSE f[k-1] + h[k] + Fee
  BY <1>0, TakenSum
<1> HIDE DEF h2, n
<1>2. PICK g \in [0..(n+1) -> Int] :
        /\ Taken(h2, from) = g[n+1] /\ g[0] = 0
        /\ \A k \in 1..(n+1) : g[k] = IF k <= from THEN 0 ELSE g[k-1] + h2[k] + Fee
  <2>1. \E g \in [0..Len(h2) -> Int] :
          /\ Taken(h2, from) = g[Len(h2)] /\ g[0] = 0
          /\ \A k \in 1..Len(h2) : g[k] = IF k <= from THEN 0 ELSE g[k-1] + h2[k] + Fee
    BY <1>0, TakenSum
  <2>2. Len(h2) = n + 1
    BY <1>0
  <2> QED
    BY <2>1, <2>2, Zenon
<1> DEFINE P == {k \in 0..n : f[k] = g[k]}
<1>3. 0 \in P
  BY <1>0, <1>1, <1>2
<1>4. ASSUME NEW k \in 1..n, k - 1 \in P PROVE k \in P
  <2>1. k \in 0..n /\ k \in 1..(n+1)
    BY <1>0
  <2>2. f[k-1] = g[k-1]
    BY <1>4
  <2>3. h2[k] = h[k]
    BY <1>0
  <2> QED
    BY <1>1, <1>2, <2>1, <2>2, <2>3
<1>5. 0..n \subseteq P
  <2> HIDE DEF P
  <2> QED
    BY <1>0, <1>3, <1>4, UpTo
<1>6. f[n] = g[n] /\ f[n] \in Int
  BY <1>0, <1>5
<1>7. n + 1 \in 1..(n+1) /\ ~(n + 1 <= from) /\ (n + 1) - 1 = n
  BY <1>0 DEF n
<1>8. g[n+1] = g[n] + a + Fee
  BY <1>0, <1>2, <1>7
<1> QED
  BY <1>1, <1>2, <1>6, <1>8 DEF h2
-----------------------------------------------------------------------------
(* The emission rule and the sums of a rescan. *)

LEMMA MaxOfTwo ==
  ASSUME NEW a \in Int, NEW b \in Int
  PROVE  Max({a, b}) = IF a >= b THEN a ELSE b
<1> DEFINE m == IF a >= b THEN a ELSE b
<1>1. m \in {a, b} /\ \A x \in {a, b} : m >= x
  OBVIOUS
<1>2. \A x \in {a, b} : (\A y \in {a, b} : x >= y) => x = m
  OBVIOUS
<1> HIDE DEF m
<1>3. Max({a, b}) = m
  BY <1>1, <1>2 DEF Max
<1> QED
  BY <1>3 DEF m

LEMMA DivMonotone ==
  ASSUME NEW n \in Nat \ {0}, NEW x \in Nat, NEW y \in Nat, x <= y
  PROVE  /\ x \div n \in Nat /\ y \div n \in Nat
         /\ x \div n <= y \div n /\ x \div n <= x
OBVIOUS

(* The reward as the maximum of the tail and the decaying part. *)
LEMMA RewardValue ==
  ASSUME NEW g \in 0 .. Word - 1, NEW i \in Nat \ {0}
  PROVE  /\ g >= BaseSupply => get_block_reward(g, i) = TailReward
         /\ g < BaseSupply =>
              get_block_reward(g, i) =
                LET d == (BaseSupply - g) \div SpeedDivisor
                IN  IF TailReward >= d THEN TailReward ELSE d
<1>0. /\ Word \in Nat \ {0} /\ SpeedDivisor \in Nat \ {0} /\ TailReward \in Int
      /\ BaseSupply \in 0 .. Word - 1 /\ i > 0 /\ i # 0
  BY EmissionAssumption
<1>1. CASE g >= BaseSupply
  BY <1>0, <1>1 DEF get_block_reward
<1>2. CASE g < BaseSupply
  <2> DEFINE d == (BaseSupply - g) \div SpeedDivisor
  <2>1. d \in Int
    <3>1. BaseSupply - g \in Nat
      BY <1>0, <1>2
    <3> QED
      BY <1>0, <3>1, DivMonotone
  <2>2. get_block_reward(g, i) = Max({TailReward, d})
    BY <1>0, <1>2 DEF get_block_reward
  <2> HIDE DEF d
  <2>3. Max({TailReward, d}) = IF TailReward >= d THEN TailReward ELSE d
    BY <1>0, <2>1, MaxOfTwo
  <2>4. ~(g >= BaseSupply)
    BY <1>0, <1>2
  <2> QED
    BY <2>2, <2>3, <2>4 DEF d
<1> QED
  BY <1>0, <1>1, <1>2

(* A reward is a word. *)
LEMMA RewardTyped ==
  ASSUME NEW g \in 0 .. Word - 1, NEW i \in Nat
  PROVE  get_block_reward(g, i) \in 0 .. Word - 1
<1>0. /\ Word \in Nat \ {0} /\ SpeedDivisor \in Nat \ {0} /\ TailReward \in 0 .. Word - 1
      /\ BaseSupply \in 0 .. Word - 1 /\ GenesisReward \in 0 .. Word - 1
  BY EmissionAssumption
<1>1. CASE i = 0
  BY <1>0, <1>1 DEF get_block_reward
<1>2. CASE i # 0 /\ g >= BaseSupply
  BY <1>0, <1>2, RewardValue
<1>3. CASE i # 0 /\ g < BaseSupply
  <2> DEFINE d == (BaseSupply - g) \div SpeedDivisor
  <2>1. BaseSupply - g \in Nat /\ BaseSupply - g <= Word - 1
    BY <1>0, <1>3
  <2>2. d \in Nat /\ d <= BaseSupply - g
    BY <1>0, <2>1, DivMonotone
  <2>3. get_block_reward(g, i) = IF TailReward >= d THEN TailReward ELSE d
    BY <1>3, RewardValue
  <2> HIDE DEF d
  <2>4. d \in 0 .. Word - 1
    BY <1>0, <2>1, <2>2
  <2> QED
    BY <1>0, <2>3, <2>4
<1> QED
  BY <1>0, <1>1, <1>2, <1>3

(* The more is generated, the less the next block earns. *)
LEMMA RewardFalls ==
  ASSUME NEW g \in 0 .. Word - 1, NEW h \in 0 .. Word - 1, g <= h,
         NEW i \in Nat \ {0}, NEW j \in Nat \ {0}
  PROVE  get_block_reward(h, j) <= get_block_reward(g, i)
<1>0. /\ Word \in Nat \ {0} /\ SpeedDivisor \in Nat \ {0} /\ TailReward \in Int
      /\ BaseSupply \in 0 .. Word - 1
  BY EmissionAssumption
<1> DEFINE d == (BaseSupply - g) \div SpeedDivisor
           e == (BaseSupply - h) \div SpeedDivisor
<1>1. CASE g >= BaseSupply
  BY <1>0, <1>1, RewardValue
<1>2. CASE g < BaseSupply
  <2>1. get_block_reward(g, i) = IF TailReward >= d THEN TailReward ELSE d
    BY <1>2, RewardValue
  <2>2. d \in Nat
    <3>1. BaseSupply - g \in Nat
      BY <1>0, <1>2
    <3> QED BY <1>0, <3>1, DivMonotone
  <2>3. CASE h >= BaseSupply
    <3>1. get_block_reward(h, j) = TailReward
      BY <2>3, RewardValue
    <3> HIDE DEF d
    <3> QED BY <1>0, <2>1, <2>2, <3>1
  <2>4. CASE h < BaseSupply
    <3>1. get_block_reward(h, j) = IF TailReward >= e THEN TailReward ELSE e
      BY <2>4, RewardValue
    <3>2. BaseSupply - g \in Nat /\ BaseSupply - h \in Nat /\ BaseSupply - h <= BaseSupply - g
      BY <1>0, <1>2, <2>4
    <3>3. e <= d /\ e \in Nat
      BY <1>0, <3>2, DivMonotone
    <3> HIDE DEF d, e
    <3> QED BY <1>0, <2>1, <2>2, <3>1, <3>3
  <2> QED BY <1>0, <2>3, <2>4
<1> QED
  BY <1>0, <1>1, <1>2

(* The locals of rescan_blockchain's loop. *)
Locals == [generated : 0 .. Word - 1, unlocked : 0 .. Word - 1]

(* The locals after block i, from those before it. *)
After(top, i, before) ==
  [generated |-> (before.generated + get_block_reward(before.generated, i)) % Word,
   unlocked |-> (before.unlocked +
                 (IF Matured(i, top) THEN get_block_reward(before.generated, i)
                                     ELSE 0)) % Word]

LEMMA AfterTyped ==
  ASSUME NEW top \in Nat, NEW i \in Nat, NEW before \in Locals
  PROVE  After(top, i, before) \in Locals
<1>1. before.generated \in 0 .. Word - 1 /\ before.unlocked \in 0 .. Word - 1
  BY DEF Locals
<1> DEFINE reward == get_block_reward(before.generated, i)
           credit == IF Matured(i, top) THEN reward ELSE 0
<1>2. reward \in 0 .. Word - 1
  BY <1>1, RewardTyped
<1> HIDE DEF reward
<1>3. credit \in 0 .. Word - 1
  BY <1>2, EmissionAssumption
<1> HIDE DEF credit
<1>4. before.generated + reward \in Int /\ before.unlocked + credit \in Int
  BY <1>1, <1>2, <1>3
<1>5. /\ (before.generated + reward) % Word \in 0 .. Word - 1
      /\ (before.unlocked + credit) % Word \in 0 .. Word - 1
  BY <1>4, Division
<1>6. After(top, i, before) = [generated |-> (before.generated + reward) % Word,
                               unlocked |-> (before.unlocked + credit) % Word]
  BY DEF After, credit, reward
<1> QED
  BY <1>5, <1>6 DEF Locals

(* Scan computes the locals one block after the other. *)
LEMMA ScanStep ==
  ASSUME NEW top \in Nat \ {0}
  PROVE  /\ Scan(top) \in [0 .. top - 1 -> Locals]
         /\ Scan(top)[0] = [generated |-> 0, unlocked |-> 0]
         /\ \A i \in 1 .. top - 1 : Scan(top)[i] = After(top, i, Scan(top)[i-1])
<1> DEFINE n == top - 1
           zero == [generated |-> 0, unlocked |-> 0]
           Scans(g) == g = [i \in 0 .. n |-> IF i = 0 THEN zero ELSE After(top, i, g[i-1])]
           step == [p \in (1..n) \X Locals |-> After(top, p[1], p[2])]
<1>0. n \in Nat /\ zero \in Locals
  BY EmissionAssumption DEF Locals
<1>1. step \in [(1..n) \X Locals -> Locals]
  <2>1. ASSUME NEW p \in (1..n) \X Locals PROVE After(top, p[1], p[2]) \in Locals
    <3>1. p[1] \in Nat /\ p[2] \in Locals
      OBVIOUS
    <3> QED
      BY <3>1, AfterTyped
  <2> QED
    BY <2>1
<1>2. \A k \in 1..n, v \in Locals : step[<<k, v>>] = After(top, k, v)
  OBVIOUS
<1> HIDE DEF zero, n
<1>3. PICK f : Computes(f, n, Locals, zero, step)
  <2> HIDE DEF step
  <2> QED
    BY <1>0, <1>1, RecursionExists
<1> HIDE DEF step
<1>4. f \in [0..n -> Locals] /\ f[0] = zero
  BY <1>3 DEF Computes
<1>5. \A k \in 1..n : f[k] = After(top, k, f[k-1])
  <2> SUFFICES ASSUME NEW k \in 1..n PROVE f[k] = After(top, k, f[k-1])
    OBVIOUS
  <2>1. f[k-1] \in Locals
    BY <1>0, <1>4
  <2>2. f[k] = step[<<k, f[k-1]>>]
    BY <1>3 DEF Computes
  <2> QED
    BY <1>2, <2>1, <2>2
<1>6. Scans(f)
  <2>1. ASSUME NEW k \in 0..n PROVE f[k] = IF k = 0 THEN zero ELSE After(top, k, f[k-1])
    <3>1. k = 0 \/ k \in 1..n
      BY <1>0
    <3> QED
      BY <1>4, <1>5, <3>1
  <2> QED
    BY <1>4, <2>1
<1>7. Scan(top) = CHOOSE g : Scans(g)
  BY DEF Scan, After, n, zero
<1> DEFINE g == Scan(top)
<1>8. Scans(g)
  <2> HIDE DEF Scans
  <2> QED
    BY <1>6, <1>7
<1> HIDE DEF g
<1>9. /\ DOMAIN g = 0..n
      /\ g[0] = zero /\ \A k \in 1..n : g[k] = After(top, k, g[k-1])
  <2>1. DOMAIN g = 0..n
    BY <1>8
  <2>2. \A k \in 0..n : g[k] = IF k = 0 THEN zero ELSE After(top, k, g[k-1])
    BY <1>8
  <2>3. 0 \in 0..n /\ \A k \in 1..n : k \in 0..n /\ k # 0
    BY <1>0
  <2> QED
    BY <2>1, <2>2, <2>3
<1> DEFINE P == {k \in 0..n : g[k] \in Locals}
<1>10. 0 \in P
  BY <1>0, <1>9
<1>11. ASSUME NEW k \in 1..n, k - 1 \in P PROVE k \in P
  <2>1. g[k-1] \in Locals
    BY <1>11
  <2>2. g[k] \in Locals
    BY <1>0, <1>9, <2>1, AfterTyped
  <2> QED
    BY <2>2
<1>12. 0..n \subseteq P
  <2> HIDE DEF P
  <2> QED
    BY <1>0, <1>10, <1>11, UpTo
<1>13. g \in [0..n -> Locals]
  <2>1. g = [k \in 0..n |-> g[k]]
    BY <1>8
  <2> QED
    BY <1>12, <2>1
<1> QED
  BY <1>9, <1>13 DEF g, n, zero

(* The same, field by field. *)
LEMMA ScanFields ==
  ASSUME NEW top \in Nat \ {0}
  PROVE  /\ \A i \in 0 .. top - 1 : /\ Scan(top)[i].generated \in 0 .. Word - 1
                                    /\ Scan(top)[i].unlocked \in 0 .. Word - 1
         /\ Scan(top)[0].generated = 0 /\ Scan(top)[0].unlocked = 0
         /\ \A i \in 1 .. top - 1 :
              LET g == Scan(top)[i-1].generated
                  u == Scan(top)[i-1].unlocked
                  r == get_block_reward(g, i)
              IN  /\ Scan(top)[i].generated = (g + r) % Word
                  /\ Scan(top)[i].unlocked = (u + (IF Matured(i, top) THEN r ELSE 0)) % Word
<1>1. \A l \in Locals : l.generated \in 0 .. Word - 1 /\ l.unlocked \in 0 .. Word - 1
  BY DEF Locals
<1>2. \A i \in 0 .. top - 1 : Scan(top)[i] \in Locals
  BY ScanStep
<1>3. \A i \in 1 .. top - 1 : Scan(top)[i] = After(top, i, Scan(top)[i-1])
  BY ScanStep
<1>4. Scan(top)[0].generated = 0 /\ Scan(top)[0].unlocked = 0
  BY ScanStep
<1>5. \A i \in 0 .. top - 1 : /\ Scan(top)[i].generated \in 0 .. Word - 1
                             /\ Scan(top)[i].unlocked \in 0 .. Word - 1
  BY <1>1, <1>2
<1>6. ASSUME NEW i \in 1 .. top - 1
      PROVE  LET g == Scan(top)[i-1].generated
                 u == Scan(top)[i-1].unlocked
                 r == get_block_reward(g, i)
             IN  /\ Scan(top)[i].generated = (g + r) % Word
                 /\ Scan(top)[i].unlocked = (u + (IF Matured(i, top) THEN r ELSE 0)) % Word
  <2> DEFINE before == Scan(top)[i-1]
  <2>1. Scan(top)[i] = After(top, i, before)
    BY <1>3
  <2> HIDE DEF before
  <2>2. /\ After(top, i, before).generated =
             (before.generated + get_block_reward(before.generated, i)) % Word
        /\ After(top, i, before).unlocked =
             (before.unlocked + (IF Matured(i, top)
                                THEN get_block_reward(before.generated, i) ELSE 0)) % Word
    BY DEF After
  <2> QED
    BY <2>1, <2>2, Zenon DEF before
<1> QED
  BY <1>4, <1>5, <1>6

(* What the first blocks generate does not depend on the blocks after. *)
LEMMA GeneratedAgrees ==
  ASSUME NEW m \in Nat \ {0}, NEW n \in Nat \ {0}, m <= n
  PROVE  \A i \in 0 .. m - 1 : Scan(n)[i].generated = Scan(m)[i].generated
<1> DEFINE f == [i \in 0 .. m - 1 |-> Scan(m)[i].generated]
           g == [i \in 0 .. m - 1 |-> Scan(n)[i].generated]
           P == {i \in 0 .. m - 1 : f[i] = g[i]}
<1>0. m - 1 \in Nat /\ 0 \in 0 .. m - 1
      /\ \A i \in 1 .. m - 1 : i \in 0 .. m - 1 /\ i - 1 \in 0 .. m - 1 /\ i \in 1 .. n - 1
  OBVIOUS
<1>1. \A i \in 1 .. m - 1 : f[i] = (f[i-1] + get_block_reward(f[i-1], i)) % Word
  BY <1>0, ScanFields
<1>2. \A i \in 1 .. m - 1 : g[i] = (g[i-1] + get_block_reward(g[i-1], i)) % Word
  BY <1>0, ScanFields
<1>3. f[0] = 0 /\ g[0] = 0
  BY <1>0, ScanFields
<1>4. \A i \in 0 .. m - 1 : f[i] = Scan(m)[i].generated /\ g[i] = Scan(n)[i].generated
  OBVIOUS
<1> HIDE DEF f, g
<1>5. 0 \in P
  BY <1>0, <1>3
<1>6. ASSUME NEW i \in 1 .. m - 1, i - 1 \in P PROVE i \in P
  BY <1>0, <1>1, <1>2, <1>6
<1>7. 0 .. m - 1 \subseteq P
  <2> HIDE DEF P
  <2> QED
    BY <1>0, <1>5, <1>6, UpTo
<1> QED
  BY <1>4, <1>7

(* The last block that has matured in a file of n blocks. *)
LastMature(n) == Max({0, n - SpendableAge})

LEMMA LastMatureValue ==
  ASSUME NEW n \in Nat \ {0}
  PROVE  /\ LastMature(n) \in 0 .. n - 1
         /\ \A i \in Nat \ {0} : Matured(i, n) <=> i <= LastMature(n)
         /\ \A m \in Nat \ {0} : m <= n => LastMature(m) <= LastMature(n)
<1>1. SpendableAge \in Nat \ {0}
  BY EmissionAssumption
<1>2. \A m \in Nat : LastMature(m) = IF 0 >= m - SpendableAge THEN 0 ELSE m - SpendableAge
  BY <1>1, MaxOfTwo DEF LastMature
<1> QED
  BY <1>1, <1>2 DEF Matured

(* After block i the unlocked sum is the generated sum of block i, or of   *)
(* the last mature block if that is earlier.                               *)
LEMMA UnlockedIsDelayed ==
  ASSUME NEW n \in Nat \ {0}
  PROVE  \A i \in 0 .. n - 1 :
           Scan(n)[i].unlocked =
             Scan(n)[IF i <= LastMature(n) THEN i ELSE LastMature(n)].generated
<1> DEFINE M == LastMature(n)
           g == [i \in 0 .. n - 1 |-> Scan(n)[i].generated]
           u == [i \in 0 .. n - 1 |-> Scan(n)[i].unlocked]
           P == {i \in 0 .. n - 1 : u[i] = g[IF i <= M THEN i ELSE M]}
<1>0. n - 1 \in Nat /\ 0 \in 0 .. n - 1
      /\ \A i \in 1 .. n - 1 : i \in 0 .. n - 1 /\ i - 1 \in 0 .. n - 1
  OBVIOUS
<1>1. M \in 0 .. n - 1 /\ \A i \in 1 .. n - 1 : Matured(i, n) <=> i <= M
  BY LastMatureValue
<1>2. /\ \A i \in 1 .. n - 1 : g[i] = (g[i-1] + get_block_reward(g[i-1], i)) % Word
      /\ g[0] = 0 /\ u[0] = 0
  BY <1>0, ScanFields
<1>3. \A i \in 1 .. n - 1 :
        u[i] = (u[i-1] + (IF Matured(i, n) THEN get_block_reward(g[i-1], i) ELSE 0)) % Word
  BY <1>0, ScanFields
<1>4. \A i \in 0 .. n - 1 : u[i] \in 0 .. Word - 1
  BY ScanFields
<1>5. \A i \in 0 .. n - 1 : g[i] = Scan(n)[i].generated /\ u[i] = Scan(n)[i].unlocked
  OBVIOUS
<1> HIDE DEF M, g, u
<1>6. 0 \in P
  BY <1>0, <1>1, <1>2
<1>7. ASSUME NEW i \in 1 .. n - 1, i - 1 \in P PROVE i \in P
  <2>1. u[i-1] = g[IF i - 1 <= M THEN i - 1 ELSE M] /\ u[i-1] \in 0 .. Word - 1
    BY <1>0, <1>4, <1>7
  <2>2. CASE i <= M
    <3>1. i - 1 <= M /\ Matured(i, n)
      BY <1>1, <2>2
    <3>2. u[i] = g[i]
      BY <1>2, <1>3, <2>1, <3>1
    <3> QED BY <1>0, <2>2, <3>2
  <2>3. CASE ~(i <= M)
    <3>1. u[i] = (u[i-1] + 0) % Word
      BY <1>1, <1>3, <2>3
    <3>2. u[i-1] + 0 = u[i-1]
      BY <2>1
    <3>3. u[i] = u[i-1]
      BY <2>1, <3>1, <3>2, WordMod
    <3>4. g[IF i - 1 <= M THEN i - 1 ELSE M] = g[M]
      BY <1>1, <2>3
    <3> QED BY <1>0, <2>1, <2>3, <3>3, <3>4
  <2> QED BY <2>2, <2>3
<1>8. 0 .. n - 1 \subseteq P
  <2> HIDE DEF P
  <2> QED
    BY <1>0, <1>6, <1>7, UpTo
<1>9. ASSUME NEW i \in 0 .. n - 1 PROVE u[i] = g[IF i <= M THEN i ELSE M]
  BY <1>8
<1>10. \A i \in 0 .. n - 1 : (IF i <= M THEN i ELSE M) \in 0 .. n - 1
  BY <1>1
<1> QED
  BY <1>5, <1>9, <1>10 DEF M

(* The rule of wallet.cpp:90 for a whole file. *)
LEMMA RescanDelays ==
  ASSUME NEW n \in Nat \ {0}
  PROVE  Scan(n)[n - 1].unlocked = Scan(n)[LastMature(n)].generated
<1>1. n - 1 \in 0 .. n - 1 /\ LastMature(n) \in 0 .. n - 1
  BY LastMatureValue
<1>2. Scan(n)[n - 1].unlocked =
        Scan(n)[IF n - 1 <= LastMature(n) THEN n - 1 ELSE LastMature(n)].generated
  BY <1>1, UnlockedIsDelayed
<1>3. (IF n - 1 <= LastMature(n) THEN n - 1 ELSE LastMature(n)) = LastMature(n)
  BY <1>1
<1> QED
  BY <1>2, <1>3

(* Unless the sums of a file wrap, they never fall. *)
LEMMA SumsGrow ==
  ASSUME NEW n \in Nat \ {0}, ~Wraps(n), NEW i \in 0 .. n - 1, NEW j \in i .. n - 1
  PROVE  Scan(n)[i].generated <= Scan(n)[j].generated
<1> DEFINE g == [k \in 0 .. n - 1 |-> Scan(n)[k].generated]
           P == {k \in 0 .. n - 1 - i : g[i] <= g[i + k]}
<1>0. /\ n - 1 - i \in Nat /\ 0 \in 0 .. n - 1 - i /\ i + 0 = i /\ j - i \in 0 .. n - 1 - i
      /\ \A k \in 1 .. n - 1 - i : /\ k \in 0 .. n - 1 - i
                                   /\ i + k \in 1 .. n - 1 /\ i + k \in 0 .. n - 1
                                   /\ (i + k) - 1 = i + (k - 1) /\ i + (k - 1) \in 0 .. n - 1
  OBVIOUS
<1>1. \A k \in 1 .. n - 1 : k \in 0 .. n - 1 /\ k - 1 \in 0 .. n - 1
  OBVIOUS
<1>2. \A k \in 0 .. n - 1 : g[k] = Scan(n)[k].generated /\ g[k] \in Int
  BY ScanFields
<1>3. \A k \in 1 .. n - 1 : ~(g[k] < g[k-1])
  BY <1>1, <1>2 DEF Wraps
<1> HIDE DEF g
<1>4. 0 \in P
  BY <1>0, <1>2
<1>5. ASSUME NEW k \in 1 .. n - 1 - i, k - 1 \in P PROVE k \in P
  <2>1. g[i] <= g[i + (k - 1)]
    BY <1>5
  <2>2. ~(g[i + k] < g[i + (k - 1)])
    BY <1>0, <1>3
  <2>3. g[i] \in Int /\ g[i + k] \in Int /\ g[i + (k - 1)] \in Int
    BY <1>0, <1>2
  <2>4. g[i] <= g[i + k]
    BY <2>1, <2>2, <2>3
  <2> QED
    BY <1>0, <2>4
<1>6. 0 .. n - 1 - i \subseteq P
  <2> HIDE DEF P
  <2> QED
    BY <1>0, <1>4, <1>5, UpTo
<1>7. g[i] <= g[i + (j - i)] /\ i + (j - i) = j /\ j \in 0 .. n - 1
  BY <1>0, <1>6
<1> QED
  BY <1>2, <1>7
-----------------------------------------------------------------------------
(* The inductive invariant: the types, the balances last set are those of  *)
(* the blocks then counted, and the history accounts for the difference.   *)
WalletTypeOK ==
  /\ height \in Nat /\ running \in BOOLEAN
  /\ m_total_balance \in 0 .. Word - 1 /\ m_unlocked_balance \in 0 .. Word - 1
  /\ m_history \in Seq(0 .. Word - 1)
  /\ reset \in [total : 0 .. Word - 1, unlocked : 0 .. Word - 1,
                from : Nat, counted : Nat]

Counted ==
  reset.counted > 0 =>
    /\ reset.total = Scan(reset.counted)[reset.counted - 1].generated
    /\ reset.unlocked = Scan(reset.counted)[reset.counted - 1].unlocked

WalletInv ==
  /\ WalletTypeOK
  /\ reset.from <= Len(m_history) /\ reset.counted <= height
  /\ Counted
  /\ HistoryAccounts

LEMMA ResetTyped ==
  ASSUME WalletTypeOK
  PROVE  /\ reset.total \in 0 .. Word - 1 /\ reset.unlocked \in 0 .. Word - 1
         /\ reset.from \in Nat /\ reset.counted \in Nat
BY DEF WalletTypeOK

(* A history of words is a sequence of integers. *)
LEMMA WordSeq == \A h \in Seq(0 .. Word - 1) : h \in Seq(Int)
BY EmissionAssumption

(* Setting the balances, from a scan or not, keeps the invariant. *)
LEMMA SetKeepsInv ==
  ASSUME NEW t \in 0 .. Word - 1, NEW u \in 0 .. Word - 1, NEW c \in Nat,
         set_balances(t, u, c), m_history' \in Seq(0 .. Word - 1),
         height' \in Nat, running' \in BOOLEAN, c <= height',
         c > 0 => /\ t = Scan(c)[c - 1].generated
                  /\ u = Scan(c)[c - 1].unlocked
  PROVE  WalletInv'
<1>1. /\ m_total_balance' = t /\ m_unlocked_balance' = u
      /\ reset' = [total |-> t, unlocked |-> u, from |-> Len(m_history'), counted |-> c]
  BY DEF set_balances
<1>2. m_history' \in Seq(Int) /\ Len(m_history') \in Nat
  BY WordSeq
<1>3. Taken(m_history', Len(m_history')) = 0
  BY <1>2, TakenNothing
<1>4. /\ reset'.total = t /\ reset'.unlocked = u /\ reset'.from = Len(m_history')
      /\ reset'.counted = c
  BY <1>1
<1>5. reset' \in [total : 0 .. Word - 1, unlocked : 0 .. Word - 1, from : Nat, counted : Nat]
  BY <1>1, <1>2
<1>6. WalletTypeOK'
  BY <1>1, <1>5 DEF WalletTypeOK
<1>7. t - 0 = t /\ u - 0 = u
  BY EmissionAssumption
<1>8. HistoryAccounts'
  <2>1. Spent' = 0
    BY <1>3, <1>4 DEF Spent
  <2>2. t = (t - 0) % Word /\ u = (u - 0) % Word
    BY <1>7, WordMod
  <2> QED
    BY <1>1, <1>4, <2>1, <2>2 DEF HistoryAccounts
<1>9. Counted'
  BY <1>4 DEF Counted
<1> QED
  BY <1>2, <1>4, <1>6, <1>8, <1>9 DEF WalletInv

(* So does a rescan of the whole records. *)
LEMMA RescanKeepsInv ==
  ASSUME WalletInv, NEW blocks \in Loadable, blocks > 0, rescan_blockchain(blocks),
         UNCHANGED <<m_history, height>>, running' \in BOOLEAN
  PROVE  WalletInv'
<1>1. height \in Nat /\ blocks = height /\ blocks \in Nat \ {0} /\ m_history \in Seq(0 .. Word - 1)
  BY DEF WalletInv, WalletTypeOK, Loadable
<1> DEFINE last == Scan(blocks)[blocks - 1]
<1>2. set_balances(last.generated, last.unlocked, blocks)
  BY DEF rescan_blockchain
<1>3. last.generated \in 0 .. Word - 1 /\ last.unlocked \in 0 .. Word - 1
  <2>1. blocks - 1 \in 0 .. blocks - 1
    BY <1>1
  <2> QED
    BY <1>1, <2>1, ScanFields
<1>4. last.generated = Scan(blocks)[blocks - 1].generated
      /\ last.unlocked = Scan(blocks)[blocks - 1].unlocked
  OBVIOUS
<1> HIDE DEF last
<1> QED
  BY <1>1, <1>2, <1>3, <1>4, SetKeepsInv

(* A transfer takes amount and fee from both balances and enters the       *)
(* amount in the history.                                                  *)
LEMMA TransferKeepsInv ==
  ASSUME WalletInv, NEW amount \in Amounts, create_transfer(amount)
  PROVE  WalletInv'
<1> DEFINE cost == amount + Fee
           spent == Taken(m_history, reset.from)
<1>1. amount \in 0 .. Word - 1 /\ Fee \in 0 .. Word - 1 /\ Word \in Nat \ {0}
  BY WalletAssumption, EmissionAssumption
<1>2. /\ m_unlocked_balance' = (m_unlocked_balance - cost) % Word
      /\ m_total_balance' = (m_total_balance - cost) % Word
      /\ m_history' = Append(m_history, amount)
      /\ UNCHANGED <<height, running, reset>>
  BY DEF create_transfer, deduct
<1>3. WalletTypeOK /\ m_history \in Seq(0 .. Word - 1) /\ m_history \in Seq(Int)
      /\ reset.from \in 0 .. Len(m_history)
  <2>1. WalletTypeOK /\ m_history \in Seq(0 .. Word - 1)
    BY DEF WalletInv, WalletTypeOK
  <2>2. reset.from \in 0 .. Len(m_history)
    BY <2>1, ResetTyped DEF WalletInv
  <2> QED BY <2>1, <2>2, WordSeq
<1>4. spent \in Int /\ Taken(Append(m_history, amount), reset.from) = spent + amount + Fee
  BY <1>1, <1>3, TakenMore
<1>5. /\ m_history' \in Seq(0 .. Word - 1) /\ reset'.from <= Len(m_history')
  BY <1>1, <1>2, <1>3
<1>6. /\ m_unlocked_balance - cost \in Int /\ m_total_balance - cost \in Int
      /\ reset.total - spent \in Int /\ reset.unlocked - spent \in Int /\ cost \in Int
  BY <1>1, <1>3, <1>4, ResetTyped DEF WalletTypeOK
<1>7. m_unlocked_balance' \in 0 .. Word - 1 /\ m_total_balance' \in 0 .. Word - 1
  BY <1>2, <1>6, Division
<1>8. WalletTypeOK'
  BY <1>2, <1>3, <1>5, <1>7 DEF WalletTypeOK
<1>9. Spent' = spent + cost
  <2>1. Spent' = spent + amount + Fee
    BY <1>2, <1>4 DEF Spent
  <2> QED BY <1>1, <1>4, <2>1
<1>10. /\ m_total_balance = (reset.total - spent) % Word
       /\ m_unlocked_balance = (reset.unlocked - spent) % Word
  BY DEF WalletInv, HistoryAccounts, Spent
<1> HIDE DEF spent, cost
<1>11. /\ (((reset.total - spent) % Word) - cost) % Word = ((reset.total - spent) - cost) % Word
       /\ (((reset.unlocked - spent) % Word) - cost) % Word
            = ((reset.unlocked - spent) - cost) % Word
  BY <1>6, ModMinus
<1>12. /\ (reset.total - spent) - cost = reset.total - (spent + cost)
       /\ (reset.unlocked - spent) - cost = reset.unlocked - (spent + cost)
  <2>1. reset.total \in Int /\ reset.unlocked \in Int
    BY <1>1, <1>3, ResetTyped
  <2> QED BY <1>4, <1>6, <2>1
<1>13. HistoryAccounts'
  BY <1>2, <1>9, <1>10, <1>11, <1>12 DEF HistoryAccounts
<1>14. Counted' /\ reset'.counted <= height'
  BY <1>2 DEF WalletInv, Counted
<1> QED
  BY <1>5, <1>8, <1>13, <1>14 DEF WalletInv

(* A process that holds no wallet yet, or no longer. *)
LEMMA EmptyInv ==
  ASSUME height' \in Nat, running' \in BOOLEAN,
         m_total_balance' = 0, m_unlocked_balance' = 0, m_history' = <<>>,
         reset' = [total |-> 0, unlocked |-> 0, from |-> 0, counted |-> 0]
  PROVE  WalletInv'
<1>1. 0 \in 0 .. Word - 1 /\ m_history' \in Seq(0 .. Word - 1) /\ Len(m_history') = 0
      /\ 0 <= height'
  BY EmissionAssumption
<1>2. set_balances(0, 0, 0)
  BY <1>1 DEF set_balances
<1> QED
  BY <1>1, <1>2, SetKeepsInv

LEMMA InitInv == Init => WalletInv
<1> SUFFICES ASSUME Init PROVE WalletInv
  OBVIOUS
<1>0. height \in Nat
  BY DEF Init
<1>1. /\ running \in BOOLEAN
      /\ m_total_balance = 0 /\ m_unlocked_balance = 0 /\ m_history = <<>>
      /\ reset = [total |-> 0, unlocked |-> 0, from |-> 0, counted |-> 0]
  BY Zenon DEF Init
<1>2. 0 \in 0 .. Word - 1 /\ 0 % Word = 0 /\ 0 - 0 = 0
  <2>1. 0 \in 0 .. Word - 1
    BY EmissionAssumption
  <2> QED BY <2>1, WordMod
<1>3. m_history \in Seq(0 .. Word - 1) /\ m_history \in Seq(Int) /\ Len(m_history) = 0
  BY <1>1
<1>4. Taken(m_history, 0) = 0
  BY <1>3, TakenNothing
<1>5. /\ reset.total = 0 /\ reset.unlocked = 0 /\ reset.from = 0 /\ reset.counted = 0
      /\ reset \in [total : 0 .. Word - 1, unlocked : 0 .. Word - 1, from : Nat, counted : Nat]
  BY <1>1, <1>2
<1>6. HistoryAccounts
  BY <1>1, <1>2, <1>4, <1>5 DEF HistoryAccounts, Spent
<1>7. WalletTypeOK
  BY <1>0, <1>1, <1>2, <1>3, <1>5 DEF WalletTypeOK
<1> QED
  BY <1>0, <1>3, <1>5, <1>6, <1>7 DEF WalletInv, Counted

LEMMA StepInv == WalletInv /\ [Next]_vars => WalletInv'
<1> SUFFICES ASSUME WalletInv, [Next]_vars PROVE WalletInv'
  OBVIOUS
<1> USE DEF balances
<1>0. height \in Nat /\ m_history \in Seq(0 .. Word - 1)
      /\ reset.counted \in Nat /\ reset.counted <= height
  BY ResetTyped DEF WalletInv, WalletTypeOK
<1>1. CASE AppendBlock
  <2>1. /\ height' = height + 1
        /\ UNCHANGED <<running, m_total_balance, m_unlocked_balance, m_history, reset>>
    BY <1>1 DEF AppendBlock
  <2>2. height' \in Nat /\ reset'.counted <= height'
    BY <1>0, <2>1
  <2>3. HistoryAccounts' /\ Counted'
    BY <2>1 DEF WalletInv, HistoryAccounts, Spent, Counted
  <2> QED
    BY <2>1, <2>2, <2>3 DEF WalletInv, WalletTypeOK
<1>2. CASE Launch
  <2>1. PICK blocks \in Loadable :
          IF blocks > 0 THEN rescan_blockchain(blocks) ELSE set_balances(Starter, Starter, 0)
    BY <1>2 DEF Launch
  <2>2. running' \in BOOLEAN /\ UNCHANGED <<m_history, height>>
    BY <1>2 DEF Launch
  <2>3. CASE blocks > 0
    BY <2>1, <2>2, <2>3, RescanKeepsInv
  <2>4. CASE ~(blocks > 0)
    BY <1>0, <2>1, <2>2, <2>4, SetKeepsInv, WalletAssumption
  <2> QED BY <2>3, <2>4
<1>3. CASE create_new
  <2>1. /\ running' \in BOOLEAN /\ UNCHANGED <<m_history, height>>
        /\ set_balances(Starter, Starter, 0)
    BY <1>3 DEF create_new, WalletInv, WalletTypeOK
  <2> QED
    BY <1>0, <2>1, SetKeepsInv, WalletAssumption
<1>4. CASE Rescan
  <2>1. running' \in BOOLEAN /\ UNCHANGED <<m_history, height>>
    BY <1>4 DEF Rescan, WalletInv, WalletTypeOK
  <2> QED
    BY <1>4, <2>1, RescanKeepsInv DEF Rescan
<1>5. ASSUME NEW amount \in Amounts, create_transfer(amount) PROVE WalletInv'
  BY <1>5, TransferKeepsInv
<1>6. CASE Exit
  BY <1>0, <1>6, EmptyInv DEF Exit
<1>7. CASE UNCHANGED vars
  <2>1. UNCHANGED <<height, running, m_total_balance, m_unlocked_balance, m_history, reset>>
    BY <1>7 DEF vars
  <2>2. HistoryAccounts' /\ Counted' /\ WalletTypeOK'
    BY <2>1 DEF WalletInv, HistoryAccounts, Spent, Counted, WalletTypeOK
  <2> QED
    BY <2>1, <2>2 DEF WalletInv
<1> QED
  BY <1>1, <1>2, <1>3, <1>4, <1>5, <1>6, <1>7 DEF Next

(* Whatever commands were given, in whatever order, for every word size,   *)
(* fee and history: the transfers since the balances were last set account *)
(* for what both have lost (wallet.cpp:145-146).                           *)
THEOREM HistoryAlwaysAccounts == Spec => []HistoryAccounts
<1>1. WalletInv => HistoryAccounts
  BY DEF WalletInv
<1> QED
  BY <1>1, InitInv, StepInv, PTL DEF Spec

(* For every chain length, age and emission, also after the sums have      *)
(* wrapped: the spendable balance is the total of SpendableAge - 1 blocks  *)
(* earlier (wallet.cpp:90).                                                *)
THEOREM MaturityAlwaysDelays == Spec => []MaturityIsDelay
<1>1. WalletInv => MaturityIsDelay
  <2> SUFFICES ASSUME WalletInv, reset.counted > 0
               PROVE  reset.unlocked =
                        Scan(reset.counted)[Max({0, reset.counted - SpendableAge})].generated
    BY DEF MaturityIsDelay
  <2>1. reset.counted \in Nat \ {0}
    BY ResetTyped DEF WalletInv
  <2>2. reset.unlocked = Scan(reset.counted)[reset.counted - 1].unlocked
    BY DEF WalletInv, Counted
  <2> QED
    BY <2>1, <2>2, RescanDelays DEF LastMature
<1> QED
  BY <1>1, InitInv, StepInv, PTL DEF Spec

(* For every supply, tail, divisor and chain length: while the sum of the  *)
(* rewards does not wrap, no block is rewarded more than the one before it *)
(* (emission.cpp:20-33).                                                   *)
THEOREM RewardsAlwaysTaper == Spec => []RewardsTaper
<1>1. WalletInv => RewardsTaper
  <2> SUFFICES ASSUME WalletInv, NEW i \in 1 .. height - 2,
                      Scan(height)[i].generated >= Scan(height)[i-1].generated
               PROVE  get_block_reward(Scan(height)[i].generated, i + 1)
                        <= get_block_reward(Scan(height)[i-1].generated, i)
    BY DEF RewardsTaper
  <2>1. height \in Nat
    BY DEF WalletInv, WalletTypeOK
  <2>2. /\ height \in Nat \ {0} /\ i \in 0 .. height - 1 /\ i - 1 \in 0 .. height - 1
        /\ i \in Nat \ {0} /\ i + 1 \in Nat \ {0}
    BY <2>1
  <2> DEFINE g == Scan(height)[i-1].generated
             h == Scan(height)[i].generated
  <2>3. g \in 0 .. Word - 1 /\ h \in 0 .. Word - 1
    BY <2>2, ScanFields
  <2>4. g <= h
    BY <2>3, EmissionAssumption
  <2> HIDE DEF g, h
  <2>5. get_block_reward(h, i + 1) <= get_block_reward(g, i)
    BY <2>2, <2>3, <2>4, RewardFalls
  <2> QED
    BY <2>5 DEF g, h
<1> QED
  BY <1>1, InitInv, StepInv, PTL DEF Spec

(* For every fee and balance: a transfer overdraws the unlocked balance by *)
(* the fee at most, never by the amount (wallet.cpp:113).                  *)
THEOREM AlwaysOverdrawnByFeeAtMost == Spec => OverdrawnByFeeAtMost
<1> DEFINE Fair == m_history' # m_history /\ running' /\ m_unlocked_balance <= m_total_balance
                     => \/ m_unlocked_balance' <= m_total_balance'
                        \/ Word - m_unlocked_balance' \in 1..Fee
<1>1. ASSUME WalletInv, [Next]_vars PROVE [Fair]_vars
  <2> SUFFICES ASSUME m_history' # m_history, running',
                      m_unlocked_balance <= m_total_balance
               PROVE  \/ m_unlocked_balance' <= m_total_balance'
                      \/ Word - m_unlocked_balance' \in 1..Fee
    OBVIOUS
  <2>1. PICK amount \in Amounts : create_transfer(amount)
    BY <1>1 DEF Next, AppendBlock, Launch, create_new, Rescan, Exit, vars
  <2>2. /\ amount <= m_unlocked_balance
        /\ m_unlocked_balance' = (m_unlocked_balance - (amount + Fee)) % Word
        /\ m_total_balance' = (m_total_balance - (amount + Fee)) % Word
    BY <2>1 DEF create_transfer, affordable, deduct
  <2>3. /\ amount \in 0 .. Word - 1 /\ Fee \in 0 .. Word - 1 /\ Word \in Nat \ {0}
        /\ m_unlocked_balance \in 0 .. Word - 1 /\ m_total_balance \in 0 .. Word - 1
    BY <1>1, WalletAssumption, EmissionAssumption DEF WalletInv, WalletTypeOK
  <2> DEFINE x == m_unlocked_balance - (amount + Fee)
             y == m_total_balance - (amount + Fee)
  <2>4. x \in Int /\ y \in Int /\ x <= y /\ y <= Word - 1 /\ x >= -Fee
    BY <2>2, <2>3
  <2>5. m_unlocked_balance' = x % Word /\ m_total_balance' = y % Word
    BY <2>2
  <2> HIDE DEF x, y
  <2>6. CASE x >= 0
    <3>1. x \in 0 .. Word - 1 /\ y \in 0 .. Word - 1
      BY <2>3, <2>4, <2>6
    <3>2. x % Word = x /\ y % Word = y
      BY <3>1, WordMod
    <3> QED BY <2>4, <2>5, <3>2
  <2>7. CASE x < 0
    <3>1. x \in (1 - Word) .. (-1)
      BY <2>3, <2>4, <2>7
    <3>2. x % Word = x + Word
      BY <2>3, <3>1
    <3> QED BY <2>3, <2>4, <2>5, <2>7, <3>2
  <2> QED BY <2>4, <2>6, <2>7
<1> QED
  BY <1>1, InitInv, StepInv, PTL DEF Spec, OverdrawnByFeeAtMost

(* For every chain that the daemon may append between two rescans: as long *)
(* as the sum does not wrap, a rescan never takes a reward back, neither   *)
(* from the total nor from the unlocked balance (wallet.cpp:95-96).        *)
THEOREM RescansKeepRewards == Spec => RescanKeepsRewards
<1> DEFINE Keeps == reset.counted > 0 /\ reset'.counted > 0 /\ ~Wraps(reset'.counted) =>
                      reset'.total >= reset.total /\ reset'.unlocked >= reset.unlocked
<1>1. ASSUME WalletInv, [Next]_vars, WalletInv' PROVE [Keeps]_vars
  <2> DEFINE c == reset.counted
             d == reset'.counted
  <2> SUFFICES ASSUME c > 0, d > 0, ~Wraps(d)
               PROVE  reset'.total >= reset.total /\ reset'.unlocked >= reset.unlocked
    OBVIOUS
  <2>1. c \in Nat \ {0} /\ d \in Nat \ {0} /\ c <= height /\ height \in Nat
    <3>1. reset.counted \in Nat /\ height \in Nat
      BY <1>1, ResetTyped DEF WalletInv, WalletTypeOK
    <3>2. reset' \in [total : 0 .. Word - 1, unlocked : 0 .. Word - 1, from : Nat, counted : Nat]
      BY <1>1 DEF WalletInv, WalletTypeOK
    <3>3. reset'.counted \in Nat
      BY <3>2
    <3> QED BY <1>1, <3>1, <3>3 DEF WalletInv
  <2>2. reset' = reset \/ d = height
    <3>1. ASSUME NEW blocks \in Loadable, blocks > 0, rescan_blockchain(blocks)
          PROVE  d = height
      <4>1. d = blocks
        BY <3>1 DEF rescan_blockchain, set_balances
      <4> QED BY <3>1, <4>1 DEF Loadable
    <3>2. ASSUME set_balances(Starter, Starter, 0) PROVE FALSE
      <4>1. d = 0
        BY <3>2 DEF set_balances
      <4> QED BY <4>1
    <3>3. CASE Launch
      BY <3>1, <3>2, <3>3 DEF Launch
    <3>4. CASE create_new
      BY <3>2, <3>4 DEF create_new
    <3>5. CASE Rescan
      BY <3>1, <3>5 DEF Rescan
    <3>6. CASE Exit
      <4>1. d = 0
        BY <3>6 DEF Exit
      <4> QED BY <4>1
    <3>7. CASE AppendBlock \/ UNCHANGED vars \/ \E amount \in Amounts : create_transfer(amount)
      BY <3>7 DEF AppendBlock, vars, create_transfer
    <3> QED BY <1>1, <3>3, <3>4, <3>5, <3>6, <3>7 DEF Next
  <2>3. c <= d
    BY <2>1, <2>2
  <2>4. /\ reset.total = Scan(c)[c - 1].generated
        /\ reset.unlocked = Scan(c)[c - 1].unlocked
    BY <1>1 DEF WalletInv, Counted
  <2>5. /\ reset'.total = Scan(d)[d - 1].generated
        /\ reset'.unlocked = Scan(d)[d - 1].unlocked
    BY <1>1 DEF WalletInv, Counted
  <2> HIDE DEF c, d
  <2>6. /\ c - 1 \in 0 .. c - 1 /\ c - 1 \in 0 .. d - 1 /\ d - 1 \in (c - 1) .. (d - 1)
        /\ LastMature(c) \in 0 .. c - 1 /\ LastMature(c) \in 0 .. d - 1
        /\ LastMature(d) \in LastMature(c) .. (d - 1)
    <3>1. LastMature(c) \in 0 .. c - 1 /\ LastMature(d) \in 0 .. d - 1
          /\ LastMature(c) <= LastMature(d)
      BY <2>1, <2>3, LastMatureValue
    <3> QED BY <2>1, <2>3, <3>1
  <2>7. reset.total = Scan(d)[c - 1].generated
    BY <2>1, <2>3, <2>4, <2>6, GeneratedAgrees
  <2>8. Scan(d)[c - 1].generated <= Scan(d)[d - 1].generated
    BY <2>1, <2>6, SumsGrow
  <2>9. reset.unlocked = Scan(d)[LastMature(c)].generated
    <3>1. reset.unlocked = Scan(c)[LastMature(c)].generated
      BY <2>1, <2>4, RescanDelays
    <3> QED BY <2>1, <2>3, <2>6, <3>1, GeneratedAgrees
  <2>10. reset'.unlocked = Scan(d)[LastMature(d)].generated
    BY <2>1, <2>5, RescanDelays
  <2>11. Scan(d)[LastMature(c)].generated <= Scan(d)[LastMature(d)].generated
    BY <2>1, <2>6, SumsGrow
  <2>12. /\ reset.total \in Int /\ reset.unlocked \in Int
         /\ reset'.total \in Int /\ reset'.unlocked \in Int
    <3>1. reset.total \in 0 .. Word - 1 /\ reset.unlocked \in 0 .. Word - 1
      BY <1>1, ResetTyped DEF WalletInv
    <3>2. reset' \in [total : 0 .. Word - 1, unlocked : 0 .. Word - 1, from : Nat, counted : Nat]
      BY <1>1 DEF WalletInv, WalletTypeOK
    <3>3. reset'.total \in 0 .. Word - 1 /\ reset'.unlocked \in 0 .. Word - 1
      BY <3>2
    <3> QED BY <3>1, <3>3, EmissionAssumption
  <2>13. reset.total <= reset'.total
    BY <2>5, <2>7, <2>8
  <2>14. reset.unlocked <= reset'.unlocked
    BY <2>9, <2>10, <2>11
  <2> QED
    BY <2>12, <2>13, <2>14
<1> QED
  BY <1>1, InitInv, StepInv, PTL DEF Spec, RescanKeepsRewards
=============================================================================

-------------------------- MODULE DifficultyProofs --------------------------
(***************************************************************************)
(* Facts about the retargeting rule for chains of any length, any window   *)
(* and any target.                                                         *)
(***************************************************************************)
EXTENDS Difficulty, TLAPS

(* Truncating a double to uint64_t gives a natural number. *)
LEMMA TruncationsNat ==
  ASSUME NEW p, NEW q, NEW r \in Truncations(p, q)
  PROVE  r \in Nat
  BY DEF Truncations

(* The epoch anchor keeps a natural number natural. *)
LEMMA AnchoredNat ==
  ASSUME NEW r \in Nat, NEW ts, NEW a \in Anchored(r, ts)
  PROVE  a \in Nat
<1> DEFINE actual == ts[Len(ts)] - ts[Len(ts) - Window]
           expected == Window * Target
<1>1. \/ a = r \/ a = 2 * r \/ a = r \div 2
      \/ a \in Truncations(r * expected, actual)
  BY DEF Anchored
<1>2. CASE a \in Truncations(r * expected, actual)
  BY <1>2, TruncationsNat
<1> QED
  BY <1>1, <1>2

(* The last difficulty, as the step clamp sees it. *)
PrevDifficulty(ts, cds) == cds[Len(cds)] - cds[Len(ts) - 1]

(* Every difficulty the rule returns is a positive natural number, for any *)
(* chain whose vectors are in step (difficulty.cpp:72): no block can be    *)
(* accepted at difficulty 0, which check_pow_hash would refuse for every   *)
(* hash, halting the chain.                                                *)
THEOREM NextDifficultyPositive ==
  ASSUME NEW ts, NEW cds \in Seq(Int), Len(ts) = Len(cds),
         NEW d \in next_difficulty_lwma3(ts, cds)
  PROVE  d \in Nat /\ d >= 1
<1>1. CASE Len(ts) < 2 \/ Len(cds) < 2
  BY <1>1 DEF next_difficulty_lwma3
<1>2. CASE ~(Len(ts) < 2 \/ Len(cds) < 2)
  <2> DEFINE prev == PrevDifficulty(ts, cds)
  <2>1. PICK a \in UNION {Anchored(r, ts) : r \in RawDifficulties(ts, cds)} :
          d = IF StepClamp(a, prev) > 1 THEN StepClamp(a, prev) ELSE 1
    BY <1>2 DEF next_difficulty_lwma3, PrevDifficulty
  <2>2. a \in Nat
    BY <2>1, AnchoredNat, TruncationsNat DEF RawDifficulties
  <2>3. prev \in Int
    BY <1>2 DEF PrevDifficulty
  <2>4. StepClamp(a, prev) \in Int
    <3> HIDE DEF prev
    <3> QED BY <2>2, <2>3 DEF StepClamp, Clamp
  <2> HIDE DEF prev
  <2> QED
    BY <2>1, <2>4
<1> QED
  BY <1>1, <1>2

(* For every chain, window and target: if the last block's difficulty is   *)
(* above 10, the next one differs from it by 15 percent at most            *)
(* (difficulty.cpp:64-70), whatever the timestamps say.                    *)
THEOREM NextDifficultyStep ==
  ASSUME NEW ts, NEW cds \in Seq(Int), Len(ts) = Len(cds), Len(ts) >= 2,
         PrevDifficulty(ts, cds) > 10,
         NEW d \in next_difficulty_lwma3(ts, cds)
  PROVE  /\ 100 * d <= 115 * PrevDifficulty(ts, cds)
         /\ 100 * d > 85 * PrevDifficulty(ts, cds) - 100
<1> DEFINE prev == PrevDifficulty(ts, cds)
<1>1. PICK a \in UNION {Anchored(r, ts) : r \in RawDifficulties(ts, cds)} :
        d = IF StepClamp(a, prev) > 1 THEN StepClamp(a, prev) ELSE 1
  BY DEF next_difficulty_lwma3, PrevDifficulty
<1>2. a \in Nat
  BY <1>1, AnchoredNat, TruncationsNat DEF RawDifficulties
<1>3. prev \in Int /\ prev > 10
  BY DEF PrevDifficulty
<1> HIDE DEF prev
<1>4. StepClamp(a, prev) = Clamp(a, (prev * 85) \div 100, (prev * 115) \div 100)
  BY <1>3 DEF StepClamp
<1>5. /\ StepClamp(a, prev) \in Int
      /\ (prev * 85) \div 100 <= StepClamp(a, prev)
      /\ StepClamp(a, prev) <= (prev * 115) \div 100
  BY <1>2, <1>3, <1>4 DEF Clamp
<1>6. (prev * 85) \div 100 > 1
  BY <1>3
<1> QED
  BY <1>1, <1>3, <1>5, <1>6 DEF prev
=============================================================================

----------------------------- MODULE Difficulty -----------------------------
(***************************************************************************)
(* The retargeting rule and the proof-of-work test of src/crypto           *)
(* (difficulty.cpp), as operators.  A chain is seen through the two        *)
(* vectors the code passes by value: the block timestamps `ts' and the     *)
(* cumulative difficulties `cds', of the same length.                      *)
(*                                                                         *)
(* The code computes two of its quotients in double precision and          *)
(* truncates.  For operands below 2^52 the outcome is the floor of the     *)
(* exact quotient, except that an exact integer may come out one short     *)
(* (0.99... truncates to 0).  Which of the two happens depends on bits     *)
(* below the model, so next_difficulty_lwma3 is the SET of values the      *)
(* build may return.                                                       *)
(***************************************************************************)
EXTENDS Integers, Sequences, FiniteSetsExt

CONSTANTS
  Window,   \* blocks in the sliding window and the epoch anchor (100)
  Target,   \* DIFFICULTY_TARGET_V2, seconds per block (150)
  MaxHash   \* UINT64_MAX, the largest value of a proof-of-work hash

ASSUME WindowAssumption  == Window \in Nat \ {0}
ASSUME TargetAssumption  == Target \in Nat \ {0}
ASSUME MaxHashAssumption == MaxHash \in Nat

Clamp(x, lo, hi) == IF x < lo THEN lo ELSE IF x > hi THEN hi ELSE x

(* static_cast<uint64_t> of the double quotient p / q. *)
Truncations(p, q) ==
  {r \in {p \div q, (p \div q) - 1} : r \in Nat /\ (r < p \div q => p % q = 0)}

(* The solve time of the block at position k, clamped to [1, 6 * Target]. *)
SolveTime(ts, k) == Clamp(ts[k] - ts[k-1], 1, 6 * Target)

(* The i-th of the last n solve times has weight i. *)
LwmaSum(ts, n) ==
  LET lwma_sum[i \in 0..n] ==
        IF i = 0 THEN 0 ELSE lwma_sum[i-1] + SolveTime(ts, Len(ts) - n + i) * i
  IN  lwma_sum[n]

WindowSizeOne(ts) == 1

WindowSize(ts) == Clamp(Len(ts) - 1, 1, Window)

(* raw_next_difficulty before the anchor: window difficulty per            *)
(* (weights * Target), times the weighted solve times.                     *)
RawDifficulties(ts, cds) ==
  LET n     == WindowSize(ts)
      total == cds[Len(cds)] - cds[Len(ts) - n]
  IN  Truncations(total * LwmaSum(ts, n), ((n * (n + 1)) \div 2) * Target)

(* The epoch anchor: scale by expected / actual epoch time, clamped to     *)
(* [1/2, 2].  A negative epoch time wraps to a huge unsigned one, which    *)
(* the clamp turns into 1/2.                                               *)
Anchored(r, ts) ==
  LET actual   == ts[Len(ts)] - ts[Len(ts) - Window]
      expected == Window * Target
  IN  CASE Len(ts) < Window + 1                        -> {r}
        [] Len(ts) >= Window + 1 /\ actual \in {0, expected} -> {r}
        [] Len(ts) >= Window + 1 /\ actual > 0 /\ 2 * actual <= expected -> {2 * r}
        [] Len(ts) >= Window + 1 /\ (actual < 0 \/ actual >= 2 * expected) -> {r \div 2}
        [] OTHER -> Truncations(r * expected, actual)

StepClampAbove(r, prev) ==
  IF prev > 10 /\ r > (prev * 115) \div 100 THEN (prev * 115) \div 100 ELSE r

(* One block may move a difficulty above 10 by 15 percent at most. *)
StepClamp(r, prev) ==
  IF prev > 10 THEN Clamp(r, (prev * 85) \div 100, (prev * 115) \div 100) ELSE r

next_difficulty_lwma3(ts, cds) ==
  IF Len(ts) < 2 \/ Len(cds) < 2
  THEN {1}
  ELSE LET prev == cds[Len(cds)] - cds[Len(ts) - 1]
       IN  {IF StepClamp(a, prev) > 1 THEN StepClamp(a, prev) ELSE 1 :
              a \in UNION {Anchored(r, ts) : r \in RawDifficulties(ts, cds)}}

(* The hash, read as a little-endian 64-bit number, is at most             *)
(* UINT64_MAX / difficulty; difficulty 0 accepts nothing.                  *)
check_pow_hash(hash_val, difficulty) ==
  difficulty # 0 /\ hash_val <= MaxHash \div difficulty
=============================================================================

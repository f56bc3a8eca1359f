------------------------------ MODULE Retarget ------------------------------
(***************************************************************************)
(* The retargeting rule under the load of the integration test             *)
(* (tests/test_consensus_tdd.cpp, TEST 1): a chain whose blocks all have   *)
(* difficulty base and arrive at one pace, to which the rule is applied    *)
(* at every length.  A block may also carry any odd timestamp (the same    *)
(* second, a long pause, an earlier time from a damaged file), so that the *)
(* window holds mixed solve times as well.                                 *)
(***************************************************************************)
EXTENDS Difficulty

CONSTANTS
  Paces,      \* seconds between blocks
  Bases,      \* difficulties of the steady chain
  Pauses,     \* solve times of the odd block out
  MaxLength   \* bound: blocks

ASSUME InputsAssumption ==
  Paces \subseteq Int /\ Pauses \subseteq Int /\ Bases \subseteq Nat \ {0}

VARIABLES
  pace, base,
  ts, cds,    \* the vectors passed to next_difficulty_lwma3
  steady      \* every block so far arrived at the pace

vars == <<pace, base, ts, cds, steady>>

Init ==
  /\ pace \in Paces /\ base \in Bases
  /\ ts = <<100>> /\ cds = <<base>> /\ steady = TRUE

PushBlock(solve_time) ==
  /\ Len(ts) < MaxLength
  /\ ts' = Append(ts, ts[Len(ts)] + solve_time)
  /\ cds' = Append(cds, cds[Len(cds)] + base)
  /\ steady' = (steady /\ solve_time = pace)
  /\ UNCHANGED <<pace, base>>

Next == PushBlock(pace) \/ \E p \in Pauses : PushBlock(p)

Spec == Init /\ [][Next]_vars

next == next_difficulty_lwma3(ts, cds)
-----------------------------------------------------------------------------
(* tests/test_consensus_tdd.cpp:60: on a steady chain longer than the      *)
(* window whose blocks come three times too fast, the difficulty rises.    *)
(* It takes the anchor's correction, the window sum and both clamps        *)
(* together, for every base above the step clamp's threshold.              *)
FastBlocksRaise ==
  steady /\ 3 * pace = Target /\ Len(ts) > Window /\ base > 10 =>
    \A d \in next : d > base

(* Whatever the solve times (zero, negative, pauses beyond the limit of    *)
(* six targets) and whichever way the floating-point quotients             *)
(* round, one block moves a difficulty above 10 by 15 percent at most, and *)
(* never to zero: difficulty.cpp:64-72.                                    *)
StepBounded ==
  \A d \in next :
    /\ d >= 1
    /\ Len(ts) >= 2 /\ base > 10 =>
         100 * d <= 115 * base /\ 100 * d > 85 * base - 100

(* tests/test_consensus_tdd.cpp:80 asserts "Difficulty must decrease when  *)
(* blocks arrive slower than target", for a steady chain 3.3 times too     *)
(* slow.                                                                   *)
SlowBlocksLower ==
  steady /\ 3 * pace = 10 * Target /\ Len(ts) > Window /\ base > 10 =>
    \A d \in next : d < base
=============================================================================

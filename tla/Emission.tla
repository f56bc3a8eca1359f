------------------------------ MODULE Emission ------------------------------
(***************************************************************************)
(* The emission rule (src/cryptonote_core/emission.cpp) and the sums that  *)
(* Wallet::rescan_blockchain forms of it, in unsigned integers of Word     *)
(* values (2^64 in the build).  The real base supply is 18.4e18 atomic     *)
(* units, the real Word 18.446e18: the sums wrap soon after the base       *)
(* supply is reached.                                                      *)
(***************************************************************************)
EXTENDS Integers, FiniteSetsExt

CONSTANTS
  Word,           \* number of values of uint64_t
  BaseSupply,     \* BASE_SUPPLY
  TailReward,     \* TAIL_EMISSION_REWARD
  SpeedDivisor,   \* 2 ^ EMISSION_SPEED_FACTOR_PER_MINUTE
  GenesisReward,  \* the reward of height 0
  SpendableAge    \* CRYPTONOTE_DEFAULT_TX_SPENDABLE_AGE

ASSUME EmissionAssumption ==
  /\ Word \in Nat \ {0} /\ SpeedDivisor \in Nat \ {0}
  /\ SpendableAge \in Nat \ {0}
  /\ BaseSupply \in 0 .. Word - 1 /\ TailReward \in 0 .. Word - 1
  /\ GenesisReward \in 0 .. Word - 1

get_block_reward_unguarded(generated, height) ==
  IF height = 0
  THEN GenesisReward
  ELSE Max({TailReward, ((BaseSupply - generated) % Word) \div SpeedDivisor})

get_block_reward(generated, height) ==
  CASE height = 0 -> GenesisReward
    [] height > 0 /\ generated >= BaseSupply -> TailReward
    [] height > 0 /\ generated < BaseSupply ->
         Max({TailReward, (BaseSupply - generated) \div SpeedDivisor})

Matured_once(i, top) == i + SpendableAge = top

Matured_strict(i, top) == i + SpendableAge < top

(* Whether block number i is spendable when the file holds top blocks. *)
Matured(i, top) == i + SpendableAge <= top

(* The locals of rescan_blockchain's loop after block i, for a file of top *)
(* blocks; the loop starts behind the genesis block.                       *)
Scan(top) ==
  LET after[i \in 0 .. top - 1] ==
        IF i = 0
        THEN [generated |-> 0, unlocked |-> 0]
        ELSE LET before == after[i-1]
                 reward == get_block_reward(before.generated, i)
             IN  [generated |-> (before.generated + reward) % Word,
                  unlocked |-> (before.unlocked +
                                (IF Matured(i, top) THEN reward ELSE 0)) % Word]
  IN  after
=============================================================================

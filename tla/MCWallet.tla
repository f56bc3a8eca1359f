------------------------------ MODULE MCWallet ------------------------------
(***************************************************************************)
(* Wallet with 32-valued words.  As in the build, the base supply is just  *)
(* below the word size, the reward decays to the tail before the supply is *)
(* exhausted, and MaxHeight lets the sums reach the tail and wrap.         *)
(***************************************************************************)
EXTENDS Wallet

AllAmounts == 0 .. Word - 1
=============================================================================

---------------------------- MODULE MCBlockchain ----------------------------
(***************************************************************************)
(* TLC instance of Blockchain.  Times are scaled: one second per block is  *)
(* the target and the window is two blocks, so that three blocks already   *)
(* use a full window, the epoch anchor and difficulties above 1.           *)
(***************************************************************************)
EXTENDS Blockchain

Input(image) == [k_image |-> image, ring |-> 16]

MCTransactions ==
  {[hash |-> "a", fee |-> 1, vin |-> <<Input("k1")>>, vout |-> 2, proofs |-> TRUE],
   [hash |-> "b", fee |-> 2, vin |-> <<Input("k2")>>, vout |-> 2, proofs |-> TRUE]}

NoTransactions == {}

OneTransaction == {tx \in MCTransactions : tx.hash = "a"}

MCHashes == {"zero", "genesis", "h1"}

(* h1 meets every difficulty, the genesis hash (which a caller may well     *)
(* offer again) difficulties up to 2, the zero hash only 1.                *)
MCPowValue ==
  [h \in MCHashes |-> CASE h = "h1" -> 0 [] h = "genesis" -> 3 [] OTHER -> 7]

MCGarbage ==
  {[height |-> 7, timestamp |-> t, difficulty |-> 0, hash |-> "zero"] : t \in {0, 9}}
=============================================================================

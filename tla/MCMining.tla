------------------------------ MODULE MCMining ------------------------------
(***************************************************************************)
(* Two miners, one of them with a clock as far ahead as the limit allows.  *)
(* Window, target and hash values as in MCBlockchain;                      *)
(* the genesis block is ahead of the clock.                                *)
(***************************************************************************)
EXTENDS Mining

MCHashes == {"genesis", "h1"}

(* h1 meets every difficulty, the genesis hash difficulty 1 only. *)
MCPowValue == [h \in MCHashes |-> IF h = "h1" THEN 0 ELSE 5]

MCSkew == [m \in Miners |-> IF m = "ahead" THEN FutureLimit ELSE 0]
=============================================================================

------------------------------ MODULE MCMiner ------------------------------
(***************************************************************************)
(* Three workers with ranges of two nonces in a word of seven: each can    *)
(* outrun its range, and the last one wraps into the first one's.          *)
(***************************************************************************)
EXTENDS Miner
=============================================================================

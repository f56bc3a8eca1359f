------------------------------ MODULE MCDaemon ------------------------------
(***************************************************************************)
(* Daemon on a fresh chain, with a few nonces per round.                   *)
(***************************************************************************)
EXTENDS Daemon

(* genesis.hash is 00 01 02 00 ..., never the zero hash. *)
Fresh == {"genesis"}
=============================================================================

----------------------------- MODULE MCRetarget -----------------------------
(***************************************************************************)
(* TLC instance of Retarget: a window of 4 blocks and a target of 6        *)
(* seconds, so that the paces are 3 times too fast, on target, 10/3 times  *)
(* too slow and beyond the clamp of 6 targets.                             *)
(***************************************************************************)
EXTENDS Retarget

(* A pause of -3: the records of a damaged file may go back in time. *)
MCPauses == {-3, 0, 100}

MCBases == {1, 2, 3, 9, 10, 11, 12, 20, 47, 200}
=============================================================================

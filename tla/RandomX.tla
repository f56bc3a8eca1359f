------------------------------ MODULE RandomX ------------------------------
(***************************************************************************)
(* The proof-of-work engine (src/crypto/randomx-monero.cpp), one object    *)
(* shared by every thread of a process.  init_dataset, the computation of  *)
(* a hash and shutdown hold g_randomx_mutex from entry to return, so each  *)
(* is one step.  calculate_hash looks at m_initialized BEFORE it takes the *)
(* mutex, so that look is a step of its own, and another thread may act    *)
(* between it and the hash.                                                *)
(*                                                                         *)
(* The engine of this build keeps no dataset; `dataset' stands for the key *)
(* that the hashes would depend on.  preallocate_next_epoch starts a       *)
(* detached thread that prints a line, and changes nothing.                *)
(***************************************************************************)
CONSTANTS
  GenesisSeed,   \* "randomlite_genesis_seed", the key main passes
  DefaultSeed,   \* "randomlite_seed_v1", the key calculate_hash falls back to
  NoSeed         \* no dataset

ASSUME SeedsAssumption ==
  GenesisSeed # DefaultSeed /\ GenesisSeed # NoSeed /\ DefaultSeed # NoSeed

VARIABLES m_initialized, dataset

engine == <<m_initialized, dataset>>

EngineInit == m_initialized = FALSE /\ dataset = NoSeed

init_dataset(key) == m_initialized' = TRUE /\ dataset' = key

(* The first statement of calculate_hash: an engine found uninitialised is *)
(* initialised, with a key of its own.                                     *)
ensure_initialized ==
  IF m_initialized THEN UNCHANGED engine ELSE init_dataset(DefaultSeed)

shutdown == m_initialized' = FALSE /\ dataset' = NoSeed
=============================================================================

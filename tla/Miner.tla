------------------------------- MODULE Miner -------------------------------
(***************************************************************************)
(* The standalone miner (src/miner/miner_main.cpp): a main thread that     *)
(* starts one worker per processor, reports a few times, clears the shared *)
(* flag, joins the workers and shuts the engine down; and the workers,     *)
(* which hash one nonce after the other until they see the flag cleared.   *)
(*                                                                         *)
(* A solution is printed and not used, so the outcome of the difficulty    *)
(* test is left out.                                                       *)
(***************************************************************************)
EXTENDS RandomX, Integers, FiniteSets

CONSTANTS
  Threads,    \* hw_threads; the workers are 0 .. Threads - 1
  Stride,     \* distance of the workers' first nonces (1000000)
  Word,       \* number of values of uint32_t
  Cycles,     \* reports of the main thread (5)
  MaxHashes   \* bound: hashes of one worker

ASSUME MinerAssumption ==
  /\ Threads \in Nat \ {0} /\ Stride \in Nat \ {0} /\ Word \in Nat \ {0}
  /\ Cycles \in Nat /\ MaxHashes \in Nat
  /\ Threads * Stride <= Word

Workers == 0 .. Threads - 1

VARIABLES
  g_mining_active, g_total_hashes,
  main,      \* the statement the main thread has reached
  i,         \* the counter of its present loop
  worker,    \* worker[w]: the statement worker w has reached
  nonce,     \* nonce[w]: its next nonce
  tried,     \* history: the nonces w has hashed
  done,      \* history: how many hashes w has computed,
  late       \* and how many of them after the flag was cleared

ghosts == <<tried, done, late>>
thread == <<worker, nonce, ghosts>>
vars == <<engine, g_mining_active, g_total_hashes, main, i, thread>>

Init ==
  /\ EngineInit
  /\ g_mining_active = TRUE /\ g_total_hashes = 0
  /\ main = "init" /\ i = 0
  /\ worker = [w \in Workers |-> "none"]
  /\ nonce = [w \in Workers |-> 0]
  /\ tried = [w \in Workers |-> {}]
  /\ done = [w \in Workers |-> 0] /\ late = [w \in Workers |-> 0]
-----------------------------------------------------------------------------
Goto(from, to) == main = from /\ main' = to

(* A loop of the main thread is left with its counter back at 0. *)
Turn(from, last, to) ==
  /\ Goto(from, IF i < last THEN from ELSE to)
  /\ i' = IF i < last THEN i + 1 ELSE 0

InitEngine ==
  /\ Goto("init", "spawn")
  /\ init_dataset(GenesisSeed)
  /\ UNCHANGED <<g_mining_active, g_total_hashes, i, thread>>

first_nonce_shared(w) == 0

first_nonce(w) == (w * Stride) % Word

Spawn ==
  /\ Turn("spawn", Threads - 1, "report")
  /\ worker' = [worker EXCEPT ![i] = "loop"]
  /\ nonce' = [nonce EXCEPT ![i] = first_nonce(i)]
  /\ UNCHANGED <<engine, g_mining_active, g_total_hashes, ghosts>>

Report ==
  /\ Turn("report", Cycles, "stop")
  /\ UNCHANGED <<engine, g_mining_active, g_total_hashes, thread>>

clear_active_none == UNCHANGED g_mining_active

clear_active == g_mining_active' = FALSE

Stop ==
  /\ Goto("stop", "join")
  /\ clear_active
  /\ UNCHANGED <<engine, g_total_hashes, i, thread>>

joined_always(w) == TRUE

joined(w) == worker[w] = "ended"

Join ==
  /\ Turn("join", Threads - 1, "shutdown")
  /\ joined(i)
  /\ UNCHANGED <<engine, g_mining_active, g_total_hashes, thread>>

ShutDown ==
  /\ Goto("shutdown", "done")
  /\ shutdown
  /\ UNCHANGED <<g_mining_active, g_total_hashes, i, thread>>

MainThread == InitEngine \/ Spawn \/ Report \/ Stop \/ Join \/ ShutDown
-----------------------------------------------------------------------------
WorkerGoto(w, from, to) ==
  /\ worker[w] = from
  /\ worker' = [worker EXCEPT ![w] = to]

loop_exit_rarely(w) == ~g_mining_active /\ nonce[w] % 2 = 0

(* The worker leaves its loop. *)
loop_exit(w) == ~g_mining_active

Loop(w) ==
  /\ loop_exit(w) \/ done[w] < MaxHashes
  /\ WorkerGoto(w, "loop", IF loop_exit(w) THEN "ended" ELSE "look")
  /\ UNCHANGED <<engine, g_mining_active, g_total_hashes, main, i, nonce,
                 ghosts>>

(* calculate_hash looks at the engine without the mutex, *)
Look(w) ==
  /\ WorkerGoto(w, "look", "hash")
  /\ ensure_initialized
  /\ UNCHANGED <<g_mining_active, g_total_hashes, main, i, nonce, ghosts>>

(* and computes the hash, under the mutex. *)
Hash(w) ==
  /\ WorkerGoto(w, "hash", "count")
  /\ tried' = [tried EXCEPT ![w] = @ \union {nonce[w]}]
  /\ done' = [done EXCEPT ![w] = @ + 1]
  /\ late' = [late EXCEPT ![w] = IF g_mining_active THEN @ ELSE @ + 1]
  /\ UNCHANGED <<engine, g_mining_active, g_total_hashes, main, i, nonce>>

next_nonce_unwrapped(n) == n + 1

next_nonce(n) == (n + 1) % Word

count_hash_while_active ==
  g_total_hashes' = IF g_mining_active THEN g_total_hashes + 1 ELSE g_total_hashes

count_hash == g_total_hashes' = g_total_hashes + 1

(* The rest of the loop body: the atomic counter, the next nonce. *)
Count(w) ==
  /\ WorkerGoto(w, "count", "loop")
  /\ count_hash
  /\ nonce' = [nonce EXCEPT ![w] = next_nonce(@)]
  /\ UNCHANGED <<engine, g_mining_active, main, i, ghosts>>

miner_thread_worker(w) ==
  Loop(w) \/ Look(w) \/ Hash(w) \/ Count(w)

Next == MainThread \/ \E w \in Workers : miner_thread_worker(w)

(* The operating system runs every thread that can run, and sleeps end. *)
Fairness ==
  WF_vars(MainThread) /\ \A w \in Workers : WF_vars(miner_thread_worker(w))

Spec == Init /\ [][Next]_vars /\ Fairness
-----------------------------------------------------------------------------
(* Every variable has its type; nonces stay 32-bit numbers. *)
MinerTypeOK ==
  /\ m_initialized \in BOOLEAN /\ dataset \in {GenesisSeed, DefaultSeed, NoSeed}
  /\ g_mining_active \in BOOLEAN /\ g_total_hashes \in Nat
  /\ main \in {"init", "spawn", "report", "stop", "join", "shutdown", "done"}
  /\ i \in Nat
  /\ worker \in [Workers -> {"none", "loop", "look", "hash", "count",
                             "ended"}]
  /\ nonce \in [Workers -> 0 .. Word - 1] /\ tried \in [Workers -> SUBSET Nat]
  /\ done \in [Workers -> Nat] /\ late \in [Workers -> Nat]

(* calculate_hash tests m_initialized outside the mutex                    *)
(* (randomx-monero.cpp:37), so the engine may be shut down between the     *)
(* test and the hash, or a late call may bring it up again under another   *)
(* key.  Neither happens in the miner: whenever a worker is about to hash, *)
(* the engine is up and holds the dataset that main asked for              *)
(* (miner_main.cpp:63, 84-89).                                             *)
HashesOnGenesisSeed ==
  \A w \in Workers :
    worker[w] = "hash" => m_initialized /\ dataset = GenesisSeed

(* miner_main.cpp:17 gives each worker its own range of nonces but nothing *)
(* keeps it there.  Two workers hash the same nonce only after one of them *)
(* has computed more than Stride hashes, the 32-bit wrap included.         *)
NoRepeatedWork ==
  \A v, w \in Workers :
    v # w /\ tried[v] \cap tried[w] # {} => done[v] > Stride \/ done[w] > Stride

(* Each worker tests the flag before every nonce (miner_main.cpp:24):      *)
(* once main has cleared it a worker computes one more hash at most, so    *)
(* the join waits for one hash per worker and no longer.                   *)
StopsWithinOneHash == \A w \in Workers : late[w] <= 1

(* The hashes computed so far, the k-th of worker w as <<w, k>>. *)
Hashes == UNION {{w} \X (1 .. done[w]) : w \in Workers}

(* Main joins every worker before it releases the engine                   *)
(* (miner_main.cpp:84-91): when it is done the engine stays released, no   *)
(* worker being left that could bring it up again, and the shared counter  *)
(* holds every hash of every worker, once.                                 *)
EndsClean ==
  main = "done" =>
    /\ ~m_initialized /\ dataset = NoSeed
    /\ g_total_hashes = Cardinality(Hashes)

(* The miner ends by itself: the workers see the flag and the joins return *)
(* (miner_main.cpp:24, 84-91).                                             *)
Finishes == <>[](main = "done")
=============================================================================

---------------------------- MODULE MinerProofs ----------------------------
(***************************************************************************)
(* The safety properties of module Miner for every number of workers, word *)
(* size, stride and number of reports.                                     *)
(***************************************************************************)
EXTENDS Miner, FiniteSetTheorems, TLAPS

(* Where the main thread is decides what the others may be doing: nobody   *)
(* runs before the engine is up, and nobody is left when it goes down.     *)
MainInOrder ==
  /\ main \in {"init", "stop"} => i = 0
  /\ main \in {"spawn", "join"} => i < Threads
  /\ main = "init" => \A w \in Workers : worker[w] = "none"
  /\ main = "join" => \A w \in Workers : w < i => worker[w] = "ended"
  /\ main \in {"shutdown", "done"} => \A w \in Workers : worker[w] = "ended"
  /\ main = "spawn" => \A w \in Workers : w >= i => worker[w] = "none"

EngineUp ==
  main \notin {"init", "done"} => m_initialized /\ dataset = GenesisSeed

(* A hash computed after the flag was cleared is the worker's last. *)
LateIsLast ==
  /\ main \in {"init", "spawn", "report", "stop"} =>
       g_mining_active /\ \A w \in Workers : late[w] = 0
  /\ main \notin {"init", "spawn", "report", "stop"} => ~g_mining_active
  /\ \A w \in Workers :
       late[w] # 0 => late[w] = 1 /\ worker[w] \in {"count", "loop", "ended"}

Territory(w) == w * Stride .. w * Stride + Stride - 1

(* A worker that has not used up its range is at the nonce that its number *)
(* of hashes says, and has been nowhere else.                              *)
InOwnRange(w) ==
  /\ worker[w] = "none" => done[w] = 0
  /\ done[w] <= Stride => tried[w] \subseteq Territory(w)
  /\ worker[w] \in {"loop", "look", "hash"} /\ done[w] < Stride =>
       nonce[w] = w * Stride + done[w]
  /\ worker[w] = "count" /\ done[w] <= Stride =>
       done[w] > 0 /\ nonce[w] = w * Stride + done[w] - 1

(* Ranges are within the word, and those of two workers are disjoint. *)
LEMMA RangesFit ==
  ASSUME NEW w \in Workers
  PROVE  w * Stride \in Nat /\ w * Stride + Stride <= Word
<1>1. w \in Nat /\ w + 1 <= Threads /\ Threads \in Nat /\ Stride \in Nat
  BY MinerAssumption DEF Workers
<1>2. (w + 1) * Stride <= Threads * Stride
  BY <1>1
<1>3. (w + 1) * Stride = w * Stride + Stride /\ w * Stride \in Nat
  BY <1>1
<1> QED
  BY <1>2, <1>3, MinerAssumption

LEMMA RangesDisjoint ==
  ASSUME NEW v \in Workers, NEW w \in Workers, v < w
  PROVE  v * Stride + Stride <= w * Stride
<1>1. v \in Nat /\ w \in Nat /\ v + 1 <= w /\ Stride \in Nat
  BY MinerAssumption DEF Workers
<1>2. (v + 1) * Stride <= w * Stride
  BY <1>1
<1>3. (v + 1) * Stride = v * Stride + Stride
  BY <1>1
<1> QED
  BY <1>2, <1>3
-----------------------------------------------------------------------------
LEMMA TypeInit == Init => MinerTypeOK
<1> SUFFICES ASSUME Init PROVE MinerTypeOK
  OBVIOUS
<1>1. m_initialized \in BOOLEAN /\ g_mining_active \in BOOLEAN
  BY DEF Init, EngineInit
<1>2. /\ dataset \in {GenesisSeed, DefaultSeed, NoSeed}
      /\ g_total_hashes \in Nat /\ i \in Nat /\ main = "init"
  BY DEF Init, EngineInit
<1>3. worker \in [Workers -> {"none", "loop", "look", "hash", "count", "ended"}]
  BY DEF Init
<1>4. nonce \in [Workers -> 0 .. Word - 1]
  BY MinerAssumption DEF Init
<1>5. tried \in [Workers -> SUBSET Nat]
  BY DEF Init
<1>6. done \in [Workers -> Nat] /\ late \in [Workers -> Nat]
  BY DEF Init
<1> QED
  BY <1>1, <1>2, <1>3, <1>4, <1>5, <1>6 DEF MinerTypeOK

(* The next nonce is a 32-bit number again. *)
LEMMA NonceTyped ==
  ASSUME NEW n \in Nat
  PROVE  next_nonce(n) \in 0 .. Word - 1 /\ n % Word \in 0 .. Word - 1
  BY MinerAssumption DEF next_nonce

LEMMA TypeMain == MinerTypeOK /\ MainInOrder /\ MainThread => MinerTypeOK'
<1> SUFFICES ASSUME MinerTypeOK, MainInOrder, MainThread PROVE MinerTypeOK'
  OBVIOUS
<1>1. CASE InitEngine
  BY <1>1 DEF MinerTypeOK, InitEngine, Goto, init_dataset, thread, ghosts
<1>2. CASE Spawn
  <2>1. i \in Workers
    BY <1>2, MinerAssumption DEF MainInOrder, MinerTypeOK, Spawn, Turn, Goto, Workers
  <2>2. i * Stride \in Nat
    BY <2>1, RangesFit
  <2>3. first_nonce(i) \in 0 .. Word - 1
    BY <2>2, NonceTyped DEF first_nonce
  <2> QED
    BY <1>2, <2>1, <2>3 DEF MinerTypeOK, Spawn, Turn, Goto, engine, ghosts
<1>3. CASE Report
  BY <1>3 DEF MinerTypeOK, Report, Turn, Goto, engine, thread, ghosts
<1>4. CASE Stop
  BY <1>4 DEF MinerTypeOK, Stop, Goto, clear_active, engine, thread, ghosts
<1>5. CASE Join
  BY <1>5 DEF MinerTypeOK, Join, Turn, Goto, engine, thread, ghosts
<1>6. CASE ShutDown
  BY <1>6 DEF MinerTypeOK, ShutDown, Goto, shutdown, thread, ghosts
<1> QED
  BY <1>1, <1>2, <1>3, <1>4, <1>5, <1>6 DEF MainThread

LEMMA TypeWorker ==
  ASSUME NEW w \in Workers
  PROVE  MinerTypeOK /\ miner_thread_worker(w) => MinerTypeOK'
<1> SUFFICES ASSUME MinerTypeOK, miner_thread_worker(w) PROVE MinerTypeOK'
  OBVIOUS
<1>1. CASE Loop(w)
  BY <1>1 DEF MinerTypeOK, Loop, WorkerGoto, engine, ghosts
<1>2. CASE Look(w)
  BY <1>2 DEF MinerTypeOK, Look, WorkerGoto, ensure_initialized, init_dataset,
              engine, ghosts
<1>3. CASE Hash(w)
  <2>1. nonce[w] \in Nat
    BY MinerAssumption DEF MinerTypeOK
  <2>2. /\ tried' \in [Workers -> SUBSET Nat]
        /\ done' \in [Workers -> Nat] /\ late' \in [Workers -> Nat]
    BY <1>3, <2>1 DEF MinerTypeOK, Hash
  <2> QED
    BY <1>3, <2>2 DEF MinerTypeOK, Hash, WorkerGoto, engine
<1>4. CASE Count(w)
  <2>1. nonce[w] \in Nat
    BY MinerAssumption DEF MinerTypeOK
  <2>2. next_nonce(nonce[w]) \in 0 .. Word - 1
    BY <2>1, NonceTyped
  <2> QED
    BY <1>4, <2>2 DEF MinerTypeOK, Count, count_hash, WorkerGoto, engine, ghosts
<1> QED
  BY <1>1, <1>2, <1>3, <1>4 DEF miner_thread_worker

LEMMA TypeStutter == MinerTypeOK /\ UNCHANGED vars => MinerTypeOK'
  BY DEF MinerTypeOK, vars, engine, thread, ghosts
-----------------------------------------------------------------------------
(* The inductive invariant. *)
MinerInv ==
  /\ MinerTypeOK /\ MainInOrder /\ EngineUp /\ LateIsLast
  /\ \A w \in Workers : InOwnRange(w)

LEMMA InvInit == Init => MinerInv
<1> SUFFICES ASSUME Init PROVE MinerInv
  OBVIOUS
<1>1. MinerTypeOK
  BY TypeInit
<1>2. MainInOrder /\ EngineUp
  BY DEF Init, MainInOrder, EngineUp
<1>3. LateIsLast
  BY DEF Init, LateIsLast
<1>4. ASSUME NEW w \in Workers PROVE InOwnRange(w)
  <2>1. worker[w] = "none" /\ done[w] = 0 /\ tried[w] = {}
    BY DEF Init
  <2> QED
    BY <2>1 DEF InOwnRange
<1> QED
  BY <1>1, <1>2, <1>3, <1>4 DEF MinerInv

LEMMA OrderMain == MinerInv /\ MainThread => MainInOrder' /\ EngineUp'
<1> SUFFICES ASSUME MinerInv, MainThread PROVE MainInOrder' /\ EngineUp'
  OBVIOUS
<1> USE DEF MinerInv, MinerTypeOK, MainInOrder, EngineUp, Goto, Turn, engine,
            thread, ghosts
<1>1. CASE InitEngine
  BY <1>1, MinerAssumption DEF InitEngine, init_dataset, Init
<1>2. CASE Spawn
  BY <1>2, MinerAssumption DEF Spawn, Workers
<1>3. CASE Report
  BY <1>3, MinerAssumption DEF Report
<1>4. CASE Stop
  BY <1>4, MinerAssumption DEF Stop, Workers
<1>5. CASE Join
  BY <1>5, MinerAssumption DEF Join, joined, Workers
<1>6. CASE ShutDown
  BY <1>6 DEF ShutDown, shutdown
<1> QED
  BY <1>1, <1>2, <1>3, <1>4, <1>5, <1>6 DEF MainThread

LEMMA OrderWorker ==
  ASSUME NEW w \in Workers
  PROVE  MinerInv /\ miner_thread_worker(w) => MainInOrder' /\ EngineUp'
<1> SUFFICES ASSUME MinerInv, miner_thread_worker(w)
             PROVE  MainInOrder' /\ EngineUp'
  OBVIOUS
<1>1. worker[w] \notin {"none", "ended"}
  BY DEF miner_thread_worker, Loop, Look, Hash, Count, WorkerGoto
<1>2. main \notin {"init", "done"}
  BY <1>1 DEF MinerInv, MainInOrder
<1>3. \A v \in Workers : v # w => worker'[v] = worker[v]
  BY DEF miner_thread_worker, Loop, Look, Hash, Count, WorkerGoto, MinerInv,
         MinerTypeOK
<1>4. UNCHANGED <<main, i>>
  BY DEF miner_thread_worker, Loop, Look, Hash, Count
<1>5. UNCHANGED engine
  BY <1>2 DEF miner_thread_worker, Loop, Look, Hash, Count, MinerInv, EngineUp,
              ensure_initialized
<1>6. MainInOrder'
  BY <1>1, <1>3, <1>4 DEF MinerInv, MainInOrder
<1>7. EngineUp'
  BY <1>4, <1>5 DEF MinerInv, EngineUp, engine
<1> QED
  BY <1>6, <1>7

LEMMA LateMain == MinerInv /\ MainThread => LateIsLast'
<1> SUFFICES ASSUME MinerInv, MainThread PROVE LateIsLast'
  OBVIOUS
<1>1. CASE InitEngine \/ Report \/ Join \/ ShutDown
  BY <1>1 DEF MinerInv, LateIsLast, InitEngine, Report, Join, ShutDown, Goto,
              Turn, thread, ghosts
<1>2. CASE Spawn
  BY <1>2 DEF MinerInv, LateIsLast, Spawn, Goto, Turn, ghosts
<1>3. CASE Stop
  BY <1>3 DEF MinerInv, LateIsLast, Stop, Goto, clear_active, thread, ghosts
<1> QED
  BY <1>1, <1>2, <1>3 DEF MainThread

LEMMA LateWorker ==
  ASSUME NEW w \in Workers
  PROVE  MinerInv /\ miner_thread_worker(w) => LateIsLast'
<1> SUFFICES ASSUME MinerInv, miner_thread_worker(w) PROVE LateIsLast'
  OBVIOUS
<1>1. UNCHANGED <<main, g_mining_active>>
  BY DEF miner_thread_worker, Loop, Look, Hash, Count
<1>2. \A v \in Workers :
        v # w => worker'[v] = worker[v] /\ late'[v] = late[v]
  BY DEF miner_thread_worker, Loop, Look, Hash, Count, WorkerGoto, MinerInv,
         MinerTypeOK, ghosts
<1>3. \/ main \in {"init", "spawn", "report", "stop"} /\ g_mining_active
      \/ main \notin {"init", "spawn", "report", "stop"} /\ ~g_mining_active
  BY DEF MinerInv, LateIsLast
<1>4. late'[w] # 0 =>
        late'[w] = 1 /\ worker'[w] \in {"count", "loop", "ended"}
  <2>1. CASE Loop(w)
    BY <2>1, <1>3 DEF MinerInv, MinerTypeOK, LateIsLast, Loop, WorkerGoto,
                      loop_exit, ghosts
  <2>2. CASE Look(w)
    BY <2>2 DEF MinerInv, MinerTypeOK, LateIsLast, Look, WorkerGoto, ghosts
  <2>3. CASE Hash(w)
    BY <2>3 DEF MinerInv, MinerTypeOK, LateIsLast, Hash, WorkerGoto
  <2>4. CASE Count(w)
    BY <2>4 DEF MinerInv, MinerTypeOK, LateIsLast, Count, WorkerGoto, ghosts
  <2> QED
    BY <2>1, <2>2, <2>3, <2>4 DEF miner_thread_worker
<1>5. g_mining_active => late'[w] = late[w]
  BY DEF miner_thread_worker, Loop, Look, Hash, Count, MinerInv, MinerTypeOK,
         ghosts
<1>6. main \in {"init", "spawn", "report", "stop"} =>
        g_mining_active /\ \A v \in Workers : late'[v] = 0
  BY <1>2, <1>3, <1>5 DEF MinerInv, LateIsLast
<1>7. \A v \in Workers : late'[v] # 0 =>
        late'[v] = 1 /\ worker'[v] \in {"count", "loop", "ended"}
  BY <1>2, <1>4 DEF MinerInv, LateIsLast
<1> QED
  BY <1>1, <1>3, <1>6, <1>7 DEF LateIsLast

LEMMA RangeMain ==
  ASSUME NEW v \in Workers
  PROVE  MinerInv /\ MainThread => InOwnRange(v)'
<1> SUFFICES ASSUME MinerInv, MainThread PROVE InOwnRange(v)'
  OBVIOUS
<1>1. UNCHANGED <<done, tried>>
  BY DEF MainThread, InitEngine, Spawn, Report, Stop, Join, ShutDown, thread,
         ghosts
<1>2. CASE UNCHANGED <<worker, nonce>>
  BY <1>1, <1>2 DEF MinerInv, InOwnRange, Territory
<1>3. CASE Spawn /\ v # i
  <2>1. worker'[v] = worker[v] /\ nonce'[v] = nonce[v]
    BY <1>3 DEF Spawn, MinerInv, MinerTypeOK
  <2> QED
    BY <1>1, <2>1 DEF MinerInv, InOwnRange, Territory
<1>4. CASE Spawn /\ v = i
  <2>1. worker[v] = "none" /\ worker'[v] = "loop"
        /\ nonce'[v] = (v * Stride) % Word
    BY <1>4, MinerAssumption DEF Spawn, Turn, Goto, MinerInv, MainInOrder,
       MinerTypeOK, first_nonce, Workers
  <2>2. v * Stride \in 0 .. Word - 1
    BY RangesFit, MinerAssumption
  <2>3. (v * Stride) % Word = v * Stride
    <3> DEFINE first == v * Stride
    <3>1. first \in 0 .. Word - 1
      BY <2>2
    <3> HIDE DEF first
    <3>2. first % Word = first
      BY <3>1, MinerAssumption
    <3> QED
      BY <3>2 DEF first
  <2>4. done[v] = 0 /\ InOwnRange(v)
    BY <2>1 DEF MinerInv, InOwnRange
  <2> QED
    BY <1>1, <2>1, <2>2, <2>3, <2>4, MinerAssumption DEF InOwnRange, Territory
<1> QED
  BY <1>2, <1>3, <1>4 DEF MainThread, InitEngine, Report, Stop, Join, ShutDown,
     thread

LEMMA RangeWorker ==
  ASSUME NEW v \in Workers, NEW w \in Workers
  PROVE  MinerInv /\ miner_thread_worker(w) => InOwnRange(v)'
<1> SUFFICES ASSUME MinerInv, miner_thread_worker(w) PROVE InOwnRange(v)'
  OBVIOUS
<1>1. CASE v # w
  <2>1. /\ worker'[v] = worker[v] /\ nonce'[v] = nonce[v]
        /\ done'[v] = done[v] /\ tried'[v] = tried[v]
    BY <1>1 DEF miner_thread_worker, Loop, Look, Hash, Count, WorkerGoto,
                MinerInv, MinerTypeOK, ghosts
  <2> QED
    BY <2>1 DEF MinerInv, InOwnRange, Territory
<1>2. CASE v = w /\ (Loop(w) \/ Look(w))
  <2>1. /\ worker[v] \in {"loop", "look"} /\ worker'[v] \in {"look", "hash", "ended"}
        /\ nonce'[v] = nonce[v] /\ done'[v] = done[v] /\ tried'[v] = tried[v]
    BY <1>2 DEF Loop, Look, WorkerGoto, MinerInv, MinerTypeOK, ghosts
  <2> QED
    BY <2>1 DEF MinerInv, InOwnRange, Territory
<1>3. CASE v = w /\ Hash(w)
  <2>1. /\ worker[v] = "hash" /\ worker'[v] = "count" /\ nonce'[v] = nonce[v]
        /\ done'[v] = done[v] + 1 /\ tried'[v] = tried[v] \union {nonce[v]}
    BY <1>3 DEF Hash, WorkerGoto, MinerInv, MinerTypeOK
  <2>2. done[v] \in Nat /\ v * Stride \in Nat /\ Stride \in Nat
    BY RangesFit, MinerAssumption DEF MinerInv, MinerTypeOK
  <2>3. ASSUME done'[v] <= Stride
        PROVE  nonce[v] = v * Stride + done[v] /\ tried'[v] \subseteq Territory(v)
    BY <2>1, <2>2, <2>3 DEF MinerInv, InOwnRange, Territory
  <2> QED
    BY <2>1, <2>2, <2>3 DEF InOwnRange, Territory
<1>4. CASE v = w /\ Count(w)
  <2>1. /\ worker[v] = "count" /\ worker'[v] = "loop"
        /\ nonce'[v] = (nonce[v] + 1) % Word
        /\ done'[v] = done[v] /\ tried'[v] = tried[v]
    BY <1>4 DEF Count, WorkerGoto, MinerInv, MinerTypeOK, ghosts, next_nonce
  <2>2. /\ done[v] \in Nat /\ v * Stride \in Nat /\ Stride \in Nat
        /\ v * Stride + Stride <= Word /\ Word \in Nat \ {0}
    BY RangesFit, MinerAssumption DEF MinerInv, MinerTypeOK
  <2>3. ASSUME done[v] < Stride
        PROVE  nonce'[v] = v * Stride + done[v]
    <3> DEFINE next == v * Stride + done[v]
    <3>1. nonce[v] + 1 = next /\ next \in 0 .. Word - 1
      BY <2>1, <2>2, <2>3 DEF MinerInv, InOwnRange
    <3> HIDE DEF next
    <3>2. next % Word = next
      BY <3>1, <2>2
    <3> QED
      BY <2>1, <3>1, <3>2 DEF next
  <2> QED
    BY <2>1, <2>3 DEF MinerInv, InOwnRange, Territory
<1> QED
  BY <1>1, <1>2, <1>3, <1>4 DEF miner_thread_worker

LEMMA InvStutter == MinerInv /\ UNCHANGED vars => MinerInv'
<1> SUFFICES ASSUME MinerInv, UNCHANGED vars PROVE MinerInv'
  OBVIOUS
<1>1. MinerTypeOK'
  BY TypeStutter DEF MinerInv
<1>2. MainInOrder' /\ EngineUp' /\ LateIsLast'
  BY DEF MinerInv, MainInOrder, EngineUp, LateIsLast, vars, engine, thread, ghosts
<1>3. ASSUME NEW w \in Workers PROVE InOwnRange(w)'
  BY DEF MinerInv, InOwnRange, Territory, vars, thread, ghosts
<1> QED
  BY <1>1, <1>2, <1>3 DEF MinerInv

LEMMA InvNext == MinerInv /\ [Next]_vars => MinerInv'
<1> SUFFICES ASSUME MinerInv, [Next]_vars PROVE MinerInv'
  OBVIOUS
<1>1. CASE MainThread
  <2>1. MinerTypeOK'
    BY <1>1, TypeMain DEF MinerInv
  <2>2. MainInOrder' /\ EngineUp' /\ LateIsLast'
    BY <1>1, OrderMain, LateMain
  <2>3. ASSUME NEW v \in Workers PROVE InOwnRange(v)'
    BY <1>1, RangeMain
  <2> QED
    BY <2>1, <2>2, <2>3 DEF MinerInv
<1>2. ASSUME NEW w \in Workers, miner_thread_worker(w) PROVE MinerInv'
  <2>1. MinerTypeOK'
    BY <1>2, TypeWorker DEF MinerInv
  <2>2. MainInOrder' /\ EngineUp' /\ LateIsLast'
    BY <1>2, OrderWorker, LateWorker
  <2>3. ASSUME NEW v \in Workers PROVE InOwnRange(v)'
    BY <1>2, RangeWorker
  <2> QED
    BY <2>1, <2>2, <2>3 DEF MinerInv
<1> QED
  BY <1>1, <1>2, InvStutter DEF Next

(* The invariant holds throughout. *)
LEMMA InvAlways == Spec => []MinerInv
  BY InvInit, InvNext, PTL DEF Spec
-----------------------------------------------------------------------------
(* Types, for every number of workers: nonces never leave the 32-bit word. *)
THEOREM MinerTypeCorrect == Spec => []MinerTypeOK
<1>1. MinerInv => MinerTypeOK
  BY DEF MinerInv
<1> QED
  BY <1>1, InvAlways, PTL

(* However the threads interleave, no worker hashes on an engine that is   *)
(* down or that calculate_hash brought up under its own key                *)
(* (randomx-monero.cpp:37).                                                *)
THEOREM AlwaysOnGenesisSeed == Spec => []HashesOnGenesisSeed
<1>1. MinerInv => HashesOnGenesisSeed
  BY DEF MinerInv, MainInOrder, EngineUp, HashesOnGenesisSeed
<1> QED
  BY <1>1, InvAlways, PTL

(* A worker computes at most one hash after main cleared the flag          *)
(* (miner_main.cpp:24, 84).                                                *)
THEOREM AlwaysStopsWithinOneHash == Spec => []StopsWithinOneHash
<1>1. MinerInv => StopsWithinOneHash
  <2> SUFFICES ASSUME MinerInv, NEW w \in Workers PROVE late[w] <= 1
    BY DEF StopsWithinOneHash
  <2>1. late[w] = 0 \/ late[w] = 1
    BY DEF MinerInv, LateIsLast
  <2> QED
    BY <2>1
<1> QED
  BY <1>1, InvAlways, PTL

(* Two workers share a nonce only after one has left its range, for every  *)
(* stride and word that hold the ranges (miner_main.cpp:17).               *)
THEOREM AlwaysOwnWork == Spec => []NoRepeatedWork
<1>1. MinerInv => NoRepeatedWork
  <2> SUFFICES ASSUME MinerInv, NEW v \in Workers, NEW w \in Workers, v # w,
                      NEW n \in tried[v] \cap tried[w],
                      ~(done[v] > Stride \/ done[w] > Stride)
               PROVE  FALSE
    BY DEF NoRepeatedWork
  <2>1. /\ done[v] \in Nat /\ done[w] \in Nat /\ Stride \in Nat
        /\ v * Stride \in Nat /\ w * Stride \in Nat /\ v \in Nat /\ w \in Nat
    BY RangesFit, MinerAssumption DEF MinerInv, MinerTypeOK, Workers
  <2>2. done[v] <= Stride /\ done[w] <= Stride
    BY <2>1
  <2>3. n \in Territory(v) /\ n \in Territory(w)
    BY <2>2 DEF MinerInv, InOwnRange
  <2>4. v < w \/ w < v
    BY <2>1
  <2>5. v * Stride + Stride <= w * Stride \/ w * Stride + Stride <= v * Stride
    BY <2>4, RangesDisjoint
  <2> QED
    BY <2>1, <2>3, <2>5 DEF Territory
<1> QED
  BY <1>1, InvAlways, PTL
-----------------------------------------------------------------------------
(* The hashes that the counter holds: all but the one whose worker stands  *)
(* between the hash and the counter.                                       *)
counted(w) == IF worker[w] = "count" THEN done[w] - 1 ELSE done[w]

Counted == UNION {{w} \X (1 .. counted(w)) : w \in Workers}

CounterInv ==
  /\ IsFiniteSet(Counted) /\ g_total_hashes = Cardinality(Counted)
  /\ \A w \in Workers : worker[w] = "count" => done[w] > 0
  /\ main = "done" => ~m_initialized /\ dataset = NoSeed

LEMMA CountedMember ==
  ASSUME NEW w, NEW k
  PROVE  <<w, k>> \in Counted <=> w \in Workers /\ k \in 1 .. counted(w)
  BY DEF Counted

LEMMA CounterInit == Init => CounterInv
<1> SUFFICES ASSUME Init PROVE CounterInv
  OBVIOUS
<1>1. \A w \in Workers : 1 .. counted(w) = {}
  BY DEF Init, counted
<1>2. Counted = {}
  BY <1>1 DEF Counted
<1> QED
  BY <1>2, FS_EmptySet DEF Init, CounterInv

(* A step that changes no count of a worker leaves the counter right. *)
LEMMA CounterKept ==
  ASSUME CounterInv, g_total_hashes' = g_total_hashes,
         \A w \in Workers : counted(w)' = counted(w)
  PROVE  (IsFiniteSet(Counted) /\ g_total_hashes = Cardinality(Counted))'
<1>1. Counted' = Counted
  BY DEF Counted
<1> QED
  BY <1>1 DEF CounterInv

LEMMA CounterMain == MinerInv /\ CounterInv /\ MainThread => CounterInv'
<1> SUFFICES ASSUME MinerInv, CounterInv, MainThread PROVE CounterInv'
  OBVIOUS
<1>0. g_total_hashes' = g_total_hashes /\ done' = done
  BY DEF MainThread, InitEngine, Spawn, Report, Stop, Join, ShutDown, thread, ghosts
<1>1. ASSUME NEW w \in Workers
      PROVE  counted(w)' = counted(w) /\ (worker'[w] = "count" => done'[w] > 0)
  <2>1. CASE Spawn
    <3>1. i \in Workers /\ worker[i] = "none"
      BY <2>1, MinerAssumption DEF MinerInv, MainInOrder, MinerTypeOK, Spawn, Turn,
         Goto, Workers
    <3>2. (worker'[w] = "count") = (worker[w] = "count")
      BY <2>1, <3>1 DEF Spawn, MinerInv, MinerTypeOK
    <3> QED
      BY <1>0, <3>2 DEF counted, CounterInv
  <2>2. CASE ~Spawn
    <3>1. worker' = worker
      BY <2>2 DEF MainThread, InitEngine, Report, Stop, Join, ShutDown, thread
    <3> QED
      BY <1>0, <3>1 DEF counted, CounterInv
  <2> QED
    BY <2>1, <2>2
<1>2. main' = "done" => ~m_initialized' /\ dataset' = NoSeed
  BY DEF MainThread, InitEngine, Spawn, Report, Stop, Join, ShutDown, shutdown,
     Turn, Goto
<1>3. (IsFiniteSet(Counted) /\ g_total_hashes = Cardinality(Counted))'
  BY <1>0, <1>1, CounterKept
<1> QED
  BY <1>1, <1>2, <1>3 DEF CounterInv

LEMMA CounterWorker ==
  ASSUME NEW w \in Workers
  PROVE  MinerInv /\ CounterInv /\ miner_thread_worker(w) => CounterInv'
<1> SUFFICES ASSUME MinerInv, CounterInv, miner_thread_worker(w) PROVE CounterInv'
  OBVIOUS
<1>0. /\ worker \in [Workers -> {"none", "loop", "look", "hash", "count", "ended"}]
      /\ done \in [Workers -> Nat]
  BY DEF MinerInv, MinerTypeOK
<1>1. main' = main /\ main # "done"
  <2>1. worker[w] # "ended"
    BY DEF miner_thread_worker, Loop, Look, Hash, Count, WorkerGoto
  <2> QED
    BY <2>1 DEF MinerInv, MainInOrder, miner_thread_worker, Loop, Look, Hash, Count
<1>2. CASE Loop(w) \/ Look(w)
  <2>1. /\ g_total_hashes' = g_total_hashes /\ done' = done
        /\ \A v \in Workers : (worker'[v] = "count") = (worker[v] = "count")
    BY <1>0, <1>2 DEF Loop, Look, WorkerGoto, ghosts
  <2>2. \A v \in Workers : counted(v)' = counted(v)
    BY <2>1 DEF counted
  <2>3. (IsFiniteSet(Counted) /\ g_total_hashes = Cardinality(Counted))'
    BY <2>1, <2>2, CounterKept
  <2> QED
    BY <1>1, <2>1, <2>3 DEF CounterInv
<1>3. CASE Hash(w)
  <2>1. /\ g_total_hashes' = g_total_hashes /\ worker[w] = "hash"
        /\ worker'[w] = "count" /\ done'[w] = done[w] + 1
        /\ \A v \in Workers : v # w => worker'[v] = worker[v] /\ done'[v] = done[v]
    BY <1>0, <1>3 DEF Hash, WorkerGoto
  <2>2. done[w] \in Nat
    BY <1>0
  <2>3. ASSUME NEW v \in Workers
        PROVE  counted(v)' = counted(v) /\ (worker'[v] = "count" => done'[v] > 0)
    <3>1. CASE v = w
      BY <2>1, <2>2, <3>1 DEF counted
    <3>2. CASE v # w
      BY <2>1, <3>2 DEF counted, CounterInv
    <3> QED
      BY <3>1, <3>2
  <2>4. (IsFiniteSet(Counted) /\ g_total_hashes = Cardinality(Counted))'
    BY <2>1, <2>3, CounterKept
  <2> QED
    BY <1>1, <2>3, <2>4 DEF CounterInv
<1>4. CASE Count(w)
  <2>1. /\ g_total_hashes' = g_total_hashes + 1 /\ worker[w] = "count"
        /\ worker'[w] = "loop" /\ done' = done
        /\ \A v \in Workers : v # w => worker'[v] = worker[v]
    BY <1>0, <1>4 DEF Count, count_hash, WorkerGoto, ghosts
  <2>2. done[w] \in Nat /\ done[w] > 0
    BY <1>0, <2>1 DEF CounterInv
  <2>3. counted(w) = done[w] - 1 /\ counted(w)' = done[w]
    BY <2>1 DEF counted
  <2>4. \A v \in Workers : v # w => counted(v)' = counted(v)
    BY <2>1 DEF counted
  <2>5. 1 .. done[w] = (1 .. done[w] - 1) \union {done[w]}
    BY <2>2
  <2>6. Counted' = Counted \union {<<w, done[w]>>}
    BY <2>3, <2>4, <2>5 DEF Counted
  <2>7. <<w, done[w]>> \notin Counted
    BY <2>2, <2>3, CountedMember
  <2>8. /\ IsFiniteSet(Counted \union {<<w, done[w]>>})
        /\ Cardinality(Counted \union {<<w, done[w]>>}) = Cardinality(Counted) + 1
    BY <2>7, FS_AddElement DEF CounterInv
  <2>9. \A v \in Workers : worker'[v] = "count" => done'[v] > 0
    BY <2>1 DEF CounterInv
  <2> QED
    BY <1>1, <2>1, <2>6, <2>8, <2>9 DEF CounterInv
<1> QED
  BY <1>2, <1>3, <1>4 DEF miner_thread_worker

LEMMA CounterNext == MinerInv /\ CounterInv /\ [Next]_vars => CounterInv'
<1> SUFFICES ASSUME MinerInv, CounterInv, [Next]_vars PROVE CounterInv'
  OBVIOUS
<1>1. CASE UNCHANGED vars
  <2>1. Counted' = Counted
    BY <1>1 DEF Counted, counted, vars, thread, ghosts
  <2> QED
    BY <1>1, <2>1 DEF CounterInv, vars, engine, thread, ghosts
<1> QED
  BY <1>1, CounterMain, CounterWorker DEF Next

(* When main returns, whatever the interleaving and the number of workers, *)
(* the engine is released for good and no hash is missing from the counter *)
(* or in it twice (miner_main.cpp:84-91).                                  *)
THEOREM AlwaysEndsClean == Spec => []EndsClean
<1>1. MinerInv /\ CounterInv => EndsClean
  <2> SUFFICES ASSUME MinerInv, CounterInv, main = "done" PROVE EndsClean
    BY DEF EndsClean
  <2>1. \A w \in Workers : worker[w] = "ended"
    BY DEF MinerInv, MainInOrder
  <2>2. \A w \in Workers : counted(w) = done[w]
    BY <2>1 DEF counted
  <2>3. Counted = Hashes
    BY <2>2 DEF Counted, Hashes
  <2> QED
    BY <2>3 DEF CounterInv, EndsClean
<1> QED
  BY <1>1, InvAlways, CounterInit, CounterNext, PTL DEF Spec
=============================================================================

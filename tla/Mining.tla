------------------------------- MODULE Mining -------------------------------
(***************************************************************************)
(* Several miners on one Blockchain object                                 *)
(* (src/cryptonote_core/blockchain.cpp).  A miner asks for height and      *)
(* difficulty with get_block_template (src/rpc/rpc_server.cpp; main.cpp    *)
(* calls the same two getters), searches, and calls add_new_block.  Its    *)
(* round is that of src/daemon/main.cpp and of TEST 2 of the repository's  *)
(* tests, except that it fills in the parent, which both leave zero.       *)
(*                                                                         *)
(* add_new_block holds m_chain_lock; the getters do not.  A reader meets   *)
(* the three vectors between the pushes, copies two of them one after the  *)
(* other (in an order C++ leaves open), and what it reads of a vector that *)
(* is being pushed to at that moment is undefined.  The file and the pool, *)
(* which no reader sees, are in module Blockchain.                         *)
(***************************************************************************)
EXTENDS Difficulty

CONSTANTS
  Miners,            \* the threads
  Hashes,            \* block hashes; nothing keeps two blocks from sharing one
  ZeroHash, GenesisHash, GenesisTime,
  PowValue,          \* PowValue[h]: what calculate_hash makes of hash h
  FutureLimit,       \* CRYPTONOTE_BLOCK_FUTURE_TIME_LIMIT
  Skew,              \* Skew[m]: how far the clock of miner m is ahead
  EpochBlocks,       \* SEED_HASH_EPOCH_BLOCKS (1440)
  LagBlocks,         \* SEED_HASH_LAG_BLOCKS (64)
  MaxBlocks,         \* bound: length of a chain that is still mined on
  MaxClock           \* bound: the wall clock

ASSUME MiningHashesAssumption ==
  /\ GenesisHash \in Hashes
  /\ PowValue \in [Hashes -> 0 .. MaxHash]
ASSUME MiningTimesAssumption ==
  /\ GenesisTime \in Nat /\ FutureLimit \in Nat /\ Skew \in [Miners -> Nat]
ASSUME EpochAssumption ==
  /\ EpochBlocks \in Nat /\ LagBlocks \in Nat
  /\ 2 <= LagBlocks /\ LagBlocks < EpochBlocks
ASSUME MiningBoundsAssumption == MaxBlocks \in Nat /\ MaxClock \in Nat

VARIABLES
  clock,      \* std::time
  m_blocks, m_timestamps, m_cumulative_difficulties,
  prepared,   \* history: the epochs preallocate_next_epoch was called for
  pc,         \* pc[m]: the statement miner m has reached
  local,      \* local[m]: what it has read
  job         \* job[m]: the block miner m works on

memory == <<m_blocks, m_timestamps, m_cumulative_difficulties>>
vars == <<clock, memory, prepared, pc, local, job>>

Block == [hash : Hashes, prev_id : Hashes \union {ZeroHash}, timestamp : Nat]

(* began: the blocks completely added when the thread began to read;       *)
(* height: get_current_height's answer; copied: the vectors copied so far; *)
(* wild: one of the reads was undefined.                                   *)
Nothing == [began |-> 0, height |-> 0, copied |-> {}, wild |-> FALSE,
            ts |-> <<>>, cds |-> <<>>]

NoJob == [b |-> [hash |-> GenesisHash, prev_id |-> ZeroHash, timestamp |-> 0],
          diff |-> 0, pushed |-> 0]

Both == {"timestamp", "difficulty"}

Top == m_blocks[Len(m_blocks)]

Init ==
  /\ clock = 0
  /\ m_blocks = <<[hash |-> GenesisHash, prev_id |-> ZeroHash,
                   timestamp |-> GenesisTime]>>
  /\ m_timestamps = <<GenesisTime>> /\ m_cumulative_difficulties = <<1>>
  /\ prepared = {}
  /\ pc = [m \in Miners |-> "idle"]
  /\ local = [m \in Miners |-> Nothing]
  /\ job = [m \in Miners |-> NoJob]

Goto(m, from, to) == pc[m] = from /\ pc' = [pc EXCEPT ![m] = to]

Tick ==
  /\ clock < MaxClock
  /\ clock' = clock + 1
  /\ UNCHANGED <<memory, prepared, pc, local, job>>
-----------------------------------------------------------------------------
PushOrderTimestampFirst == <<"timestamp", "block", "difficulty">>

(* The order in which add_new_block pushes to the vectors. *)
PushOrder == <<"block", "timestamp", "difficulty">>

(* Some thread is inside push_back of this vector, or about to enter it. *)
Pushing(vector) ==
  \E m \in Miners : pc[m] = "push" /\ PushOrder[job[m].pushed + 1] = vector

(* Whether an unlocked read of this vector may be, and is, undefined. *)
UndefinedReads(vector) == IF Pushing(vector) THEN BOOLEAN ELSE {FALSE}

get_current_height_late == Len(m_cumulative_difficulties) + 1

get_current_height == Len(m_blocks)

(* A round begins.  get_block_template, like get_info, reads the height    *)
(* first; the other methods read nothing of the chain.                     *)
handle_request(m) ==
  /\ Goto(m, "idle", "copy")
  /\ \E wild \in UndefinedReads("block") :
       local' = [local EXCEPT ![m].began = Len(m_cumulative_difficulties),
                              ![m].height = IF wild THEN 0
                                            ELSE get_current_height,
                              ![m].wild = wild]
  /\ UNCHANGED <<clock, memory, prepared, job>>

(* get_current_difficulty passes both vectors by value, without the lock.  *)
CopyTimestamps(m) ==
  /\ pc[m] = "copy" /\ "timestamp" \notin local[m].copied
  /\ \E wild \in UndefinedReads("timestamp") :
       local' = [local EXCEPT ![m].copied = @ \union {"timestamp"},
                              ![m].wild = @ \/ wild,
                              ![m].ts = IF wild THEN <<>> ELSE m_timestamps]
  /\ UNCHANGED <<clock, memory, prepared, pc, job>>

CopyDifficulties(m) ==
  /\ pc[m] = "copy" /\ "difficulty" \notin local[m].copied
  /\ \E wild \in UndefinedReads("difficulty") :
       local' = [local EXCEPT ![m].copied = @ \union {"difficulty"},
                              ![m].wild = @ \/ wild,
                              ![m].cds = IF wild THEN <<>>
                                         ELSE m_cumulative_difficulties]
  /\ UNCHANGED <<clock, memory, prepared, pc, job>>

(* next_difficulty_lwma3 indexes the second vector by the length of the    *)
(* first, up to its last element but one.                                  *)
InRange(l) ==
  Len(l.ts) < 2 \/ Len(l.cds) < 2 \/ Len(l.ts) <= Len(l.cds) + 1

pow_ok(hash, difficulty) == check_pow_hash(PowValue[hash], difficulty)

(* A hash may look like a solution to a thread that has read l. *)
LooksSolved(hash, l) ==
  ~l.wild /\ InRange(l) =>
    \E d \in next_difficulty_lwma3(l.ts, l.cds) : pow_ok(hash, d)
-----------------------------------------------------------------------------
(* A round that ends with a solution: the miner set up its block, on the   *)
(* tip that get_top_block returned, and found a hash for it.               *)
Solve(m) ==
  /\ Goto(m, "copy", "submit")
  /\ local[m].copied = Both
  /\ Len(m_blocks) < MaxBlocks
  /\ \E hash \in Hashes, wild \in UndefinedReads("block") :
     \E parent \in IF wild THEN Hashes ELSE {Top.hash} :
       /\ LooksSolved(hash, local[m])
       /\ job' = [job EXCEPT ![m].b = [hash |-> hash, prev_id |-> parent,
                                      timestamp |-> clock + Skew[m]]]
  /\ local' = [local EXCEPT ![m] = [Nothing EXCEPT !.began = local[m].began]]
  /\ UNCHANGED <<clock, memory, prepared>>

forget_nothing(m) == local[m]

forget(m) == Nothing

(* A round that uses up its nonces: the next one reads everything anew. *)
GiveUp(m) ==
  /\ Goto(m, "copy", "idle")
  /\ local[m].copied = Both
  /\ local' = [local EXCEPT ![m] = forget(m)]
  /\ UNCHANGED <<clock, memory, prepared, job>>

lock_free_always == TRUE

lock_free == \A m \in Miners : pc[m] \notin {"push", "finish"}

ValidHeader(b) ==
  /\ b.prev_id = Top.hash
  /\ b.timestamp > Top.timestamp
  /\ b.timestamp <= clock + FutureLimit

get_current_difficulty ==
  next_difficulty_lwma3(m_timestamps, m_cumulative_difficulties)

(* add_new_block takes the lock and lets the block pass. *)
AddNewBlock(m) ==
  /\ Goto(m, "submit", "push")
  /\ lock_free
  /\ ValidHeader(job[m].b)
  /\ \E d \in get_current_difficulty :
       /\ pow_ok(job[m].b.hash, d)
       /\ job' = [job EXCEPT ![m].diff = d]
  /\ UNCHANGED <<clock, memory, prepared, local>>

(* add_new_block returns false. *)
Refuse(m) ==
  /\ Goto(m, "submit", "idle")
  /\ lock_free
  /\ \E d \in get_current_difficulty :
       ~(ValidHeader(job[m].b) /\ pow_ok(job[m].b.hash, d))
  /\ job' = [job EXCEPT ![m] = NoJob]
  /\ local' = [local EXCEPT ![m] = Nothing]
  /\ UNCHANGED <<clock, memory, prepared>>

last_push_late(m) == job[m].pushed = 3

last_push(m) == job[m].pushed = 2

(* One push_back. *)
Push(m) ==
  /\ Goto(m, "push", IF last_push(m) THEN "finish" ELSE "push")
  /\ job' = [job EXCEPT ![m].pushed = @ + 1]
  /\ LET vector == PushOrder[job[m].pushed + 1]
     IN  /\ m_blocks' = IF vector = "block"
                        THEN Append(m_blocks, job[m].b) ELSE m_blocks
         /\ m_timestamps' = IF vector = "timestamp"
                            THEN Append(m_timestamps, job[m].b.timestamp)
                            ELSE m_timestamps
         /\ m_cumulative_difficulties' =
              IF vector = "difficulty"
              THEN Append(m_cumulative_difficulties,
                          m_cumulative_difficulties[Len(m_cumulative_difficulties)]
                            + job[m].diff)
              ELSE m_cumulative_difficulties
  /\ UNCHANGED <<clock, prepared, local>>

next_seed_same == Len(m_blocks) \div EpochBlocks

(* get_current_seed_epoch() + 1, the new block counted. *)
next_seed == Len(m_blocks) \div EpochBlocks + 1

unlock_never(m) == Goto(m, "finish", "finish")

unlock(m) == Goto(m, "finish", "idle")

(* The rest of add_new_block: when the height says so, the dataset of the  *)
(* next epoch is asked for; then the lock is released.                     *)
Finish(m) ==
  /\ unlock(m)
  /\ prepared' = IF (Len(m_blocks) - 1 + LagBlocks) % EpochBlocks = 0
                 THEN prepared \union {next_seed} ELSE prepared
  /\ job' = [job EXCEPT ![m] = NoJob]
  /\ local' = [local EXCEPT ![m] = Nothing]
  /\ UNCHANGED <<clock, memory>>

Miner(m) ==
  \/ handle_request(m) \/ CopyTimestamps(m) \/ CopyDifficulties(m)
  \/ Solve(m) \/ GiveUp(m)
  \/ AddNewBlock(m) \/ Refuse(m) \/ Push(m) \/ Finish(m)

Next ==
  \/ Tick
  \/ \E m \in Miners : Miner(m)

(* Threads that can run do, the clock moves on, and a miner that searches  *)
(* again and again finds a solution again and again.                       *)
Fairness ==
  /\ WF_vars(Tick)
  /\ \A m \in Miners : WF_vars(Miner(m)) /\ SF_vars(Solve(m))

Spec == Init /\ [][Next]_vars /\ Fairness
-----------------------------------------------------------------------------
(* Every variable has its type, and who pushes has something to push. *)
MiningTypeOK ==
  /\ clock \in Nat /\ m_blocks \in Seq(Block)
  /\ m_timestamps \in Seq(Nat) /\ m_cumulative_difficulties \in Seq(Nat)
  /\ prepared \subseteq Nat
  /\ pc \in [Miners -> {"idle", "copy", "submit", "push", "finish"}]
  /\ local \in [Miners -> [began : Nat, height : Nat, copied : SUBSET Both,
                            wild : BOOLEAN, ts : Seq(Nat), cds : Seq(Nat)]]
  /\ job \in [Miners -> [b : Block, diff : Nat, pushed : 0..3]]
  /\ \A m \in Miners : pc[m] = "push" => job[m].pushed < 3

(* What is in all three vectors, as a chain of Ledger. *)
Added ==
  [k \in 1 .. Len(m_cumulative_difficulties) |->
     [hash |-> m_blocks[k].hash, prev_id |-> m_blocks[k].prev_id,
      timestamp |-> m_timestamps[k],
      cumulative |-> m_cumulative_difficulties[k]]]

L == INSTANCE Ledger WITH chain <- Added,
                          Timestamps <- 0 .. MaxClock + FutureLimit,
                          NextDifficulties <- next_difficulty_lwma3,
                          MeetsDifficulty <- pow_ok

(* However the miners interleave, and although the checks of add_new_block *)
(* and its three pushes are separate steps (blockchain.cpp:104-144): the   *)
(* blocks take effect one at a time, each at its last push, as the ledger  *)
(* wants them: linked, later, and meeting a difficulty that follows from   *)
(* ALL the blocks before it.  Two blocks with one hash change nothing of   *)
(* that.                                                                   *)
AddsAreAtomic == L!GrowthSpec

(* A miner reads the difficulty once, without the lock, and searches with  *)
(* it (main.cpp:52).  Its work is lost to another block only: if no block  *)
(* was added since its round began, add_new_block finds the parent and the *)
(* proof of work right, whatever other threads were doing.                 *)
WorkLostOnlyToOthers ==
  \A m \in Miners :
    pc[m] = "submit" /\ lock_free /\ Len(m_blocks) = local[m].began =>
      /\ job[m].b.prev_id = Top.hash
      /\ \E d \in get_current_difficulty : pow_ok(job[m].b.hash, d)

(* The two copies of get_current_difficulty (blockchain.cpp:57-59) are of  *)
(* different moments, and the second is indexed by the length of the       *)
(* first.  The index is out of range only if two blocks were added or      *)
(* begun during the call; one, at any moment, is harmless.                 *)
OutOfRangeTakesTwoBlocks ==
  \A m \in Miners :
    local[m].copied = Both /\ ~local[m].wild /\ ~InRange(local[m]) =>
      Len(m_blocks) >= local[m].began + 2

(* handle_request reads the height first and the difficulty after it       *)
(* (rpc_server.cpp:32-33, 43-44): the difficulty is never computed from a  *)
(* chain more than the block in progress shorter than the height says; and *)
(* a request that no new block overlapped reports height and difficulty of *)
(* one and the same chain.                                                 *)
InfoIsCurrent ==
  \A m \in Miners :
    local[m].copied = Both /\ ~local[m].wild =>
      /\ local[m].height <= Len(local[m].ts) + 1
      /\ local[m].height <= Len(local[m].cds) + 1
      /\ lock_free /\ Len(m_blocks) = local[m].began =>
           /\ local[m].height = Len(m_blocks)
           /\ local[m].ts = m_timestamps
           /\ local[m].cds = m_cumulative_difficulties

(* blockchain.cpp:151-153: when the chain enters an epoch, the dataset of  *)
(* that epoch was asked for before, by the one block whose height, at the  *)
(* lag, calls for it.                                                      *)
SeedsPrepared ==
  \A e \in 1 .. Len(m_blocks) :
    e * EpochBlocks <= Len(m_blocks) => e \in prepared

(* A block may be two hours ahead of the clock (blockchain.cpp:125), as    *)
(* the genesis block may be, and an honest block must be later still: the  *)
(* miners then wait for the clock, but never for ever, nor for each other. *)
(* (A tip at the clock's bound is where the instance ends.)                *)
ChainGrows ==
  \A k \in 1 .. MaxBlocks - 1 :
    (Len(m_blocks) = k /\ Top.timestamp < MaxClock) ~> Len(m_blocks) > k
=============================================================================

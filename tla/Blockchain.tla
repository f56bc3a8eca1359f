----------------------------- MODULE Blockchain -----------------------------
(***************************************************************************)
(* The chain manager (src/cryptonote_core/blockchain.cpp) together with    *)
(* the file it persists to (src/blockchain_db/lmdb_storage.cpp) and the    *)
(* memory pool it owns (module TxPool), over any number of process         *)
(* lifetimes.                                                              *)
(*                                                                         *)
(* add_new_block runs under m_chain_lock; `adding' is the block whose call *)
(* holds the lock and the statement it has reached, so that a crash or a   *)
(* mempool call (which takes another lock) can fall between its steps.     *)
(*                                                                         *)
(* blocks.dat is only ever appended to, and load_chain cuts it into        *)
(* RecordSize-byte chunks from the front.  `file' is that sequence of      *)
(* chunks and `tail' the number of bytes after the last whole one.  A      *)
(* record written behind a non-empty tail is out of step with the chunks:  *)
(* the chunk it completes mixes the bytes of two records, and reads as     *)
(* some record of Garbage.                                                 *)
(***************************************************************************)
EXTENDS TxPool, Difficulty

CONSTANTS
  Hashes,          \* block hashes
  Timestamps,      \* block timestamps a caller may put in a block
  ZeroHash, GenesisHash, GenesisTime,
  PowValue,        \* PowValue[h]: what calculate_hash makes of block hash h
  FutureLimit,     \* CRYPTONOTE_BLOCK_FUTURE_TIME_LIMIT
  RecordSize,      \* bytes save_block writes per block (60)
  Garbage,         \* what a chunk made of two records may read as
  SavedKeyImages,  \* contents of key_images.dat, which no code path writes
  IoFaults,        \* faults the environment may produce; see below
  MaxBlocks,       \* bound: blocks in the chain and records in the file
  MaxClock         \* bound: the wall clock

(* "lost": opening or writing the file fails, nothing is written.          *)
(* "torn": a write stops after some of its bytes (full disk, power loss).  *)
(* "unreadable": load_chain cannot open an existing file.                  *)
ASSUME FaultsAssumption == IoFaults \subseteq {"lost", "torn", "unreadable"}

ASSUME HashesAssumption == ZeroHash \in Hashes /\ GenesisHash \in Hashes
ASSUME TimesAssumption ==
  /\ Timestamps \subseteq Nat /\ GenesisTime \in Timestamps
  /\ FutureLimit \in Nat
ASSUME PowAssumption == PowValue \in [Hashes -> 0..MaxHash]
ASSUME BoundsAssumption ==
  RecordSize \in Nat \ {0} /\ MaxBlocks \in Nat /\ MaxClock \in Nat

Block == [hash : Hashes, prev_id : Hashes, timestamp : Nat,
          tx_hashes : SUBSET {tx.hash : tx \in Transactions}]
Record == [height : Nat, timestamp : Nat, difficulty : Nat, hash : Hashes]
Entry == [hash : Hashes, prev_id : Hashes, timestamp : Nat, cumulative : Nat]

ASSUME GarbageAssumption == Garbage \subseteq Record

VARIABLES
  phase,        \* "down", "loading" (inside init) or "running"
  clock,        \* std::time
  m_opened,     \* PersistentDatabase::m_opened
  m_blocks, m_timestamps, m_cumulative_difficulties,
  m_spent_key_images,
  adding,       \* the add_new_block call in progress, or Idle
  file, tail,   \* blocks.dat
  ledger,       \* history: the blocks whose records were completely written
  damage        \* history: the number of records in the file when a torn
                \* write or a second genesis first spoiled it, or Undamaged

memory == <<m_blocks, m_timestamps, m_cumulative_difficulties>>
disk == <<file, tail, ledger, damage>>
vars == <<phase, clock, m_opened, memory, m_spent_key_images, adding, disk,
          m_mempool>>

Idle == [step |-> "idle"]

Undamaged == -1
Sound == IF damage = Undamaged THEN Len(file) ELSE damage

Top(s) == s[Len(s)]

Genesis == [hash |-> GenesisHash, prev_id |-> ZeroHash,
            timestamp |-> GenesisTime, tx_hashes |-> {}]
-----------------------------------------------------------------------------
(* One call of save_block, whose result every caller drops.  After close() *)
(* it writes nothing.                                                      *)
WriteNothing ==
  /\ ~m_opened \/ "lost" \in IoFaults
  /\ UNCHANGED <<file, tail, ledger>>

WriteRecord(b, height, difficulty, cumulative) ==
  /\ m_opened
  /\ \E chunk \in IF tail = 0
                  THEN {[height |-> height, timestamp |-> b.timestamp,
                         difficulty |-> difficulty, hash |-> b.hash]}
                  ELSE Garbage :
       file' = Append(file, chunk)
  /\ ledger' = Append(ledger, [hash |-> b.hash, prev_id |-> b.prev_id,
                               timestamp |-> b.timestamp,
                               cumulative |-> cumulative])
  /\ UNCHANGED tail

WriteTorn(bytes) ==
  /\ m_opened /\ "torn" \in IoFaults
  /\ IF tail + bytes < RecordSize
     THEN tail' = tail + bytes /\ UNCHANGED file
     ELSE /\ tail' = tail + bytes - RecordSize
          /\ \E chunk \in Garbage : file' = Append(file, chunk)
  /\ UNCHANGED ledger

save_block(b, height, difficulty, cumulative) ==
  \/ WriteNothing
  \/ WriteRecord(b, height, difficulty, cumulative)
  \/ \E bytes \in 1 .. RecordSize - 1 : WriteTorn(bytes)
-----------------------------------------------------------------------------
Init ==
  /\ phase = "down" /\ clock \in 0..MaxClock /\ m_opened = FALSE
  /\ m_blocks = <<>> /\ m_timestamps = <<>>
  /\ m_cumulative_difficulties = <<>> /\ m_spent_key_images = {}
  /\ adding = Idle
  /\ file = <<>> /\ tail = 0 /\ ledger = <<>> /\ damage = Undamaged
  /\ PoolInit

(* A process starts: init takes the lock and opens the database. *)
Start ==
  /\ phase = "down"
  /\ phase' = "loading" /\ m_opened' = TRUE
  /\ UNCHANGED <<clock, memory, m_spent_key_images, adding, disk, m_mempool>>

push_no_timestamp(b, cumulative) ==
  /\ m_blocks' = Append(m_blocks, b)
  /\ UNCHANGED m_timestamps
  /\ m_cumulative_difficulties' = Append(m_cumulative_difficulties, cumulative)

push(b, cumulative) ==
  /\ m_blocks' = Append(m_blocks, b)
  /\ m_timestamps' = Append(m_timestamps, b.timestamp)
  /\ m_cumulative_difficulties' = Append(m_cumulative_difficulties, cumulative)

CumulativeTop ==
  IF m_cumulative_difficulties = <<>> THEN 0 ELSE Top(m_cumulative_difficulties)

BlockOfSwapped(r) == [hash |-> r.hash, prev_id |-> ZeroHash,
                      timestamp |-> r.height, tx_hashes |-> {}]

(* The block load_chain makes of a record: the parent and the transactions *)
(* are not in the file, and the record's height is read and dropped.       *)
BlockOf(r) == [hash |-> r.hash, prev_id |-> ZeroHash,
               timestamp |-> r.timestamp, tx_hashes |-> {}]

LoadedCumulativeUnsummed(r) == r.difficulty

LoadedCumulative(r) == CumulativeTop + r.difficulty

(* One turn of load_chain's loop. *)
LoadRecord ==
  /\ phase = "loading"
  /\ Len(m_blocks) < Len(file)
  /\ LET r == file[Len(m_blocks) + 1] IN push(BlockOf(r), LoadedCumulative(r))
  /\ UNCHANGED <<phase, clock, m_opened, m_spent_key_images, adding, disk,
                 m_mempool>>

(* load_chain stops before the partial record at the end of the file and   *)
(* leaves those bytes where they are.                                      *)
Resume ==
  /\ phase = "loading"
  /\ Len(m_blocks) = Len(file) /\ m_blocks # <<>>
  /\ phase' = "running"
  /\ m_spent_key_images' = SavedKeyImages
  /\ UNCHANGED <<clock, m_opened, memory, adding, disk, m_mempool>>

(* load_chain failed or found no whole record: a fresh genesis block is    *)
(* appended to whatever the file holds.                                    *)
CreateGenesis ==
  /\ phase = "loading"
  /\ m_blocks = <<>>
  /\ Len(file) < MaxBlocks
  /\ file = <<>> \/ "unreadable" \in IoFaults
  /\ push(Genesis, 1)
  /\ save_block(Genesis, 0, 1, 1)
  /\ damage' = IF tail' # tail \/ file # <<>> THEN Sound ELSE damage
  /\ phase' = "running"
  /\ m_spent_key_images' \in {{}, SavedKeyImages}
  /\ UNCHANGED <<clock, m_opened, adding, m_mempool>>

get_current_difficulty ==
  next_difficulty_lwma3(m_timestamps, m_cumulative_difficulties)

(* calculate_hash of the block's hash field, tested against a difficulty. *)
pow_ok(hash, difficulty) == check_pow_hash(PowValue[hash], difficulty)

ValidHeaderLoose(b) ==
  /\ b.prev_id = Top(m_blocks).hash
  /\ b.timestamp >= Top(m_blocks).timestamp
  /\ b.timestamp <= clock + FutureLimit

(* The checks of add_new_block that need no proof of work. *)
ValidHeader(b) ==
  /\ b.prev_id = Top(m_blocks).hash
  /\ b.timestamp > Top(m_blocks).timestamp
  /\ b.timestamp <= clock + FutureLimit

(* add_new_block up to the pushes; a block that fails a check returns      *)
(* false and changes nothing.                                              *)
AddNewBlock(b) ==
  /\ phase = "running" /\ adding = Idle
  /\ m_blocks # <<>>
  /\ Len(m_blocks) < MaxBlocks /\ Len(file) < MaxBlocks
  /\ ValidHeader(b)
  /\ \E d \in get_current_difficulty :
       /\ pow_ok(b.hash, d)
       /\ push(b, CumulativeTop + d)
       /\ adding' = [step |-> "save", b |-> b, height |-> Len(m_blocks),
                     diff |-> d]
  /\ UNCHANGED <<phase, clock, m_opened, m_spent_key_images, disk, m_mempool>>

SaveBlock ==
  /\ adding.step = "save"
  /\ save_block(adding.b, adding.height, adding.diff, CumulativeTop)
  /\ damage' = IF tail' # tail THEN Sound ELSE damage
  /\ adding' = [adding EXCEPT !.step = "remove"]
  /\ UNCHANGED <<phase, clock, m_opened, memory, m_spent_key_images, m_mempool>>

FinishAdd ==
  /\ adding.step = "remove"
  /\ remove_txs(adding.b.tx_hashes)
  /\ adding' = Idle
  /\ UNCHANGED <<phase, clock, m_opened, memory, m_spent_key_images, disk>>

AddTx(tx) ==
  /\ phase = "running"
  /\ add_tx(tx)
  /\ UNCHANGED <<phase, clock, m_opened, memory, m_spent_key_images, adding,
                 disk>>

Tick ==
  /\ clock < MaxClock
  /\ clock' = clock + 1
  /\ UNCHANGED <<phase, m_opened, memory, m_spent_key_images, adding, disk,
                 m_mempool>>

(* shutdown() closes the database and leaves the object usable. *)
Shutdown ==
  /\ phase = "running" /\ adding = Idle /\ m_opened
  /\ m_opened' = FALSE
  /\ UNCHANGED <<phase, clock, memory, m_spent_key_images, adding, disk,
                 m_mempool>>

(* The process ends, in the middle of anything; only the file is left. *)
Crash ==
  /\ phase # "down"
  /\ phase' = "down" /\ m_opened' = FALSE
  /\ m_blocks' = <<>> /\ m_timestamps' = <<>>
  /\ m_cumulative_difficulties' = <<>>
  /\ m_spent_key_images' = {} /\ adding' = Idle /\ m_mempool' = <<>>
  /\ UNCHANGED <<clock, disk>>

OfferedBlocks == [hash : Hashes, prev_id : Hashes, timestamp : Timestamps,
                  tx_hashes : SUBSET {tx.hash : tx \in Transactions}]

Next ==
  \/ Start \/ LoadRecord \/ Resume \/ CreateGenesis
  \/ \E b \in OfferedBlocks : AddNewBlock(b)
  \/ SaveBlock \/ FinishAdd
  \/ \E tx \in Transactions : AddTx(tx)
  \/ Tick \/ Shutdown \/ Crash

Spec == Init /\ [][Next]_vars
-----------------------------------------------------------------------------
(* Every variable has its type, and the three vectors that add_new_block   *)
(* and load_chain push to one after the other (blockchain.cpp:142-144,     *)
(* lmdb_storage.cpp:72-75) have the same length in every state.            *)
ChainTypeOK ==
  /\ phase \in {"down", "loading", "running"}
  /\ clock \in Nat /\ m_opened \in BOOLEAN
  /\ m_blocks \in Seq(Block)
  /\ m_timestamps \in Seq(Nat) /\ m_cumulative_difficulties \in Seq(Nat)
  /\ Len(m_timestamps) = Len(m_blocks)
  /\ Len(m_cumulative_difficulties) = Len(m_blocks)
  /\ m_spent_key_images \subseteq SavedKeyImages
  /\ \/ adding = Idle
     \/ adding \in [step : {"save", "remove"}, b : Block, height : Nat,
                    diff : Nat]
  /\ file \in Seq(Record) /\ tail \in 0 .. RecordSize - 1
  /\ ledger \in Seq(Entry) /\ damage \in Nat \union {Undamaged}

(* Without I/O faults, whatever crashes and restarts happen, the running   *)
(* node's chain starts with exactly the blocks that were ever committed,   *)
(* with the same timestamps and cumulative difficulties that they had when *)
(* they were accepted; and while the database is open nothing but the      *)
(* block now being saved is missing from the disk.  (init rebuilds all of  *)
(* this from records that hold neither heights it uses nor cumulative      *)
(* difficulties: lmdb_storage.cpp:53-76.)                                  *)
RestartRestoresChain ==
  phase = "running" =>
    /\ Len(ledger) <= Len(m_blocks)
    /\ \A i \in 1..Len(ledger) :
         /\ m_blocks[i].hash = ledger[i].hash
         /\ m_timestamps[i] = ledger[i].timestamp
         /\ m_cumulative_difficulties[i] = ledger[i].cumulative
    /\ m_opened => Len(m_blocks) - Len(ledger) =
                     (IF adding.step = "save" THEN 1 ELSE 0)

(* Under every fault, the records written before the first damage are in   *)
(* strictly increasing time order, as add_new_block demands of a chain     *)
(* (blockchain.cpp:119), although blocks whose write was lost leave gaps   *)
(* and the chain restarts from the shorter file; and each carries a        *)
(* difficulty of at least 1, so no window has total difficulty 0.          *)
SoundRecordsIncrease ==
  /\ \A i, j \in 1..Sound : i < j => file[i].timestamp < file[j].timestamp
  /\ \A i \in 1..Sound : file[i].difficulty >= 1

(* A transaction leaves the pool of a running node only because the block  *)
(* at the tip of the chain lists it (blockchain.cpp:148), also when it was *)
(* admitted while that block was being saved.                              *)
PoolLosesOnlyMined ==
  [][phase' # "down" =>
       \A i \in DOMAIN m_mempool :
         \/ \E j \in DOMAIN m_mempool' : m_mempool'[j] = m_mempool[i]
         \/ m_mempool[i].hash \in Top(m_blocks).tx_hashes]_vars

(* Under every fault, a restart that can read the file brings back, in     *)
(* place and in order, every block committed before the first damage.      *)
ResumeKeepsSound ==
  [][phase = "loading" /\ phase' = "running" /\ Len(m_blocks) > 0 =>
       \A i \in 1..Sound :
         /\ m_blocks[i].hash = ledger[i].hash
         /\ m_timestamps[i] = ledger[i].timestamp]_vars

(* The node implements the abstract ledger: without I/O faults, crashes,   *)
(* restarts and shutdowns at any point never lead to a committed chain     *)
(* that Ledger does not allow.                                             *)
L == INSTANCE Ledger WITH chain <- ledger,
                          NextDifficulties <- next_difficulty_lwma3,
                          MeetsDifficulty <- pow_ok
ImplementsLedger == L!LedgerSpec

(* blockchain.cpp:156 logs a block as "ACCEPTED & COMMITTED TO DISK": a    *)
(* block whose record was completely written is on the chain that a later  *)
(* start loads.                                                            *)
CommittedIsLoaded ==
  [][phase = "loading" /\ phase' = "running" /\ Len(m_blocks) > 0 =>
       \A i \in DOMAIN ledger :
         \E j \in DOMAIN m_blocks : m_blocks[j].hash = ledger[i].hash]_vars

(* Blockchain::verify_transaction: the checks of add_tx without the pool,  *)
(* and the key images known to be spent.                                   *)
verify_transaction(tx) ==
  WellFormed(tx) /\ KeyImages(tx) \cap m_spent_key_images = {}

(* blockchain.h:26 says verify_transaction validates "spent key images": a *)
(* transaction that an accepted block already contains does not verify,    *)
(* once add_new_block has returned.                                        *)
SpentImagesRefused ==
  adding = Idle =>
    \A tx \in Transactions, i \in DOMAIN m_blocks :
      tx.hash \in m_blocks[i].tx_hashes => ~verify_transaction(tx)
=============================================================================

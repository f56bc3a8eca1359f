-------------------------- MODULE BlockchainProofs --------------------------
(***************************************************************************)
(* Proofs about Blockchain, for every instance of its constants: type      *)
(* correctness and the order of the records on disk under every I/O fault, *)
(* and, where the environment produces no I/O fault, that restarts restore *)
(* the chain and that the node implements Ledger.                          *)
(***************************************************************************)
EXTENDS Blockchain, DifficultyProofs, TxPoolProofs

(* The retargeting rule on the node's own vectors returns positive         *)
(* difficulties (get_current_difficulty, blockchain.cpp:56-63).            *)
LEMMA CurrentDifficulty ==
  ASSUME ChainTypeOK, NEW d \in get_current_difficulty
  PROVE  d \in Nat /\ d >= 1
<1>1. m_cumulative_difficulties \in Seq(Int)
  BY DEF ChainTypeOK
<1> QED
  BY <1>1, NextDifficultyPositive DEF ChainTypeOK, get_current_difficulty

(* The last cumulative difficulty is a natural number, 0 before genesis. *)
LEMMA CumulativeTopNat == ChainTypeOK => CumulativeTop \in Nat
  BY DEF ChainTypeOK, CumulativeTop, Top

(* The three pushes keep the vectors typed and in step. *)
LEMMA PushTyped ==
  ASSUME ChainTypeOK, NEW b \in Block, NEW c \in Nat, push(b, c)
  PROVE  /\ m_blocks' \in Seq(Block)
         /\ m_timestamps' \in Seq(Nat) /\ m_cumulative_difficulties' \in Seq(Nat)
         /\ Len(m_timestamps') = Len(m_blocks')
         /\ Len(m_cumulative_difficulties') = Len(m_blocks')
<1>1. b.timestamp \in Nat
  BY DEF Block
<1> QED
  BY <1>1 DEF ChainTypeOK, push

(* Whatever becomes of a write, the file is a sequence of whole chunks     *)
(* followed by less than one record.                                       *)
LEMMA SaveTyped ==
  ASSUME ChainTypeOK, NEW b \in Block, NEW h \in Nat, NEW d \in Nat, NEW c \in Nat,
         save_block(b, h, d, c)
  PROVE  file' \in Seq(Record) /\ tail' \in 0 .. RecordSize - 1
         /\ ledger' \in Seq(Entry)
<1> DEFINE rec == [height |-> h, timestamp |-> b.timestamp,
                   difficulty |-> d, hash |-> b.hash]
           ent == [hash |-> b.hash, prev_id |-> b.prev_id,
                   timestamp |-> b.timestamp, cumulative |-> c]
<1>1. rec \in Record /\ ent \in Entry
  BY DEF Block, Record, Entry
<1>2. file \in Seq(Record) /\ tail \in 0 .. RecordSize - 1 /\ ledger \in Seq(Entry)
  BY DEF ChainTypeOK
<1>3. CASE WriteNothing
  BY <1>2, <1>3 DEF WriteNothing
<1>4. CASE WriteRecord(b, h, d, c)
  <2>1. PICK chunk \in IF tail = 0 THEN {rec} ELSE Garbage :
          file' = Append(file, chunk)
    BY <1>4 DEF WriteRecord
  <2>2. chunk \in Record
    BY <1>1, <2>1, GarbageAssumption
  <2>3. tail' = tail /\ ledger' = Append(ledger, ent)
    BY <1>4 DEF WriteRecord
  <2> HIDE DEF rec, ent
  <2> QED
    BY <1>1, <1>2, <2>1, <2>2, <2>3
<1>5. ASSUME NEW bytes \in 1 .. RecordSize - 1, WriteTorn(bytes)
      PROVE  file' \in Seq(Record) /\ tail' \in 0 .. RecordSize - 1
             /\ ledger' \in Seq(Entry)
  <2>1. ledger' = ledger
    BY <1>5 DEF WriteTorn
  <2>2. CASE tail + bytes < RecordSize
    <3>1. tail' = tail + bytes /\ file' = file
      BY <1>5, <2>2 DEF WriteTorn
    <3> QED BY <1>2, <2>1, <2>2, <3>1, BoundsAssumption
  <2>3. CASE ~(tail + bytes < RecordSize)
    <3>1. tail' = tail + bytes - RecordSize
      BY <1>5, <2>3 DEF WriteTorn
    <3>2. PICK chunk \in Garbage : file' = Append(file, chunk)
      BY <1>5, <2>3 DEF WriteTorn
    <3>3. chunk \in Record
      BY GarbageAssumption
    <3> QED BY <1>2, <2>1, <2>3, <3>1, <3>2, <3>3, BoundsAssumption
  <2> QED BY <2>2, <2>3
<1> QED
  BY <1>3, <1>4, <1>5 DEF save_block

(* A block made of a record is a block. *)
LEMMA BlockOfTyped == ASSUME NEW r \in Record PROVE BlockOf(r) \in Block
  BY HashesAssumption DEF BlockOf, Record, Block

LEMMA GenesisTyped == Genesis \in Block
  BY HashesAssumption, TimesAssumption DEF Genesis, Block

(* A block that is being added is a typed record. *)
LEMMA AddingTyped ==
  ASSUME ChainTypeOK, adding.step \in {"save", "remove"}
  PROVE  /\ adding \in [step : {"save", "remove"}, b : Block, height : Nat,
                        diff : Nat]
         /\ adding.b \in Block /\ adding.height \in Nat /\ adding.diff \in Nat
  BY DEF ChainTypeOK, Idle

(* The initial state is typed. *)
LEMMA InitTyped == Init => ChainTypeOK
<1> SUFFICES ASSUME Init PROVE ChainTypeOK
  OBVIOUS
<1>1. 0 \in 0 .. RecordSize - 1 /\ clock \in Nat
  BY BoundsAssumption DEF Init
<1>2. phase = "down" /\ m_opened = FALSE /\ m_blocks = <<>> /\ m_timestamps = <<>>
      /\ m_cumulative_difficulties = <<>> /\ m_spent_key_images = {}
      /\ adding = Idle /\ file = <<>> /\ tail = 0 /\ ledger = <<>>
      /\ damage = Undamaged
  BY DEF Init
<1>3. /\ m_blocks \in Seq(Block) /\ m_timestamps \in Seq(Nat)
      /\ m_cumulative_difficulties \in Seq(Nat)
      /\ Len(m_timestamps) = Len(m_blocks)
      /\ Len(m_cumulative_difficulties) = Len(m_blocks)
      /\ file \in Seq(Record) /\ ledger \in Seq(Entry)
  BY <1>2
<1> QED
  BY <1>1, <1>2, <1>3, Zenon DEF ChainTypeOK

(* Sound is a natural number, so damage has its type after any write.      *)
LEMMA SoundNat == ChainTypeOK => Sound \in Nat
  BY DEF ChainTypeOK, Sound, Undamaged

(* Every step keeps the types (all actions of blockchain.cpp and           *)
(* lmdb_storage.cpp).                                                      *)
LEMMA StepTyped == ChainTypeOK /\ [Next]_vars => ChainTypeOK'
<1> SUFFICES ASSUME ChainTypeOK, [Next]_vars PROVE ChainTypeOK'
  OBVIOUS
<1> USE DEF memory, disk
<1>1. CASE Start
  BY <1>1 DEF Start, ChainTypeOK
<1>2. CASE LoadRecord
  <2>1. PICK r : r = file[Len(m_blocks) + 1] /\ push(BlockOf(r), LoadedCumulative(r))
    BY <1>2 DEF LoadRecord
  <2>2. r \in Record
    BY <1>2, <2>1 DEF LoadRecord, ChainTypeOK
  <2>3. LoadedCumulative(r) \in Nat
    BY <2>2, CumulativeTopNat DEF LoadedCumulative, Record
  <2>4. /\ m_blocks' \in Seq(Block)
        /\ m_timestamps' \in Seq(Nat) /\ m_cumulative_difficulties' \in Seq(Nat)
        /\ Len(m_timestamps') = Len(m_blocks')
        /\ Len(m_cumulative_difficulties') = Len(m_blocks')
    BY <2>1, <2>2, <2>3, BlockOfTyped, PushTyped
  <2> QED
    BY <1>2, <2>4 DEF LoadRecord, ChainTypeOK
<1>3. CASE Resume
  BY <1>3 DEF Resume, ChainTypeOK
<1>4. CASE CreateGenesis
  <2>1. /\ m_blocks' \in Seq(Block)
        /\ m_timestamps' \in Seq(Nat) /\ m_cumulative_difficulties' \in Seq(Nat)
        /\ Len(m_timestamps') = Len(m_blocks')
        /\ Len(m_cumulative_difficulties') = Len(m_blocks')
    BY <1>4, GenesisTyped, PushTyped DEF CreateGenesis
  <2>2. file' \in Seq(Record) /\ tail' \in 0 .. RecordSize - 1
        /\ ledger' \in Seq(Entry)
    BY <1>4, GenesisTyped, SaveTyped DEF CreateGenesis
  <2>3. damage' \in Nat \union {Undamaged}
    BY <1>4, SoundNat DEF CreateGenesis, ChainTypeOK
  <2>4. m_spent_key_images' \subseteq SavedKeyImages
    BY <1>4 DEF CreateGenesis
  <2> QED
    BY <1>4, <2>1, <2>2, <2>3, <2>4 DEF CreateGenesis, ChainTypeOK
<1>5. ASSUME NEW b \in OfferedBlocks, AddNewBlock(b) PROVE ChainTypeOK'
  <2>1. PICK d \in get_current_difficulty :
          /\ push(b, CumulativeTop + d)
          /\ adding' = [step |-> "save", b |-> b, height |-> Len(m_blocks), diff |-> d]
    BY <1>5 DEF AddNewBlock
  <2>2. b \in Block
    BY TimesAssumption DEF OfferedBlocks, Block
  <2>3. d \in Nat /\ CumulativeTop + d \in Nat
    BY CurrentDifficulty, CumulativeTopNat
  <2>4. /\ m_blocks' \in Seq(Block)
        /\ m_timestamps' \in Seq(Nat) /\ m_cumulative_difficulties' \in Seq(Nat)
        /\ Len(m_timestamps') = Len(m_blocks')
        /\ Len(m_cumulative_difficulties') = Len(m_blocks')
    BY <2>1, <2>2, <2>3, PushTyped
  <2>5. adding' \in [step : {"save", "remove"}, b : Block, height : Nat, diff : Nat]
    BY <2>1, <2>2, <2>3 DEF ChainTypeOK
  <2> QED
    BY <1>5, <2>4, <2>5 DEF AddNewBlock, ChainTypeOK
<1>6. CASE SaveBlock
  <2>1. /\ adding \in [step : {"save", "remove"}, b : Block, height : Nat,
                       diff : Nat]
        /\ adding.b \in Block /\ adding.height \in Nat /\ adding.diff \in Nat
    BY <1>6, AddingTyped DEF SaveBlock
  <2>2. file' \in Seq(Record) /\ tail' \in 0 .. RecordSize - 1
        /\ ledger' \in Seq(Entry)
    BY <1>6, <2>1, CumulativeTopNat, SaveTyped DEF SaveBlock
  <2>3. damage' \in Nat \union {Undamaged}
    BY <1>6, SoundNat DEF SaveBlock, ChainTypeOK
  <2>4. adding' \in [step : {"save", "remove"}, b : Block, height : Nat, diff : Nat]
    BY <1>6, <2>1 DEF SaveBlock
  <2> QED
    BY <1>6, <2>2, <2>3, <2>4 DEF SaveBlock, ChainTypeOK
<1>7. CASE FinishAdd
  BY <1>7 DEF FinishAdd, ChainTypeOK
<1>8. ASSUME NEW tx \in Transactions, AddTx(tx) PROVE ChainTypeOK'
  BY <1>8 DEF AddTx, ChainTypeOK
<1>9. CASE Tick
  BY <1>9 DEF Tick, ChainTypeOK
<1>10. CASE Shutdown
  BY <1>10 DEF Shutdown, ChainTypeOK
<1>11. CASE Crash
  <2>1. phase' = "down" /\ m_opened' = FALSE /\ m_blocks' = <<>>
        /\ m_timestamps' = <<>> /\ m_cumulative_difficulties' = <<>>
        /\ m_spent_key_images' = {} /\ adding' = Idle
        /\ UNCHANGED <<clock, file, tail, ledger, damage>>
    BY <1>11 DEF Crash
  <2>2. /\ m_blocks' \in Seq(Block) /\ m_timestamps' \in Seq(Nat)
        /\ m_cumulative_difficulties' \in Seq(Nat)
        /\ Len(m_timestamps') = Len(m_blocks')
        /\ Len(m_cumulative_difficulties') = Len(m_blocks')
    BY <2>1
  <2>3. /\ file' \in Seq(Record) /\ tail' \in 0 .. RecordSize - 1
        /\ ledger' \in Seq(Entry) /\ damage' \in Nat \union {Undamaged}
        /\ clock' \in Nat
    BY <2>1 DEF ChainTypeOK, Undamaged
  <2> QED
    BY <2>1, <2>2, <2>3, Zenon DEF ChainTypeOK, Idle, Undamaged
<1>12. CASE UNCHANGED vars
  BY <1>12 DEF vars, ChainTypeOK
<1> QED
  BY <1>1, <1>2, <1>3, <1>4, <1>5, <1>6, <1>7, <1>8, <1>9, <1>10, <1>11, <1>12
  DEF Next

(* Type correctness of the node over any number of process lifetimes and   *)
(* under every I/O fault; in particular the three vectors pushed one after *)
(* the other always have one length.                                       *)
THEOREM ChainTypeCorrect == Spec => []ChainTypeOK
  BY InitTyped, StepTyped, PTL DEF Spec

-----------------------------------------------------------------------------
(* How the phases of a process constrain its memory. *)
PhaseInv ==
  /\ phase = "down" => m_blocks = <<>> /\ adding = Idle
  /\ phase = "loading" => adding = Idle /\ m_opened
  /\ phase = "running" => m_blocks # <<>>
  /\ adding.step = "save" => adding.b = Top(m_blocks) /\ adding.diff >= 1

(* The first n records are in time order and carry work. *)
Increasing(f, n) ==
  /\ \A i, j \in 1..n : i < j => f[i].timestamp < f[j].timestamp
  /\ \A i \in 1..n : f[i].difficulty >= 1

(* The inductive strengthening of SoundRecordsIncrease: until the first    *)
(* damage, the memory being loaded mirrors the file, the tip of a running  *)
(* node is no older than the last record, and a block waiting to be saved  *)
(* is newer than it.                                                       *)
DiskInv ==
  /\ damage # Undamaged => damage <= Len(file)
  /\ damage = Undamaged => tail = 0
  /\ Increasing(file, Sound)
  /\ damage = Undamaged /\ phase = "loading" =>
       /\ Len(m_blocks) <= Len(file)
       /\ \A i \in 1..Len(m_blocks) : m_blocks[i].timestamp = file[i].timestamp
  /\ damage = Undamaged /\ phase = "running" /\ file # <<>> =>
       /\ Top(m_blocks).timestamp >= Top(file).timestamp
       /\ adding.step = "save" => Top(m_blocks).timestamp > Top(file).timestamp

(* Appending a chunk leaves the earlier records alone. *)
LEMMA IncreasingKept ==
  ASSUME NEW f \in Seq(Record), NEW n \in 0..Len(f), NEW c \in Record,
         Increasing(f, n)
  PROVE  Increasing(Append(f, c), n)
<1>1. \A i \in 1..n : Append(f, c)[i] = f[i]
  OBVIOUS
<1> HIDE DEF Increasing
<1> QED
  BY <1>1 DEF Increasing

(* Appending a later record with work keeps the whole file in order. *)
LEMMA IncreasingAppend ==
  ASSUME NEW f \in Seq(Record), NEW c \in Record, Increasing(f, Len(f)),
         f # <<>> => c.timestamp > Top(f).timestamp,
         c.difficulty >= 1
  PROVE  Increasing(Append(f, c), Len(f) + 1)
<1> DEFINE g == Append(f, c)
           n == Len(f)
<1>1. /\ n \in Nat /\ g[n + 1] = c
      /\ \A i \in 1..n : g[i] = f[i] /\ f[i].timestamp \in Nat
      /\ c.timestamp \in Nat
  <2>1. n \in Nat /\ g[n + 1] = c /\ \A i \in 1..n : g[i] = f[i] /\ f[i] \in Record
    OBVIOUS
  <2>2. \A r \in Record : r.timestamp \in Nat
    BY DEF Record
  <2> QED
    BY <2>1, <2>2
<1>2. \A i \in 1..n : f[i].timestamp < c.timestamp
  <2> SUFFICES ASSUME NEW i \in 1..n PROVE f[i].timestamp < c.timestamp
    OBVIOUS
  <2>1. f[n].timestamp < c.timestamp /\ n \in 1..n
    BY <1>1 DEF Top
  <2>2. i = n \/ f[i].timestamp < f[n].timestamp
    BY <1>1, <2>1 DEF Increasing
  <2> QED
    BY <1>1, <2>1, <2>2
<1> HIDE DEF g, n
<1>3. \A i, j \in 1 .. n + 1 : i < j => g[i].timestamp < g[j].timestamp
  <2> SUFFICES ASSUME NEW i \in 1 .. n + 1, NEW j \in 1 .. n + 1, i < j
               PROVE  g[i].timestamp < g[j].timestamp
    OBVIOUS
  <2>1. CASE j = n + 1
    BY <1>1, <1>2, <2>1
  <2>2. CASE j # n + 1
    <3>1. i \in 1..n /\ j \in 1..n
      BY <1>1, <2>2
    <3>2. f[i].timestamp < f[j].timestamp
      BY <3>1 DEF Increasing, n
    <3> QED
      BY <1>1, <3>1, <3>2
  <2> QED
    BY <2>1, <2>2
<1>4. \A i \in 1 .. n + 1 : g[i].difficulty >= 1
  <2> SUFFICES ASSUME NEW i \in 1 .. n + 1 PROVE g[i].difficulty >= 1
    OBVIOUS
  <2>1. CASE i = n + 1
    BY <1>1, <2>1
  <2>2. CASE i # n + 1
    <3>1. i \in 1..n
      BY <1>1, <2>2
    <3>2. f[i].difficulty >= 1
      BY <3>1 DEF Increasing, n
    <3> QED
      BY <1>1, <3>1, <3>2
  <2> QED
    BY <2>1, <2>2
<1> QED
  BY <1>3, <1>4 DEF Increasing, g, n

(* What one call of save_block may do to the file. *)
LEMMA SaveOutcome ==
  ASSUME ChainTypeOK, NEW b \in Block, NEW h \in Nat, NEW d \in Nat, NEW c \in Nat,
         save_block(b, h, d, c)
  PROVE  /\ file' = file \/ \E chunk \in Record : file' = Append(file, chunk)
         /\ tail' = tail /\ tail = 0 =>
              \/ file' = file
              \/ file' = Append(file, [height |-> h, timestamp |-> b.timestamp,
                                       difficulty |-> d, hash |-> b.hash])
<1> DEFINE rec == [height |-> h, timestamp |-> b.timestamp,
                   difficulty |-> d, hash |-> b.hash]
<1>1. rec \in Record
  BY DEF Block, Record
<1>2. CASE WriteNothing
  BY <1>2 DEF WriteNothing
<1>3. CASE WriteRecord(b, h, d, c)
  <2>1. PICK chunk \in IF tail = 0 THEN {rec} ELSE Garbage :
          file' = Append(file, chunk)
    BY <1>3 DEF WriteRecord
  <2>2. chunk \in Record /\ (tail = 0 => chunk = rec)
    BY <1>1, <2>1, GarbageAssumption
  <2> QED
    BY <2>1, <2>2
<1>4. ASSUME NEW bytes \in 1 .. RecordSize - 1, WriteTorn(bytes)
      PROVE  /\ file' = file \/ \E chunk \in Record : file' = Append(file, chunk)
             /\ tail' # tail
  <2>1. tail \in 0 .. RecordSize - 1
    BY DEF ChainTypeOK
  <2>2. CASE tail + bytes < RecordSize
    BY <1>4, <2>1, <2>2, BoundsAssumption DEF WriteTorn
  <2>3. CASE ~(tail + bytes < RecordSize)
    <3>1. tail' = tail + bytes - RecordSize
      BY <1>4, <2>3 DEF WriteTorn
    <3>2. \E chunk \in Garbage : file' = Append(file, chunk)
      BY <1>4, <2>3 DEF WriteTorn
    <3> QED
      BY <2>1, <3>1, <3>2, BoundsAssumption, GarbageAssumption
  <2> QED
    BY <2>2, <2>3
<1> QED
  BY <1>2, <1>3, <1>4 DEF save_block

(* The initial state satisfies both invariants. *)
LEMMA InitDisk == Init => PhaseInv /\ DiskInv
  BY DEF Init, PhaseInv, DiskInv, Increasing, Sound, Undamaged, Idle

(* A step that leaves the file alone and does not move the tip back keeps  *)
(* the file's part of the invariant.                                       *)
LEMMA SameFile ==
  ASSUME DiskInv, UNCHANGED <<file, tail, damage>>
  PROVE  /\ damage' # Undamaged => damage' <= Len(file')
         /\ damage' = Undamaged => tail' = 0
         /\ Increasing(file', Sound')
         /\ Sound' = Sound
<1>1. Sound' = Sound
  BY DEF Sound
<1> QED
  BY <1>1 DEF DiskInv

(* Spoiling the file freezes Sound at the records it already held. *)
LEMMA DamagedFile ==
  ASSUME ChainTypeOK, DiskInv, damage' = Sound \/ (damage # Undamaged /\ damage' = damage),
         file' = file \/ \E chunk \in Record : file' = Append(file, chunk)
  PROVE  /\ damage' # Undamaged
         /\ damage' <= Len(file')
         /\ Increasing(file', Sound')
<1>1. file \in Seq(Record) /\ Sound \in Nat /\ Sound <= Len(file)
  <2>1. file \in Seq(Record) /\ Sound \in Nat
    BY SoundNat DEF ChainTypeOK
  <2> QED BY <2>1 DEF DiskInv, Sound
<1>2. damage' = Sound
  BY DEF Sound
<1>3. damage' # Undamaged /\ Sound' = Sound
  <2>1. damage' # Undamaged
    BY <1>1, <1>2 DEF Undamaged
  <2> QED BY <1>2, <2>1 DEF Sound
<1>4. Increasing(file, Sound)
  BY DEF DiskInv
<1>5. CASE file' = file
  BY <1>1, <1>2, <1>3, <1>4, <1>5
<1>6. ASSUME NEW chunk \in Record, file' = Append(file, chunk)
      PROVE  damage' <= Len(file') /\ Increasing(file', Sound')
  <2>1. Increasing(Append(file, chunk), Sound)
    BY <1>1, <1>4, IncreasingKept
  <2>2. Len(file') = Len(file) + 1
    BY <1>1, <1>6
  <2> QED BY <1>1, <1>2, <1>3, <1>6, <2>1, <2>2
<1> QED
  BY <1>3, <1>5, <1>6

(* Facts about the top of a sequence after a push. *)
LEMMA TopAppend ==
  ASSUME NEW S, NEW s \in Seq(S), NEW e \in S
  PROVE  /\ Append(s, e) \in Seq(S) /\ Append(s, e) # <<>>
         /\ Top(Append(s, e)) = e
         /\ Len(Append(s, e)) = Len(s) + 1
         /\ \A i \in 1..Len(s) : Append(s, e)[i] = s[i]
         /\ Append(s, e)[Len(s) + 1] = e
  BY DEF Top

(* The timestamps at the top of the file and of the chain are numbers. *)
LEMMA TopTimes ==
  /\ \A f \in Seq(Record) : f # <<>> => Top(f).timestamp \in Nat
  /\ \A s \in Seq(Block) : s # <<>> => Top(s).timestamp \in Nat
<1>1. \A r \in Record : r.timestamp \in Nat
  BY DEF Record
<1>2. \A b \in Block : b.timestamp \in Nat
  BY DEF Block
<1>3. \A f \in Seq(Record) : f # <<>> => Top(f) \in Record
  BY DEF Top
<1>4. \A s \in Seq(Block) : s # <<>> => Top(s) \in Block
  BY DEF Top
<1> QED
  BY <1>1, <1>2, <1>3, <1>4

(* Every step keeps PhaseInv. *)
LEMMA StepPhase == ChainTypeOK /\ PhaseInv /\ [Next]_vars => PhaseInv'
<1> SUFFICES ASSUME ChainTypeOK, PhaseInv, [Next]_vars PROVE PhaseInv'
  OBVIOUS
<1> USE DEF memory, disk, Idle
<1>1. CASE Start
  BY <1>1 DEF Start, PhaseInv, ChainTypeOK
<1>2. CASE LoadRecord
  BY <1>2 DEF LoadRecord, PhaseInv
<1>3. CASE Resume
  BY <1>3 DEF Resume, PhaseInv
<1>4. CASE CreateGenesis
  <2>1. m_blocks' # <<>>
    BY <1>4, GenesisTyped, TopAppend DEF CreateGenesis, push, ChainTypeOK
  <2> QED
    BY <1>4, <2>1 DEF CreateGenesis, PhaseInv
<1>5. ASSUME NEW b \in OfferedBlocks, AddNewBlock(b) PROVE PhaseInv'
  <2>1. PICK d \in get_current_difficulty :
          /\ push(b, CumulativeTop + d)
          /\ adding' = [step |-> "save", b |-> b, height |-> Len(m_blocks), diff |-> d]
    BY <1>5 DEF AddNewBlock
  <2>2. b \in Block /\ m_blocks \in Seq(Block)
    BY TimesAssumption DEF OfferedBlocks, Block, ChainTypeOK
  <2>3. m_blocks' # <<>> /\ Top(m_blocks') = b
    BY <2>1, <2>2, TopAppend DEF push
  <2>4. d >= 1
    BY CurrentDifficulty
  <2> QED
    BY <1>5, <2>1, <2>3, <2>4 DEF AddNewBlock, PhaseInv
<1>6. CASE SaveBlock
  <2>1. adding.step = "save" /\ adding'.step = "remove"
    BY <1>6, AddingTyped DEF SaveBlock
  <2>2. phase' = phase /\ m_opened' = m_opened /\ m_blocks' = m_blocks
    BY <1>6 DEF SaveBlock
  <2>3. phase = "running"
    BY <2>1 DEF PhaseInv, ChainTypeOK
  <2> QED
    BY <2>1, <2>2, <2>3 DEF PhaseInv
<1>7. CASE FinishAdd
  BY <1>7 DEF FinishAdd, PhaseInv
<1>8. ASSUME NEW tx \in Transactions, AddTx(tx) PROVE PhaseInv'
  BY <1>8 DEF AddTx, PhaseInv
<1>9. CASE Tick
  BY <1>9 DEF Tick, PhaseInv
<1>10. CASE Shutdown
  BY <1>10 DEF Shutdown, PhaseInv
<1>11. CASE Crash
  BY <1>11 DEF Crash, PhaseInv
<1>12. CASE UNCHANGED vars
  BY <1>12 DEF vars, PhaseInv
<1> QED
  BY <1>1, <1>2, <1>3, <1>4, <1>5, <1>6, <1>7, <1>8, <1>9, <1>10, <1>11, <1>12
  DEF Next

(* A step that changes neither the file nor the chain in memory nor the    *)
(* phase, and starts no block, keeps DiskInv.                              *)
LEMMA FrameDisk ==
  ASSUME DiskInv, UNCHANGED <<phase, m_blocks, file, tail, damage>>,
         adding'.step = "save" => adding.step = "save"
  PROVE  DiskInv'
<1>1. Sound' = Sound
  BY DEF Sound
<1> QED
  BY <1>1 DEF DiskInv, Top

(* Every step keeps DiskInv, whatever faults the environment produces. *)
LEMMA StepDisk == ChainTypeOK /\ PhaseInv /\ DiskInv /\ [Next]_vars => DiskInv'
<1> SUFFICES ASSUME ChainTypeOK, PhaseInv, DiskInv, [Next]_vars PROVE DiskInv'
  OBVIOUS
<1> USE DEF memory, disk
<1>t. m_blocks \in Seq(Block) /\ file \in Seq(Record)
  BY DEF ChainTypeOK
<1>1. CASE Start
  <2>1. UNCHANGED <<file, tail, damage, m_blocks>> /\ phase' = "loading" /\ m_blocks = <<>>
    BY <1>1 DEF Start, PhaseInv
  <2>2. /\ damage' # Undamaged => damage' <= Len(file')
        /\ damage' = Undamaged => tail' = 0
        /\ Increasing(file', Sound')
    BY <2>1, SameFile
  <2>3. Len(m_blocks') = 0 /\ Len(file') \in Nat
    BY <1>t, <2>1
  <2> QED
    BY <2>1, <2>2, <2>3 DEF DiskInv
<1>2. CASE LoadRecord
  <2>1. PICK r : r = file[Len(m_blocks) + 1] /\ push(BlockOf(r), LoadedCumulative(r))
    BY <1>2 DEF LoadRecord
  <2>2. r \in Record
    BY <1>2, <2>1, <1>t DEF LoadRecord
  <2>3. UNCHANGED <<file, tail, damage, phase>> /\ phase = "loading"
        /\ Len(m_blocks) < Len(file)
    BY <1>2 DEF LoadRecord
  <2>4. /\ damage' # Undamaged => damage' <= Len(file')
        /\ damage' = Undamaged => tail' = 0
        /\ Increasing(file', Sound')
    BY <2>3, SameFile
  <2>5. /\ m_blocks' = Append(m_blocks, BlockOf(r)) /\ BlockOf(r) \in Block
        /\ BlockOf(r).timestamp = r.timestamp
    BY <2>1, <2>2, BlockOfTyped DEF push, BlockOf
  <2>6. /\ Len(m_blocks') = Len(m_blocks) + 1
        /\ \A i \in 1..Len(m_blocks) : m_blocks'[i] = m_blocks[i]
        /\ m_blocks'[Len(m_blocks) + 1] = BlockOf(r)
    BY <1>t, <2>5, TopAppend
  <2>7. ASSUME damage = Undamaged
        PROVE  /\ Len(m_blocks') <= Len(file)
               /\ \A i \in 1..Len(m_blocks') : m_blocks'[i].timestamp = file[i].timestamp
    <3>1. \A i \in 1..Len(m_blocks) : m_blocks[i].timestamp = file[i].timestamp
      BY <2>3, <2>7 DEF DiskInv
    <3> QED
      BY <1>t, <2>1, <2>3, <2>5, <2>6, <3>1
  <2> QED
    BY <2>3, <2>4, <2>7 DEF DiskInv
<1>3. CASE Resume
  <2>1. UNCHANGED <<file, tail, damage, m_blocks, adding>> /\ phase' = "running"
        /\ phase = "loading" /\ Len(m_blocks) = Len(file) /\ m_blocks # <<>>
    BY <1>3 DEF Resume
  <2>2. /\ damage' # Undamaged => damage' <= Len(file')
        /\ damage' = Undamaged => tail' = 0
        /\ Increasing(file', Sound')
    BY <2>1, SameFile
  <2>3. damage = Undamaged => Top(m_blocks).timestamp = Top(file).timestamp
    BY <1>t, <2>1 DEF DiskInv, Top
  <2>4. adding'.step # "save"
    BY <2>1 DEF PhaseInv, Idle
  <2>5. file # <<>> => Top(file).timestamp \in Nat
    BY <1>t, TopTimes
  <2>6. damage' = Undamaged /\ file' # <<>> =>
          Top(m_blocks').timestamp >= Top(file').timestamp
    BY <2>1, <2>3, <2>5 DEF Top
  <2> QED
    BY <2>1, <2>2, <2>4, <2>6 DEF DiskInv
<1>4. CASE CreateGenesis
  <2>1. /\ phase' = "running" /\ save_block(Genesis, 0, 1, 1)
        /\ m_blocks = <<>> /\ m_blocks' = Append(m_blocks, Genesis)
        /\ adding' = adding /\ adding.step = "idle"
        /\ damage' = IF tail' # tail \/ file # <<>> THEN Sound ELSE damage
    BY <1>4 DEF CreateGenesis, push, PhaseInv, Idle
  <2>2. /\ file' = file \/ \E chunk \in Record : file' = Append(file, chunk)
        /\ tail' = tail /\ tail = 0 =>
             \/ file' = file
             \/ file' = Append(file, [height |-> 0, timestamp |-> GenesisTime,
                                      difficulty |-> 1, hash |-> GenesisHash])
    <3>1. Genesis.timestamp = GenesisTime /\ Genesis.hash = GenesisHash
      BY DEF Genesis
    <3> QED BY <2>1, <3>1, GenesisTyped, SaveOutcome
  <2>3. Top(m_blocks') = Genesis /\ Genesis.timestamp = GenesisTime /\ GenesisTime \in Nat
    <3>1. Genesis.timestamp = GenesisTime /\ GenesisTime \in Nat
      BY TimesAssumption DEF Genesis
    <3>2. Top(Append(m_blocks, Genesis)) = Genesis
      BY <1>t, GenesisTyped, TopAppend
    <3> QED BY <2>1, <3>1, <3>2
  <2>4. CASE tail' # tail \/ file # <<>> \/ damage # Undamaged
    <3>1. damage' = Sound \/ (damage # Undamaged /\ damage' = damage)
      BY <2>1, <2>4
    <3>2. /\ damage' # Undamaged /\ damage' <= Len(file')
          /\ Increasing(file', Sound')
      BY <2>2, <3>1, DamagedFile
    <3> QED BY <3>2 DEF DiskInv
  <2>5. CASE tail' = tail /\ file = <<>> /\ damage = Undamaged
    <3> DEFINE rec == [height |-> 0, timestamp |-> GenesisTime,
                       difficulty |-> 1, hash |-> GenesisHash]
    <3>1. tail = 0 /\ tail' = 0 /\ damage' = Undamaged /\ Sound' = Len(file')
      BY <2>1, <2>5 DEF DiskInv, Sound
    <3>2. rec \in Record /\ rec.timestamp = GenesisTime /\ rec.difficulty = 1
      BY HashesAssumption, TimesAssumption DEF Record
    <3>3. file' = file \/ file' = Append(file, rec)
      BY <2>2, <2>5, <3>1
    <3> HIDE DEF rec
    <3>4. CASE file' = file
      <4>1. Increasing(file', Sound')
        BY <2>5, <3>1, <3>4 DEF Increasing
      <4> QED BY <2>1, <2>5, <3>1, <3>4, <4>1 DEF DiskInv
    <3>5. CASE file' = Append(file, rec)
      <4>1. Increasing(file, Len(file))
        BY <2>5 DEF DiskInv, Sound
      <4>2. Increasing(Append(file, rec), Len(file) + 1)
        <5>1. rec.difficulty >= 1
          BY <3>2
        <5> QED BY <1>t, <2>5, <3>2, <4>1, <5>1, IncreasingAppend
      <4>3. Len(file') = Len(file) + 1 /\ Top(file') = rec
        BY <1>t, <3>2, <3>5, TopAppend
      <4>4. Increasing(file', Sound')
        BY <3>1, <3>5, <4>2, <4>3
      <4>5. Top(m_blocks').timestamp >= Top(file').timestamp
        BY <2>3, <3>2, <4>3
      <4> QED BY <2>1, <3>1, <4>4, <4>5 DEF DiskInv
    <3> QED BY <3>3, <3>4, <3>5
  <2> QED BY <2>4, <2>5
<1>5. ASSUME NEW b \in OfferedBlocks, AddNewBlock(b) PROVE DiskInv'
  <2>1. UNCHANGED <<file, tail, damage, phase>> /\ phase = "running"
        /\ m_blocks' = Append(m_blocks, b) /\ m_blocks # <<>>
        /\ b.timestamp > Top(m_blocks).timestamp
    BY <1>5 DEF AddNewBlock, push, ValidHeader
  <2>2. /\ damage' # Undamaged => damage' <= Len(file')
        /\ damage' = Undamaged => tail' = 0
        /\ Increasing(file', Sound')
    BY <2>1, SameFile
  <2>3. b \in Block
    BY TimesAssumption DEF OfferedBlocks, Block
  <2>4. Top(m_blocks') = b
    BY <1>t, <2>1, <2>3, TopAppend
  <2>5. /\ b.timestamp \in Nat /\ Top(m_blocks).timestamp \in Nat
        /\ file # <<>> => Top(file).timestamp \in Nat
    <3>1. b.timestamp \in Nat
      BY <2>3 DEF Block
    <3> QED BY <1>t, <2>1, <3>1, TopTimes
  <2>6. damage = Undamaged /\ file # <<>> => Top(m_blocks).timestamp >= Top(file).timestamp
    BY <2>1 DEF DiskInv
  <2>7. damage' = Undamaged /\ file' # <<>> => Top(m_blocks').timestamp > Top(file').timestamp
    BY <2>1, <2>4, <2>5, <2>6 DEF Top
  <2>8. damage' = Undamaged /\ file' # <<>> => Top(m_blocks').timestamp >= Top(file').timestamp
    BY <2>1, <2>4, <2>5, <2>6 DEF Top
  <2> QED
    BY <2>1, <2>2, <2>7, <2>8 DEF DiskInv
<1>6. CASE SaveBlock
  <2> DEFINE rec == [height |-> adding.height, timestamp |-> adding.b.timestamp,
                     difficulty |-> adding.diff, hash |-> adding.b.hash]
  <2>1. /\ adding \in [step : {"save", "remove"}, b : Block, height : Nat,
                       diff : Nat]
        /\ adding.b \in Block /\ adding.height \in Nat /\ adding.diff \in Nat
        /\ adding.step = "save"
    BY <1>6, AddingTyped DEF SaveBlock
  <2>2. /\ save_block(adding.b, adding.height, adding.diff, CumulativeTop)
        /\ damage' = IF tail' # tail THEN Sound ELSE damage
        /\ UNCHANGED <<phase, m_blocks>> /\ adding'.step = "remove"
    BY <1>6, <2>1 DEF SaveBlock
  <2>3. /\ file' = file \/ \E chunk \in Record : file' = Append(file, chunk)
        /\ tail' = tail /\ tail = 0 => file' = file \/ file' = Append(file, rec)
    BY <2>1, <2>2, CumulativeTopNat, SaveOutcome
  <2>4. phase = "running" /\ adding.b = Top(m_blocks) /\ adding.diff >= 1
    BY <2>1 DEF PhaseInv, ChainTypeOK, Idle
  <2>5. rec \in Record /\ rec.timestamp = adding.b.timestamp /\ rec.difficulty >= 1
    BY <2>1, <2>4 DEF Record, Block
  <2> HIDE DEF rec
  <2>6. CASE tail' # tail \/ damage # Undamaged
    <3>1. damage' = Sound \/ (damage # Undamaged /\ damage' = damage)
      BY <2>2, <2>6
    <3>2. /\ damage' # Undamaged /\ damage' <= Len(file')
          /\ Increasing(file', Sound')
      BY <2>3, <3>1, DamagedFile
    <3> QED BY <3>2 DEF DiskInv
  <2>7. CASE tail' = tail /\ damage = Undamaged
    <3>1. tail = 0 /\ tail' = 0 /\ damage' = Undamaged /\ Sound' = Len(file')
          /\ Sound = Len(file)
      BY <2>2, <2>7 DEF DiskInv, Sound
    <3>2. file # <<>> => /\ Top(m_blocks).timestamp > Top(file).timestamp
                         /\ Top(m_blocks).timestamp >= Top(file).timestamp
      BY <2>1, <2>4, <2>7 DEF DiskInv
    <3>3. CASE file' = file
      <4>1. Increasing(file', Sound')
        BY <3>1, <3>3 DEF DiskInv
      <4> QED BY <2>2, <3>1, <3>2, <3>3, <4>1 DEF DiskInv, Top
    <3>4. CASE file' = Append(file, rec)
      <4>1. Increasing(file, Len(file))
        BY <3>1 DEF DiskInv
      <4>2. Increasing(Append(file, rec), Len(file) + 1)
        BY <1>t, <2>4, <2>5, <3>2, <4>1, IncreasingAppend
      <4>3. Len(file') = Len(file) + 1 /\ Top(file') = rec
        BY <1>t, <2>5, <3>4, TopAppend
      <4>4. Increasing(file', Sound')
        BY <3>1, <3>4, <4>2, <4>3
      <4>5. adding.b.timestamp \in Nat
        BY <2>1 DEF Block
      <4>6. Top(m_blocks').timestamp >= Top(file').timestamp
        BY <2>2, <2>4, <2>5, <4>3, <4>5
      <4> QED BY <2>2, <2>4, <3>1, <4>4, <4>6 DEF DiskInv
    <3> QED BY <2>3, <3>1, <3>3, <3>4
  <2> QED BY <2>6, <2>7
<1>7. CASE FinishAdd
  BY <1>7, FrameDisk DEF FinishAdd, Idle
<1>8. ASSUME NEW tx \in Transactions, AddTx(tx) PROVE DiskInv'
  BY <1>8, FrameDisk DEF AddTx
<1>9. CASE Tick
  BY <1>9, FrameDisk DEF Tick
<1>10. CASE Shutdown
  BY <1>10, FrameDisk DEF Shutdown
<1>11. CASE Crash
  <2>1. UNCHANGED <<file, tail, damage>> /\ phase' = "down"
    BY <1>11 DEF Crash
  <2> QED
    BY <2>1, SameFile DEF DiskInv
<1>12. CASE UNCHANGED vars
  BY <1>12, FrameDisk DEF vars
<1> QED
  BY <1>1, <1>2, <1>3, <1>4, <1>5, <1>6, <1>7, <1>8, <1>9, <1>10, <1>11, <1>12
  DEF Next

(* Under every combination of lost and torn writes, unreadable files,      *)
(* crashes and late calls: the records written before the first damage are *)
(* in strictly increasing time order and carry a difficulty of at least 1. *)
THEOREM SoundAlwaysIncreases == Spec => []SoundRecordsIncrease
<1>1. DiskInv => SoundRecordsIncrease
  BY DEF DiskInv, Increasing, SoundRecordsIncrease
<1> QED
  BY <1>1, InitTyped, InitDisk, StepTyped, StepPhase, StepDisk, PTL DEF Spec

-----------------------------------------------------------------------------
(* Without I/O faults.  The first n blocks in memory are the first n of    *)
(* the ledger, cumulative difficulties included.                           *)
Mirrors(n) ==
  \A i \in 1..n :
    /\ m_blocks[i].hash = ledger[i].hash
    /\ m_blocks[i].timestamp = ledger[i].timestamp
    /\ m_timestamps[i] = ledger[i].timestamp
    /\ m_cumulative_difficulties[i] = ledger[i].cumulative

(* The file holds the ledger's blocks, and the sums that load_chain forms  *)
(* of its difficulties are the ledger's cumulative difficulties.           *)
FileIsLedger ==
  /\ tail = 0
  /\ Len(file) = Len(ledger)
  /\ \A i \in 1..Len(ledger) :
       /\ file[i].hash = ledger[i].hash
       /\ file[i].timestamp = ledger[i].timestamp
       /\ ledger[i].cumulative =
            (IF i = 1 THEN 0 ELSE ledger[i-1].cumulative) + file[i].difficulty

LedgerTimes == [i \in DOMAIN ledger |-> ledger[i].timestamp]
LedgerCumulatives == [i \in DOMAIN ledger |-> ledger[i].cumulative]

(* A block waiting to be saved extends the ledger as Ledger demands. *)
PendingExtends ==
  /\ adding.b.hash \in Hashes /\ adding.b.timestamp \in Timestamps
  /\ adding.b.prev_id = Top(ledger).hash
  /\ adding.b.timestamp > Top(ledger).timestamp
  /\ adding.diff \in next_difficulty_lwma3(LedgerTimes, LedgerCumulatives)
  /\ pow_ok(adding.b.hash, adding.diff)
  /\ CumulativeTop = Top(ledger).cumulative + adding.diff
  /\ Top(m_timestamps) = adding.b.timestamp

(* The inductive strengthening of RestartRestoresChain. *)
RestoreInv ==
  /\ FileIsLedger
  /\ phase = "loading" => Len(m_blocks) <= Len(ledger) /\ Mirrors(Len(m_blocks))
  /\ phase = "running" =>
       /\ ledger # <<>>
       /\ Len(ledger) <= Len(m_blocks)
       /\ Mirrors(Len(ledger))
       /\ m_opened => Len(m_blocks) =
            Len(ledger) + (IF adding.step = "save" THEN 1 ELSE 0)
  /\ adding.step = "save" /\ m_opened => PendingExtends

(* Without faults a write is complete, or the database is closed. *)
LEMMA NoFaultSave ==
  ASSUME IoFaults = {}, tail = 0, NEW b, NEW h, NEW d, NEW c,
         save_block(b, h, d, c)
  PROVE  \/ ~m_opened /\ UNCHANGED <<file, tail, ledger>>
         \/ /\ m_opened /\ tail' = tail
            /\ file' = Append(file, [height |-> h, timestamp |-> b.timestamp,
                                     difficulty |-> d, hash |-> b.hash])
            /\ ledger' = Append(ledger, [hash |-> b.hash, prev_id |-> b.prev_id,
                                         timestamp |-> b.timestamp,
                                         cumulative |-> c])
<1>1. CASE WriteNothing
  BY <1>1 DEF WriteNothing
<1>2. CASE WriteRecord(b, h, d, c)
  BY <1>2 DEF WriteRecord
<1>3. ASSUME NEW bytes \in 1 .. RecordSize - 1, WriteTorn(bytes) PROVE FALSE
  BY <1>3 DEF WriteTorn
<1> QED
  BY <1>1, <1>2, <1>3 DEF save_block

(* A complete write keeps file and ledger in step. *)
LEMMA WriteKeepsFile ==
  ASSUME ChainTypeOK, FileIsLedger, NEW r \in Record, NEW e \in Entry,
         file' = Append(file, r), ledger' = Append(ledger, e), tail' = tail,
         r.hash = e.hash, r.timestamp = e.timestamp,
         e.cumulative = (IF ledger = <<>> THEN 0 ELSE Top(ledger).cumulative)
                        + r.difficulty
  PROVE  /\ FileIsLedger' /\ ledger' # <<>> /\ Len(ledger') = Len(ledger) + 1
         /\ Top(ledger') = e
         /\ \A i \in 1..Len(ledger) : ledger'[i] = ledger[i]
<1>1. file \in Seq(Record) /\ ledger \in Seq(Entry)
  BY DEF ChainTypeOK
<1> DEFINE n == Len(ledger)
<1>2. /\ Len(file') = n + 1 /\ Len(ledger') = n + 1 /\ n \in Nat
      /\ \A i \in 1..n : file'[i] = file[i] /\ ledger'[i] = ledger[i]
      /\ file'[n + 1] = r /\ ledger'[n + 1] = e
      /\ ledger' # <<>> /\ Top(ledger') = e
  BY <1>1, TopAppend DEF FileIsLedger
<1>3. n # 0 => Top(ledger) = ledger[n]
  BY DEF Top
<1>4. n = 0 <=> ledger = <<>>
  BY <1>1
<1>5. ASSUME NEW i \in 1 .. n + 1
      PROVE  /\ file'[i].hash = ledger'[i].hash
             /\ file'[i].timestamp = ledger'[i].timestamp
             /\ ledger'[i].cumulative =
                  (IF i = 1 THEN 0 ELSE ledger'[i-1].cumulative) + file'[i].difficulty
  <2> HIDE DEF n
  <2>1. CASE i \in 1..n
    <3>1. /\ file[i].hash = ledger[i].hash
          /\ file[i].timestamp = ledger[i].timestamp
          /\ ledger[i].cumulative =
               (IF i = 1 THEN 0 ELSE ledger[i-1].cumulative) + file[i].difficulty
      BY <2>1 DEF FileIsLedger, n
    <3>2. i # 1 => i - 1 \in 1..n
      BY <1>2, <2>1
    <3> QED BY <1>2, <2>1, <3>1, <3>2
  <2>2. CASE i = n + 1
    <3>1. i # 1 => ledger'[i-1] = ledger[n] /\ n # 0
      BY <1>2, <2>2
    <3>2. i = 1 <=> n = 0
      BY <1>2, <2>2
    <3> QED BY <1>2, <1>3, <1>4, <2>2, <3>1, <3>2
  <2> QED BY <1>2, <2>1, <2>2
<1> QED
  BY <1>2, <1>5 DEF FileIsLedger

(* The initial state satisfies RestoreInv. *)
LEMMA InitRestore == Init => RestoreInv
  BY DEF Init, RestoreInv, FileIsLedger, Idle

(* A step that changes neither disk nor memory nor phase, and starts no    *)
(* block, keeps RestoreInv.                                                *)
LEMMA FrameRestore ==
  ASSUME RestoreInv,
         UNCHANGED <<phase, m_blocks, m_timestamps, m_cumulative_difficulties,
                     file, tail, ledger, adding>>,
         m_opened' => m_opened
  PROVE  RestoreInv'
<1>1. FileIsLedger' /\ \A n : Mirrors(n)' <=> Mirrors(n)
  BY DEF RestoreInv, FileIsLedger, Mirrors
<1>2. PendingExtends' <=> PendingExtends
  BY DEF PendingExtends, Top, CumulativeTop, LedgerTimes, LedgerCumulatives
<1> QED
  BY <1>1, <1>2 DEF RestoreInv, Mirrors

(* Without I/O faults every step keeps RestoreInv. *)
LEMMA StepRestore ==
  ASSUME IoFaults = {}
  PROVE  ChainTypeOK /\ PhaseInv /\ RestoreInv /\ [Next]_vars => RestoreInv'
<1> SUFFICES ASSUME ChainTypeOK, PhaseInv, RestoreInv, [Next]_vars PROVE RestoreInv'
  OBVIOUS
<1> USE DEF memory, disk
<1>t. /\ m_blocks \in Seq(Block) /\ file \in Seq(Record) /\ ledger \in Seq(Entry)
      /\ m_timestamps \in Seq(Nat) /\ m_cumulative_difficulties \in Seq(Nat)
      /\ Len(m_timestamps) = Len(m_blocks)
      /\ Len(m_cumulative_difficulties) = Len(m_blocks)
      /\ Len(m_blocks) \in Nat /\ Len(ledger) \in Nat
  BY DEF ChainTypeOK
<1>f. FileIsLedger
  BY DEF RestoreInv
<1>1. CASE Start
  <2>1. /\ UNCHANGED <<file, tail, ledger, m_blocks, adding>>
        /\ phase' = "loading" /\ m_blocks = <<>> /\ adding.step = "idle"
    BY <1>1 DEF Start, PhaseInv, Idle
  <2>2. FileIsLedger'
    BY <1>f, <2>1 DEF FileIsLedger
  <2>3. Len(m_blocks') = 0
    BY <2>1
  <2> QED
    BY <1>t, <2>1, <2>2, <2>3 DEF RestoreInv, Mirrors
<1>2. CASE LoadRecord
  <2> DEFINE k == Len(m_blocks)
             r == file[k + 1]
  <2>1. /\ UNCHANGED <<file, tail, ledger, phase, adding>> /\ phase = "loading"
        /\ k < Len(file) /\ push(BlockOf(r), LoadedCumulative(r))
    BY <1>2 DEF LoadRecord
  <2>2. FileIsLedger'
    BY <1>f, <2>1 DEF FileIsLedger
  <2>3. k + 1 \in 1..Len(ledger) /\ r \in Record
    BY <1>t, <1>f, <2>1 DEF FileIsLedger
  <2>4. /\ BlockOf(r) \in Block
        /\ BlockOf(r).hash = ledger[k + 1].hash
        /\ BlockOf(r).timestamp = ledger[k + 1].timestamp
        /\ BlockOf(r).timestamp \in Nat
    BY <1>f, <2>3, BlockOfTyped DEF FileIsLedger, BlockOf, Record
  <2>5. Mirrors(k)
    BY <2>1 DEF RestoreInv
  <2>6. LoadedCumulative(r) = ledger[k + 1].cumulative
    <3>1. ledger[k + 1].cumulative =
            (IF k + 1 = 1 THEN 0 ELSE ledger[k].cumulative) + r.difficulty
      <4>1. \A i \in 1..Len(ledger) :
              ledger[i].cumulative =
                (IF i = 1 THEN 0 ELSE ledger[i-1].cumulative) + file[i].difficulty
        BY <1>f DEF FileIsLedger
      <4>2. ledger[k + 1].cumulative =
              (IF k + 1 = 1 THEN 0 ELSE ledger[(k + 1) - 1].cumulative)
              + file[k + 1].difficulty
        BY <2>3, <4>1
      <4>3. (k + 1) - 1 = k
        BY <1>t
      <4> QED BY <4>2, <4>3
    <3>2. CumulativeTop = IF k + 1 = 1 THEN 0 ELSE ledger[k].cumulative
      <4>1. CASE k = 0
        BY <1>t, <4>1 DEF CumulativeTop
      <4>2. CASE k # 0
        <5>1. k \in 1..k /\ m_cumulative_difficulties # <<>>
          BY <1>t, <4>2
        <5>2. m_cumulative_difficulties[k] = ledger[k].cumulative
          BY <2>5, <5>1 DEF Mirrors
        <5> QED BY <1>t, <4>2, <5>1, <5>2 DEF CumulativeTop, Top
      <4> QED BY <4>1, <4>2
    <3> QED BY <3>1, <3>2 DEF LoadedCumulative
  <2>7. LoadedCumulative(r) \in Nat
    BY <2>3, CumulativeTopNat DEF LoadedCumulative, Record
  <2> HIDE DEF k, r
  <2>8. /\ Len(m_blocks') = k + 1
        /\ \A i \in 1..k : /\ m_blocks'[i] = m_blocks[i]
                           /\ m_timestamps'[i] = m_timestamps[i]
                           /\ m_cumulative_difficulties'[i] = m_cumulative_difficulties[i]
        /\ m_blocks'[k + 1] = BlockOf(r)
        /\ m_timestamps'[k + 1] = BlockOf(r).timestamp
        /\ m_cumulative_difficulties'[k + 1] = LoadedCumulative(r)
    BY <1>t, <2>1, <2>4, <2>7, TopAppend DEF push, k
  <2>9. ASSUME NEW i \in 1 .. k + 1
        PROVE  /\ m_blocks'[i].hash = ledger'[i].hash
               /\ m_blocks'[i].timestamp = ledger'[i].timestamp
               /\ m_timestamps'[i] = ledger'[i].timestamp
               /\ m_cumulative_difficulties'[i] = ledger'[i].cumulative
    <3>1. CASE i = k + 1
      BY <2>1, <2>4, <2>6, <2>8, <3>1
    <3>2. CASE i \in 1..k
      BY <2>1, <2>5, <2>8, <3>2 DEF Mirrors
    <3> QED BY <1>t, <3>1, <3>2 DEF k
  <2>10. adding.step = "idle"
    BY <2>1 DEF PhaseInv, Idle
  <2>11. k + 1 <= Len(ledger)
    BY <2>3
  <2>12. Mirrors(Len(m_blocks))'
    BY <2>8, <2>9 DEF Mirrors
  <2>13. /\ phase' = "loading" /\ adding'.step = "idle"
         /\ Len(m_blocks') <= Len(ledger')
    BY <2>1, <2>8, <2>10, <2>11
  <2> QED
    BY <2>2, <2>12, <2>13 DEF RestoreInv
<1>3. CASE Resume
  <2>1. /\ UNCHANGED <<file, tail, ledger, adding, m_blocks, m_timestamps,
                       m_cumulative_difficulties, m_opened>>
        /\ phase = "loading" /\ phase' = "running"
        /\ Len(m_blocks) = Len(file) /\ m_blocks # <<>> /\ adding.step = "idle"
    BY <1>3 DEF Resume, PhaseInv, Idle
  <2>2. FileIsLedger' /\ Len(m_blocks) = Len(ledger)
    BY <1>f, <2>1 DEF FileIsLedger
  <2>3. Mirrors(Len(ledger))'
    BY <2>1, <2>2 DEF RestoreInv, Mirrors
  <2>4. ledger # <<>>
    BY <1>t, <2>1, <2>2
  <2> QED
    BY <1>t, <2>1, <2>2, <2>3, <2>4 DEF RestoreInv
<1>4. CASE CreateGenesis
  <2>1. /\ phase = "loading" /\ phase' = "running" /\ m_blocks = <<>>
        /\ file = <<>> /\ push(Genesis, 1) /\ save_block(Genesis, 0, 1, 1)
        /\ adding' = adding /\ adding.step = "idle" /\ m_opened /\ m_opened'
    BY <1>4 DEF CreateGenesis, PhaseInv, Idle
  <2>2. ledger = <<>> /\ m_timestamps = <<>> /\ m_cumulative_difficulties = <<>>
    BY <1>t, <1>f, <2>1 DEF FileIsLedger
  <2> DEFINE rec == [height |-> 0, timestamp |-> Genesis.timestamp,
                     difficulty |-> 1, hash |-> Genesis.hash]
             ent == [hash |-> Genesis.hash, prev_id |-> Genesis.prev_id,
                     timestamp |-> Genesis.timestamp, cumulative |-> 1]
  <2>3. file' = Append(file, rec) /\ ledger' = Append(ledger, ent) /\ tail' = tail
    BY <1>f, <2>1, NoFaultSave DEF FileIsLedger
  <2>4. rec \in Record /\ ent \in Entry
    BY HashesAssumption, TimesAssumption DEF Genesis, Record, Entry
  <2>5. /\ rec.hash = ent.hash /\ rec.timestamp = ent.timestamp
        /\ ent.cumulative = 0 + rec.difficulty
        /\ ent.hash = Genesis.hash /\ ent.timestamp = Genesis.timestamp
        /\ ent.cumulative = 1
    OBVIOUS
  <2> HIDE DEF rec, ent
  <2>6. /\ FileIsLedger' /\ ledger' # <<>> /\ Len(ledger') = Len(ledger) + 1
        /\ Top(ledger') = ent
    BY <1>f, <2>2, <2>3, <2>4, <2>5, WriteKeepsFile
  <2>7. /\ Len(m_blocks') = 1 /\ m_blocks'[1] = Genesis
        /\ m_timestamps'[1] = Genesis.timestamp
        /\ m_cumulative_difficulties'[1] = 1
    BY <2>1, <2>2 DEF push
  <2>8. Len(ledger') = 1 /\ ledger'[1] = ent
    BY <2>2, <2>6 DEF Top
  <2>9. Mirrors(Len(ledger))'
    BY <2>5, <2>7, <2>8 DEF Mirrors
  <2>10. /\ phase' = "running" /\ adding'.step = "idle"
         /\ Len(ledger') <= Len(m_blocks') /\ Len(m_blocks') = Len(ledger') + 0
    BY <2>1, <2>7, <2>8
  <2> QED
    BY <2>6, <2>9, <2>10 DEF RestoreInv
<1>5. ASSUME NEW b \in OfferedBlocks, AddNewBlock(b) PROVE RestoreInv'
  <2> DEFINE n == Len(ledger)
  <2>1. PICK d \in get_current_difficulty :
          /\ pow_ok(b.hash, d)
          /\ push(b, CumulativeTop + d)
          /\ adding' = [step |-> "save", b |-> b, height |-> Len(m_blocks), diff |-> d]
    BY <1>5 DEF AddNewBlock
  <2>2. /\ UNCHANGED <<file, tail, ledger, phase, m_opened>>
        /\ phase = "running" /\ adding = Idle
        /\ b.prev_id = Top(m_blocks).hash
        /\ b.timestamp > Top(m_blocks).timestamp
    BY <1>5 DEF AddNewBlock, ValidHeader
  <2>3. b \in Block /\ b.hash \in Hashes /\ b.timestamp \in Timestamps
        /\ b.timestamp \in Nat
    BY TimesAssumption DEF OfferedBlocks, Block
  <2>4. d \in Nat /\ CumulativeTop \in Nat /\ CumulativeTop + d \in Nat
    BY CurrentDifficulty, CumulativeTopNat
  <2>5. /\ m_blocks' = Append(m_blocks, b)
        /\ m_timestamps' = Append(m_timestamps, b.timestamp)
        /\ m_cumulative_difficulties' = Append(m_cumulative_difficulties, CumulativeTop + d)
    BY <2>1 DEF push
  <2>6. /\ ledger # <<>> /\ n <= Len(m_blocks) /\ Mirrors(n)
        /\ m_opened => Len(m_blocks) = n
    BY <2>2 DEF RestoreInv, Idle
  <2>7. FileIsLedger'
    BY <1>f, <2>2 DEF FileIsLedger
  <2>8. Len(m_blocks') = Len(m_blocks) + 1
    BY <1>t, <2>3, <2>5
  <2>9. Mirrors(n)'
    <3>1. \A i \in 1..n : /\ m_blocks'[i] = m_blocks[i]
                          /\ m_timestamps'[i] = m_timestamps[i]
                          /\ m_cumulative_difficulties'[i] = m_cumulative_difficulties[i]
      <4> SUFFICES ASSUME NEW i \in 1..n
                   PROVE  /\ m_blocks'[i] = m_blocks[i]
                          /\ m_timestamps'[i] = m_timestamps[i]
                          /\ m_cumulative_difficulties'[i] = m_cumulative_difficulties[i]
        OBVIOUS
      <4>1. i \in 1..Len(m_blocks)
        BY <1>t, <2>6
      <4>2. m_blocks'[i] = m_blocks[i]
        BY <1>t, <2>3, <2>5, <4>1
      <4>3. m_timestamps'[i] = m_timestamps[i]
        BY <1>t, <2>3, <2>4, <2>5, <4>1
      <4>4. m_cumulative_difficulties'[i] = m_cumulative_difficulties[i]
        BY <1>t, <2>3, <2>4, <2>5, <4>1
      <4> QED BY <4>2, <4>3, <4>4
    <3> QED BY <2>2, <2>6, <3>1 DEF Mirrors
  <2>10. ASSUME m_opened PROVE PendingExtends'
    <3>1. Len(m_blocks) = n /\ n >= 1
      BY <1>t, <2>6, <2>10
    <3>2. /\ Top(m_blocks).hash = Top(ledger).hash
          /\ Top(m_blocks).timestamp = Top(ledger).timestamp
          /\ CumulativeTop = Top(ledger).cumulative
      <4>1. n \in 1..n /\ m_cumulative_difficulties # <<>>
        BY <1>t, <3>1
      <4> QED BY <1>t, <2>6, <3>1, <4>1 DEF Mirrors, Top, CumulativeTop
    <3>3. m_timestamps = LedgerTimes /\ m_cumulative_difficulties = LedgerCumulatives
      <4>1. /\ DOMAIN m_timestamps = 1..n /\ DOMAIN m_cumulative_difficulties = 1..n
            /\ DOMAIN ledger = 1..n
        BY <1>t, <3>1
      <4>2. \A i \in 1..n : /\ m_timestamps[i] = ledger[i].timestamp
                            /\ m_cumulative_difficulties[i] = ledger[i].cumulative
        BY <2>6 DEF Mirrors
      <4>3. /\ m_timestamps = [i \in 1..n |-> m_timestamps[i]]
            /\ m_cumulative_difficulties = [i \in 1..n |-> m_cumulative_difficulties[i]]
        BY <1>t, <4>1
      <4> QED BY <4>1, <4>2, <4>3 DEF LedgerTimes, LedgerCumulatives
    <3>4. d \in next_difficulty_lwma3(LedgerTimes, LedgerCumulatives)
      BY <2>1, <3>3 DEF get_current_difficulty
    <3>5. LedgerTimes' = LedgerTimes /\ LedgerCumulatives' = LedgerCumulatives
          /\ Top(ledger') = Top(ledger)
      BY <2>2 DEF LedgerTimes, LedgerCumulatives, Top
    <3>6. CumulativeTop' = CumulativeTop + d /\ Top(m_timestamps') = b.timestamp
      BY <1>t, <2>3, <2>4, <2>5, TopAppend DEF CumulativeTop
    <3>7. adding'.b = b /\ adding'.diff = d
      BY <2>1
    <3> QED
      BY <2>1, <2>2, <2>3, <3>2, <3>4, <3>5, <3>6, <3>7 DEF PendingExtends
  <2>11. adding'.step = "save"
    BY <2>1
  <2>12. /\ n <= Len(m_blocks')
         /\ m_opened => Len(m_blocks') = n + 1
    BY <1>t, <2>6, <2>8
  <2> QED
    BY <2>2, <2>6, <2>7, <2>9, <2>10, <2>11, <2>12 DEF RestoreInv
<1>6. CASE SaveBlock
  <2>1. /\ adding \in [step : {"save", "remove"}, b : Block, height : Nat,
                       diff : Nat]
        /\ adding.b \in Block /\ adding.height \in Nat /\ adding.diff \in Nat
        /\ adding.step = "save"
    BY <1>6, AddingTyped DEF SaveBlock
  <2>2. /\ save_block(adding.b, adding.height, adding.diff, CumulativeTop)
        /\ UNCHANGED <<phase, m_opened, m_blocks, m_timestamps,
                       m_cumulative_difficulties>>
        /\ adding'.step = "remove"
    BY <1>6, <2>1 DEF SaveBlock
  <2>3. phase = "running"
    BY <2>1 DEF PhaseInv, ChainTypeOK, Idle
  <2>4. adding.b = Top(m_blocks)
    BY <2>1 DEF PhaseInv
  <2>5. /\ ledger # <<>> /\ Len(ledger) <= Len(m_blocks) /\ Mirrors(Len(ledger))
        /\ m_opened => Len(m_blocks) = Len(ledger) + 1
    BY <2>1, <2>3 DEF RestoreInv
  <2> DEFINE rec == [height |-> adding.height, timestamp |-> adding.b.timestamp,
                     difficulty |-> adding.diff, hash |-> adding.b.hash]
             ent == [hash |-> adding.b.hash, prev_id |-> adding.b.prev_id,
                     timestamp |-> adding.b.timestamp, cumulative |-> CumulativeTop]
  <2>6. \/ ~m_opened /\ UNCHANGED <<file, tail, ledger>>
        \/ /\ m_opened /\ tail' = tail
           /\ file' = Append(file, rec) /\ ledger' = Append(ledger, ent)
    BY <1>f, <2>2, NoFaultSave DEF FileIsLedger
  <2>7. CASE ~m_opened /\ UNCHANGED <<file, tail, ledger>>
    <3>1. FileIsLedger' /\ Mirrors(Len(ledger))'
      BY <1>f, <2>2, <2>5, <2>7 DEF FileIsLedger, Mirrors
    <3> QED BY <2>2, <2>5, <2>7, <3>1 DEF RestoreInv
  <2>8. CASE /\ m_opened /\ tail' = tail
             /\ file' = Append(file, rec) /\ ledger' = Append(ledger, ent)
    <3>1. PendingExtends /\ Len(m_blocks) = Len(ledger) + 1
      BY <2>1, <2>5, <2>8 DEF RestoreInv
    <3>2. CumulativeTop = Top(ledger).cumulative + adding.diff
          /\ Top(m_timestamps) = adding.b.timestamp
      BY <3>1 DEF PendingExtends
    <3>3. rec \in Record /\ ent \in Entry
      BY <2>1, CumulativeTopNat DEF Record, Entry, Block
    <3>4. /\ rec.hash = ent.hash /\ rec.timestamp = ent.timestamp
          /\ ent.cumulative = Top(ledger).cumulative + rec.difficulty
          /\ ent.hash = adding.b.hash /\ ent.timestamp = adding.b.timestamp
          /\ ent.cumulative = CumulativeTop
      BY <3>2
    <3> HIDE DEF rec, ent
    <3>5. /\ FileIsLedger' /\ ledger' # <<>> /\ Len(ledger') = Len(ledger) + 1
          /\ Top(ledger') = ent
          /\ \A i \in 1..Len(ledger) : ledger'[i] = ledger[i]
      BY <1>f, <2>5, <2>8, <3>3, <3>4, WriteKeepsFile
    <3> DEFINE n == Len(ledger)
    <3>6. /\ m_blocks[n + 1] = adding.b
          /\ m_timestamps[n + 1] = adding.b.timestamp
          /\ m_cumulative_difficulties[n + 1] = CumulativeTop
      <4>1. m_cumulative_difficulties # <<>>
        BY <1>t, <3>1
      <4> QED BY <1>t, <2>4, <3>1, <3>2, <4>1 DEF Top, CumulativeTop
    <3>7. ledger'[n + 1] = ent
      BY <3>5 DEF Top
    <3>8. ASSUME NEW i \in 1 .. n + 1
          PROVE  /\ m_blocks'[i].hash = ledger'[i].hash
                 /\ m_blocks'[i].timestamp = ledger'[i].timestamp
                 /\ m_timestamps'[i] = ledger'[i].timestamp
                 /\ m_cumulative_difficulties'[i] = ledger'[i].cumulative
      <4>1. CASE i = n + 1
        BY <2>2, <3>4, <3>6, <3>7, <4>1
      <4>2. CASE i \in 1..n
        BY <2>2, <2>5, <3>5, <4>2 DEF Mirrors
      <4> QED BY <1>t, <4>1, <4>2
    <3>9. Len(ledger') <= Len(m_blocks') /\ Len(m_blocks') = Len(ledger') + 0
      BY <1>t, <2>2, <3>1, <3>5
    <3>10. Mirrors(Len(ledger))'
      BY <3>5, <3>8 DEF Mirrors
    <3> QED BY <2>2, <3>5, <3>9, <3>10 DEF RestoreInv
  <2> QED BY <2>6, <2>7, <2>8
<1>7. CASE FinishAdd
  <2>1. /\ UNCHANGED <<phase, m_opened, m_blocks, m_timestamps,
                       m_cumulative_difficulties, file, tail, ledger>>
        /\ adding.step = "remove" /\ adding'.step = "idle"
    BY <1>7 DEF FinishAdd, Idle
  <2>2. FileIsLedger' /\ \A n : Mirrors(n)' <=> Mirrors(n)
    BY <1>f, <2>1 DEF FileIsLedger, Mirrors
  <2> QED BY <2>1, <2>2 DEF RestoreInv, Mirrors
<1>8. ASSUME NEW tx \in Transactions, AddTx(tx) PROVE RestoreInv'
  BY <1>8, FrameRestore DEF AddTx
<1>9. CASE Tick
  BY <1>9, FrameRestore DEF Tick
<1>10. CASE Shutdown
  BY <1>10, FrameRestore DEF Shutdown
<1>11. CASE Crash
  <2>1. UNCHANGED <<file, tail, ledger>> /\ phase' = "down" /\ adding' = Idle
    BY <1>11 DEF Crash
  <2>2. FileIsLedger'
    BY <1>f, <2>1 DEF FileIsLedger
  <2> QED BY <2>1, <2>2 DEF RestoreInv, Idle
<1>12. CASE UNCHANGED vars
  BY <1>12, FrameRestore DEF vars
<1> QED
  BY <1>1, <1>2, <1>3, <1>4, <1>5, <1>6, <1>7, <1>8, <1>9, <1>10, <1>11, <1>12
  DEF Next

(* Without I/O faults, for every chain length and every placement of       *)
(* crashes, restarts and shutdown: a restart restores exactly the          *)
(* committed chain, cumulative difficulties included.                      *)
THEOREM RestartsRestore ==
  ASSUME IoFaults = {}
  PROVE  Spec => []RestartRestoresChain
<1>1. ChainTypeOK /\ RestoreInv => RestartRestoresChain
  BY DEF ChainTypeOK, RestoreInv, RestartRestoresChain, Mirrors
<1>2. ChainTypeOK /\ PhaseInv /\ RestoreInv /\ [Next]_vars => RestoreInv'
  BY StepRestore
<1> QED
  BY <1>1, <1>2, InitTyped, InitDisk, InitRestore, StepTyped, StepPhase, PTL DEF Spec

(* Without I/O faults every step of the node is a step of the abstract     *)
(* ledger or leaves the ledger alone.                                      *)
LEMMA StepImplements ==
  ASSUME IoFaults = {}
  PROVE  ChainTypeOK /\ PhaseInv /\ RestoreInv /\ [Next]_vars
           => [L!LedgerNext]_ledger
<1> SUFFICES ASSUME ChainTypeOK, PhaseInv, RestoreInv, [Next]_vars
             PROVE  L!LedgerNext \/ UNCHANGED ledger
  OBVIOUS
<1> USE DEF memory, disk
<1>f. FileIsLedger /\ ledger \in Seq(Entry)
  BY DEF RestoreInv, ChainTypeOK
<1>1. CASE CreateGenesis
  <2>1. /\ phase = "loading" /\ file = <<>> /\ save_block(Genesis, 0, 1, 1)
    BY <1>1 DEF CreateGenesis
  <2>2. m_opened /\ ledger = <<>>
    BY <1>f, <2>1 DEF PhaseInv, FileIsLedger
  <2>3. ledger' = Append(ledger, [hash |-> Genesis.hash, prev_id |-> Genesis.prev_id,
                                  timestamp |-> Genesis.timestamp, cumulative |-> 1])
    BY <1>f, <2>1, <2>2, NoFaultSave DEF FileIsLedger
  <2>4. ledger' = <<L!GenesisEntry>>
    BY <2>2, <2>3 DEF Genesis, L!GenesisEntry
  <2> QED BY <2>2, <2>4 DEF L!LedgerNext, L!Begin
<1>2. CASE SaveBlock
  <2>1. /\ adding.step = "save"
        /\ save_block(adding.b, adding.height, adding.diff, CumulativeTop)
    BY <1>2 DEF SaveBlock
  <2> DEFINE rec == [height |-> adding.height, timestamp |-> adding.b.timestamp,
                     difficulty |-> adding.diff, hash |-> adding.b.hash]
             ent == [hash |-> adding.b.hash, prev_id |-> adding.b.prev_id,
                     timestamp |-> adding.b.timestamp, cumulative |-> CumulativeTop]
  <2>2. \/ ~m_opened /\ UNCHANGED <<file, tail, ledger>>
        \/ /\ m_opened /\ tail' = tail
           /\ file' = Append(file, rec) /\ ledger' = Append(ledger, ent)
    BY <1>f, <2>1, NoFaultSave DEF FileIsLedger
  <2>3. CASE m_opened /\ ledger' = Append(ledger, ent)
    <3>1. ledger' = Append(ledger, ent)
      BY <2>3
    <3>2. PendingExtends
      BY <2>1, <2>3 DEF RestoreInv
    <3>3. phase = "running"
      BY <2>1 DEF PhaseInv, ChainTypeOK, Idle
    <3>4. ledger # <<>>
      BY <3>3 DEF RestoreInv
    <3>5. Top(ledger) = L!Tip
      BY DEF Top, L!Tip
    <3>6. L!Extend(adding.b.hash, adding.b.timestamp)
      BY <3>1, <3>2, <3>4, <3>5
      DEF PendingExtends, L!Extend, LedgerTimes, LedgerCumulatives
    <3>7. adding.b.hash \in Hashes /\ adding.b.timestamp \in Timestamps
      BY <3>2 DEF PendingExtends
    <3> QED BY <3>6, <3>7 DEF L!LedgerNext
  <2> QED BY <2>2, <2>3
<1>3. CASE Start \/ LoadRecord \/ Resume
  BY <1>3 DEF Start, LoadRecord, Resume
<1>4. ASSUME NEW b \in OfferedBlocks, AddNewBlock(b) PROVE UNCHANGED ledger
  BY <1>4 DEF AddNewBlock
<1>5. ASSUME NEW tx \in Transactions, AddTx(tx) PROVE UNCHANGED ledger
  BY <1>5 DEF AddTx
<1>6. CASE FinishAdd \/ Tick \/ Shutdown \/ Crash
  BY <1>6 DEF FinishAdd, Tick, Shutdown, Crash
<1>7. CASE UNCHANGED vars
  BY <1>7 DEF vars
<1> QED
  BY <1>1, <1>2, <1>3, <1>4, <1>5, <1>6, <1>7 DEF Next

(* Without I/O faults the node implements Ledger: the committed blocks     *)
(* form one linked, append-only, valid chain, over any number of crashes   *)
(* and restarts.                                                           *)
THEOREM NodeImplementsLedger ==
  ASSUME IoFaults = {}
  PROVE  Spec => ImplementsLedger
<1>1. Init => L!LedgerInit
  BY DEF Init, L!LedgerInit
<1>2. ChainTypeOK /\ PhaseInv /\ RestoreInv /\ [Next]_vars => RestoreInv'
  BY StepRestore
<1>3. ChainTypeOK /\ PhaseInv /\ RestoreInv /\ [Next]_vars => [L!LedgerNext]_ledger
  BY StepImplements
<1> QED
  BY <1>1, <1>2, <1>3, InitTyped, InitDisk, InitRestore, StepTyped, StepPhase, PTL
  DEF Spec, ImplementsLedger, L!LedgerSpec
-----------------------------------------------------------------------------
(* Under every I/O fault.  Until the first damage the file and the ledger  *)
(* grow together, so the sound records are the first blocks of the ledger; *)
(* and a load that is under way has copied a prefix of the file.           *)
SoundIsLedger ==
  /\ damage = Undamaged => Len(ledger) = Len(file)
  /\ Sound <= Len(ledger)
  /\ \A i \in 1..Sound : /\ file[i].hash = ledger[i].hash
                         /\ file[i].timestamp = ledger[i].timestamp

LoadedPrefix ==
  phase = "loading" =>
    /\ Len(m_blocks) <= Len(file)
    /\ \A i \in 1..Len(m_blocks) : /\ m_blocks[i].hash = file[i].hash
                                   /\ m_timestamps[i] = file[i].timestamp

LEMMA InitSound == Init => SoundIsLedger /\ LoadedPrefix
  BY DEF Init, SoundIsLedger, LoadedPrefix, Sound, Undamaged

(* What one call of save_block leaves of the ledger and of the file. *)
LEMMA SaveLedger ==
  ASSUME ChainTypeOK, NEW b \in Block, NEW h \in Nat, NEW d \in Nat, NEW c \in Nat,
         save_block(b, h, d, c)
  PROVE  /\ ledger' = ledger \/ \E e \in Entry : ledger' = Append(ledger, e)
         /\ file' = file \/ \E chunk \in Record : file' = Append(file, chunk)
         /\ tail' = tail /\ tail = 0 =>
              \/ file' = file /\ ledger' = ledger
              \/ \E chunk \in Record, e \in Entry :
                   /\ file' = Append(file, chunk) /\ ledger' = Append(ledger, e)
                   /\ chunk.hash = e.hash /\ chunk.timestamp = e.timestamp
<1> DEFINE rec == [height |-> h, timestamp |-> b.timestamp,
                   difficulty |-> d, hash |-> b.hash]
           ent == [hash |-> b.hash, prev_id |-> b.prev_id,
                   timestamp |-> b.timestamp, cumulative |-> c]
<1>1. rec \in Record /\ ent \in Entry /\ rec.hash = ent.hash
      /\ rec.timestamp = ent.timestamp
  BY DEF Block, Record, Entry
<1>2. file' = file \/ \E chunk \in Record : file' = Append(file, chunk)
  BY SaveOutcome
<1>3. CASE WriteNothing
  BY <1>3 DEF WriteNothing
<1>4. CASE WriteRecord(b, h, d, c)
  <2>1. PICK chunk \in IF tail = 0 THEN {rec} ELSE Garbage :
          file' = Append(file, chunk)
    BY <1>4 DEF WriteRecord
  <2>2. ledger' = Append(ledger, ent)
    BY <1>4 DEF WriteRecord
  <2> HIDE DEF rec, ent
  <2> QED
    BY <1>1, <1>2, <2>1, <2>2
<1>5. ASSUME NEW bytes \in 1 .. RecordSize - 1, WriteTorn(bytes)
      PROVE  tail' # tail /\ ledger' = ledger
  <2>1. tail \in 0 .. RecordSize - 1
    BY DEF ChainTypeOK
  <2>2. tail' = tail + bytes \/ tail' = tail + bytes - RecordSize
    BY <1>5 DEF WriteTorn
  <2>3. ledger' = ledger
    BY <1>5 DEF WriteTorn
  <2> QED
    BY <2>1, <2>2, <2>3, BoundsAssumption
<1> QED
  BY <1>2, <1>3, <1>4, <1>5 DEF save_block

(* A write that damages nothing extends the file and the ledger by the     *)
(* same block; one that does, or that comes after the damage, leaves the   *)
(* sound records and the first blocks of the ledger in place.              *)
LEMMA WriteKeepsSound ==
  ASSUME ChainTypeOK, DiskInv, SoundIsLedger,
         NEW b \in Block, NEW h \in Nat, NEW d \in Nat, NEW c \in Nat,
         save_block(b, h, d, c),
         \/ damage' = Sound
         \/ damage' = damage /\ tail' = tail
  PROVE  SoundIsLedger'
<1>1. /\ file \in Seq(Record) /\ ledger \in Seq(Entry) /\ Sound \in Nat
      /\ damage \in Nat \union {Undamaged}
  BY SoundNat DEF ChainTypeOK
<1>2. Sound <= Len(file) /\ Sound <= Len(ledger)
  BY <1>1 DEF DiskInv, Sound, SoundIsLedger
<1>3. ledger' = ledger \/ \E e \in Entry : ledger' = Append(ledger, e)
  BY SaveLedger
<1>4. file' = file \/ \E chunk \in Record : file' = Append(file, chunk)
  BY SaveLedger
<1>5. /\ Len(ledger') >= Len(ledger) /\ Len(file') >= Len(file)
      /\ Len(ledger') \in Nat /\ Len(file') \in Nat
  BY <1>1, <1>3, <1>4
<1>6. \A i \in 1..Sound : file'[i] = file[i] /\ ledger'[i] = ledger[i]
  <2> SUFFICES ASSUME NEW i \in 1..Sound
               PROVE  file'[i] = file[i] /\ ledger'[i] = ledger[i]
    OBVIOUS
  <2>1. i \in 1..Len(file) /\ i \in 1..Len(ledger)
    BY <1>1, <1>2
  <2>2. file'[i] = file[i]
    BY <1>1, <1>4, <2>1
  <2>3. ledger'[i] = ledger[i]
    BY <1>1, <1>3, <2>1
  <2> QED BY <2>2, <2>3
<1>7. CASE damage' = Sound \/ (damage' = damage /\ damage # Undamaged)
  <2>1. damage' # Undamaged /\ Sound' = Sound
    BY <1>1, <1>7 DEF Sound, Undamaged
  <2>2. Sound' <= Len(ledger')
    BY <1>1, <1>2, <1>5, <2>1
  <2>3. \A i \in 1..Sound : /\ file'[i].hash = ledger'[i].hash
                            /\ file'[i].timestamp = ledger'[i].timestamp
    BY <1>6 DEF SoundIsLedger
  <2> QED
    BY <2>1, <2>2, <2>3 DEF SoundIsLedger
<1>8. CASE damage' = damage /\ damage = Undamaged /\ tail' = tail
  <2>1. tail = 0 /\ Sound = Len(file) /\ Len(ledger) = Len(file) /\ Sound' = Len(file')
    BY <1>8 DEF DiskInv, Sound, SoundIsLedger
  <2>2. CASE file' = file /\ ledger' = ledger
    BY <1>8, <2>1, <2>2 DEF SoundIsLedger, Sound
  <2>3. ASSUME NEW chunk \in Record, NEW e \in Entry,
               file' = Append(file, chunk), ledger' = Append(ledger, e),
               chunk.hash = e.hash, chunk.timestamp = e.timestamp
        PROVE  SoundIsLedger'
    <3>1. /\ Len(file') = Len(file) + 1 /\ Len(ledger') = Len(file) + 1
          /\ file'[Len(file) + 1] = chunk /\ ledger'[Len(file) + 1] = e
          /\ Len(file) \in Nat
      BY <1>1, <2>1, <2>3
    <3>2. \A i \in 1 .. Len(file) + 1 : i \in 1..Sound \/ i = Len(file) + 1
      BY <2>1, <3>1
    <3>3. \A i \in 1 .. Len(file) + 1 : /\ file'[i].hash = ledger'[i].hash
                                        /\ file'[i].timestamp = ledger'[i].timestamp
      BY <1>6, <2>3, <3>1, <3>2 DEF SoundIsLedger
    <3> QED
      BY <2>1, <3>1, <3>3 DEF SoundIsLedger
  <2> QED
    BY <1>8, <2>1, <2>2, <2>3, SaveLedger
<1> QED
  BY <1>7, <1>8

(* Every step keeps both, whatever faults the environment produces. *)
LEMMA StepSound ==
  ChainTypeOK /\ PhaseInv /\ DiskInv /\ SoundIsLedger /\ LoadedPrefix /\ [Next]_vars
    => SoundIsLedger' /\ LoadedPrefix'
<1> SUFFICES ASSUME ChainTypeOK, PhaseInv, DiskInv, SoundIsLedger, LoadedPrefix,
                    [Next]_vars
             PROVE  SoundIsLedger' /\ LoadedPrefix'
  OBVIOUS
<1> USE DEF memory, disk
<1>0. ASSUME UNCHANGED <<file, ledger, damage>> PROVE SoundIsLedger'
  BY <1>0 DEF SoundIsLedger, Sound
<1>1. CASE Start
  <2>1. m_blocks' = <<>> /\ UNCHANGED <<file, ledger, damage>> /\ Len(file) \in Nat
    BY <1>1 DEF Start, PhaseInv, ChainTypeOK
  <2> QED BY <1>0, <2>1 DEF LoadedPrefix
<1>2. CASE LoadRecord
  <2> DEFINE r == file[Len(m_blocks) + 1]
  <2>1. /\ phase = "loading" /\ Len(m_blocks) < Len(file)
        /\ push(BlockOf(r), LoadedCumulative(r))
        /\ UNCHANGED <<file, ledger, damage>>
    BY <1>2 DEF LoadRecord
  <2>2. /\ m_blocks \in Seq(Block) /\ m_timestamps \in Seq(Nat) /\ file \in Seq(Record)
        /\ Len(m_timestamps) = Len(m_blocks)
    BY DEF ChainTypeOK
  <2>3. r \in Record
    BY <2>1, <2>2
  <2>4. /\ m_blocks' = Append(m_blocks, BlockOf(r)) /\ BlockOf(r) \in Block
        /\ m_timestamps' = Append(m_timestamps, BlockOf(r).timestamp)
        /\ BlockOf(r).timestamp = r.timestamp /\ BlockOf(r).hash = r.hash
        /\ BlockOf(r).timestamp \in Nat
    BY <2>1, <2>3, BlockOfTyped DEF push, BlockOf, Record
  <2>5. /\ Len(m_blocks') = Len(m_blocks) + 1 /\ Len(m_blocks) \in Nat
        /\ m_blocks'[Len(m_blocks) + 1] = BlockOf(r)
        /\ \A i \in 1..Len(m_blocks) : m_blocks'[i] = m_blocks[i]
    BY <2>2, <2>4
  <2>6. /\ m_timestamps'[Len(m_blocks) + 1] = BlockOf(r).timestamp
        /\ \A i \in 1..Len(m_blocks) : m_timestamps'[i] = m_timestamps[i]
    BY <2>2, <2>4
  <2>7. ASSUME NEW i \in 1..Len(m_blocks')
        PROVE  m_blocks'[i].hash = file'[i].hash /\ m_timestamps'[i] = file'[i].timestamp
    <3>1. CASE i = Len(m_blocks) + 1
      BY <2>1, <2>4, <2>5, <2>6, <3>1
    <3>2. CASE i \in 1..Len(m_blocks)
      BY <2>1, <2>5, <2>6, <3>2 DEF LoadedPrefix
    <3> QED BY <2>5, <3>1, <3>2
  <2>8. Len(m_blocks') <= Len(file')
    BY <2>1, <2>2, <2>5
  <2> QED
    BY <1>0, <2>1, <2>7, <2>8 DEF LoadedPrefix
<1>3. CASE Resume
  BY <1>0, <1>3 DEF Resume, LoadedPrefix
<1>4. CASE CreateGenesis
  <2>1. save_block(Genesis, 0, 1, 1) /\ phase' = "running"
    BY <1>4 DEF CreateGenesis
  <2>2. damage' = Sound \/ (damage' = damage /\ tail' = tail)
    BY <1>4 DEF CreateGenesis
  <2> QED
    BY <2>1, <2>2, GenesisTyped, WriteKeepsSound DEF LoadedPrefix
<1>5. ASSUME NEW b \in OfferedBlocks, AddNewBlock(b)
      PROVE  SoundIsLedger' /\ LoadedPrefix'
  BY <1>0, <1>5 DEF AddNewBlock, LoadedPrefix
<1>6. CASE SaveBlock
  <2>1. /\ save_block(adding.b, adding.height, adding.diff, CumulativeTop)
        /\ adding.step = "save" /\ phase' = phase
    BY <1>6 DEF SaveBlock
  <2>2. damage' = Sound \/ (damage' = damage /\ tail' = tail)
    BY <1>6 DEF SaveBlock
  <2>3. adding.b \in Block /\ adding.height \in Nat /\ adding.diff \in Nat
    BY <2>1, AddingTyped
  <2>4. phase # "loading"
    BY <2>1 DEF PhaseInv, Idle
  <2> QED
    BY <2>1, <2>2, <2>3, <2>4, CumulativeTopNat, WriteKeepsSound DEF LoadedPrefix
<1>7. CASE FinishAdd
  BY <1>0, <1>7 DEF FinishAdd, LoadedPrefix
<1>8. ASSUME NEW tx \in Transactions, AddTx(tx)
      PROVE  SoundIsLedger' /\ LoadedPrefix'
  BY <1>0, <1>8 DEF AddTx, LoadedPrefix
<1>9. CASE Tick
  BY <1>0, <1>9 DEF Tick, LoadedPrefix
<1>10. CASE Shutdown
  BY <1>0, <1>10 DEF Shutdown, LoadedPrefix
<1>11. CASE Crash
  BY <1>0, <1>11 DEF Crash, LoadedPrefix
<1>12. CASE UNCHANGED vars
  BY <1>0, <1>12 DEF vars, LoadedPrefix
<1> QED
  BY <1>1, <1>2, <1>3, <1>4, <1>5, <1>6, <1>7, <1>8, <1>9, <1>10, <1>11, <1>12
  DEF Next

(* Under every I/O fault, for every chain length and number of restarts: a *)
(* restart that can read the file brings back, in place, every block       *)
(* committed before the first damage (lmdb_storage.cpp:53-76).             *)
THEOREM RestartsKeepSound == Spec => ResumeKeepsSound
<1> DEFINE Kept == phase = "loading" /\ phase' = "running" /\ Len(m_blocks) > 0 =>
                     \A i \in 1..Sound :
                       /\ m_blocks[i].hash = ledger[i].hash
                       /\ m_timestamps[i] = ledger[i].timestamp
<1>1. ASSUME ChainTypeOK, PhaseInv, DiskInv, SoundIsLedger, LoadedPrefix, [Next]_vars
      PROVE  [Kept]_vars
  <2> SUFFICES ASSUME phase = "loading", phase' = "running", Len(m_blocks) > 0,
                      NEW i \in 1..Sound
               PROVE  /\ m_blocks[i].hash = ledger[i].hash
                      /\ m_timestamps[i] = ledger[i].timestamp
    OBVIOUS
  <2>1. Resume \/ CreateGenesis
    BY <1>1 DEF Next, Start, LoadRecord, AddNewBlock, SaveBlock, FinishAdd, AddTx,
                Tick, Shutdown, Crash, vars
  <2>2. m_blocks # <<>>
    BY <1>1 DEF ChainTypeOK
  <2>3. Len(m_blocks) = Len(file)
    BY <2>1, <2>2 DEF Resume, CreateGenesis
  <2>4. i \in 1..Len(m_blocks)
    <3>1. Sound \in Nat /\ Len(file) \in Nat
      BY <1>1, SoundNat DEF ChainTypeOK
    <3>2. Sound <= Len(file)
      BY <1>1, <3>1 DEF DiskInv, Sound
    <3> QED BY <2>3, <3>1, <3>2
  <2> QED
    BY <1>1, <2>4 DEF SoundIsLedger, LoadedPrefix
<1> QED
  BY <1>1, InitTyped, InitDisk, InitSound, StepTyped, StepPhase, StepDisk, StepSound, PTL
  DEF Spec, ResumeKeepsSound
-----------------------------------------------------------------------------
(* The memory pool inside the node.  Between the write and the removal of  *)
(* its transactions, the block being added stays the tip of the chain.     *)
TipIsAdded ==
  adding.step = "remove" => phase = "running" /\ adding.b = Top(m_blocks)

LEMMA StepTip == ChainTypeOK /\ PhaseInv /\ TipIsAdded /\ [Next]_vars => TipIsAdded'
<1> SUFFICES ASSUME ChainTypeOK, PhaseInv, TipIsAdded, [Next]_vars PROVE TipIsAdded'
  OBVIOUS
<1> USE DEF memory, disk
<1>1. CASE Start
  BY <1>1 DEF Start, PhaseInv, TipIsAdded, Idle
<1>2. CASE LoadRecord
  BY <1>2 DEF LoadRecord, PhaseInv, TipIsAdded, Idle
<1>3. CASE Resume
  BY <1>3 DEF Resume, PhaseInv, TipIsAdded, Idle
<1>4. CASE CreateGenesis
  BY <1>4 DEF CreateGenesis, PhaseInv, TipIsAdded, Idle
<1>5. ASSUME NEW b \in OfferedBlocks, AddNewBlock(b) PROVE TipIsAdded'
  <2>1. adding'.step = "save"
    BY <1>5 DEF AddNewBlock
  <2> QED BY <2>1 DEF TipIsAdded
<1>6. CASE SaveBlock
  <2>1. adding.step = "save" /\ UNCHANGED <<phase, m_blocks>>
    BY <1>6 DEF SaveBlock
  <2>2. adding'.b = adding.b
    BY <1>6, <2>1, AddingTyped DEF SaveBlock
  <2>3. phase = "running" /\ adding.b = Top(m_blocks)
    BY <2>1 DEF PhaseInv, ChainTypeOK, Idle
  <2> QED BY <2>1, <2>2, <2>3 DEF TipIsAdded
<1>7. CASE FinishAdd
  BY <1>7 DEF FinishAdd, TipIsAdded, Idle
<1>8. ASSUME NEW tx \in Transactions, AddTx(tx) PROVE TipIsAdded'
  BY <1>8 DEF AddTx, TipIsAdded
<1>9. CASE Tick
  BY <1>9 DEF Tick, TipIsAdded
<1>10. CASE Shutdown
  BY <1>10 DEF Shutdown, TipIsAdded, Idle
<1>11. CASE Crash
  BY <1>11 DEF Crash, TipIsAdded, Idle
<1>12. CASE UNCHANGED vars
  BY <1>12 DEF vars, TipIsAdded
<1> QED
  BY <1>1, <1>2, <1>3, <1>4, <1>5, <1>6, <1>7, <1>8, <1>9, <1>10, <1>11, <1>12
  DEF Next

(* A process that ends takes its pool with it, as a block that listed      *)
(* every transaction would.                                                *)
LEMMA ForgettingRemoves ==
  ASSUME PoolTypeOK, m_mempool' = <<>>
  PROVE  PoolRemove
<1> DEFINE all == {tx.hash : tx \in Transactions}
           kept == {i \in DOMAIN m_mempool : m_mempool[i].hash \notin all}
<1>1. kept = {}
  BY DEF PoolTypeOK
<1>2. Cardinality(kept) = 0
  BY <1>1, FS_EmptySet
<1>3. <<>> \in Bijection(1..0, {})
  BY DEF Bijection, Injection, Surjection, IsInjective
<1>4. m_mempool' = [i \in 1..0 |-> m_mempool[<<>>[i]]]
  OBVIOUS
<1>5. /\ \A i, j \in 1..0 : i < j => <<>>[i] < <<>>[j]
      /\ Cardinality(kept) = 0 /\ kept = {}
  BY <1>1, <1>2
<1>6. \E e \in Bijection(1..Cardinality(kept), kept) :
        /\ \A i, j \in 1..Cardinality(kept) : i < j => e[i] < e[j]
        /\ m_mempool' = [i \in 1..Cardinality(kept) |-> m_mempool[e[i]]]
  <2> HIDE DEF kept
  <2> QED
    BY <1>3, <1>4, <1>5, Zenon
<1>7. remove_txs(all)
  BY <1>6, Zenon DEF remove_txs
<1> HIDE DEF all
<1> QED
  BY <1>7 DEF PoolRemove, all

(* Every step of the node is a step of its pool or leaves the pool alone. *)
LEMMA StepIsPoolStep ==
  ChainTypeOK /\ PoolInv /\ [Next]_vars => [PoolNext]_m_mempool
<1> SUFFICES ASSUME ChainTypeOK, PoolInv, [Next]_vars
             PROVE  PoolNext \/ UNCHANGED m_mempool
  OBVIOUS
<1>1. CASE FinishAdd
  <2>1. adding.b \in Block /\ remove_txs(adding.b.tx_hashes)
    BY <1>1, AddingTyped DEF FinishAdd
  <2>2. adding.b.tx_hashes \in SUBSET {tx.hash : tx \in Transactions}
    BY <2>1 DEF Block
  <2> QED BY <2>1, <2>2 DEF PoolNext, PoolRemove
<1>2. ASSUME NEW tx \in Transactions, AddTx(tx) PROVE PoolNext
  BY <1>2 DEF AddTx, PoolNext, PoolAdd
<1>3. CASE Crash
  <2>1. m_mempool' = <<>>
    BY <1>3 DEF Crash
  <2> QED BY <2>1, ForgettingRemoves DEF PoolInv, PoolNext
<1>4. CASE Start \/ LoadRecord \/ Resume \/ CreateGenesis \/ SaveBlock \/ Tick \/ Shutdown
  BY <1>4 DEF Start, LoadRecord, Resume, CreateGenesis, SaveBlock, Tick, Shutdown
<1>5. ASSUME NEW b \in OfferedBlocks, AddNewBlock(b) PROVE UNCHANGED m_mempool
  BY <1>5 DEF AddNewBlock
<1>6. CASE UNCHANGED vars
  BY <1>6 DEF vars
<1> QED
  BY <1>1, <1>2, <1>3, <1>4, <1>5, <1>6 DEF Next

LEMMA InitPool == Init => PoolInit /\ PoolInv
  BY DEF Init, PoolInit, PoolInv, PoolTypeOK, NoConflict, FeeDescending

(* The node drives its pool as TxPool allows, over any number of process   *)
(* lifetimes and under every I/O fault.                                    *)
THEOREM NodeImplementsPool == Spec => PoolSpec
BY InitTyped, StepTyped, InitPool, StepIsPoolStep, PoolStepKeepsInv, PTL
DEF Spec, PoolSpec

(* So what holds of the pool on its own holds inside the node: no two      *)
(* entries conflict, whatever blocks, crashes and restarts come between    *)
(* the checks of add_tx (tx_pool.cpp:21-42), and templates stay best.      *)
THEOREM NodePoolNoConflict == Spec => []NoConflict /\ []TemplateIsBest
BY NodeImplementsPool, PoolNoConflict, PoolTemplatesBest, PTL

(* An entry that a pool operation does not mention is still there. *)
LEMMA AddTxKeeps ==
  ASSUME PoolTypeOK, NEW tx \in Transactions, add_tx(tx), NEW i \in DOMAIN m_mempool
  PROVE  \E j \in DOMAIN m_mempool' : m_mempool'[j] = m_mempool[i]
<1> DEFINE pushed == Append(m_mempool, tx)
<1>1. PICK p \in Bijection(DOMAIN pushed, DOMAIN pushed) :
        m_mempool' = [k \in DOMAIN pushed |-> pushed[p[k]]]
  BY DEF add_tx
<1>2. i \in DOMAIN pushed /\ pushed[i] = m_mempool[i]
  BY DEF PoolTypeOK
<1> HIDE DEF pushed
<1>3. PICK j \in DOMAIN pushed : p[j] = i
  BY <1>1, <1>2, BijectionFacts
<1> QED
  BY <1>1, <1>2, <1>3

LEMMA RemoveTxsKeeps ==
  ASSUME NEW tx_hashes, remove_txs(tx_hashes), NEW i \in DOMAIN m_mempool,
         m_mempool[i].hash \notin tx_hashes
  PROVE  \E j \in DOMAIN m_mempool' : m_mempool'[j] = m_mempool[i]
<1> DEFINE kept == {k \in DOMAIN m_mempool : m_mempool[k].hash \notin tx_hashes}
           n == Cardinality(kept)
<1>1. PICK e \in Bijection(1..n, kept) : m_mempool' = [k \in 1..n |-> m_mempool[e[k]]]
  BY DEF remove_txs
<1>2. i \in kept
  OBVIOUS
<1> HIDE DEF kept, n
<1>3. \A k \in kept : \E j \in 1..n : e[j] = k
  BY DEF Bijection, Surjection
<1>4. PICK j \in 1..n : e[j] = i
  BY <1>2, <1>3, Zenon
<1> QED
  BY <1>1, <1>4

(* Under every interleaving of block additions, mempool calls, faults and  *)
(* restarts: a transaction leaves the pool of a running node only because  *)
(* the block at the tip of the chain lists it (blockchain.cpp:148).        *)
THEOREM PoolLosesOnlyToTip == Spec => PoolLosesOnlyMined
<1> DEFINE Lost == phase' # "down" =>
                     \A i \in DOMAIN m_mempool :
                       \/ \E j \in DOMAIN m_mempool' : m_mempool'[j] = m_mempool[i]
                       \/ m_mempool[i].hash \in Top(m_blocks).tx_hashes
<1>1. ASSUME ChainTypeOK, PhaseInv, TipIsAdded, PoolInv, [Next]_vars PROVE [Lost]_vars
  <2> SUFFICES ASSUME phase' # "down", NEW i \in DOMAIN m_mempool
               PROVE  \/ \E j \in DOMAIN m_mempool' : m_mempool'[j] = m_mempool[i]
                      \/ m_mempool[i].hash \in Top(m_blocks).tx_hashes
    OBVIOUS
  <2>1. CASE UNCHANGED m_mempool
    BY <2>1
  <2>2. ASSUME NEW tx \in Transactions, AddTx(tx)
        PROVE  \E j \in DOMAIN m_mempool' : m_mempool'[j] = m_mempool[i]
    BY <1>1, <2>2, AddTxKeeps DEF AddTx, PoolInv
  <2>3. CASE FinishAdd
    <3>1. adding.step = "remove" /\ remove_txs(adding.b.tx_hashes)
      BY <2>3 DEF FinishAdd
    <3>2. adding.b = Top(m_blocks)
      BY <1>1, <3>1 DEF TipIsAdded
    <3> QED BY <3>1, <3>2, RemoveTxsKeeps
  <2>4. CASE Start \/ LoadRecord \/ Resume \/ CreateGenesis \/ SaveBlock \/ Tick \/ Shutdown
    BY <2>1, <2>4 DEF Start, LoadRecord, Resume, CreateGenesis, SaveBlock, Tick, Shutdown
  <2>5. ASSUME NEW b \in OfferedBlocks, AddNewBlock(b) PROVE UNCHANGED m_mempool
    BY <2>5 DEF AddNewBlock
  <2>6. CASE UNCHANGED vars
    BY <2>1, <2>6 DEF vars
  <2> QED
    BY <1>1, <2>1, <2>2, <2>3, <2>4, <2>5, <2>6 DEF Next, Crash
<1>2. Init => TipIsAdded
  BY DEF Init, TipIsAdded, Idle
<1>3. ChainTypeOK /\ PoolInv /\ [Next]_vars => PoolInv'
  BY StepIsPoolStep, PoolStepKeepsInv
<1> QED
  BY <1>1, <1>2, <1>3, InitTyped, InitDisk, InitPool, StepTyped, StepPhase, StepTip, PTL
  DEF Spec, PoolLosesOnlyMined
=============================================================================

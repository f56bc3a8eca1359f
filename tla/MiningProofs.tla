---------------------------- MODULE MiningProofs ----------------------------
(***************************************************************************)
(* The safety properties of module Mining for every set of miners, every   *)
(* retargeting window and every epoch length.                              *)
(***************************************************************************)
EXTENDS Mining, DifficultyProofs, TLAPS

C == Len(m_cumulative_difficulties)

Steps == {"idle", "copy", "submit", "push", "finish"}

Adding(m) == pc[m] \in {"push", "finish"}

(* One miner at a time is between taking and releasing the lock. *)
Exclusive == \A m, n \in Miners : Adding(m) /\ Adding(n) => m = n

(* How far the one who pushes has come is how the vectors differ. *)
InStep == Len(m_blocks) = C /\ Len(m_timestamps) = C

LengthsFit ==
  /\ C >= 1
  /\ (\A m \in Miners : pc[m] # "push") => InStep
  /\ \A m \in Miners : pc[m] = "push" =>
       \/ job[m].pushed = 0 /\ InStep
       \/ job[m].pushed = 1 /\ Len(m_blocks) = C + 1 /\ Len(m_timestamps) = C
       \/ job[m].pushed = 2 /\ Len(m_blocks) = C + 1 /\ Len(m_timestamps) = C + 1
  /\ \A m \in Miners : ~Adding(m) => job[m].pushed = 0

First(s, n) == [k \in 1 .. n |-> s[k]]

(* The block that is being pushed is still the one the checks accepted. *)
PendingValid ==
  \A m \in Miners : pc[m] = "push" =>
    LET b == job[m].b IN
    /\ b.prev_id = m_blocks[C].hash
    /\ b.timestamp > m_timestamps[C]
    /\ b.timestamp \in 0 .. MaxClock + FutureLimit
    /\ job[m].diff \in next_difficulty_lwma3(First(m_timestamps, C),
                                             First(m_cumulative_difficulties, C))
    /\ pow_ok(b.hash, job[m].diff)
    /\ job[m].pushed >= 1 => m_blocks[C + 1] = b
    /\ job[m].pushed >= 2 => m_timestamps[C + 1] = b.timestamp

TimesAgree ==
  \A k \in 1 .. Len(m_timestamps) : m_timestamps[k] = m_blocks[k].timestamp
-----------------------------------------------------------------------------
(* The steps that neither touch the vectors nor enter or leave the lock. *)
Quiet ==
  /\ UNCHANGED memory
  /\ UNCHANGED prepared
  /\ \A m \in Miners : (pc'[m] = "push" <=> pc[m] = "push")
                       /\ (pc'[m] = "finish" <=> pc[m] = "finish")
  /\ \A m \in Miners : Adding(m) => job'[m] = job[m]

LEMMA QuietSteps ==
  ASSUME MiningTypeOK, NEW m \in Miners,
         \/ handle_request(m) \/ CopyTimestamps(m) \/ CopyDifficulties(m)
         \/ Solve(m) \/ GiveUp(m) \/ Refuse(m)
  PROVE  Quiet
<1> USE DEF Quiet, Goto, MiningTypeOK, Adding
<1>1. CASE handle_request(m)
  BY <1>1 DEF handle_request
<1>2. CASE CopyTimestamps(m)
  BY <1>2 DEF CopyTimestamps
<1>3. CASE CopyDifficulties(m)
  BY <1>3 DEF CopyDifficulties
<1>4. CASE Solve(m)
  BY <1>4 DEF Solve
<1>5. CASE GiveUp(m)
  BY <1>5 DEF GiveUp
<1>6. CASE Refuse(m)
  BY <1>6 DEF Refuse
<1> QED
  BY <1>1, <1>2, <1>3, <1>4, <1>5, <1>6

LEMMA QuietTick == Tick \/ UNCHANGED vars => Quiet
  BY DEF Tick, vars, Quiet, Adding
-----------------------------------------------------------------------------
LocalType == [began : Nat, height : Nat, copied : SUBSET Both,
              wild : BOOLEAN, ts : Seq(Nat), cds : Seq(Nat)]

JobType == [b : Block, diff : Nat, pushed : 0..3]

LEMMA RecordsTyped ==
  /\ Nothing \in LocalType /\ NoJob \in JobType
  /\ \A n \in Nat : [Nothing EXCEPT !.began = n] \in LocalType
<1>1. FALSE \in BOOLEAN /\ {} \in SUBSET Both /\ <<>> \in Seq(Nat)
  OBVIOUS
<1>2. Nothing \in LocalType
  BY <1>1 DEF Nothing, LocalType
<1>3. \A n \in Nat : [Nothing EXCEPT !.began = n] \in LocalType
  BY <1>2 DEF LocalType
<1>4. NoJob \in JobType
  BY MiningHashesAssumption DEF NoJob, JobType, Block
<1> QED
  BY <1>2, <1>3, <1>4

LEMMA InitTyped == Init => MiningTypeOK
<1> SUFFICES ASSUME Init PROVE MiningTypeOK
  OBVIOUS
<1>1. /\ clock \in Nat /\ prepared \subseteq Nat
      /\ m_timestamps \in Seq(Nat) /\ m_cumulative_difficulties \in Seq(Nat)
  BY MiningTimesAssumption DEF Init
<1>2. m_blocks \in Seq(Block)
  BY MiningTimesAssumption, MiningHashesAssumption DEF Init, Block
<1>3. pc \in [Miners -> {"idle", "copy", "submit", "push", "finish"}]
      /\ \A m \in Miners : pc[m] # "push"
  BY DEF Init
<1>4. local \in [Miners -> LocalType] /\ job \in [Miners -> JobType]
  BY RecordsTyped DEF Init
<1> QED
  BY <1>1, <1>2, <1>3, <1>4 DEF MiningTypeOK, LocalType, JobType

(* What MiningTypeOK says of the threads. *)
LEMMA ThreadsTyped ==
  MiningTypeOK => local \in [Miners -> LocalType] /\ job \in [Miners -> JobType]
  BY DEF MiningTypeOK, LocalType, JobType

(* Threads that keep to their types, and a pusher that has something to    *)
(* push, are all that a step without pushes has to show.                   *)
LEMMA QuietTyped ==
  ASSUME MiningTypeOK, Quiet, clock' \in Nat,
         pc' \in [Miners -> {"idle", "copy", "submit", "push", "finish"}],
         local' \in [Miners -> LocalType], job' \in [Miners -> JobType]
  PROVE  MiningTypeOK'
<1>1. \A m \in Miners : pc'[m] = "push" => job'[m].pushed < 3
  BY DEF Quiet, Adding, MiningTypeOK
<1>2. UNCHANGED <<m_blocks, m_timestamps, m_cumulative_difficulties, prepared>>
  BY DEF Quiet, memory
<1> QED
  BY <1>1, <1>2 DEF MiningTypeOK, LocalType, JobType

LEMMA ReadsTyped ==
  ASSUME MiningTypeOK, NEW m \in Miners,
         handle_request(m) \/ CopyTimestamps(m) \/ CopyDifficulties(m)
  PROVE  MiningTypeOK'
<1> DEFINE l == local[m]
<1>t. /\ l \in LocalType /\ local \in [Miners -> LocalType]
      /\ job \in [Miners -> JobType]
  BY ThreadsTyped
<1>f. /\ l.began \in Nat /\ l.height \in Nat /\ l.copied \in SUBSET Both
      /\ l.wild \in BOOLEAN /\ l.ts \in Seq(Nat) /\ l.cds \in Seq(Nat)
  BY <1>t DEF LocalType
<1>l. Len(m_cumulative_difficulties) \in Nat /\ Len(m_blocks) \in Nat
  BY DEF MiningTypeOK
<1>q. Quiet
  BY QuietSteps
<1>1. CASE handle_request(m)
  <2>1. PICK wild \in BOOLEAN :
          local' = [local EXCEPT ![m].began = Len(m_cumulative_difficulties),
                                 ![m].height = IF wild THEN 0
                                               ELSE get_current_height,
                                 ![m].wild = wild]
    BY <1>1 DEF handle_request, UndefinedReads
  <2>2. local' \in [Miners -> LocalType]
    BY <2>1, <1>t, <1>l DEF LocalType, get_current_height
  <2> QED
    BY <1>1, <1>q, <1>t, <2>2, QuietTyped DEF handle_request, Goto, MiningTypeOK
<1>2. CASE CopyTimestamps(m)
  <2>1. PICK wild \in BOOLEAN :
          local' = [local EXCEPT ![m].copied = @ \union {"timestamp"},
                                 ![m].wild = @ \/ wild,
                                 ![m].ts = IF wild THEN <<>> ELSE m_timestamps]
    BY <1>2 DEF CopyTimestamps, UndefinedReads
  <2>2. /\ l.copied \union {"timestamp"} \in SUBSET Both
        /\ (l.wild \/ wild) \in BOOLEAN
        /\ (IF wild THEN <<>> ELSE m_timestamps) \in Seq(Nat)
    BY <1>f DEF Both, MiningTypeOK
  <2>3. local' \in [Miners -> LocalType]
    BY <2>1, <2>2, <1>t DEF LocalType
  <2> QED
    BY <1>2, <1>q, <1>t, <2>3, QuietTyped DEF CopyTimestamps, MiningTypeOK
<1>3. CASE CopyDifficulties(m)
  <2>1. PICK wild \in BOOLEAN :
          local' = [local EXCEPT ![m].copied = @ \union {"difficulty"},
                                 ![m].wild = @ \/ wild,
                                 ![m].cds = IF wild THEN <<>>
                                            ELSE m_cumulative_difficulties]
    BY <1>3 DEF CopyDifficulties, UndefinedReads
  <2>2. /\ l.copied \union {"difficulty"} \in SUBSET Both
        /\ (l.wild \/ wild) \in BOOLEAN
        /\ (IF wild THEN <<>> ELSE m_cumulative_difficulties) \in Seq(Nat)
    BY <1>f DEF Both, MiningTypeOK
  <2>3. local' \in [Miners -> LocalType]
    BY <2>1, <2>2, <1>t DEF LocalType
  <2> QED
    BY <1>3, <1>q, <1>t, <2>3, QuietTyped DEF CopyDifficulties, MiningTypeOK
<1> QED
  BY <1>1, <1>2, <1>3

(* The vectors never differ by more than the block in progress. *)
LEMMA LengthsClose ==
  ASSUME MiningTypeOK, LengthsFit, Exclusive
  PROVE  /\ C \in Nat /\ C >= 1
         /\ Len(m_timestamps) \in {C, C + 1} /\ Len(m_blocks) \in {C, C + 1}
         /\ Len(m_timestamps) <= Len(m_blocks)
<1>1. C \in Nat /\ C >= 1
  BY DEF MiningTypeOK, LengthsFit, C
<1>2. CASE \A m \in Miners : pc[m] # "push"
  BY <1>1, <1>2 DEF LengthsFit, InStep
<1>3. ASSUME NEW m \in Miners, pc[m] = "push"
      PROVE  /\ Len(m_timestamps) \in {C, C + 1} /\ Len(m_blocks) \in {C, C + 1}
             /\ Len(m_timestamps) <= Len(m_blocks)
  BY <1>1, <1>3 DEF LengthsFit, InStep
<1> QED
  BY <1>1, <1>2, <1>3

LEMMA TopTyped ==
  ASSUME MiningTypeOK, LengthsFit, Exclusive
  PROVE  /\ Top \in Block /\ Top.hash \in Hashes /\ Top.timestamp \in Nat
<1>1. Len(m_blocks) \in Nat \ {0} /\ m_blocks \in Seq(Block)
  BY LengthsClose DEF MiningTypeOK
<1>2. Top \in Block
  BY <1>1 DEF Top
<1> QED
  BY <1>2 DEF Block

LEMMA SubmitsTyped ==
  ASSUME MiningTypeOK, LengthsFit, Exclusive, NEW m \in Miners,
         Solve(m) \/ GiveUp(m) \/ Refuse(m)
  PROVE  MiningTypeOK'
<1>t. local \in [Miners -> LocalType] /\ job \in [Miners -> JobType]
  BY ThreadsTyped
<1>q. Quiet
  BY QuietSteps
<1>1. CASE Solve(m)
  <2>1. PICK hash \in Hashes, parent \in Hashes :
          job' = [job EXCEPT ![m].b = [hash |-> hash, prev_id |-> parent,
                                       timestamp |-> clock + Skew[m]]]
    BY <1>1, TopTyped DEF Solve
  <2>2. clock + Skew[m] \in Nat
    BY MiningTimesAssumption DEF MiningTypeOK
  <2>3. [hash |-> hash, prev_id |-> parent, timestamp |-> clock + Skew[m]] \in Block
    BY <2>2 DEF Block
  <2>4. job' \in [Miners -> JobType]
    BY <2>1, <2>3, <1>t DEF JobType
  <2>5. local[m].began \in Nat
    BY <1>t DEF LocalType
  <2>6. local' = [local EXCEPT ![m] = [Nothing EXCEPT !.began = local[m].began]]
    BY <1>1 DEF Solve
  <2>7. local' \in [Miners -> LocalType]
    BY <2>5, <2>6, <1>t, RecordsTyped
  <2> QED
    BY <1>1, <1>q, <2>4, <2>7, QuietTyped DEF Solve, Goto, MiningTypeOK
<1>2. CASE GiveUp(m)
  <2>1. local' \in [Miners -> LocalType]
    BY <1>2, <1>t, RecordsTyped DEF GiveUp, forget
  <2> QED
    BY <1>2, <1>q, <1>t, <2>1, QuietTyped DEF GiveUp, Goto, MiningTypeOK
<1>3. CASE Refuse(m)
  <2>1. local' \in [Miners -> LocalType] /\ job' \in [Miners -> JobType]
    BY <1>3, <1>t, RecordsTyped DEF Refuse
  <2> QED
    BY <1>3, <1>q, <2>1, QuietTyped DEF Refuse, Goto, MiningTypeOK
<1> QED
  BY <1>1, <1>2, <1>3

(* While nobody pushes, the difficulty is a positive number. *)
LEMMA DifficultyTyped ==
  ASSUME MiningTypeOK, InStep, NEW d \in get_current_difficulty
  PROVE  d \in Nat
<1>1. m_cumulative_difficulties \in Seq(Int)
  BY DEF MiningTypeOK
<1> QED
  BY <1>1, NextDifficultyPositive DEF InStep, C, get_current_difficulty

(* When the lock is free, the vectors are in step. *)
LEMMA FreeInStep == LengthsFit /\ lock_free => InStep
  BY DEF LengthsFit, lock_free

LEMMA AddTyped ==
  ASSUME MiningTypeOK, LengthsFit, Exclusive, NEW m \in Miners, AddNewBlock(m)
  PROVE  MiningTypeOK'
<1>t. job \in [Miners -> JobType]
  BY ThreadsTyped
<1>1. PICK d \in get_current_difficulty : job' = [job EXCEPT ![m].diff = d]
  BY DEF AddNewBlock
<1>2. d \in Nat
  BY DifficultyTyped, FreeInStep DEF AddNewBlock
<1>3. job' \in [Miners -> JobType] /\ \A n \in Miners : job'[n].pushed = job[n].pushed
  BY <1>1, <1>2, <1>t DEF JobType
<1>4. ASSUME NEW n \in Miners, pc'[n] = "push" PROVE job'[n].pushed < 3
  <2>1. pc[m] = "submit" /\ (n = m \/ pc[n] = "push")
    BY <1>4 DEF AddNewBlock, Goto, MiningTypeOK
  <2>2. job[m].pushed = 0
    BY <2>1 DEF LengthsFit, Adding
  <2>3. pc[n] = "push" => job[n].pushed < 3
    BY DEF MiningTypeOK
  <2> QED
    BY <2>1, <2>2, <2>3, <1>3
<1>5. UNCHANGED <<clock, m_blocks, m_timestamps, m_cumulative_difficulties, prepared, local>>
  BY DEF AddNewBlock, memory
<1>6. pc' \in [Miners -> {"idle", "copy", "submit", "push", "finish"}]
  BY DEF AddNewBlock, Goto, MiningTypeOK
<1> QED
  BY <1>3, <1>4, <1>5, <1>6 DEF MiningTypeOK, JobType

LEMMA FinishTyped ==
  ASSUME MiningTypeOK, NEW m \in Miners, Finish(m)
  PROVE  MiningTypeOK'
<1>t. local \in [Miners -> LocalType] /\ job \in [Miners -> JobType]
  BY ThreadsTyped
<1>1. local' \in [Miners -> LocalType] /\ job' \in [Miners -> JobType]
  BY <1>t, RecordsTyped DEF Finish
<1>2. Len(m_blocks) \in Nat /\ EpochBlocks \in Nat \ {0}
  BY EpochAssumption DEF MiningTypeOK
<1>3. next_seed \in Nat
  BY <1>2 DEF next_seed
<1>4. prepared' \subseteq Nat
  BY <1>3 DEF Finish, MiningTypeOK
<1>5. UNCHANGED <<clock, m_blocks, m_timestamps, m_cumulative_difficulties>>
  BY DEF Finish, memory
<1>6. /\ pc' \in [Miners -> {"idle", "copy", "submit", "push", "finish"}]
      /\ \A n \in Miners : pc'[n] = "push" => job'[n].pushed < 3
  BY <1>t DEF Finish, unlock, Goto, MiningTypeOK
<1> QED
  BY <1>1, <1>4, <1>5, <1>6 DEF MiningTypeOK, LocalType, JobType

(* The three pushes. *)
LEMMA PushCases ==
  ASSUME MiningTypeOK, LengthsFit, NEW m \in Miners, Push(m)
  PROVE  \/ /\ job[m].pushed = 0 /\ pc' = [pc EXCEPT ![m] = "push"]
            /\ m_blocks' = Append(m_blocks, job[m].b)
            /\ UNCHANGED <<m_timestamps, m_cumulative_difficulties>>
         \/ /\ job[m].pushed = 1 /\ pc' = [pc EXCEPT ![m] = "push"]
            /\ m_timestamps' = Append(m_timestamps, job[m].b.timestamp)
            /\ UNCHANGED <<m_blocks, m_cumulative_difficulties>>
         \/ /\ job[m].pushed = 2 /\ pc' = [pc EXCEPT ![m] = "finish"]
            /\ m_cumulative_difficulties' =
                 Append(m_cumulative_difficulties,
                        m_cumulative_difficulties[C] + job[m].diff)
            /\ UNCHANGED <<m_blocks, m_timestamps>>
<1>1. pc[m] = "push" /\ job[m].pushed \in 0..2
  BY DEF Push, Goto, LengthsFit
<1>2. PushOrder[1] = "block" /\ PushOrder[2] = "timestamp" /\ PushOrder[3] = "difficulty"
  BY DEF PushOrder
<1>3. CASE job[m].pushed = 0
  BY <1>2, <1>3 DEF Push, Goto, last_push
<1>4. CASE job[m].pushed = 1
  BY <1>2, <1>4 DEF Push, Goto, last_push
<1>5. CASE job[m].pushed = 2
  BY <1>2, <1>5 DEF Push, Goto, last_push, C
<1> QED
  BY <1>1, <1>3, <1>4, <1>5

LEMMA PushTyped ==
  ASSUME MiningTypeOK, LengthsFit, NEW m \in Miners, Push(m)
  PROVE  MiningTypeOK'
<1>t. job \in [Miners -> JobType]
  BY ThreadsTyped
<1>1. /\ job[m].b \in Block /\ job[m].b.timestamp \in Nat /\ job[m].diff \in Nat
      /\ job[m].pushed \in 0..2 /\ pc[m] = "push"
  BY <1>t DEF JobType, Block, Push, Goto, LengthsFit
<1>2. m_cumulative_difficulties[C] \in Nat
  BY DEF C, LengthsFit, MiningTypeOK
<1>3. /\ m_blocks' \in Seq(Block) /\ m_timestamps' \in Seq(Nat)
      /\ m_cumulative_difficulties' \in Seq(Nat)
  <2>1. CASE m_blocks' = Append(m_blocks, job[m].b)
             /\ UNCHANGED <<m_timestamps, m_cumulative_difficulties>>
    BY <2>1, <1>1 DEF MiningTypeOK
  <2>2. CASE m_timestamps' = Append(m_timestamps, job[m].b.timestamp)
             /\ UNCHANGED <<m_blocks, m_cumulative_difficulties>>
    BY <2>2, <1>1 DEF MiningTypeOK
  <2>3. CASE m_cumulative_difficulties' =
               Append(m_cumulative_difficulties,
                      m_cumulative_difficulties[C] + job[m].diff)
             /\ UNCHANGED <<m_blocks, m_timestamps>>
    <3>1. m_cumulative_difficulties[C] + job[m].diff \in Nat
      BY <1>1, <1>2
    <3> QED
      BY <2>3, <3>1 DEF MiningTypeOK
  <2> QED
    BY <2>1, <2>2, <2>3, PushCases
<1>4. job' = [job EXCEPT ![m].pushed = @ + 1] /\ UNCHANGED <<clock, prepared, local>>
  BY DEF Push
<1>5. job' \in [Miners -> JobType]
  BY <1>1, <1>4, <1>t DEF JobType
<1>6. pc' \in [Miners -> {"idle", "copy", "submit", "push", "finish"}]
  BY PushCases DEF MiningTypeOK
<1>7. ASSUME NEW n \in Miners, pc'[n] = "push" PROVE job'[n].pushed < 3
  <2>1. CASE n = m
    <3>1. job[m].pushed \in 0..1
      BY <1>7, <2>1, PushCases DEF MiningTypeOK
    <3>2. job'[m].pushed = job[m].pushed + 1
      BY <1>4, <1>t DEF JobType
    <3> QED
      BY <3>1, <3>2, <2>1
  <2>2. CASE n # m
    <3>1. pc[n] = "push" /\ job'[n] = job[n]
      BY <1>7, <2>2, <1>4, PushCases DEF MiningTypeOK
    <3> QED
      BY <3>1 DEF MiningTypeOK
  <2> QED
    BY <2>1, <2>2
<1> QED
  BY <1>3, <1>4, <1>5, <1>6, <1>7 DEF MiningTypeOK, JobType

LEMMA StepTyped ==
  MiningTypeOK /\ LengthsFit /\ Exclusive /\ [Next]_vars => MiningTypeOK'
<1> SUFFICES ASSUME MiningTypeOK, LengthsFit, Exclusive, [Next]_vars
             PROVE  MiningTypeOK'
  OBVIOUS
<1>1. CASE Tick
  BY <1>1 DEF Tick, MiningTypeOK, memory
<1>2. CASE UNCHANGED vars
  BY <1>2 DEF vars, memory, MiningTypeOK
<1>3. ASSUME NEW m \in Miners, Miner(m) PROVE MiningTypeOK'
  BY <1>3, ReadsTyped, SubmitsTyped, AddTyped, PushTyped, FinishTyped DEF Miner
<1> QED
  BY <1>1, <1>2, <1>3 DEF Next
-----------------------------------------------------------------------------
(* The types most steps need. *)
LEMMA Typed ==
  ASSUME MiningTypeOK, LengthsFit
  PROVE  /\ job \in [Miners -> JobType] /\ C \in Nat /\ C >= 1
         /\ pc \in [Miners -> Steps]
<1>1. C \in Nat /\ C >= 1
  BY DEF C, MiningTypeOK, LengthsFit
<1>2. pc \in [Miners -> Steps]
  BY DEF MiningTypeOK, Steps
<1> QED
  BY <1>1, <1>2, ThreadsTyped

(* Entering and leaving the lock. *)
LEMMA LockSteps ==
  ASSUME MiningTypeOK, NEW m \in Miners
  PROVE  /\ AddNewBlock(m) => /\ \A n \in Miners : ~Adding(n)
                              /\ pc' = [pc EXCEPT ![m] = "push"]
         /\ Finish(m) => pc[m] = "finish" /\ pc' = [pc EXCEPT ![m] = "idle"]
         /\ Push(m) => pc[m] = "push" /\ pc'[m] \in {"push", "finish"}
                       /\ \A n \in Miners : n # m => pc'[n] = pc[n]
  BY DEF AddNewBlock, Finish, Push, Goto, unlock, lock_free, Adding, MiningTypeOK

LEMMA StepExclusive ==
  MiningTypeOK /\ Exclusive /\ [Next]_vars => Exclusive'
<1> SUFFICES ASSUME MiningTypeOK, Exclusive, [Next]_vars PROVE Exclusive'
  OBVIOUS
<1>1. CASE Quiet
  BY <1>1 DEF Quiet, Exclusive, Adding
<1>2. ASSUME NEW m \in Miners, AddNewBlock(m) PROVE Exclusive'
  <2>1. \A n \in Miners : ~Adding(n)
    BY <1>2, LockSteps
  <2>2. \A n \in Miners : n # m => pc'[n] = pc[n]
    BY <1>2, LockSteps DEF MiningTypeOK
  <2> QED
    BY <2>1, <2>2 DEF Exclusive, Adding
<1>3. ASSUME NEW m \in Miners, Finish(m) PROVE Exclusive'
  BY <1>3, LockSteps DEF Exclusive, Adding, MiningTypeOK
<1>4. ASSUME NEW m \in Miners, Push(m) PROVE Exclusive'
  BY <1>4, LockSteps DEF Exclusive, Adding
<1> QED
  BY <1>1, <1>2, <1>3, <1>4, QuietSteps, QuietTick DEF Next, Miner

(* One push, seen through the lengths. *)
LEMMA PushLengths ==
  ASSUME MiningTypeOK, LengthsFit, NEW m \in Miners, Push(m)
  PROVE  \/ /\ job[m].pushed = 0 /\ job'[m].pushed = 1 /\ pc'[m] = "push"
            /\ Len(m_blocks') = C + 1 /\ Len(m_timestamps') = C /\ C' = C
         \/ /\ job[m].pushed = 1 /\ job'[m].pushed = 2 /\ pc'[m] = "push"
            /\ Len(m_blocks') = C + 1 /\ Len(m_timestamps') = C + 1 /\ C' = C
         \/ /\ job[m].pushed = 2 /\ pc'[m] = "finish" /\ C' = C + 1
            /\ Len(m_blocks') = C + 1 /\ Len(m_timestamps') = C + 1
<1>t. job \in [Miners -> JobType] /\ C \in Nat
  BY ThreadsTyped DEF C, MiningTypeOK
<1>1. pc[m] = "push" /\ job'[m].pushed = job[m].pushed + 1
  BY <1>t DEF Push, Goto, JobType
<1>2. \A S, e : \A s \in Seq(S) : Len(Append(s, e)) = Len(s) + 1
  OBVIOUS
<1>3. CASE job[m].pushed = 0
  <2>1. /\ Len(m_blocks) = C /\ Len(m_timestamps) = C
    BY <1>1, <1>3 DEF LengthsFit, InStep
  <2>2. /\ pc'[m] = "push" /\ m_blocks' = Append(m_blocks, job[m].b)
        /\ UNCHANGED <<m_timestamps, m_cumulative_difficulties>>
    BY <1>3, PushCases DEF MiningTypeOK
  <2>3. Len(m_blocks') = C + 1
    BY <2>1, <2>2 DEF MiningTypeOK
  <2> QED
    BY <2>1, <2>2, <2>3, <1>1, <1>3 DEF C
<1>4. CASE job[m].pushed = 1
  <2>1. /\ Len(m_blocks) = C + 1 /\ Len(m_timestamps) = C
    BY <1>1, <1>4 DEF LengthsFit, InStep
  <2>2. /\ pc'[m] = "push"
        /\ m_timestamps' = Append(m_timestamps, job[m].b.timestamp)
        /\ UNCHANGED <<m_blocks, m_cumulative_difficulties>>
    BY <1>4, PushCases DEF MiningTypeOK
  <2>3. Len(m_timestamps') = C + 1
    BY <2>1, <2>2 DEF MiningTypeOK
  <2> QED
    BY <2>1, <2>2, <2>3, <1>1, <1>4 DEF C
<1>5. CASE job[m].pushed = 2
  <2>1. /\ Len(m_blocks) = C + 1 /\ Len(m_timestamps) = C + 1
    BY <1>1, <1>5 DEF LengthsFit, InStep
  <2>2. /\ pc'[m] = "finish" /\ UNCHANGED <<m_blocks, m_timestamps>>
        /\ m_cumulative_difficulties' =
             Append(m_cumulative_difficulties,
                    m_cumulative_difficulties[C] + job[m].diff)
    BY <1>5, PushCases DEF MiningTypeOK
  <2>3. C' = C + 1
    BY <2>2 DEF MiningTypeOK, C
  <2> QED
    BY <2>1, <2>2, <2>3, <1>5
<1>6. job[m].pushed \in 0..2
  BY <1>1 DEF LengthsFit
<1> QED
  BY <1>3, <1>4, <1>5, <1>6

LEMMA StepLengths ==
  MiningTypeOK /\ LengthsFit /\ Exclusive /\ [Next]_vars => LengthsFit'
<1> SUFFICES ASSUME MiningTypeOK, LengthsFit, Exclusive, [Next]_vars
             PROVE  LengthsFit'
  OBVIOUS
<1>t. job \in [Miners -> JobType] /\ C \in Nat /\ pc \in [Miners -> Steps]
  BY ThreadsTyped DEF C, MiningTypeOK, Steps
<1>1. CASE Quiet /\ \A m \in Miners : ~Adding(m) => job'[m].pushed = 0
  BY <1>1 DEF Quiet, LengthsFit, memory, C, InStep, Adding
<1>2. ASSUME NEW m \in Miners, AddNewBlock(m) PROVE LengthsFit'
  <2>1. /\ pc[m] = "submit" /\ pc' = [pc EXCEPT ![m] = "push"]
        /\ \A n \in Miners : ~Adding(n)
        /\ \A n \in Miners : job'[n].pushed = job[n].pushed
        /\ UNCHANGED <<m_blocks, m_timestamps, m_cumulative_difficulties>>
    <3>1. \A n \in Miners : ~Adding(n)
      BY <1>2, LockSteps
    <3>2. PICK d : job' = [job EXCEPT ![m].diff = d]
      BY <1>2 DEF AddNewBlock
    <3>3. \A n \in Miners : job'[n].pushed = job[n].pushed
      BY <3>2, <1>t DEF JobType
    <3> QED
      BY <1>2, <3>1, <3>3 DEF AddNewBlock, Goto, memory
  <2>2. InStep /\ job[m].pushed = 0
    BY <2>1 DEF LengthsFit, Adding
  <2> QED
    BY <2>1, <2>2, <1>t DEF LengthsFit, InStep, C, Adding
<1>3. ASSUME NEW m \in Miners, Finish(m) PROVE LengthsFit'
  <2>1. /\ pc[m] = "finish" /\ pc' = [pc EXCEPT ![m] = "idle"]
        /\ \A n \in Miners : n # m => job'[n] = job[n]
        /\ job'[m].pushed = 0
        /\ UNCHANGED <<m_blocks, m_timestamps, m_cumulative_difficulties>>
    BY <1>3, <1>t, LockSteps DEF Finish, memory, NoJob
  <2>2. \A n \in Miners : n # m => ~Adding(n)
    BY <2>1 DEF Exclusive, Adding
  <2>3. InStep
    BY <2>1, <2>2 DEF LengthsFit, Adding
  <2> QED
    BY <2>1, <2>2, <2>3, <1>t DEF LengthsFit, InStep, C, Adding
<1>4. ASSUME NEW m \in Miners, Push(m) PROVE LengthsFit'
  <2>1. /\ pc[m] = "push"
        /\ \A n \in Miners : n # m => pc'[n] = pc[n] /\ job'[n] = job[n]
    BY <1>4, LockSteps, <1>t DEF Push
  <2>2. \A n \in Miners : n # m => ~Adding(n)
    BY <2>1 DEF Exclusive, Adding
  <2>3. C \in Nat /\ C >= 1
    BY <1>t DEF LengthsFit
  <2>4. CASE pc'[m] = "push"
    BY <1>4, <2>1, <2>2, <2>3, <2>4, PushLengths DEF LengthsFit, InStep, Adding
  <2>5. CASE pc'[m] = "finish"
    <3>1. C' = C + 1 /\ InStep'
      BY <1>4, <2>5, PushLengths DEF InStep
    <3> QED
      BY <2>1, <2>2, <2>3, <2>5, <3>1 DEF LengthsFit, Adding
  <2> QED
    BY <1>4, <2>4, <2>5, LockSteps
<1>5. ASSUME NEW m \in Miners, Solve(m) \/ GiveUp(m) \/ Refuse(m)
                            \/ handle_request(m) \/ CopyTimestamps(m)
                            \/ CopyDifficulties(m)
      PROVE  \A n \in Miners : ~Adding(n) => job'[n].pushed = 0
  <2>1. CASE UNCHANGED job
    BY <2>1 DEF LengthsFit
  <2>2. CASE job' = [job EXCEPT ![m] = NoJob]
    BY <2>2, <1>t DEF LengthsFit, NoJob
  <2>3. CASE Solve(m)
    <3>1. PICK b : job' = [job EXCEPT ![m].b = b]
      BY <2>3 DEF Solve
    <3>2. \A n \in Miners : job'[n].pushed = job[n].pushed
      BY <3>1, <1>t DEF JobType
    <3> QED
      BY <3>2 DEF LengthsFit
  <2> QED
    BY <1>5, <2>1, <2>2, <2>3 DEF GiveUp, Refuse, handle_request,
       CopyTimestamps, CopyDifficulties
<1>6. CASE Tick \/ UNCHANGED vars
  BY <1>6, <1>1, QuietTick DEF Tick, vars, LengthsFit
<1> QED
  BY <1>1, <1>2, <1>3, <1>4, <1>5, <1>6, QuietSteps DEF Next, Miner
-----------------------------------------------------------------------------
LEMMA FirstAll ==
  ASSUME NEW S, NEW s \in Seq(S)
  PROVE  First(s, Len(s)) = s
  BY DEF First

LEMMA FirstAppend ==
  ASSUME NEW S, NEW s \in Seq(S), NEW e, NEW n \in 0 .. Len(s)
  PROVE  First(Append(s, e), n) = First(s, n)
<1>1. \A k \in 1 .. n : Append(s, e)[k] = s[k]
  OBVIOUS
<1> QED
  BY <1>1 DEF First

ClockBound == clock <= MaxClock

LEMMA StepClock == MiningTypeOK /\ ClockBound /\ [Next]_vars => ClockBound'
<1> SUFFICES ASSUME MiningTypeOK, ClockBound, [Next]_vars PROVE ClockBound'
  OBVIOUS
<1>1. CASE Tick
  BY <1>1, MiningBoundsAssumption DEF Tick, ClockBound, MiningTypeOK
<1>2. CASE UNCHANGED clock
  BY <1>2 DEF ClockBound
<1> QED
  BY <1>1, <1>2 DEF Next, Miner, vars, handle_request, CopyTimestamps,
     CopyDifficulties, Solve, GiveUp, AddNewBlock, Refuse, Push, Finish

(* A checked block becomes a pending one. *)
LEMMA AddPending ==
  ASSUME MiningTypeOK, LengthsFit, Exclusive, TimesAgree, ClockBound,
         NEW m \in Miners, AddNewBlock(m)
  PROVE  PendingValid'
<1>t. job \in [Miners -> JobType] /\ C \in Nat /\ C >= 1 /\ pc \in [Miners -> Steps]
  BY Typed
<1>1. PICK d \in get_current_difficulty :
        pow_ok(job[m].b.hash, d) /\ job' = [job EXCEPT ![m].diff = d]
  BY DEF AddNewBlock
<1>2. /\ InStep /\ pc[m] = "submit" /\ pc' = [pc EXCEPT ![m] = "push"]
      /\ ValidHeader(job[m].b)
      /\ UNCHANGED <<m_blocks, m_timestamps, m_cumulative_difficulties>>
  BY FreeInStep DEF AddNewBlock, Goto, memory
<1>3. \A n \in Miners : pc'[n] = "push" => n = m
  BY LockSteps, <1>2, <1>t DEF Adding
<1>4. job'[m].b = job[m].b /\ job'[m].diff = d /\ job'[m].pushed = 0
  <2>1. job[m].pushed = 0
    BY <1>2 DEF LengthsFit, Adding
  <2> QED
    BY <1>1, <1>t, <2>1 DEF JobType
<1>5. First(m_timestamps, C) = m_timestamps
      /\ First(m_cumulative_difficulties, C) = m_cumulative_difficulties
  BY <1>2, FirstAll DEF InStep, C, MiningTypeOK
<1>6. Top = m_blocks[C] /\ m_timestamps[C] = m_blocks[C].timestamp /\ C' = C
  BY <1>2, <1>t DEF InStep, Top, TimesAgree, C
<1>7. job[m].b.timestamp \in 0 .. MaxClock + FutureLimit
  <2>1. job[m].b.timestamp \in Nat
    BY <1>t DEF JobType, Block
  <2> QED
    BY <1>2, <2>1, MiningTimesAssumption, MiningBoundsAssumption
       DEF ValidHeader, ClockBound, MiningTypeOK
<1>8. d \in next_difficulty_lwma3(First(m_timestamps, C),
                                  First(m_cumulative_difficulties, C))
  BY <1>1, <1>5 DEF get_current_difficulty
<1>9. \* the formula of PendingValid' for m
      LET b == job'[m].b IN
      /\ b.prev_id = m_blocks'[C'].hash /\ b.timestamp > m_timestamps'[C']
      /\ b.timestamp \in 0 .. MaxClock + FutureLimit
      /\ job'[m].diff \in next_difficulty_lwma3(First(m_timestamps', C'),
                                                First(m_cumulative_difficulties', C'))
      /\ pow_ok(b.hash, job'[m].diff)
      /\ job'[m].pushed = 0
  BY <1>1, <1>2, <1>4, <1>6, <1>7, <1>8 DEF ValidHeader
<1> QED
  BY <1>3, <1>9 DEF PendingValid

(* Pushing does not change what the pending block was checked against. *)
LEMMA PushPending ==
  ASSUME MiningTypeOK, LengthsFit, Exclusive, PendingValid,
         NEW m \in Miners, Push(m)
  PROVE  PendingValid'
<1>t. job \in [Miners -> JobType] /\ C \in Nat /\ C >= 1 /\ pc \in [Miners -> Steps]
  BY Typed
<1>1. /\ pc[m] = "push" /\ \A n \in Miners : n # m => pc'[n] = pc[n]
      /\ \A n \in Miners : n # m => ~Adding(n)
  BY LockSteps DEF Exclusive, Adding
<1>2. \A n \in Miners : pc'[n] = "push" => n = m
  BY <1>1 DEF Adding
<1>3. job'[m].b = job[m].b /\ job'[m].diff = job[m].diff
      /\ job'[m].pushed = job[m].pushed + 1
  BY <1>t DEF Push, JobType
<1> DEFINE b == job[m].b
<1>p. /\ b.prev_id = m_blocks[C].hash /\ b.timestamp > m_timestamps[C]
      /\ b.timestamp \in 0 .. MaxClock + FutureLimit
      /\ job[m].diff \in next_difficulty_lwma3(First(m_timestamps, C),
                                               First(m_cumulative_difficulties, C))
      /\ pow_ok(b.hash, job[m].diff)
      /\ job[m].pushed >= 1 => m_blocks[C + 1] = b
      /\ job[m].pushed >= 2 => m_timestamps[C + 1] = b.timestamp
  BY <1>1 DEF PendingValid
<1> HIDE DEF b
<1>4. CASE job[m].pushed = 0
  <2>1. Len(m_blocks) = C /\ Len(m_timestamps) = C
    BY <1>1, <1>4 DEF LengthsFit, InStep
  <2>2. /\ m_blocks' = Append(m_blocks, b) /\ C' = C
        /\ UNCHANGED <<m_timestamps, m_cumulative_difficulties>>
    BY <1>4, PushCases DEF C, b
  <2>3. m_blocks'[C] = m_blocks[C] /\ m_blocks'[C + 1] = b
    BY <2>1, <2>2, <1>t DEF MiningTypeOK
  <2> QED
    BY <1>2, <1>3, <1>4, <1>p, <2>2, <2>3 DEF PendingValid, b
<1>5. CASE job[m].pushed = 1
  <2>1. Len(m_blocks) = C + 1 /\ Len(m_timestamps) = C
    BY <1>1, <1>5 DEF LengthsFit, InStep
  <2>2. /\ m_timestamps' = Append(m_timestamps, b.timestamp) /\ C' = C
        /\ UNCHANGED <<m_blocks, m_cumulative_difficulties>>
    BY <1>5, PushCases DEF C, b
  <2>3. m_timestamps'[C] = m_timestamps[C] /\ m_timestamps'[C + 1] = b.timestamp
    BY <2>1, <2>2, <1>t DEF MiningTypeOK
  <2>4. First(m_timestamps', C) = First(m_timestamps, C)
    BY <2>1, <2>2, <1>t, FirstAppend DEF MiningTypeOK
  <2> QED
    BY <1>2, <1>3, <1>5, <1>p, <2>2, <2>3, <2>4 DEF PendingValid, b
<1>6. CASE job[m].pushed = 2
  <2>1. pc'[m] = "finish"
    BY <1>6, PushLengths
  <2> QED
    BY <2>1, <1>2 DEF PendingValid
<1> QED
  BY <1>4, <1>5, <1>6, PushCases

LEMMA StepPending ==
  MiningTypeOK /\ LengthsFit /\ Exclusive /\ TimesAgree /\ ClockBound
  /\ PendingValid /\ [Next]_vars => PendingValid'
<1> SUFFICES ASSUME MiningTypeOK, LengthsFit, Exclusive, TimesAgree, ClockBound,
                    PendingValid, [Next]_vars
             PROVE  PendingValid'
  OBVIOUS
<1>1. CASE Quiet
  BY <1>1 DEF Quiet, PendingValid, memory, C, Adding
<1>2. ASSUME NEW m \in Miners, Finish(m) PROVE PendingValid'
  <2>1. \A n \in Miners : pc'[n] # "push"
    BY <1>2, LockSteps DEF Exclusive, Adding, MiningTypeOK
  <2> QED
    BY <2>1 DEF PendingValid
<1> QED
  BY <1>1, <1>2, AddPending, PushPending, QuietSteps, QuietTick DEF Next, Miner

LEMMA StepTimes ==
  MiningTypeOK /\ LengthsFit /\ Exclusive /\ PendingValid /\ TimesAgree
  /\ [Next]_vars => TimesAgree'
<1> SUFFICES ASSUME MiningTypeOK, LengthsFit, Exclusive, PendingValid, TimesAgree,
                    [Next]_vars
             PROVE  TimesAgree'
  OBVIOUS
<1>1. CASE UNCHANGED memory
  BY <1>1 DEF memory, TimesAgree
<1>2. ASSUME NEW m \in Miners, Push(m) PROVE TimesAgree'
  <2>t. /\ m_blocks \in Seq(Block) /\ m_timestamps \in Seq(Nat) /\ pc[m] = "push"
        /\ C \in Nat /\ Len(m_timestamps) <= Len(m_blocks)
    BY <1>2, LengthsClose, LockSteps DEF MiningTypeOK
  <2>1. CASE m_blocks' = Append(m_blocks, job[m].b) /\ UNCHANGED m_timestamps
    <3>1. \A k \in 1 .. Len(m_blocks) : m_blocks'[k] = m_blocks[k]
      BY <2>t, <2>1
    <3> QED
      BY <2>t, <2>1, <3>1 DEF TimesAgree
  <2>2. CASE /\ job[m].pushed = 1 /\ UNCHANGED m_blocks
             /\ m_timestamps' = Append(m_timestamps, job[m].b.timestamp)
    <3>1. Len(m_timestamps) = C /\ m_blocks[C + 1] = job[m].b
      BY <2>t, <2>2 DEF LengthsFit, PendingValid
    <3>2. /\ \A k \in 1 .. C : m_timestamps'[k] = m_timestamps[k]
          /\ m_timestamps'[C + 1] = job[m].b.timestamp
          /\ Len(m_timestamps') = C + 1
      BY <2>t, <2>2, <3>1
    <3> QED
      BY <2>t, <2>2, <3>1, <3>2 DEF TimesAgree
  <2>3. CASE UNCHANGED <<m_blocks, m_timestamps>>
    BY <2>3 DEF TimesAgree
  <2> QED
    BY <1>2, <2>1, <2>2, <2>3, PushCases
<1>3. ASSUME NEW m \in Miners, AddNewBlock(m) \/ Finish(m) PROVE UNCHANGED memory
  BY <1>3 DEF AddNewBlock, Finish
<1> QED
  BY <1>1, <1>2, <1>3, QuietSteps, QuietTick DEF Next, Miner, Quiet

(* The part of the invariant that speaks of the chain. *)
ChainInv ==
  MiningTypeOK /\ Exclusive /\ LengthsFit /\ ClockBound /\ PendingValid /\ TimesAgree

LEMMA InitChain == Init => ChainInv
<1> SUFFICES ASSUME Init PROVE ChainInv
  OBVIOUS
<1>1. MiningTypeOK
  BY InitTyped
<1>2. \A m \in Miners : pc[m] = "idle" /\ job[m].pushed = 0
  BY DEF Init, NoJob
<1>3. C = 1 /\ InStep
  BY DEF Init, C, InStep
<1>4. Exclusive /\ LengthsFit /\ PendingValid
  BY <1>2, <1>3 DEF Exclusive, LengthsFit, PendingValid, Adding
<1>5. ClockBound /\ TimesAgree
  BY MiningBoundsAssumption DEF Init, ClockBound, TimesAgree
<1> QED
  BY <1>1, <1>4, <1>5 DEF ChainInv

LEMMA StepChain == ChainInv /\ [Next]_vars => ChainInv'
  BY StepTyped, StepExclusive, StepLengths, StepClock, StepPending, StepTimes
     DEF ChainInv

(* The variables keep their types, for every set of miners. *)
THEOREM MiningTypeCorrect == Spec => []MiningTypeOK
<1>1. ChainInv => MiningTypeOK
  BY DEF ChainInv
<1> QED
  BY <1>1, InitChain, StepChain, PTL DEF Spec
-----------------------------------------------------------------------------
LedgerEntry == [hash : Hashes, prev_id : Hashes \union {ZeroHash},
                timestamp : Nat, cumulative : Nat]

LEMMA AddedIs ==
  ASSUME ChainInv
  PROVE  /\ Added \in Seq(LedgerEntry) /\ Len(Added) = C
         /\ \A k \in 1 .. C :
              Added[k] = [hash |-> m_blocks[k].hash, prev_id |-> m_blocks[k].prev_id,
                          timestamp |-> m_timestamps[k],
                          cumulative |-> m_cumulative_difficulties[k]]
<1> DEFINE entry(k) == [hash |-> m_blocks[k].hash, prev_id |-> m_blocks[k].prev_id,
                        timestamp |-> m_timestamps[k],
                        cumulative |-> m_cumulative_difficulties[k]]
<1>1. C \in Nat /\ C <= Len(m_timestamps) /\ C <= Len(m_blocks)
  BY LengthsClose DEF ChainInv
<1>2. ASSUME NEW k \in 1 .. C PROVE entry(k) \in LedgerEntry
  <2>1. m_blocks[k] \in Block /\ m_timestamps[k] \in Nat
        /\ m_cumulative_difficulties[k] \in Nat
    BY <1>1, <1>2 DEF ChainInv, MiningTypeOK, C
  <2> QED
    BY <2>1 DEF Block, LedgerEntry
<1>3. Added = [k \in 1 .. C |-> entry(k)]
  BY DEF Added, C
<1> HIDE DEF entry
<1>4. Added \in Seq(LedgerEntry) /\ Len(Added) = C /\ \A k \in 1 .. C : Added[k] = entry(k)
  BY <1>1, <1>2, <1>3
<1> QED
  BY <1>4 DEF entry

(* A step that does not lengthen the last vector leaves the chain alone. *)
LEMMA AddedSame ==
  ASSUME ChainInv, UNCHANGED m_cumulative_difficulties,
         \A k \in 1 .. C : m_blocks'[k] = m_blocks[k]
                           /\ m_timestamps'[k] = m_timestamps[k]
  PROVE  UNCHANGED Added
  BY DEF Added, C

(* The last push is the abstract step. *)
LEMMA LastPushExtends ==
  ASSUME ChainInv, ChainInv', NEW m \in Miners, Push(m), job[m].pushed = 2
  PROVE  L!LedgerNext
<1> DEFINE b == job[m].b
           e == [hash |-> b.hash, prev_id |-> Added[C].hash,
                 timestamp |-> b.timestamp,
                 cumulative |-> Added[C].cumulative + job[m].diff]
<1>t. /\ job \in [Miners -> JobType] /\ C \in Nat /\ C >= 1 /\ pc[m] = "push"
      /\ m_cumulative_difficulties \in Seq(Nat)
  BY Typed, LockSteps DEF ChainInv, MiningTypeOK
<1>p. /\ b.prev_id = m_blocks[C].hash /\ b.timestamp > m_timestamps[C]
      /\ b.timestamp \in 0 .. MaxClock + FutureLimit
      /\ job[m].diff \in next_difficulty_lwma3(First(m_timestamps, C),
                                               First(m_cumulative_difficulties, C))
      /\ pow_ok(b.hash, job[m].diff)
      /\ m_blocks[C + 1] = b /\ m_timestamps[C + 1] = b.timestamp
  BY <1>t DEF ChainInv, PendingValid
<1>1. /\ m_cumulative_difficulties' =
           Append(m_cumulative_difficulties,
                  m_cumulative_difficulties[C] + job[m].diff)
      /\ UNCHANGED <<m_blocks, m_timestamps>>
  BY PushCases DEF ChainInv
<1>d. b.hash \in Hashes /\ job[m].diff \in Nat
  BY <1>t DEF JobType, Block
<1>2. /\ C' = C + 1
      /\ \A k \in 1 .. C : m_cumulative_difficulties'[k] = m_cumulative_difficulties[k]
      /\ m_cumulative_difficulties'[C + 1] = m_cumulative_difficulties[C] + job[m].diff
  BY <1>1, <1>t, <1>d DEF C
<1>3. /\ Added \in Seq(LedgerEntry) /\ Len(Added) = C
      /\ \A k \in 1 .. C :
           Added[k] = [hash |-> m_blocks[k].hash, prev_id |-> m_blocks[k].prev_id,
                       timestamp |-> m_timestamps[k],
                       cumulative |-> m_cumulative_difficulties[k]]
  BY AddedIs
<1>4. /\ Added' \in Seq(LedgerEntry) /\ Len(Added') = C + 1
      /\ \A k \in 1 .. C + 1 :
           Added'[k] = [hash |-> m_blocks[k].hash, prev_id |-> m_blocks[k].prev_id,
                        timestamp |-> m_timestamps[k],
                        cumulative |-> m_cumulative_difficulties'[k]]
  <2>1. Added' = [k \in 1 .. C + 1 |->
                    [hash |-> m_blocks[k].hash, prev_id |-> m_blocks[k].prev_id,
                     timestamp |-> m_timestamps[k],
                     cumulative |-> m_cumulative_difficulties'[k]]]
    BY <1>1, <1>2 DEF Added, C
  <2>2. (Added \in Seq(LedgerEntry))'
    BY AddedIs, PTL
  <2>3. Added' \in Seq(LedgerEntry)
    BY <2>2 DEF LedgerEntry
  <2> HIDE DEF C
  <2>4. Len(Added') = C + 1
    BY <2>1, <1>t
  <2> QED
    BY <2>1, <2>3, <2>4
<1>5. Added'[C + 1] = e /\ e \in LedgerEntry
  BY <1>2, <1>3, <1>4, <1>p, <1>t
<1>6. ASSUME NEW k \in 1 .. C PROVE Added'[k] = Added[k]
  <2>1. k \in 1 .. C + 1
    BY <1>6, <1>t
  <2>2. m_cumulative_difficulties'[k] = m_cumulative_difficulties[k]
    BY <1>2
  <2> HIDE DEF C, e
  <2>3. Added'[k] = [hash |-> m_blocks[k].hash, prev_id |-> m_blocks[k].prev_id,
                     timestamp |-> m_timestamps[k],
                     cumulative |-> m_cumulative_difficulties[k]]
    BY <2>1, <2>2, <1>4
  <2> QED
    BY <2>3, <1>3
<1> HIDE DEF e, C
<1>7. Added' = Append(Added, e)
  BY <1>3, <1>4, <1>5, <1>6, <1>t
<1>8. /\ Added # <<>> /\ L!Tip = Added[C] /\ DOMAIN Added = 1 .. C
  BY <1>3, <1>t DEF L!Tip
<1>9. /\ [i \in DOMAIN Added |-> Added[i].timestamp] = First(m_timestamps, C)
      /\ [i \in DOMAIN Added |-> Added[i].cumulative] = First(m_cumulative_difficulties, C)
  BY <1>3, <1>8 DEF First
<1>10. b.timestamp > Added[C].timestamp
  BY <1>p, <1>3, <1>t
<1>11. L!Extend(b.hash, b.timestamp)
  BY <1>p, <1>7, <1>8, <1>9, <1>10 DEF L!Extend, e
<1> QED
  BY <1>11, <1>p, <1>d DEF L!LedgerNext

LEMMA StepImplements == ChainInv /\ ChainInv' /\ [Next]_vars => [L!LedgerNext]_Added
<1> SUFFICES ASSUME ChainInv, ChainInv', [Next]_vars
             PROVE  L!LedgerNext \/ UNCHANGED Added
  OBVIOUS
<1>1. CASE UNCHANGED memory
  BY <1>1 DEF memory, Added
<1>2. ASSUME NEW m \in Miners, Push(m) PROVE L!LedgerNext \/ UNCHANGED Added
  <2>c. C \in Nat /\ C <= Len(m_timestamps) /\ C <= Len(m_blocks)
    BY LengthsClose DEF ChainInv
  <2>t. m_blocks \in Seq(Block) /\ m_timestamps \in Seq(Nat)
    BY DEF ChainInv, MiningTypeOK
  <2>1. CASE job[m].pushed = 2
    BY <1>2, <2>1, LastPushExtends
  <2>2. CASE /\ m_blocks' = Append(m_blocks, job[m].b)
             /\ UNCHANGED <<m_timestamps, m_cumulative_difficulties>>
    <3>1. \A k \in 1 .. C : m_blocks'[k] = m_blocks[k]
      BY <2>c, <2>t, <2>2
    <3> QED
      BY <2>2, <3>1, AddedSame
  <2>3. CASE /\ m_timestamps' = Append(m_timestamps, job[m].b.timestamp)
             /\ UNCHANGED <<m_blocks, m_cumulative_difficulties>>
    <3>1. \A k \in 1 .. C : m_timestamps'[k] = m_timestamps[k]
      BY <2>c, <2>t, <2>3
    <3> QED
      BY <2>3, <3>1, AddedSame
  <2> QED
    BY <1>2, <2>1, <2>2, <2>3, PushCases DEF ChainInv
<1>3. ASSUME NEW m \in Miners, AddNewBlock(m) \/ Finish(m) PROVE UNCHANGED memory
  BY <1>3 DEF AddNewBlock, Finish
<1>4. MiningTypeOK
  BY DEF ChainInv
<1> QED
  BY <1>1, <1>2, <1>3, <1>4, QuietSteps, QuietTick DEF Next, Miner, Quiet

(* The miners implement the ledger: however their unlocked reads and the   *)
(* pushes of add_new_block interleave, blocks are added one at a time and  *)
(* each is valid with respect to all the blocks before it.                 *)
THEOREM MinersImplementLedger == Spec => AddsAreAtomic
<1>1. Init => Added = <<L!GenesisEntry>>
  BY DEF Init, Added, L!GenesisEntry
<1>2. ChainInv /\ ChainInv' /\ [Next]_vars => [L!LedgerNext]_Added
  BY StepImplements
<1> QED
  BY <1>1, <1>2, InitChain, StepChain, PTL DEF Spec, AddsAreAtomic, L!GrowthSpec
-----------------------------------------------------------------------------
(* The readers.  A copy is a prefix of what the vector has become since.   *)
Starts(s, t) == Len(s) <= Len(t) /\ \A k \in 1 .. Len(s) : s[k] = t[k]

Settled == \A n \in Miners : pc[n] # "push"

(* What a miner has read, unless a read was undefined: nothing older than  *)
(* the round.                                                              *)
SoundCopies(l) ==
  /\ l.height \in {l.began, l.began + 1} /\ l.height <= Len(m_blocks)
  /\ "timestamp" \in l.copied =>
       Starts(l.ts, m_timestamps) /\ l.began <= Len(l.ts)
  /\ "difficulty" \in l.copied =>
       Starts(l.cds, m_cumulative_difficulties) /\ l.began <= Len(l.cds)

(* Add_new_block would find the parent and the proof of work right. *)
Fresh(b) ==
  b.prev_id = Top.hash /\ \E d \in get_current_difficulty : pow_ok(b.hash, d)

ReadInv(m) ==
  /\ pc[m] # "copy" => local[m].copied = {}
  /\ pc[m] \in {"copy", "submit"} => local[m].began <= C
  /\ pc[m] = "copy" => SoundCopies(local[m]) \/ local[m].wild
  /\ pc[m] = "copy" /\ local[m].wild => ~Settled \/ C > local[m].began
  /\ pc[m] = "submit" /\ Settled /\ C = local[m].began => Fresh(job[m].b)

(* Vectors only grow. *)
LEMMA VectorsGrow ==
  ASSUME ChainInv, [Next]_vars
  PROVE  /\ Starts(m_timestamps, m_timestamps')
         /\ Starts(m_cumulative_difficulties, m_cumulative_difficulties')
         /\ Len(m_blocks) <= Len(m_blocks') /\ C <= C'
<1>t. /\ m_blocks \in Seq(Block) /\ m_timestamps \in Seq(Nat)
      /\ m_cumulative_difficulties \in Seq(Nat)
  BY DEF ChainInv, MiningTypeOK
<1>1. CASE UNCHANGED memory
  BY <1>1, <1>t DEF memory, Starts, C
<1>2. ASSUME NEW m \in Miners, Push(m)
      PROVE  /\ Starts(m_timestamps, m_timestamps')
             /\ Starts(m_cumulative_difficulties, m_cumulative_difficulties')
             /\ Len(m_blocks) <= Len(m_blocks') /\ C <= C'
  <2>1. \A e : Starts(m_timestamps, Append(m_timestamps, e))
    BY <1>t DEF Starts
  <2>2. \A e : Starts(m_cumulative_difficulties, Append(m_cumulative_difficulties, e))
             /\ C <= Len(Append(m_cumulative_difficulties, e))
    BY <1>t DEF Starts, C
  <2>3. \A e : Len(m_blocks) <= Len(Append(m_blocks, e))
    BY <1>t
  <2>4. /\ Starts(m_timestamps, m_timestamps) /\ C <= C
        /\ Starts(m_cumulative_difficulties, m_cumulative_difficulties)
        /\ Len(m_blocks) <= Len(m_blocks)
    BY <1>t DEF Starts, C
  <2> QED
    BY <1>2, <2>1, <2>2, <2>3, <2>4, PushCases DEF ChainInv, C
<1>3. ASSUME NEW m \in Miners, AddNewBlock(m) \/ Finish(m) PROVE UNCHANGED memory
  BY <1>3 DEF AddNewBlock, Finish
<1>4. MiningTypeOK
  BY DEF ChainInv
<1> QED
  BY <1>1, <1>2, <1>3, <1>4, QuietSteps, QuietTick DEF Next, Miner, Quiet

(* Pushing ends with a longer chain.  A step after which nobody pushes and *)
(* that left the length alone left everything alone.                       *)
LEMMA PushEnds ==
  ASSUME ChainInv, [Next]_vars, Settled', C' = C
  PROVE  Settled /\ UNCHANGED memory
<1>t. C \in Nat /\ MiningTypeOK /\ LengthsFit /\ Exclusive
  BY Typed DEF ChainInv
<1>1. CASE Quiet
  BY <1>1 DEF Quiet, Settled
<1>2. ASSUME NEW m \in Miners, Push(m) PROVE FALSE
  <2>1. pc'[m] # "push"
    BY DEF Settled
  <2>2. C' = C + 1
    BY <1>2, <1>t, <2>1, PushLengths
  <2> QED
    BY <2>2, <1>t
<1>3. ASSUME NEW m \in Miners, AddNewBlock(m) PROVE FALSE
  BY <1>3, <1>t, LockSteps DEF Settled, MiningTypeOK
<1>4. ASSUME NEW m \in Miners, Finish(m) PROVE Settled /\ UNCHANGED memory
  <2>1. pc[m] = "finish"
    BY <1>4, <1>t, LockSteps
  <2> QED
    BY <1>4, <1>t, <2>1 DEF Exclusive, Adding, Settled, Finish
<1> QED
  BY <1>1, <1>2, <1>3, <1>4, <1>t, QuietSteps, QuietTick DEF Next, Miner

LEMMA StartsTransitive ==
  ASSUME NEW r \in Seq(Nat), NEW s \in Seq(Nat), NEW t \in Seq(Nat),
         Starts(r, s), Starts(s, t)
  PROVE  Starts(r, t)
  BY DEF Starts

LEMMA LocalTyped ==
  ASSUME MiningTypeOK, NEW m \in Miners
  PROVE  /\ local[m].began \in Nat /\ local[m].height \in Nat
         /\ local[m].wild \in BOOLEAN /\ local[m].copied \in SUBSET Both
         /\ local[m].ts \in Seq(Nat) /\ local[m].cds \in Seq(Nat)
<1>1. local[m] \in LocalType
  BY ThreadsTyped
<1> QED
  BY <1>1 DEF LocalType

(* What the others do does not spoil what a miner has read. *)
LEMMA CopiesLast ==
  ASSUME ChainInv, ChainInv', [Next]_vars, NEW m \in Miners, SoundCopies(local[m])
  PROVE  /\ local[m].height \in {local[m].began, local[m].began + 1}
         /\ local[m].height <= Len(m_blocks')
         /\ "timestamp" \in local[m].copied =>
              Starts(local[m].ts, m_timestamps') /\ local[m].began <= Len(local[m].ts)
         /\ "difficulty" \in local[m].copied =>
              /\ Starts(local[m].cds, m_cumulative_difficulties')
              /\ local[m].began <= Len(local[m].cds)
<1>1. /\ m_timestamps \in Seq(Nat) /\ m_timestamps' \in Seq(Nat)
      /\ m_cumulative_difficulties \in Seq(Nat)
      /\ m_cumulative_difficulties' \in Seq(Nat)
      /\ Len(m_blocks) \in Nat /\ Len(m_blocks') \in Nat
  BY DEF ChainInv, MiningTypeOK
<1>2. /\ local[m].ts \in Seq(Nat) /\ local[m].cds \in Seq(Nat)
      /\ local[m].height \in Nat
  BY LocalTyped DEF ChainInv
<1>3. /\ Starts(m_timestamps, m_timestamps')
      /\ Starts(m_cumulative_difficulties, m_cumulative_difficulties')
      /\ Len(m_blocks) <= Len(m_blocks')
  BY VectorsGrow
<1>4. "timestamp" \in local[m].copied => Starts(local[m].ts, m_timestamps')
  BY <1>1, <1>2, <1>3, StartsTransitive DEF SoundCopies
<1>5. "difficulty" \in local[m].copied =>
        Starts(local[m].cds, m_cumulative_difficulties')
  BY <1>1, <1>2, <1>3, StartsTransitive DEF SoundCopies
<1>6. local[m].height <= Len(m_blocks')
  BY <1>1, <1>2, <1>3 DEF SoundCopies
<1> QED
  BY <1>4, <1>5, <1>6 DEF SoundCopies

LEMMA OtherReads ==
  ASSUME ChainInv, ChainInv', [Next]_vars, NEW m \in Miners, ReadInv(m),
         pc'[m] = pc[m], local'[m] = local[m], job'[m].b = job[m].b
  PROVE  ReadInv(m)'
<1>t. C \in Nat /\ C' \in Nat /\ local[m].began \in Nat /\ C <= C'
  <2>1. C \in Nat /\ C' \in Nat
    BY DEF ChainInv, MiningTypeOK, C
  <2> QED
    BY <2>1, LocalTyped, VectorsGrow DEF ChainInv
<1>1. pc'[m] \in {"copy", "submit"} => local'[m].began <= C'
  BY <1>t DEF ReadInv
<1>2. pc'[m] = "copy" =>
        \/ /\ local'[m].height \in {local'[m].began, local'[m].began + 1}
           /\ local'[m].height <= Len(m_blocks')
           /\ "timestamp" \in local'[m].copied =>
                Starts(local'[m].ts, m_timestamps') /\ local'[m].began <= Len(local'[m].ts)
           /\ "difficulty" \in local'[m].copied =>
                /\ Starts(local'[m].cds, m_cumulative_difficulties')
                /\ local'[m].began <= Len(local'[m].cds)
        \/ local'[m].wild
  <2>1. CASE pc'[m] = "copy" /\ SoundCopies(local[m])
    BY <2>1, CopiesLast
  <2> QED
    BY <2>1 DEF ReadInv
<1>3. ASSUME pc'[m] = "copy", local'[m].wild, Settled' PROVE C' > local'[m].began
  <2>1. local[m].began <= C /\ (~Settled \/ C > local[m].began)
    BY <1>3 DEF ReadInv
  <2>2. C' = C => Settled
    BY <1>3, PushEnds
  <2> QED
    BY <2>1, <2>2, <1>t
<1>4. ASSUME pc'[m] = "submit", Settled', C' = local'[m].began
      PROVE  /\ job'[m].b.prev_id = Top'.hash
             /\ \E d \in get_current_difficulty' : pow_ok(job'[m].b.hash, d)
  <2>1. C' = C
    BY <1>4, <1>t DEF ReadInv
  <2>2. Settled /\ UNCHANGED memory
    BY <1>4, <2>1, PushEnds
  <2>3. job[m].b.prev_id = Top.hash /\ \E d \in get_current_difficulty : pow_ok(job[m].b.hash, d)
    BY <1>4, <2>1, <2>2 DEF ReadInv, Fresh
  <2>4. Top' = Top /\ get_current_difficulty' = get_current_difficulty
    BY <2>2 DEF memory, Top, get_current_difficulty
  <2> QED
    BY <2>3, <2>4
<1>5. pc'[m] # "copy" => local'[m].copied = {}
  BY DEF ReadInv
<1> QED
  BY <1>1, <1>2, <1>3, <1>4, <1>5 DEF ReadInv, SoundCopies, Fresh

(* Miners that are not the one who steps. *)
Untouched(m) == pc'[m] = pc[m] /\ local'[m] = local[m] /\ job'[m].b = job[m].b

LEMMA OthersUntouched ==
  ASSUME ChainInv, NEW m \in Miners, Miner(m), NEW n \in Miners, n # m
  PROVE  Untouched(n)
<1> USE DEF Untouched, Goto
<1>t. /\ pc \in [Miners -> {"idle", "copy", "submit", "push", "finish"}]
      /\ local \in [Miners -> LocalType] /\ job \in [Miners -> JobType]
  BY ThreadsTyped DEF ChainInv, MiningTypeOK
<1>1. CASE handle_request(m)
  BY <1>t, <1>1 DEF handle_request
<1>2. CASE CopyTimestamps(m)
  BY <1>t, <1>2 DEF CopyTimestamps
<1>3. CASE CopyDifficulties(m)
  BY <1>t, <1>3 DEF CopyDifficulties
<1>4. CASE Solve(m)
  BY <1>t, <1>4 DEF Solve
<1>5. CASE GiveUp(m)
  BY <1>t, <1>5 DEF GiveUp
<1>6. CASE AddNewBlock(m)
  BY <1>t, <1>6 DEF AddNewBlock
<1>7. CASE Refuse(m)
  BY <1>t, <1>7 DEF Refuse
<1>8. CASE Push(m)
  BY <1>t, <1>8 DEF Push
<1>9. CASE Finish(m)
  BY <1>t, <1>9 DEF Finish, unlock
<1> QED
  BY <1>1, <1>2, <1>3, <1>4, <1>5, <1>6, <1>7, <1>8, <1>9 DEF Miner

(* A read is undefined only while somebody pushes. *)
LEMMA UndefinedWhilePushing ==
  ASSUME NEW vector, NEW wild \in UndefinedReads(vector), wild
  PROVE  ~Settled
  BY DEF UndefinedReads, Pushing, Settled

(* The first read of a round. *)
LEMMA RequestReads ==
  ASSUME ChainInv, ChainInv', NEW m \in Miners, ReadInv(m), handle_request(m)
  PROVE  ReadInv(m)'
<1>t. /\ pc \in [Miners -> {"idle", "copy", "submit", "push", "finish"}]
      /\ local \in [Miners -> LocalType] /\ C \in Nat
      /\ Len(m_blocks) \in {C, C + 1}
  BY ThreadsTyped, LengthsClose DEF ChainInv, MiningTypeOK
<1>1. pc[m] = "idle" /\ pc' = [pc EXCEPT ![m] = "copy"] /\ UNCHANGED memory
  BY DEF handle_request, Goto
<1>2. PICK wild \in UndefinedReads("block") :
        local' = [local EXCEPT ![m].began = Len(m_cumulative_difficulties),
                               ![m].height = IF wild THEN 0 ELSE get_current_height,
                               ![m].wild = wild]
  BY DEF handle_request
<1>3. /\ local'[m].began = C /\ local'[m].wild = wild
      /\ ~wild => local'[m].height = Len(m_blocks)
      /\ local'[m].copied = local[m].copied
  BY <1>t, <1>2 DEF LocalType, C, get_current_height
<1>4. local'[m].copied = {}
  BY <1>1, <1>3 DEF ReadInv
<1>5. wild \in BOOLEAN
  BY DEF UndefinedReads
<1>6. wild => ~Settled'
  BY <1>t, <1>1, UndefinedWhilePushing DEF Settled
<1>7. pc'[m] = "copy" /\ C' = C /\ m_blocks' = m_blocks
  BY <1>t, <1>1 DEF memory, C
<1>8. ~wild => local'[m].height \in {C, C + 1} /\ local'[m].height <= Len(m_blocks')
  BY <1>t, <1>3, <1>7
<1> QED
  BY <1>t, <1>3, <1>4, <1>5, <1>6, <1>7, <1>8 DEF ReadInv, SoundCopies

(* The two copies of get_current_difficulty. *)
LEMMA CopyReads ==
  ASSUME ChainInv, ChainInv', NEW m \in Miners, ReadInv(m),
         CopyTimestamps(m) \/ CopyDifficulties(m)
  PROVE  ReadInv(m)'
<1>t. /\ local \in [Miners -> LocalType] /\ C \in Nat
      /\ C <= Len(m_timestamps) /\ Len(m_timestamps) \in Nat
      /\ m_timestamps \in Seq(Nat) /\ m_cumulative_difficulties \in Seq(Nat)
  <2>1. local \in [Miners -> LocalType]
    BY ThreadsTyped DEF ChainInv
  <2>2. m_timestamps \in Seq(Nat) /\ m_cumulative_difficulties \in Seq(Nat)
    BY DEF ChainInv, MiningTypeOK
  <2>3. C \in Nat /\ Len(m_timestamps) \in {C, C + 1}
    BY LengthsClose DEF ChainInv
  <2> QED
    BY <2>1, <2>2, <2>3
<1>1. pc[m] = "copy" /\ pc' = pc /\ UNCHANGED memory
  BY DEF CopyTimestamps, CopyDifficulties
<1>2. /\ C' = C /\ (Settled' <=> Settled)
      /\ m_blocks' = m_blocks /\ m_timestamps' = m_timestamps
      /\ m_cumulative_difficulties' = m_cumulative_difficulties
  BY <1>1 DEF C, Settled, memory
<1>3. /\ local[m].began \in Nat /\ local[m].began <= C
      /\ SoundCopies(local[m]) \/ local[m].wild
      /\ local[m].wild => ~Settled \/ C > local[m].began
      /\ local[m].wild \in BOOLEAN
  BY <1>1, LocalTyped DEF ReadInv, ChainInv
<1>4. /\ Starts(m_timestamps, m_timestamps)
      /\ Starts(m_cumulative_difficulties, m_cumulative_difficulties)
      /\ local[m].began <= Len(m_timestamps)
  BY <1>t, <1>3 DEF Starts
<1>5. CASE CopyTimestamps(m)
  <2>1. PICK wild \in UndefinedReads("timestamp") :
          local' = [local EXCEPT ![m].copied = @ \union {"timestamp"},
                                 ![m].wild = @ \/ wild,
                                 ![m].ts = IF wild THEN <<>> ELSE m_timestamps]
    BY <1>5 DEF CopyTimestamps
  <2>2. wild \in BOOLEAN
    BY DEF UndefinedReads
  <2>3. /\ local'[m].began = local[m].began /\ local'[m].height = local[m].height
        /\ local'[m].copied = local[m].copied \union {"timestamp"}
        /\ local'[m].cds = local[m].cds
        /\ ~wild => local'[m].ts = m_timestamps
    BY <1>t, <2>1 DEF LocalType
  <2>4. local'[m].wild <=> local[m].wild \/ wild
    BY <1>t, <1>3, <2>1, <2>2 DEF LocalType
  <2>5. wild => ~Settled
    BY UndefinedWhilePushing
  <2>6. SoundCopies(local[m]) /\ ~wild =>
          /\ local'[m].height \in {local'[m].began, local'[m].began + 1}
          /\ local'[m].height <= Len(m_blocks')
          /\ Starts(local'[m].ts, m_timestamps') /\ local'[m].began <= Len(local'[m].ts)
          /\ "difficulty" \in local'[m].copied =>
               /\ Starts(local'[m].cds, m_cumulative_difficulties')
               /\ local'[m].began <= Len(local'[m].cds)
    BY <1>2, <1>4, <2>3 DEF SoundCopies
  <2> QED
    BY <1>1, <1>2, <1>3, <2>2, <2>3, <2>4, <2>5, <2>6 DEF ReadInv, SoundCopies
<1>6. CASE CopyDifficulties(m)
  <2>1. PICK wild \in UndefinedReads("difficulty") :
          local' = [local EXCEPT ![m].copied = @ \union {"difficulty"},
                                 ![m].wild = @ \/ wild,
                                 ![m].cds = IF wild THEN <<>>
                                            ELSE m_cumulative_difficulties]
    BY <1>6 DEF CopyDifficulties
  <2>2. wild \in BOOLEAN
    BY DEF UndefinedReads
  <2>3. /\ local'[m].began = local[m].began /\ local'[m].height = local[m].height
        /\ local'[m].copied = local[m].copied \union {"difficulty"}
        /\ local'[m].ts = local[m].ts
        /\ ~wild => local'[m].cds = m_cumulative_difficulties
    BY <1>t, <2>1 DEF LocalType
  <2>4. local'[m].wild <=> local[m].wild \/ wild
    BY <1>t, <1>3, <2>1, <2>2 DEF LocalType
  <2>5. wild => ~Settled
    BY UndefinedWhilePushing
  <2>6. SoundCopies(local[m]) /\ ~wild =>
          /\ local'[m].height \in {local'[m].began, local'[m].began + 1}
          /\ local'[m].height <= Len(m_blocks')
          /\ "timestamp" \in local'[m].copied =>
               Starts(local'[m].ts, m_timestamps') /\ local'[m].began <= Len(local'[m].ts)
          /\ Starts(local'[m].cds, m_cumulative_difficulties')
          /\ local'[m].began <= Len(local'[m].cds)
    BY <1>2, <1>3, <1>4, <2>3 DEF SoundCopies, C
  <2> QED
    BY <1>1, <1>2, <1>3, <2>2, <2>3, <2>4, <2>5, <2>6 DEF ReadInv, SoundCopies
<1> QED
  BY <1>5, <1>6

(* Copies of a chain that has not grown are the chain. *)
LEMMA CopiesAreWhole ==
  ASSUME ChainInv, NEW m \in Miners, ReadInv(m), Settled, C = local[m].began,
         local[m].copied = Both
  PROVE  /\ ~local[m].wild /\ SoundCopies(local[m])
         /\ local[m].ts = m_timestamps /\ local[m].cds = m_cumulative_difficulties
<1>1. /\ C \in Nat /\ Len(m_timestamps) = C
      /\ m_timestamps \in Seq(Nat) /\ m_cumulative_difficulties \in Seq(Nat)
      /\ local[m].ts \in Seq(Nat) /\ local[m].cds \in Seq(Nat)
      /\ local[m].wild \in BOOLEAN
  BY LocalTyped DEF ChainInv, MiningTypeOK, LengthsFit, InStep, Settled, C
<1>2. pc[m] = "copy"
  BY DEF ReadInv, Both
<1>3. ~local[m].wild /\ SoundCopies(local[m])
  BY <1>1, <1>2 DEF ReadInv
<1>4. /\ Starts(local[m].ts, m_timestamps) /\ C <= Len(local[m].ts)
      /\ Starts(local[m].cds, m_cumulative_difficulties) /\ C <= Len(local[m].cds)
  BY <1>3 DEF SoundCopies, Both
<1>5. \A s, t \in Seq(Nat) : Starts(s, t) /\ Len(t) <= Len(s) => s = t
  BY DEF Starts
<1>6. local[m].ts = m_timestamps
  BY <1>1, <1>4, <1>5
<1>7. local[m].cds = m_cumulative_difficulties
  BY <1>1, <1>4, <1>5 DEF C
<1> QED
  BY <1>3, <1>6, <1>7

(* A solution: if the chain has not grown, it was found for the chain. *)
LEMMA SolveReads ==
  ASSUME ChainInv, ChainInv', NEW m \in Miners, ReadInv(m), Solve(m)
  PROVE  ReadInv(m)'
<1>t. /\ pc \in [Miners -> {"idle", "copy", "submit", "push", "finish"}]
      /\ local \in [Miners -> LocalType] /\ job \in [Miners -> JobType]
  BY ThreadsTyped DEF ChainInv, MiningTypeOK
<1>1. /\ pc[m] = "copy" /\ pc' = [pc EXCEPT ![m] = "submit"] /\ UNCHANGED memory
      /\ local[m].copied = Both
  BY DEF Solve, Goto
<1>2. local'[m] = [Nothing EXCEPT !.began = local[m].began]
  BY <1>t DEF Solve
<1>3. local'[m].began = local[m].began /\ local'[m].copied = {}
  BY <1>2 DEF Nothing
<1>4. /\ C' = C /\ Top' = Top /\ get_current_difficulty' = get_current_difficulty
      /\ pc'[m] = "submit" /\ (Settled' => Settled)
  BY <1>t, <1>1 DEF C, memory, Top, get_current_difficulty, Settled
<1>5. ASSUME Settled, C = local[m].began
      PROVE  /\ job'[m].b.prev_id = Top.hash
             /\ \E d \in get_current_difficulty : pow_ok(job'[m].b.hash, d)
  <2>1. PICK hash \in Hashes, wild \in UndefinedReads("block") :
        \E parent \in IF wild THEN Hashes ELSE {Top.hash} :
          /\ LooksSolved(hash, local[m])
          /\ job' = [job EXCEPT ![m].b = [hash |-> hash, prev_id |-> parent,
                                         timestamp |-> clock + Skew[m]]]
    BY DEF Solve
  <2>2. ~wild
    BY <1>5, UndefinedWhilePushing
  <2>3. /\ LooksSolved(hash, local[m])
        /\ job' = [job EXCEPT ![m].b = [hash |-> hash, prev_id |-> Top.hash,
                                       timestamp |-> clock + Skew[m]]]
    BY <2>1, <2>2
  <2>4. job'[m].b.prev_id = Top.hash /\ job'[m].b.hash = hash
    BY <1>t, <2>3 DEF JobType
  <2>5. /\ ~local[m].wild
        /\ local[m].ts = m_timestamps /\ local[m].cds = m_cumulative_difficulties
    BY <1>1, <1>5, CopiesAreWhole
  <2>6. InRange(local[m])
    <3>1. C \in Nat /\ Len(m_timestamps) = C
      BY <1>5, Typed DEF ChainInv, LengthsFit, InStep, Settled
    <3> QED
      BY <2>5, <3>1 DEF InRange, C
  <2> QED
    BY <2>3, <2>4, <2>5, <2>6 DEF LooksSolved, get_current_difficulty
<1>6. local[m].began <= C
  BY <1>1 DEF ReadInv
<1> QED
  BY <1>3, <1>4, <1>5, <1>6 DEF ReadInv, Fresh

(* The ends of a round, and its way through add_new_block. *)
LEMMA EndReads ==
  ASSUME ChainInv, ChainInv', NEW m \in Miners, ReadInv(m),
         GiveUp(m) \/ AddNewBlock(m) \/ Refuse(m) \/ Push(m) \/ Finish(m)
  PROVE  ReadInv(m)'
<1>t. /\ pc \in [Miners -> {"idle", "copy", "submit", "push", "finish"}]
      /\ local \in [Miners -> LocalType]
  BY ThreadsTyped DEF ChainInv, MiningTypeOK
<1>1. CASE GiveUp(m) \/ Refuse(m) \/ Finish(m)
  <2>1. local'[m] = Nothing /\ pc'[m] = "idle"
    BY <1>t, <1>1 DEF GiveUp, Refuse, Finish, forget, unlock, Goto
  <2> QED
    BY <2>1 DEF ReadInv, Nothing
<1>2. CASE AddNewBlock(m) \/ Push(m)
  <2>1. local'[m] = local[m] /\ pc'[m] \in {"push", "finish"} /\ pc[m] # "copy"
    BY <1>t, <1>2 DEF AddNewBlock, Push, Goto
  <2> QED
    BY <2>1 DEF ReadInv
<1> QED
  BY <1>1, <1>2

ReadersInv == ChainInv /\ \A m \in Miners : ReadInv(m)

LEMMA InitReaders == Init => ReadersInv
<1> SUFFICES ASSUME Init PROVE \A m \in Miners : ReadInv(m)
  BY InitChain DEF ReadersInv
<1>1. \A m \in Miners : pc[m] = "idle" /\ local[m].copied = {}
  BY DEF Init, Nothing
<1> QED
  BY <1>1 DEF ReadInv

LEMMA StepReaders == ReadersInv /\ [Next]_vars => ReadersInv'
<1> SUFFICES ASSUME ReadersInv, [Next]_vars, NEW n \in Miners PROVE ReadInv(n)'
  BY StepChain DEF ReadersInv
<1>t. ChainInv /\ ChainInv' /\ ReadInv(n)
  BY StepChain DEF ReadersInv
<1>1. ASSUME NEW m \in Miners, Miner(m), m # n PROVE ReadInv(n)'
  BY <1>t, <1>1, OthersUntouched, OtherReads DEF Untouched
<1>2. CASE Tick \/ UNCHANGED vars
  <2>1. Untouched(n)
    BY <1>2 DEF Tick, vars, Untouched
  <2> QED
    BY <1>t, <2>1, OtherReads DEF Untouched
<1>3. CASE Miner(n)
  BY <1>t, <1>3, RequestReads, CopyReads, SolveReads, EndReads DEF Miner
<1> QED
  BY <1>1, <1>2, <1>3 DEF Next

(* An index of get_current_difficulty is out of range only if two blocks   *)
(* were added or begun during the call, for every number of miners         *)
(* (blockchain.cpp:57-59).                                                 *)
THEOREM AlwaysOutOfRangeTakesTwo == Spec => []OutOfRangeTakesTwoBlocks
<1>1. ReadersInv => OutOfRangeTakesTwoBlocks
  <2> SUFFICES ASSUME ReadersInv, NEW m \in Miners, local[m].copied = Both,
                      ~local[m].wild, ~InRange(local[m])
               PROVE  Len(m_blocks) >= local[m].began + 2
    BY DEF OutOfRangeTakesTwoBlocks
  <2>t. ReadInv(m) /\ ChainInv
    BY DEF ReadersInv
  <2>1. pc[m] = "copy" /\ SoundCopies(local[m])
    BY <2>t DEF ReadInv, Both
  <2>2. Len(local[m].ts) <= Len(m_timestamps) /\ local[m].began <= Len(local[m].cds)
    BY <2>1 DEF SoundCopies, Both, Starts
  <2>3. Len(local[m].ts) > Len(local[m].cds) + 1
    <3>1. Len(local[m].ts) \in Nat /\ Len(local[m].cds) \in Nat
      BY <2>t, LocalTyped DEF ChainInv
    <3> QED
      BY <3>1 DEF InRange
  <2>4. Len(m_timestamps) <= Len(m_blocks)
    BY <2>t, LengthsClose DEF ChainInv
  <2>5. /\ Len(local[m].ts) \in Nat /\ Len(local[m].cds) \in Nat
        /\ local[m].began \in Nat
    BY <2>t, LocalTyped DEF ChainInv
  <2>6. Len(m_timestamps) \in Nat /\ Len(m_blocks) \in Nat
    BY <2>t DEF ChainInv, MiningTypeOK
  <2> QED
    BY <2>2, <2>3, <2>4, <2>5, <2>6
<1> QED
  BY <1>1, InitReaders, StepReaders, PTL DEF Spec

(* The height and the difficulty of one answer belong together, up to the  *)
(* block in progress, and exactly if no block overlapped the request       *)
(* (rpc_server.cpp:32-33).                                                 *)
THEOREM AlwaysInfoIsCurrent == Spec => []InfoIsCurrent
<1>1. ReadersInv => InfoIsCurrent
  <2> SUFFICES ASSUME ReadersInv, NEW m \in Miners, local[m].copied = Both,
                      ~local[m].wild
               PROVE  /\ local[m].height <= Len(local[m].ts) + 1
                      /\ local[m].height <= Len(local[m].cds) + 1
                      /\ lock_free /\ Len(m_blocks) = local[m].began =>
                           /\ local[m].height = Len(m_blocks)
                           /\ local[m].ts = m_timestamps
                           /\ local[m].cds = m_cumulative_difficulties
    BY DEF InfoIsCurrent
  <2>t. ReadInv(m) /\ ChainInv
    BY DEF ReadersInv
  <2>1. pc[m] = "copy" /\ SoundCopies(local[m])
    BY <2>t DEF ReadInv, Both
  <2>2. /\ local[m].height \in {local[m].began, local[m].began + 1}
        /\ local[m].began <= Len(local[m].ts) /\ local[m].began <= Len(local[m].cds)
        /\ local[m].height <= Len(m_blocks)
    BY <2>1 DEF SoundCopies, Both
  <2>3. /\ Len(local[m].ts) \in Nat /\ Len(local[m].cds) \in Nat
        /\ local[m].began \in Nat /\ local[m].height \in Nat
    BY <2>t, LocalTyped DEF ChainInv
  <2>4. ASSUME lock_free, Len(m_blocks) = local[m].began
        PROVE  /\ local[m].height = Len(m_blocks)
               /\ local[m].ts = m_timestamps
               /\ local[m].cds = m_cumulative_difficulties
    <3>1. Settled /\ C = Len(m_blocks)
      BY <2>t, <2>4 DEF ChainInv, LengthsFit, InStep, Settled, lock_free
    <3>2. local[m].ts = m_timestamps /\ local[m].cds = m_cumulative_difficulties
      BY <2>t, <2>4, <3>1, CopiesAreWhole
    <3>3. local[m].height = Len(m_blocks)
      BY <2>2, <2>3, <2>4
    <3> QED
      BY <3>2, <3>3
  <2>5. /\ local[m].height <= Len(local[m].ts) + 1
        /\ local[m].height <= Len(local[m].cds) + 1
    BY <2>2, <2>3
  <2> QED
    BY <2>4, <2>5
<1> QED
  BY <1>1, InitReaders, StepReaders, PTL DEF Spec

(* A solution found for the chain as it was is refused only if the chain   *)
(* has grown since the round began (main.cpp:52-80).                       *)
THEOREM AlwaysLostOnlyToOthers == Spec => []WorkLostOnlyToOthers
<1>1. ReadersInv => WorkLostOnlyToOthers
  <2> SUFFICES ASSUME ReadersInv, NEW m \in Miners, pc[m] = "submit", lock_free,
                      Len(m_blocks) = local[m].began
               PROVE  Fresh(job[m].b)
    BY DEF WorkLostOnlyToOthers, Fresh
  <2>1. Settled /\ C = Len(m_blocks)
    BY DEF ReadersInv, ChainInv, LengthsFit, InStep, Settled, lock_free
  <2> QED
    BY <2>1 DEF ReadersInv, ReadInv
<1> QED
  BY <1>1, InitReaders, StepReaders, PTL DEF Spec
-----------------------------------------------------------------------------
(* The epochs.  Blocks whose add_new_block has returned: *)
Returned == IF \E m \in Miners : pc[m] = "finish" THEN C - 1 ELSE C

(* The dataset of epoch e was asked for by block number e * EpochBlocks -  *)
(* LagBlocks.                                                              *)
PreparedSoFar ==
  \A e \in Nat \ {0} :
    e * EpochBlocks + 1 <= Returned + LagBlocks => e \in prepared

LEMMA MultiplesApart ==
  ASSUME NEW n \in Nat, NEW d \in Nat, NEW e \in Nat, d < e
  PROVE  d * n + n <= e * n
<1>1. PICK k \in Nat : e = d + 1 + k
  <2>1. e - d - 1 \in Nat /\ e = d + 1 + (e - d - 1)
    OBVIOUS
  <2> QED
    BY <2>1
<1> QED
  BY <1>1

LEMMA DivisionUnique ==
  ASSUME NEW n \in Nat \ {0}, NEW d \in Nat, NEW e \in Nat,
         NEW r \in 0 .. n - 1, NEW s \in 0 .. n - 1, d * n + r = e * n + s
  PROVE  d = e /\ r = s
<1>0. d * n \in Nat /\ e * n \in Nat
  OBVIOUS
<1>1. ~(d < e)
  <2> SUFFICES ASSUME d < e PROVE FALSE
    OBVIOUS
  <2>1. d * n + n <= e * n
    BY MultiplesApart
  <2> QED
    BY <1>0, <2>1
<1>2. ~(e < d)
  <2> SUFFICES ASSUME e < d PROVE FALSE
    OBVIOUS
  <2>1. e * n + n <= d * n
    BY MultiplesApart
  <2> QED
    BY <1>0, <2>1
<1>3. d = e
  BY <1>1, <1>2
<1> QED
  BY <1>0, <1>3

(* What block number e * EpochBlocks - LagBlocks asks for. *)
LEMMA EpochOfLag ==
  ASSUME NEW e \in Nat \ {0}, NEW c \in Nat, e * EpochBlocks + 1 = c + LagBlocks
  PROVE  /\ (c - 1 + LagBlocks) % EpochBlocks = 0
         /\ c \div EpochBlocks + 1 = e
<1> USE EpochAssumption
<1> DEFINE q == (c - 1 + LagBlocks) \div EpochBlocks
           r == (c - 1 + LagBlocks) % EpochBlocks
           p == c \div EpochBlocks
           t == c % EpochBlocks
<1>0. /\ EpochBlocks \in Nat \ {0} /\ e * EpochBlocks \in Nat
      /\ c - 1 + LagBlocks = e * EpochBlocks
  OBVIOUS
<1>1. /\ q \in Nat /\ r \in 0 .. EpochBlocks - 1
      /\ q * EpochBlocks + r = e * EpochBlocks + 0
  BY <1>0
<1>2. p \in Nat /\ t \in 0 .. EpochBlocks - 1 /\ p * EpochBlocks + t = c
  BY <1>0
<1> HIDE DEF q, r, p, t
<1>3. r = 0
  BY <1>0, <1>1, DivisionUnique
<1>4. p = e - 1
  <2>1. EpochBlocks - LagBlocks + 1 \in 0 .. EpochBlocks - 1 /\ e - 1 \in Nat
    OBVIOUS
  <2>2. (e - 1) * EpochBlocks = e * EpochBlocks - EpochBlocks
    OBVIOUS
  <2>3. p * EpochBlocks + t = (e - 1) * EpochBlocks + (EpochBlocks - LagBlocks + 1)
    BY <1>0, <1>2, <2>2
  <2> QED
    BY <1>0, <1>2, <2>1, <2>3, DivisionUnique
<1> QED
  BY <1>3, <1>4 DEF r, p

LEMMA InitPrepared == Init => PreparedSoFar
<1> SUFFICES ASSUME Init, NEW e \in Nat \ {0} PROVE ~(e * EpochBlocks + 1 <= Returned + LagBlocks)
  BY DEF PreparedSoFar
<1>1. Returned = 1
  BY DEF Init, Returned, C
<1>2. 0 * EpochBlocks + EpochBlocks <= e * EpochBlocks /\ e * EpochBlocks \in Nat
  BY EpochAssumption, MultiplesApart
<1> QED
  BY <1>1, <1>2, EpochAssumption

LEMMA StepPrepared ==
  ASSUME ChainInv, ChainInv', PreparedSoFar, [Next]_vars
  PROVE  PreparedSoFar'
<1>t. C \in Nat /\ C >= 1 /\ MiningTypeOK /\ LengthsFit /\ Exclusive
  BY Typed DEF ChainInv
<1>u. Exclusive' /\ pc \in [Miners -> Steps]
  BY <1>t, Typed DEF ChainInv
<1>1. ASSUME Returned' = Returned, UNCHANGED prepared PROVE PreparedSoFar'
  BY <1>1 DEF PreparedSoFar
<1>2. CASE Quiet
  <2>1. Returned' = Returned
    BY <1>2 DEF Quiet, memory, Returned, C
  <2> QED
    BY <1>1, <1>2, <2>1 DEF Quiet
<1>3. ASSUME NEW m \in Miners, AddNewBlock(m) PROVE PreparedSoFar'
  <2>1. (\A n \in Miners : ~Adding(n)) /\ pc' = [pc EXCEPT ![m] = "push"]
    BY <1>3, <1>t, LockSteps
  <2>2. UNCHANGED <<m_cumulative_difficulties, prepared>>
    BY <1>3 DEF AddNewBlock, memory
  <2>3. Returned' = Returned
    BY <1>u, <2>1, <2>2 DEF Returned, C, Adding
  <2> QED
    BY <1>1, <2>2, <2>3
<1>4. ASSUME NEW m \in Miners, Push(m) PROVE PreparedSoFar'
  <2>1. /\ pc[m] = "push" /\ pc'[m] \in {"push", "finish"}
        /\ \A n \in Miners : n # m => pc'[n] = pc[n]
    BY <1>4, <1>t, LockSteps
  <2>2. \A n \in Miners : pc[n] # "finish"
    BY <1>t, <2>1 DEF Exclusive, Adding
  <2>3. Returned' = Returned
    <3>1. CASE pc'[m] = "push"
      BY <1>4, <1>t, <2>1, <2>2, <3>1, PushLengths DEF Returned
    <3>2. CASE pc'[m] = "finish"
      <4>1. C' = C + 1
        BY <1>4, <1>t, <3>2, PushLengths
      <4> QED
        BY <1>t, <2>2, <3>2, <4>1 DEF Returned
    <3> QED
      BY <2>1, <3>1, <3>2
  <2> QED
    BY <1>1, <1>4, <2>3 DEF Push
<1>5. ASSUME NEW m \in Miners, Finish(m) PROVE PreparedSoFar'
  <2>1. pc[m] = "finish" /\ pc' = [pc EXCEPT ![m] = "idle"] /\ UNCHANGED memory
    BY <1>5, <1>t, LockSteps DEF Finish
  <2>2. \A n \in Miners : pc[n] # "push" /\ (n # m => pc[n] # "finish")
    BY <1>t, <2>1 DEF Exclusive, Adding
  <2>3. Len(m_blocks) = C
    BY <1>t, <2>2 DEF LengthsFit, InStep
  <2>4. Returned = C - 1 /\ Returned' = C
    BY <1>u, <2>1, <2>2 DEF Returned, C, memory
  <2>5. prepared' = IF (C - 1 + LagBlocks) % EpochBlocks = 0
                    THEN prepared \union {C \div EpochBlocks + 1} ELSE prepared
    BY <1>5, <2>3 DEF Finish, next_seed
  <2> SUFFICES ASSUME NEW e \in Nat \ {0}, e * EpochBlocks + 1 <= C + LagBlocks
               PROVE  e \in prepared'
    BY <2>4 DEF PreparedSoFar
  <2>6. CASE e * EpochBlocks + 1 <= C - 1 + LagBlocks
    <3>1. e \in prepared
      BY <2>4, <2>6 DEF PreparedSoFar
    <3> QED
      BY <2>5, <3>1
  <2>7. CASE e * EpochBlocks + 1 = C + LagBlocks
    BY <1>t, <2>5, <2>7, EpochOfLag
  <2>8. e * EpochBlocks \in Nat /\ LagBlocks \in Nat
    BY EpochAssumption
  <2> QED
    BY <1>t, <2>6, <2>7, <2>8
<1> QED
  BY <1>2, <1>3, <1>4, <1>5, <1>t, QuietSteps, QuietTick DEF Next, Miner

(* When the chain enters an epoch its dataset has been asked for, for      *)
(* every epoch length and lag (blockchain.cpp:151-153).  The invariant     *)
(* counts the blocks whose add_new_block has returned.                     *)
THEOREM AlwaysSeedsPrepared == Spec => []SeedsPrepared
<1>1. ChainInv /\ PreparedSoFar => SeedsPrepared
  <2> SUFFICES ASSUME ChainInv, PreparedSoFar, NEW e \in 1 .. Len(m_blocks),
                      e * EpochBlocks <= Len(m_blocks)
               PROVE  e \in prepared
    BY DEF SeedsPrepared
  <2>t. C \in Nat /\ C >= 1 /\ Len(m_blocks) \in {C, C + 1}
    BY LengthsClose DEF ChainInv
  <2>1. Len(m_blocks) <= Returned + 1 /\ Returned \in Nat
    <3>1. CASE \E m \in Miners : pc[m] = "finish"
      <4>1. \A n \in Miners : pc[n] # "push"
        BY <3>1 DEF ChainInv, Exclusive, Adding
      <4>2. Len(m_blocks) = C
        BY <4>1 DEF ChainInv, LengthsFit, InStep
      <4> QED
        BY <2>t, <3>1, <4>2 DEF Returned
    <3>2. CASE ~ \E m \in Miners : pc[m] = "finish"
      BY <2>t, <3>2 DEF Returned
    <3> QED
      BY <3>1, <3>2
  <2>2. e \in Nat \ {0} /\ e * EpochBlocks \in Nat
    BY <2>t, EpochAssumption
  <2>3. e * EpochBlocks + 1 <= Returned + LagBlocks
    BY <2>t, <2>1, <2>2, EpochAssumption
  <2> QED
    BY <2>2, <2>3 DEF PreparedSoFar
<1>2. ChainInv /\ PreparedSoFar /\ [Next]_vars => ChainInv' /\ PreparedSoFar'
  BY StepChain, StepPrepared
<1> QED
  BY <1>1, <1>2, InitChain, InitPrepared, PTL DEF Spec
=============================================================================

------------------------------- MODULE Ledger -------------------------------
(***************************************************************************)
(* What the node promises about the blocks it has written to disk: they    *)
(* form one linked, append-only chain that starts at the genesis block,    *)
(* and every later block was valid when it was appended (add_new_block,    *)
(* src/cryptonote_core/blockchain.cpp): it links to the block before it,   *)
(* is later than it, and meets the difficulty computed from ALL the blocks *)
(* before it.  There are no processes, crashes, files or threads here;     *)
(* Blockchain and Mining are shown to implement this in spite of them.     *)
(***************************************************************************)
EXTENDS Integers, Sequences

CONSTANTS
  Hashes,         \* block hashes
  Timestamps,     \* block timestamps
  ZeroHash,       \* the all-zero prev_id of the genesis block
  GenesisHash,    \* genesis.hash
  GenesisTime,    \* GENESIS_TIMESTAMP
  NextDifficulties(_, _),  \* the difficulties the retargeting rule allows
                           \* after given timestamps and cumulatives
  MeetsDifficulty(_, _)    \* whether a block hash meets a difficulty

VARIABLE chain    \* sequence of [hash, prev_id, timestamp, cumulative]

Tip == chain[Len(chain)]

GenesisEntry ==
  [hash |-> GenesisHash, prev_id |-> ZeroHash,
   timestamp |-> GenesisTime, cumulative |-> 1]

LedgerInit == chain = <<>>

Begin == chain = <<>> /\ chain' = <<GenesisEntry>>

Extend(h, t) ==
  /\ chain # <<>>
  /\ t > Tip.timestamp
  /\ \E d \in NextDifficulties([i \in DOMAIN chain |-> chain[i].timestamp],
                               [i \in DOMAIN chain |-> chain[i].cumulative]) :
       /\ MeetsDifficulty(h, d)
       /\ chain' = Append(chain, [hash |-> h, prev_id |-> Tip.hash,
                                  timestamp |-> t,
                                  cumulative |-> Tip.cumulative + d])

LedgerNext == Begin \/ \E h \in Hashes, t \in Timestamps : Extend(h, t)

LedgerSpec == LedgerInit /\ [][LedgerNext]_chain

(* The same from the moment the genesis block is there. *)
GrowthSpec == chain = <<GenesisEntry>> /\ [][LedgerNext]_chain
=============================================================================

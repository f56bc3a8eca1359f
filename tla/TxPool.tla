------------------------------- MODULE TxPool -------------------------------
(***************************************************************************)
(* The transaction memory pool (src/cryptonote_core/tx_pool.cpp).          *)
(*                                                                         *)
(* m_mempool is the vector of entries; an entry is its transaction, since  *)
(* the entry's fee is the transaction's and its blob size is a constant.   *)
(* Every operation holds m_pool_lock from entry to return, so each is one  *)
(* action.  A refused transaction leaves the pool as it was (a stutter).   *)
(***************************************************************************)
EXTENDS Integers, Sequences, FiniteSetsExt

CONSTANTS
  Transactions,  \* the transactions callers may offer to add_tx
  RingSize,      \* CRYPTONOTE_MINIMUM_MIXIN_V3 + 1
  BlobSize       \* the size add_tx books for every transaction (1800)

(* A transaction: its hash, the fee it declares, its inputs (key image and *)
(* number of ring members), its number of outputs, and whether the RingCT  *)
(* payload has type 6 with both proof blobs present.                       *)
ASSUME TransactionsAssumption ==
  \A tx \in Transactions :
    /\ tx.fee \in Nat
    /\ tx.vin \in Seq([k_image : {tx.vin[i].k_image : i \in DOMAIN tx.vin},
                       ring : Nat])
    /\ tx.vout \in Nat
    /\ tx.proofs \in BOOLEAN
ASSUME SizesAssumption == RingSize \in Nat /\ BlobSize \in Nat \ {0}

VARIABLE m_mempool

KeyImages(tx) == {tx.vin[i].k_image : i \in DOMAIN tx.vin}

WellFormedFirstInput(tx) ==
  /\ tx.vin # <<>>
  /\ tx.vout > 0
  /\ tx.proofs
  /\ tx.vin[1].ring = RingSize

(* Inputs, outputs and proof payloads present, every ring of the size the  *)
(* code requires.                                                          *)
WellFormed(tx) ==
  /\ tx.vin # <<>>
  /\ tx.vout > 0
  /\ tx.proofs
  /\ \A i \in DOMAIN tx.vin : tx.vin[i].ring = RingSize

(* No entry has the hash or one of the key images of tx. *)
UnseenHash(tx) ==
  \A i \in DOMAIN m_mempool : m_mempool[i].hash # tx.hash

Unseen(tx) ==
  \A i \in DOMAIN m_mempool :
    /\ m_mempool[i].hash # tx.hash
    /\ KeyImages(m_mempool[i]) \cap KeyImages(tx) = {}

FeeDescending(s) == \A i, j \in DOMAIN s : i < j => s[i].fee >= s[j].fee

add_tx_unsorted(tx) ==
  /\ WellFormed(tx)
  /\ Unseen(tx)
  /\ m_mempool' = Append(m_mempool, tx)

(* The entry pushed at the back, then std::sort by descending fee: some    *)
(* sorted rearrangement, std::sort leaving the order of equal fees open.   *)
add_tx(tx) ==
  /\ WellFormed(tx)
  /\ Unseen(tx)
  /\ LET pushed == Append(m_mempool, tx)
     IN  \E p \in Bijection(DOMAIN pushed, DOMAIN pushed) :
           m_mempool' = [i \in DOMAIN pushed |-> pushed[p[i]]]
  /\ FeeDescending(m_mempool')

remove_txs_all(tx_hashes) == m_mempool' = <<>>

(* std::remove_if and erase: the entries whose hash is not listed, in      *)
(* their order.                                                            *)
remove_txs(tx_hashes) ==
  LET kept == {i \in DOMAIN m_mempool : m_mempool[i].hash \notin tx_hashes}
      n    == Cardinality(kept)
  IN  \E e \in Bijection(1..n, kept) :
        /\ \A i, j \in 1..n : i < j => e[i] < e[j]
        /\ m_mempool' = [i \in 1..n |-> m_mempool[e[i]]]

(* Entries from the front while the next one still fits in max_bytes. *)
get_block_template_txs(max_bytes) ==
  LET fit == max_bytes \div BlobSize
  IN  SubSeq(m_mempool, 1, IF fit < Len(m_mempool) THEN fit ELSE Len(m_mempool))

PoolInit == m_mempool = <<>>

PoolAdd == \E tx \in Transactions : add_tx(tx)

PoolRemove ==
  \E hashes \in SUBSET {tx.hash : tx \in Transactions} : remove_txs(hashes)

PoolNext == PoolAdd \/ PoolRemove

PoolSpec == PoolInit /\ [][PoolNext]_m_mempool
-----------------------------------------------------------------------------
(* The pool holds offered transactions, and each of them went through the  *)
(* checks of add_tx: inputs, outputs, proofs, and the full ring on EVERY   *)
(* input, whatever was added or removed since.                             *)
PoolTypeOK ==
  /\ m_mempool \in Seq(Transactions)
  /\ \A i \in DOMAIN m_mempool :
       /\ m_mempool[i].vin # <<>> /\ m_mempool[i].vout > 0
       /\ m_mempool[i].proofs
       /\ \A k \in DOMAIN m_mempool[i].vin :
            m_mempool[i].vin[k].ring = RingSize

(* No two entries spend the same key image or carry the same hash: the     *)
(* duplicate checks of add_tx (tx_pool.cpp:21-42) compare with the entries *)
(* present at that moment only, and the sort and later removals move       *)
(* entries around.                                                         *)
NoConflict ==
  \A i, j \in DOMAIN m_mempool :
    i # j => /\ m_mempool[i].hash # m_mempool[j].hash
             /\ KeyImages(m_mempool[i]) \cap KeyImages(m_mempool[j]) = {}

(* For every size limit, the block template fits, stops only when the next *)
(* transaction would not fit, and leaves out no transaction that pays more *)
(* than one it takes: taking a prefix (tx_pool.cpp:76) is right only       *)
(* because the vector is still sorted after any adds and removals.         *)
TemplateIsBest ==
  \A max_bytes \in 0 .. BlobSize * (Len(m_mempool) + 1) :
    LET t == get_block_template_txs(max_bytes)
    IN  /\ Len(t) * BlobSize <= max_bytes
        /\ Len(t) < Len(m_mempool) => (Len(t) + 1) * BlobSize > max_bytes
        /\ \A i \in 1..Len(t), j \in Len(t) + 1 .. Len(m_mempool) :
             t[i].fee >= m_mempool[j].fee
=============================================================================

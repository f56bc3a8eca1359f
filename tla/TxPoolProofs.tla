---------------------------- MODULE TxPoolProofs ----------------------------
(***************************************************************************)
(* Proofs about TxPool, for any set of transactions and any pool size.     *)
(***************************************************************************)
EXTENDS TxPool, FiniteSetTheorems, TLAPS

(* Facts about a bijection used as a map between positions. *)
LEMMA BijectionFacts ==
  ASSUME NEW A, NEW B, NEW f \in Bijection(A, B)
  PROVE  /\ f \in [A -> B]
         /\ \A a, b \in A : a # b => f[a] # f[b]
         /\ \A b \in B : \E a \in A : f[a] = b
  BY DEF Bijection, Injection, Surjection, IsInjective

(* A set of positions of a sequence can be counted. *)
LEMMA PositionsCount ==
  ASSUME NEW S, NEW s \in Seq(S), NEW kept \in SUBSET (DOMAIN s)
  PROVE  Cardinality(kept) \in Nat
<1>1. DOMAIN s = 1..Len(s) /\ Len(s) \in Nat
  OBVIOUS
<1>2. IsFiniteSet(DOMAIN s)
  BY <1>1, FS_Interval
<1> QED
  BY <1>2, FS_Subset, FS_CardinalityType
-----------------------------------------------------------------------------
(* The inductive invariant: what the runs check, and the order of the fees *)
(* that block templates rely on.                                           *)
PoolInv == PoolTypeOK /\ NoConflict /\ FeeDescending(m_mempool)

ConflictFree(s) ==
  \A i, j \in DOMAIN s :
    i # j => /\ s[i].hash # s[j].hash
             /\ KeyImages(s[i]) \cap KeyImages(s[j]) = {}

(* Picking entries from positions of their own cannot create a conflict.   *)
LEMMA PickedConflictFree ==
  ASSUME NEW s, NEW t, NEW f, ConflictFree(s),
         \A i \in DOMAIN t : f[i] \in DOMAIN s /\ t[i] = s[f[i]],
         \A i, j \in DOMAIN t : i # j => f[i] # f[j]
  PROVE  ConflictFree(t)
  BY DEF ConflictFree

(* NoConflict says of the pool what ConflictFree says of any sequence.     *)
LEMMA NoConflictIs == /\ NoConflict <=> ConflictFree(m_mempool)
                      /\ NoConflict' <=> ConflictFree(m_mempool')
  BY DEF NoConflict, ConflictFree, KeyImages

(* The checks of add_tx admit only complete transactions. *)
Complete(tx) ==
  /\ tx.vin # <<>> /\ tx.vout > 0
  /\ tx.proofs
  /\ \A k \in DOMAIN tx.vin : tx.vin[k].ring = RingSize

(* add_tx (tx_pool.cpp:7-59) keeps the pool's invariant: the new entry     *)
(* conflicts with none, and the sort permutes and orders.                  *)
LEMMA AddTxKeepsInv ==
  ASSUME PoolInv, NEW tx \in Transactions, add_tx(tx)
  PROVE  PoolInv'
<1> DEFINE pushed == Append(m_mempool, tx)
<1>1. PICK p \in Bijection(DOMAIN pushed, DOMAIN pushed) :
        m_mempool' = [i \in DOMAIN pushed |-> pushed[p[i]]]
  BY DEF add_tx
<1>2. m_mempool \in Seq(Transactions)
  BY DEF PoolInv, PoolTypeOK
<1>3. /\ pushed \in Seq(Transactions)
      /\ DOMAIN pushed = 1 .. Len(m_mempool) + 1
      /\ pushed[Len(m_mempool) + 1] = tx
      /\ \A i \in 1..Len(m_mempool) : pushed[i] = m_mempool[i]
      /\ DOMAIN m_mempool = 1..Len(m_mempool)
      /\ Len(m_mempool) \in Nat
  BY <1>2
<1>4. \A i \in DOMAIN pushed : Complete(pushed[i])
  <2>1. Complete(tx)
    BY DEF Complete, add_tx, WellFormed
  <2>2. \A i \in DOMAIN m_mempool : Complete(m_mempool[i])
    BY DEF PoolInv, PoolTypeOK, Complete
  <2> QED
    BY <1>3, <2>1, <2>2
<1>5. ConflictFree(pushed)
  <2>1. \A i \in DOMAIN m_mempool :
          /\ m_mempool[i].hash # tx.hash
          /\ KeyImages(m_mempool[i]) \cap KeyImages(tx) = {}
    BY DEF add_tx, Unseen
  <2>2. ConflictFree(m_mempool)
    BY NoConflictIs DEF PoolInv
  <2> HIDE DEF pushed
  <2> QED
    BY <1>3, <2>1, <2>2 DEF ConflictFree
<1> HIDE DEF pushed
<1>6. /\ m_mempool' \in Seq(Transactions) /\ DOMAIN m_mempool' = DOMAIN pushed
      /\ \A i \in DOMAIN m_mempool' :
           p[i] \in DOMAIN pushed /\ m_mempool'[i] = pushed[p[i]]
      /\ \A i, j \in DOMAIN m_mempool' : i # j => p[i] # p[j]
  <2>1. /\ p \in [DOMAIN pushed -> DOMAIN pushed]
        /\ \A i, j \in DOMAIN pushed : i # j => p[i] # p[j]
    BY BijectionFacts
  <2>2. m_mempool' \in [1 .. Len(m_mempool) + 1 -> Transactions]
    BY <1>1, <1>3, <2>1
  <2>3. m_mempool' \in Seq(Transactions)
    BY <1>3, <2>2
  <2> QED BY <1>1, <2>1, <2>3
<1>7. PoolTypeOK'
  <2>1. \A i \in DOMAIN m_mempool' : Complete(m_mempool'[i])
    BY <1>4, <1>6
  <2> QED
    BY <1>6, <2>1 DEF PoolTypeOK, Complete
<1>8. NoConflict'
  <2>1. ConflictFree(m_mempool')
    BY <1>5, <1>6, PickedConflictFree, Zenon
  <2> QED BY <2>1, NoConflictIs
<1>9. FeeDescending(m_mempool')
  BY DEF add_tx
<1> QED
  BY <1>7, <1>8, <1>9 DEF PoolInv

(* remove_txs (tx_pool.cpp:61-69) keeps it too: it selects entries and     *)
(* keeps their order.                                                      *)
LEMMA RemoveTxsKeepsInv ==
  ASSUME PoolInv, NEW tx_hashes, remove_txs(tx_hashes)
  PROVE  PoolInv'
<1> DEFINE kept == {i \in DOMAIN m_mempool : m_mempool[i].hash \notin tx_hashes}
           n == Cardinality(kept)
<1>1. PICK e \in Bijection(1..n, kept) :
        /\ \A i, j \in 1..n : i < j => e[i] < e[j]
        /\ m_mempool' = [i \in 1..n |-> m_mempool[e[i]]]
  BY DEF remove_txs
<1>2. m_mempool \in Seq(Transactions) /\ kept \in SUBSET (DOMAIN m_mempool)
  BY DEF PoolInv, PoolTypeOK
<1>3. \A i \in kept : i \in DOMAIN m_mempool
  OBVIOUS
<1> HIDE DEF kept
<1>4. /\ m_mempool' \in Seq(Transactions) /\ DOMAIN m_mempool' = 1..n
      /\ \A i \in DOMAIN m_mempool' :
           e[i] \in DOMAIN m_mempool /\ m_mempool'[i] = m_mempool[e[i]]
      /\ \A i, j \in DOMAIN m_mempool' : i # j => e[i] # e[j]
  <2>1. /\ m_mempool' \in Seq(Transactions) /\ DOMAIN m_mempool' = 1..n
        /\ \A i \in DOMAIN m_mempool' :
             e[i] \in kept /\ m_mempool'[i] = m_mempool[e[i]]
        /\ \A i, j \in DOMAIN m_mempool' : i # j => e[i] # e[j]
    <3>1. n \in Nat
      BY <1>2, PositionsCount
    <3>2. e \in [1..n -> kept] /\ \A i, j \in 1..n : i # j => e[i] # e[j]
      BY DEF Bijection, Injection, IsInjective
    <3> HIDE DEF n
    <3>3. m_mempool' \in [1..n -> Transactions]
      BY <1>1, <1>2, <1>3, <3>2
    <3>4. m_mempool' \in Seq(Transactions)
      BY <3>1, <3>3
    <3> QED BY <1>1, <3>2, <3>4
  <2> QED BY <1>3, <2>1
<1> HIDE DEF n
<1>5. PoolTypeOK'
  <2>1. \A i \in DOMAIN m_mempool : Complete(m_mempool[i])
    BY DEF PoolInv, PoolTypeOK, Complete
  <2>2. \A i \in DOMAIN m_mempool' : Complete(m_mempool'[i])
    BY <1>4, <2>1
  <2> QED
    BY <1>4, <2>2 DEF PoolTypeOK, Complete
<1>6. NoConflict'
  <2>1. ConflictFree(m_mempool)
    BY NoConflictIs DEF PoolInv
  <2>2. ConflictFree(m_mempool')
    BY <1>4, <2>1, PickedConflictFree, Zenon
  <2> QED BY <2>2, NoConflictIs
<1>7. FeeDescending(m_mempool')
  BY <1>1, <1>4 DEF PoolInv, FeeDescending
<1> QED
  BY <1>5, <1>6, <1>7 DEF PoolInv

(* Every step of the pool keeps the invariant. *)
LEMMA PoolStepKeepsInv == PoolInv /\ [PoolNext]_m_mempool => PoolInv'
<1> SUFFICES ASSUME PoolInv, [PoolNext]_m_mempool PROVE PoolInv'
  OBVIOUS
<1>1. CASE PoolAdd
  BY <1>1, AddTxKeepsInv DEF PoolAdd
<1>2. CASE PoolRemove
  BY <1>2, RemoveTxsKeepsInv DEF PoolRemove
<1>3. CASE UNCHANGED m_mempool
  <2>1. NoConflict'
    BY <1>3, NoConflictIs DEF PoolInv
  <2> QED BY <1>3, <2>1 DEF PoolInv, PoolTypeOK, FeeDescending
<1> QED
  BY <1>1, <1>2, <1>3 DEF PoolNext

(* A template is a prefix, so its optimality follows from the order.       *)
LEMMA OrderedPoolHasBestTemplates ==
  ASSUME PoolTypeOK, FeeDescending(m_mempool)
  PROVE  TemplateIsBest
<1> SUFFICES ASSUME NEW max_bytes \in 0 .. BlobSize * (Len(m_mempool) + 1)
             PROVE  LET t == get_block_template_txs(max_bytes)
                    IN  /\ Len(t) * BlobSize <= max_bytes
                        /\ Len(t) < Len(m_mempool) => (Len(t) + 1) * BlobSize > max_bytes
                        /\ \A i \in 1..Len(t), j \in Len(t) + 1 .. Len(m_mempool) :
                             t[i].fee >= m_mempool[j].fee
  BY DEF TemplateIsBest
<1> DEFINE fit == max_bytes \div BlobSize
           size == IF fit < Len(m_mempool) THEN fit ELSE Len(m_mempool)
           t == get_block_template_txs(max_bytes)
<1>1. BlobSize \in Nat \ {0} /\ max_bytes \in Nat
  <2>1. BlobSize \in Nat \ {0}
    BY SizesAssumption
  <2>2. Len(m_mempool) \in Nat
    BY DEF PoolTypeOK
  <2> QED
    BY <2>1, <2>2
<1>2. /\ m_mempool \in Seq(Transactions) /\ Len(m_mempool) \in Nat
      /\ DOMAIN m_mempool = 1..Len(m_mempool)
  BY DEF PoolTypeOK
<1>3. fit \in Nat /\ fit * BlobSize <= max_bytes /\ max_bytes < (fit + 1) * BlobSize
  BY <1>1, SMTT(30)
<1>4. size \in 0..Len(m_mempool) /\ size <= fit
  BY <1>2, <1>3
<1>5. t = SubSeq(m_mempool, 1, size)
  BY DEF get_block_template_txs
<1>6. Len(t) = size /\ \A i \in 1..size : t[i] = m_mempool[i]
  <2> HIDE DEF size, t
  <2> QED BY <1>2, <1>4, <1>5
<1>7. size * BlobSize <= max_bytes
  <2>1. size * BlobSize <= fit * BlobSize
    <3> HIDE DEF fit, size
    <3> QED BY <1>1, <1>3, <1>4, <1>2, SMTT(30)
  <2> HIDE DEF fit, size
  <2> QED BY <2>1, <1>1, <1>2, <1>3, <1>4, SMTT(30)
<1>8. size < Len(m_mempool) => (size + 1) * BlobSize > max_bytes
  <2>1. size < Len(m_mempool) => size = fit
    BY <1>2, <1>3
  <2> HIDE DEF fit, size
  <2> QED BY <2>1, <1>3, <1>1
<1>9. \A i \in 1..size, j \in size + 1 .. Len(m_mempool) :
        t[i].fee >= m_mempool[j].fee
  <2> HIDE DEF fit, size, t
  <2> SUFFICES ASSUME NEW i \in 1..size, NEW j \in size + 1 .. Len(m_mempool)
               PROVE  t[i].fee >= m_mempool[j].fee
    OBVIOUS
  <2>1. i \in DOMAIN m_mempool /\ j \in DOMAIN m_mempool /\ i < j
    BY <1>2, <1>4
  <2> QED BY <2>1, <1>6 DEF FeeDescending
<1> HIDE DEF fit, size, t
<1>10. Len(t) * BlobSize <= max_bytes
  BY <1>6, <1>7
<1>11. Len(t) < Len(m_mempool) => (Len(t) + 1) * BlobSize > max_bytes
  BY <1>6, <1>8
<1>12. \A i \in 1..Len(t), j \in Len(t) + 1 .. Len(m_mempool) :
        t[i].fee >= m_mempool[j].fee
  BY <1>6, <1>9
<1> QED
  BY <1>10, <1>11, <1>12 DEF t

(* The pool keeps its type and holds complete transactions only, in every  *)
(* behaviour (tx_pool.cpp:10-32).                                          *)
THEOREM PoolTypeCorrect == PoolSpec => []PoolTypeOK
<1>1. PoolInit => PoolInv
  BY DEF PoolInit, PoolInv, PoolTypeOK, NoConflict, FeeDescending
<1>2. PoolInv => PoolTypeOK
  BY DEF PoolInv
<1> QED
  BY <1>1, <1>2, PoolStepKeepsInv, PTL DEF PoolSpec

(* No two pooled transactions ever spend the same key image or share a     *)
(* hash, for every set of offered transactions (tx_pool.cpp:21-42).        *)
THEOREM PoolNoConflict == PoolSpec => []NoConflict
<1>1. PoolInit => PoolInv
  BY DEF PoolInit, PoolInv, PoolTypeOK, NoConflict, FeeDescending
<1>2. PoolInv => NoConflict
  BY DEF PoolInv
<1> QED
  BY <1>1, <1>2, PoolStepKeepsInv, PTL DEF PoolSpec

(* Every block template is the best one for its size limit, at every pool  *)
(* size and blob size (tx_pool.cpp:53, 71-83).                             *)
THEOREM PoolTemplatesBest == PoolSpec => []TemplateIsBest
<1>1. PoolInit => PoolInv
  BY DEF PoolInit, PoolInv, PoolTypeOK, NoConflict, FeeDescending
<1>2. PoolInv => TemplateIsBest
  BY OrderedPoolHasBestTemplates DEF PoolInv
<1> QED
  BY <1>1, <1>2, PoolStepKeepsInv, PTL DEF PoolSpec
=============================================================================

------------------------------- MODULE Wallet -------------------------------
(***************************************************************************)
(* The wallet (src/wallet/wallet.cpp) as its command line drives it        *)
(* (src/wallet/wallet_main.cpp), next to a daemon that keeps appending     *)
(* blocks to the file the wallet rescans.  The wallet keeps its balances   *)
(* and its history in memory only.  Keys, seed, address and file name are  *)
(* left out: nothing the wallet computes depends on them.                  *)
(***************************************************************************)
EXTENDS Emission, Sequences

CONSTANTS
  Starter,     \* the balance create_new hands out
  Fee,         \* the fee create_transfer writes into every transaction
  Amounts,     \* amounts a user may ask to transfer
  MaxHeight,   \* bound: blocks in the file
  MaxHistory   \* bound: transfers of one process

ASSUME WalletAssumption ==
  /\ Starter \in 0 .. Word - 1 /\ Fee \in 0 .. Word - 1
  /\ Amounts \subseteq 0 .. Word - 1
  /\ MaxHeight \in Nat /\ MaxHistory \in Nat

VARIABLES
  height,      \* whole records in blocks.dat
  running,     \* a wallet process exists
  m_total_balance, m_unlocked_balance,
  m_history,   \* amounts of the outgoing transfers
  reset        \* history: the balances last set by create_new or a rescan,
               \* the length of m_history then, and the blocks then counted

balances == <<m_total_balance, m_unlocked_balance>>
vars == <<height, running, balances, m_history, reset>>

set_balances(total, unlocked, counted) ==
  /\ m_total_balance' = total /\ m_unlocked_balance' = unlocked
  /\ reset' = [total |-> total, unlocked |-> unlocked,
               from |-> Len(m_history'), counted |-> counted]

(* A load of the chain finds the whole records, or fails to open the file. *)
Loadable == {height, 0}

rescan_blockchain(blocks) ==
  LET last == Scan(blocks)[blocks - 1]
  IN  set_balances(last.generated, last.unlocked, blocks)
-----------------------------------------------------------------------------
Init ==
  /\ height \in 0..1 /\ running = FALSE
  /\ m_total_balance = 0 /\ m_unlocked_balance = 0 /\ m_history = <<>>
  /\ reset = [total |-> 0, unlocked |-> 0, from |-> 0, counted |-> 0]

(* A daemon, another process, appends a block. *)
AppendBlock ==
  /\ height < MaxHeight
  /\ height' = height + 1
  /\ UNCHANGED <<running, balances, m_history, reset>>

(* main: create_new and a rescan, which leaves the starter balance alone   *)
(* when it can load nothing.                                               *)
Launch ==
  /\ ~running
  /\ running' = TRUE /\ UNCHANGED m_history
  /\ \E blocks \in Loadable :
       IF blocks > 0 THEN rescan_blockchain(blocks)
                     ELSE set_balances(Starter, Starter, 0)
  /\ UNCHANGED height

(* The command "create": the history of the old wallet stays. *)
create_new ==
  /\ running
  /\ UNCHANGED m_history
  /\ set_balances(Starter, Starter, 0)
  /\ UNCHANGED <<height, running>>

(* The commands "rescan" and "balance". *)
Rescan ==
  /\ running
  /\ UNCHANGED m_history
  /\ \E blocks \in Loadable : blocks > 0 /\ rescan_blockchain(blocks)
  /\ UNCHANGED <<height, running>>

deduct_amount(amount) ==
  /\ m_unlocked_balance' = (m_unlocked_balance - (amount + Fee)) % Word
  /\ m_total_balance' = (m_total_balance - amount) % Word

deduct(amount) ==
  /\ m_unlocked_balance' = (m_unlocked_balance - (amount + Fee)) % Word
  /\ m_total_balance' = (m_total_balance - (amount + Fee)) % Word

affordable_total(amount) == amount <= m_total_balance

affordable(amount) == amount <= m_unlocked_balance

create_transfer(amount) ==
  /\ running /\ Len(m_history) < MaxHistory
  /\ affordable(amount)
  /\ deduct(amount)
  /\ m_history' = Append(m_history, amount)
  /\ UNCHANGED <<height, running, reset>>

(* The process ends; the wallet has saved nothing. *)
Exit ==
  /\ running
  /\ running' = FALSE
  /\ m_total_balance' = 0 /\ m_unlocked_balance' = 0 /\ m_history' = <<>>
  /\ reset' = [total |-> 0, unlocked |-> 0, from |-> 0, counted |-> 0]
  /\ UNCHANGED height

Next ==
  \/ AppendBlock \/ Launch \/ create_new \/ Rescan
  \/ \E amount \in Amounts : create_transfer(amount)
  \/ Exit

Spec == Init /\ [][Next]_vars
-----------------------------------------------------------------------------
(* The amounts and fees of a history, its first `from' entries excepted. *)
Taken(history, from) ==
  LET sum[k \in 0 .. Len(history)] ==
        IF k <= from THEN 0 ELSE sum[k-1] + history[k] + Fee
  IN  sum[Len(history)]

Spent == Taken(m_history, reset.from)

(* Whatever commands were given: the transfers in the history since the    *)
(* balances were last set, with their fees, account exactly for what both  *)
(* balances have lost since (wallet.cpp:145-146, modulo the word size),    *)
(* although creating a wallet and rescanning reset the balances and never  *)
(* the history.                                                            *)
HistoryAccounts ==
  /\ m_total_balance = (reset.total - Spent) % Word
  /\ m_unlocked_balance = (reset.unlocked - Spent) % Word

(* The rescan rule i + AGE <= size (wallet.cpp:90) makes the spendable     *)
(* balance the total balance of SpendableAge - 1 blocks earlier, also when *)
(* the sums have wrapped and when the chain is shorter than that.          *)
MaturityIsDelay ==
  reset.counted > 0 =>
    reset.unlocked = Scan(reset.counted)[Max({0, reset.counted - SpendableAge})].generated

(* A transfer makes the unlocked balance exceed the total one only by      *)
(* spending the last coins: it is then at most the fee below zero, never   *)
(* the amount (the check at wallet.cpp:113).                               *)
OverdrawnByFeeAtMost ==
  [][ m_history' # m_history /\ running' /\ m_unlocked_balance <= m_total_balance
        => \/ m_unlocked_balance' <= m_total_balance'
           \/ Word - m_unlocked_balance' \in 1..Fee ]_vars

(* As long as the sum of the rewards does not wrap, no block of the chain  *)
(* is rewarded more than the one before it (emission.cpp:20-33), over the  *)
(* change to the tail emission too.                                        *)
RewardsTaper ==
  LET after == Scan(height) IN
  \A i \in 1 .. height - 2 :
    after[i].generated >= after[i-1].generated =>
      get_block_reward(after[i].generated, i + 1)
        <= get_block_reward(after[i-1].generated, i)

(* The sum of the rewards of a chain of so many blocks has wrapped. *)
Wraps(blocks) ==
  LET after == Scan(blocks) IN
  \E i \in 1 .. blocks - 1 : after[i].generated < after[i-1].generated

(* A rescan credits every reward again and forgets what was spent          *)
(* (wallet.cpp:95-96).  It never takes a reward back: while the daemon     *)
(* appends blocks, and unless the sum wraps, neither balance falls from    *)
(* one rescan to the next, the change of maturity of old blocks included.  *)
RescanKeepsRewards ==
  [][ reset.counted > 0 /\ reset'.counted > 0 /\ ~Wraps(reset'.counted) =>
        reset'.total >= reset.total /\ reset'.unlocked >= reset.unlocked ]_vars
=============================================================================

------------------------------- MODULE Daemon -------------------------------
(***************************************************************************)
(* The node process (src/daemon/main.cpp): the main thread with its        *)
(* built-in miner, the listener threads of the P2P and RPC servers         *)
(* (src/p2p/net_server.cpp, src/rpc/rpc_server.cpp), which only sleep and  *)
(* look at their flag, and a signal that may arrive at any moment.         *)
(*                                                                         *)
(* The chain is seen as its height and the hash of its tip.  Of the checks *)
(* of add_new_block only the parent check is kept: the others would refuse *)
(* still more blocks.  main's block_counter starts at the height and moves *)
(* with it, so it needs no variable.                                       *)
(***************************************************************************)
EXTENDS Integers

CONSTANTS
  ZeroHash,    \* the prev_id of a value-initialised block
  MinedHash,   \* the hash of a block the daemon makes
  TipHashes,   \* hashes that the chain found by init may end with
  MaxNonce     \* nonces tried per round (1000000)

ASSUME NonceAssumption == MaxNonce \in Nat

VARIABLES
  g_running,
  main,            \* the statement the main thread has reached
  nonce,
  m_running,       \* m_running[s]: the atomic flag of server s
  listener,        \* listener[s]: the state of its thread
  m_opened,        \* the database is open
  m_initialized,   \* RandomXManager::m_initialized
  tip, height

servers == <<m_running, listener>>
engine == <<m_opened, m_initialized>>
chain == <<tip, height>>
vars == <<g_running, main, nonce, servers, engine, chain>>

Servers == {"p2p", "rpc"}

(* The main thread moves from one statement to the next. *)
Goto(from, to) == main = from /\ main' = to
-----------------------------------------------------------------------------
Init ==
  /\ g_running = TRUE /\ main = "init" /\ nonce = 0
  /\ m_running = [s \in Servers |-> FALSE]
  /\ listener = [s \in Servers |-> "none"]
  /\ m_opened = FALSE /\ m_initialized = FALSE
  /\ tip \in TipHashes /\ height = 1

signal_handler ==
  /\ g_running /\ main # "done"
  /\ g_running' = FALSE
  /\ UNCHANGED <<main, nonce, servers, engine, chain>>

(* chain.init, which never fails. *)
InitChain ==
  /\ Goto("init", "start p2p")
  /\ m_opened' = TRUE /\ m_initialized' = TRUE
  /\ UNCHANGED <<g_running, nonce, servers, chain>>

start(s, from, to) ==
  /\ Goto(from, to)
  /\ m_running' = [m_running EXCEPT ![s] = TRUE]
  /\ listener' = [listener EXCEPT ![s] = "looking"]
  /\ UNCHANGED <<g_running, nonce, engine, chain>>

(* The head of the main loop. *)
Round ==
  /\ Goto("round", IF g_running THEN "grind" ELSE "stop p2p")
  /\ nonce' = 1
  /\ UNCHANGED <<g_running, servers, engine, chain>>

Solved ==
  /\ Goto("grind", "found")
  /\ nonce < MaxNonce /\ g_running
  /\ UNCHANGED <<g_running, nonce, servers, engine, chain>>

Unsolved ==
  /\ main = "grind" /\ nonce < MaxNonce /\ g_running
  /\ nonce' = nonce + 1
  /\ UNCHANGED <<g_running, main, servers, engine, chain>>

GiveUpOnSignal ==
  /\ Goto("grind", "sleep")
  /\ ~g_running
  /\ UNCHANGED <<g_running, nonce, servers, engine, chain>>

(* The nonces are used up, or the daemon is to stop. *)
GiveUp ==
  /\ Goto("grind", "sleep")
  /\ nonce >= MaxNonce \/ ~g_running
  /\ UNCHANGED <<g_running, nonce, servers, engine, chain>>

Found ==
  /\ Goto("found", IF g_running THEN "submit" ELSE "sleep")
  /\ UNCHANGED <<g_running, nonce, servers, engine, chain>>

(* add_new_block(new_block): main never sets new_block.prev_id. *)
Submit ==
  /\ Goto("submit", "sleep")
  /\ IF tip = ZeroHash
     THEN tip' = MinedHash /\ height' = height + 1
     ELSE UNCHANGED chain
  /\ UNCHANGED <<g_running, nonce, servers, engine>>

Sleep ==
  /\ Goto("sleep", "round")
  /\ UNCHANGED <<g_running, nonce, servers, engine, chain>>

clear_running_none(s) == UNCHANGED m_running

clear_running(s) == m_running' = [m_running EXCEPT ![s] = FALSE]

stop(s, from, to) ==
  /\ Goto(from, to)
  /\ clear_running(s)
  /\ UNCHANGED <<g_running, nonce, listener, engine, chain>>

joined_always(s) == TRUE

joined(s) == listener[s] = "ended"

join(s, from, to) ==
  /\ Goto(from, to)
  /\ joined(s)
  /\ UNCHANGED <<g_running, nonce, servers, engine, chain>>

(* chain.shutdown and the return from main. *)
Close ==
  /\ Goto("close", "done")
  /\ m_opened' = FALSE /\ m_initialized' = FALSE
  /\ UNCHANGED <<g_running, nonce, servers, chain>>

(* The loop of a listener thread: look at the flag, sleep. *)
Look(s) ==
  /\ listener[s] = "looking"
  /\ listener' = [listener EXCEPT ![s] = IF m_running[s] THEN "sleeping" ELSE "ended"]
  /\ UNCHANGED <<g_running, main, nonce, m_running, engine, chain>>

Wake(s) ==
  /\ listener[s] = "sleeping"
  /\ listener' = [listener EXCEPT ![s] = "looking"]
  /\ UNCHANGED <<g_running, main, nonce, m_running, engine, chain>>

MainLoop ==
  Round \/ Solved \/ Unsolved \/ GiveUp \/ Found \/ Submit \/ Sleep

MainThread ==
  \/ InitChain
  \/ start("p2p", "start p2p", "start rpc") \/ start("rpc", "start rpc", "round")
  \/ MainLoop
  \/ stop("p2p", "stop p2p", "join p2p") \/ join("p2p", "join p2p", "stop rpc")
  \/ stop("rpc", "stop rpc", "join rpc") \/ join("rpc", "join rpc", "close")
  \/ Close

Listen(s) == Look(s) \/ Wake(s)

Next == signal_handler \/ MainThread \/ \E s \in Servers : Listen(s)

(* The operating system runs every thread that can run; nothing makes a    *)
(* signal arrive.                                                          *)
Fairness == WF_vars(MainThread) /\ \A s \in Servers : WF_vars(Listen(s))

Spec == Init /\ [][Next]_vars /\ Fairness

(* A miner that is not always unlucky. *)
LuckySpec == Spec /\ SF_vars(Solved)
-----------------------------------------------------------------------------
(* main.cpp:89-91 stops the servers before the chain they point to: when   *)
(* the database is closed no listener thread is alive (rpc_server keeps a  *)
(* pointer to the chain), and a thread object is never destroyed while it  *)
(* can still be joined.                                                    *)
ClosedAfterServers ==
  ~m_opened => \A s \in Servers : listener[s] \in {"none", "ended"}

(* main.cpp:15-18: after a signal, whenever it comes (before the servers   *)
(* exist, in the middle of mining, during a join), the process ends; no    *)
(* thread waits for another one for ever.                                  *)
SignalStops == ~g_running ~> main = "done"

(* main.cpp:49-87: unless a signal arrives the daemon begins a new round   *)
(* of mining again and again, with a fresh timestamp and difficulty,       *)
(* although a difficulty may be out of reach of every nonce.               *)
RoundsGoOn == []<>(main = "round" \/ ~g_running)

(* main.cpp:43 announces "Mining target blocks every ~" the target time: a *)
(* daemon that keeps finding solutions and is not stopped adds a block.    *)
MinesBlocks == <>(height > 1 \/ ~g_running)
=============================================================================

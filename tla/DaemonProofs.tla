---------------------------- MODULE DaemonProofs ----------------------------
(***************************************************************************)
(* Proofs about the node process: the database outlives the threads that   *)
(* may look at it, and the built-in miner extends no chain that has a      *)
(* genesis block.                                                          *)
(***************************************************************************)
EXTENDS Daemon, TLAPS

Statements ==
  {"init", "start p2p", "start rpc", "round", "grind", "found", "submit",
   "sleep", "stop p2p", "join p2p", "stop rpc", "join rpc", "close", "done"}

TypeOK ==
  /\ main \in Statements
  /\ m_running \in [Servers -> BOOLEAN]
  /\ listener \in [Servers -> {"none", "looking", "sleeping", "ended"}]

(* Statements that main reaches only before server s has its thread, and   *)
(* only after it has joined that thread.                                   *)
Unstarted(s) == IF s = "p2p" THEN {"init", "start p2p"}
                             ELSE {"init", "start p2p", "start rpc"}
Joined(s) == IF s = "p2p" THEN {"stop rpc", "join rpc", "close", "done"}
                          ELSE {"close", "done"}

(* Where the main thread is tells which threads exist and whether the      *)
(* database is open: ClosedAfterServers alone is not preserved, since      *)
(* Close looks at no thread.                                               *)
ThreadInv ==
  /\ TypeOK
  /\ \A s \in Servers : main \in Unstarted(s) => listener[s] = "none"
  /\ \A s \in Servers : main \in Joined(s) => listener[s] = "ended"
  /\ m_opened = FALSE => main \in {"init", "done"}

LEMMA ThreadInvInit == Init => ThreadInv
BY DEF Init, ThreadInv, TypeOK, Statements, Unstarted, Joined, Servers

LEMMA ThreadInvNext == ThreadInv /\ [Next]_vars => ThreadInv'
<1> SUFFICES ASSUME ThreadInv, [Next]_vars PROVE ThreadInv'
  OBVIOUS
<1> USE DEF ThreadInv, TypeOK
<1>1. CASE UNCHANGED vars
  BY <1>1 DEF vars, servers, engine, chain, Unstarted, Joined
<1>2. CASE signal_handler
  BY <1>2 DEF signal_handler, servers, engine, chain, Unstarted, Joined
<1>3. CASE InitChain
  BY <1>3 DEF InitChain, Goto, servers, chain, Unstarted, Joined, Statements, Servers
<1>4. CASE start("p2p", "start p2p", "start rpc")
  BY <1>4 DEF start, Goto, engine, chain, Unstarted, Joined, Statements, Servers
<1>5. CASE start("rpc", "start rpc", "round")
  BY <1>5 DEF start, Goto, engine, chain, Unstarted, Joined, Statements, Servers
<1>6. CASE MainLoop
  <2>1. /\ main' \in Statements \ (Unstarted("rpc") \cup Joined("p2p"))
        /\ UNCHANGED <<servers, engine>>
    BY <1>6 DEF MainLoop, Round, Solved, Unsolved, GiveUp, Found, Submit, Sleep, Goto,
                Unstarted, Joined, Statements
  <2>2. UNCHANGED <<m_running, listener, m_opened>>
    BY <2>1 DEF servers, engine
  <2>3. main \notin {"init", "done"}
    BY <1>6 DEF MainLoop, Round, Solved, Unsolved, GiveUp, Found, Submit, Sleep, Goto
  <2> QED
    BY <2>1, <2>2, <2>3 DEF Unstarted, Joined, Statements, Servers
<1>7. CASE stop("p2p", "stop p2p", "join p2p")
  BY <1>7 DEF stop, clear_running, Goto, engine, chain, Unstarted, Joined, Statements, Servers
<1>8. CASE join("p2p", "join p2p", "stop rpc")
  BY <1>8 DEF join, joined, Goto, servers, engine, chain, Unstarted, Joined, Statements, Servers
<1>9. CASE stop("rpc", "stop rpc", "join rpc")
  BY <1>9 DEF stop, clear_running, Goto, engine, chain, Unstarted, Joined, Statements, Servers
<1>10. CASE join("rpc", "join rpc", "close")
  BY <1>10 DEF join, joined, Goto, servers, engine, chain, Unstarted, Joined, Statements, Servers
<1>11. CASE Close
  BY <1>11 DEF Close, Goto, servers, chain, Unstarted, Joined, Statements, Servers
<1>12. ASSUME NEW s \in Servers, Listen(s) PROVE ThreadInv'
  <2>1. UNCHANGED <<main, m_running, m_opened>>
    BY <1>12 DEF Listen, Look, Wake, engine
  <2>2. listener[s] \in {"looking", "sleeping"}
    BY <1>12 DEF Listen, Look, Wake
  <2>3. \E st \in {"looking", "sleeping", "ended"} : listener' = [listener EXCEPT ![s] = st]
    BY <1>12 DEF Listen, Look, Wake
  <2> QED
    BY <2>1, <2>2, <2>3 DEF Unstarted, Joined
<1> QED
  BY <1>1, <1>2, <1>3, <1>4, <1>5, <1>6, <1>7, <1>8, <1>9, <1>10, <1>11, <1>12
  DEF Next, MainThread

(* Whatever the threads do and whenever a signal arrives: main stops and   *)
(* joins both servers before it closes the database they point to          *)
(* (main.cpp:89-91).                                                       *)
THEOREM ServersEndBeforeClose == Spec => []ClosedAfterServers
<1>1. ThreadInv => ClosedAfterServers
  <2> SUFFICES ASSUME ThreadInv, ~m_opened, NEW s \in Servers
               PROVE  listener[s] \in {"none", "ended"}
    BY DEF ClosedAfterServers
  <2>1. main \in {"init", "done"}
    BY DEF ThreadInv
  <2>2. main \in Unstarted(s) \/ main \in Joined(s)
    BY <2>1 DEF Unstarted, Joined
  <2> QED
    BY <2>2 DEF ThreadInv
<1> QED
  BY ThreadInvInit, ThreadInvNext, <1>1, PTL DEF Spec
-----------------------------------------------------------------------------
(* The chain as init found it. *)
AsFound == tip \in TipHashes /\ height = 1

(* main never sets new_block.prev_id (main.cpp:56-61), so that             *)
(* add_new_block refuses every block it makes, unless the chain it found   *)
(* ends with the all-zero hash: however long the daemon runs and whatever  *)
(* its miner finds, the chain stays as init found it.                      *)
THEOREM DaemonAddsNoBlock == (ZeroHash \notin TipHashes) /\ Spec => []AsFound
<1> SUFFICES ASSUME ZeroHash \notin TipHashes PROVE Spec => []AsFound
  OBVIOUS
<1>1. Init => AsFound
  BY DEF Init, AsFound
<1>2. ASSUME AsFound, [Next]_vars PROVE AsFound'
  <2>1. CASE UNCHANGED chain
    BY <1>2, <2>1 DEF chain, AsFound
  <2>2. CASE Submit
    BY <1>2, <2>2 DEF Submit, chain, AsFound
  <2>3. CASE UNCHANGED vars
    BY <2>1, <2>3 DEF vars
  <2>4. CASE MainLoop
    BY <2>1, <2>2, <2>4 DEF MainLoop, Round, Solved, Unsolved, GiveUp, Found, Sleep
  <2>5. CASE signal_handler \/ \E s \in Servers : Listen(s)
    BY <2>1, <2>5 DEF signal_handler, Listen, Look, Wake
  <2>6. CASE MainThread
    BY <2>1, <2>4, <2>6 DEF MainThread, InitChain, start, stop, join, Close
  <2> QED
    BY <1>2, <2>3, <2>5, <2>6 DEF Next
<1> QED
  BY <1>1, <1>2, PTL DEF Spec
=============================================================================

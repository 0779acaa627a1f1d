------------------------- MODULE SubscriptionProofs -------------------------
(***************************************************************************)
(* Proofs about Subscription, for any number of resources, versions, runs  *)
(* of the hook's effect, sockets and queries.                              *)
(***************************************************************************)
EXTENDS Subscription, FiniteSetTheorems, TLAPS

SocketState == { "unused", "connecting", "open", "closing", "closed" }
Updates     == [uid : Uids, version : Nat]

-----------------------------------------------------------------------------
(* Who keeps which connection.  Sockets are opened in turn; a run has one  *)
(* that is alive, which is its last, or a timer; a run that is not the     *)
(* current one is closed by itself, unless its timer outlived the cleanup. *)
HookTypes ==
  /\ socket \in [Sockets -> SocketState] /\ runOf \in [Sockets -> Runs]
  /\ selfClose \in [Runs -> BOOLEAN] /\ run \in Runs \cup { None }
  /\ timers \subseteq Runs /\ pending \subseteq Runs
  /\ wsRef \in Alive \cup { None }

Used(s) == socket[s] # "unused"

InTurn ==
  /\ \A r, s \in Sockets : Used(s) /\ r < s => Used(r)
  /\ run # None => /\ \A s \in Sockets : Used(s) => runOf[s] <= run
                   /\ \A e \in pending : e <= run

OneAlive ==
  /\ \A s \in Alive : \A r \in Sockets : Used(r) /\ runOf[r] = runOf[s] => r <= s
  /\ \A s \in Alive : runOf[s] \notin timers

LetGo ==
  /\ \A e \in timers : e = run \/ e \in pending
  /\ \A s \in Sockets : Used(s) => \/ runOf[s] = run \/ runOf[s] \in pending
                                   \/ selfClose[runOf[s]]

HookInv == HookTypes /\ InTurn /\ OneAlive /\ LetGo /\ Orphans

LEMMA InitHook == SubInit => HookInv
BY SubBounds DEF SubInit, HookInv, HookTypes, InTurn, OneAlive, LetGo, Orphans, Used, Alive,
   SocketState, Sockets, Runs, None

(* Steps that leave the runs alone, open no socket and end none.           *)
Underway == { s \in Sockets : socket[s] \in { "connecting", "open" } }

HookStays ==
  /\ UNCHANGED << run, selfClose, pending, runOf, Alive >> /\ timers' \subseteq timers
  /\ socket' \in [Sockets -> SocketState] /\ wsRef' \in Alive \cup { None }
  /\ (\A s \in Sockets : Used(s)' <=> Used(s)) /\ Underway' \subseteq Underway

LEMMA StaysHook == HookInv /\ HookStays => HookInv'
BY DEF HookStays, HookInv, HookTypes, InTurn, OneAlive, LetGo, Orphans, Underway

LEMMA StillHook ==
  ASSUME HookInv, UNCHANGED << hook, subLink >>
  PROVE  HookInv'
<1>1. HookStays
  BY DEF HookStays, hook, subLink, HookInv, HookTypes, Used, Alive, Underway
<1> QED BY <1>1, StaysHook

LEMMA OpenHook ==
  ASSUME HookInv, NEW s \in Sockets, OnOpen(s)
  PROVE  HookInv'
<1>1. /\ socket' \in [Sockets -> SocketState] /\ wsRef' = s /\ UNCHANGED hook
      /\ socket[s] = "connecting" /\ socket'[s] = "open"
      /\ \A r \in Sockets \ { s } : socket'[r] = socket[r]
  <2>1. socket' = [socket EXCEPT ![s] = "open"] /\ socket \in [Sockets -> SocketState]
    BY DEF OnOpen, HookInv, HookTypes
  <2> QED BY <2>1 DEF OnOpen, SocketState
<1>2. HookStays
  BY <1>1 DEF HookStays, hook, Used, Alive, Underway
<1> QED BY <1>2, StaysHook

(* Sockets close: a run whose only connection this was sets its timer,     *)
(* unless it was to close.                                                 *)
LEMMA CutHook ==
  ASSUME HookInv, NEW S \in SUBSET Alive, Cut(S), OnSocketClose(S)
  PROVE  HookInv'
<1> USE DEF HookInv, HookTypes, SocketState
<1>1. /\ \A s \in Sockets : socket'[s] = IF s \in S THEN "closed" ELSE socket[s]
      /\ socket' \in [Sockets -> SocketState]
      /\ UNCHANGED << run, selfClose, runOf, pending >> /\ wsRef' = None
      /\ timers' = timers \cup { e \in { runOf[s] : s \in S } : ~selfClose[e] }
  BY DEF Cut, OnSocketClose
<1>2. HookTypes'
  BY <1>1 DEF Alive
<1>3. /\ \A s \in Sockets : Used(s)' <=> Used(s)
      /\ Alive' = Alive \ S
  BY <1>1 DEF Used, Alive
<1>4. InTurn'
  BY <1>1, <1>3 DEF InTurn
<1>5. OneAlive'
  <2>1. ASSUME NEW s \in Alive', NEW r \in S PROVE runOf[s] # runOf[r]
    <3>1. s \in Alive /\ r \in Alive /\ s # r
      BY <1>3, <2>1
    <3> QED BY <3>1 DEF OneAlive, Alive, Used, Sockets
  <2> QED BY <1>1, <1>3, <2>1 DEF OneAlive
<1>6. LetGo'
  BY <1>1, <1>3 DEF LetGo, Alive, Used
<1>7. Orphans'
  BY <1>1 DEF Orphans
<1> QED BY <1>2, <1>4, <1>5, <1>6, <1>7

(* The next free socket comes after all that have been used.               *)
LEMMA FreeIsLast ==
  ASSUME HookInv, NEW s \in Sockets, Free(s)
  PROVE  ~Used(s) /\ \A r \in Sockets : Used(r) => r < s
BY DEF HookInv, InTurn, Free, Used, Sockets

LEMMA RetryHook ==
  ASSUME HookInv, NEW e \in Runs, Retry(e)
  PROVE  HookInv'
<1> USE DEF HookInv, HookTypes, SocketState
<1>1. ASSUME wsRef # None, socket' = [socket EXCEPT ![wsRef] = "closing"],
             UNCHANGED << selfClose, runOf >>
      PROVE  HookInv'
  <2>1. /\ socket'[wsRef] = "closing" /\ wsRef \in Alive
        /\ \A r \in Sockets \ { wsRef } : socket'[r] = socket[r]
    BY <1>1 DEF Alive
  <2>2. HookStays
    BY <1>1, <2>1 DEF Retry, HookStays, Used, Alive, Underway
  <2> QED BY <2>2, StaysHook
<1>2. ASSUME NEW s \in Sockets, Free(s), socket' = [socket EXCEPT ![s] = "connecting"],
             runOf' = [runOf EXCEPT ![s] = e], selfClose' = [selfClose EXCEPT ![e] = FALSE]
      PROVE  HookInv'
  <2>1. /\ e \in timers /\ timers' = timers \ { e } /\ UNCHANGED << run, pending, wsRef >>
        /\ socket'[s] = "connecting" /\ runOf'[s] = e
        /\ \A r \in Sockets \ { s } : socket'[r] = socket[r] /\ runOf'[r] = runOf[r]
        /\ \A f \in Runs \ { e } : selfClose'[f] = selfClose[f]
    BY <1>2 DEF Retry
  <2>2. HookTypes'
    BY <1>2, <2>1 DEF Alive
  <2>3. ~Used(s) /\ \A r \in Sockets : Used(r) => r < s
    BY <1>2, FreeIsLast
  <2>4. /\ Alive' = Alive \cup { s } /\ Used(s)'
        /\ \A r \in Sockets \ { s } : Used(r)' <=> Used(r)
    BY <2>1 DEF Alive, Used
  <2>5. InTurn'
    <3>1. \A r \in Sockets : r < s => Used(r)
      BY <1>2 DEF Free, Used
    <3>2. run # None => e <= run
      BY <2>1 DEF LetGo, InTurn, Runs
    <3> QED BY <2>1, <2>3, <2>4, <3>1, <3>2 DEF InTurn
  <2>6. OneAlive'
    <3>1. \A a \in Alive' : runOf'[a] \notin timers'
      BY <2>1, <2>4 DEF OneAlive, Alive
    <3>2. ASSUME NEW a \in Alive', NEW r \in Sockets, Used(r)', runOf'[r] = runOf'[a]
          PROVE  r <= a
      <4>1. CASE a = s
        BY <2>3, <2>4, <3>2, <4>1 DEF Sockets
      <4>2. CASE a # s
        <5>1. r # s
          BY <2>1, <2>4, <3>2, <4>2 DEF OneAlive, Alive
        <5> QED BY <2>1, <2>4, <3>2, <4>2, <5>1 DEF OneAlive, Alive
      <4> QED BY <4>1, <4>2
    <3> QED BY <3>1, <3>2 DEF OneAlive
  <2>7. LetGo'
    BY <2>1, <2>4 DEF LetGo
  <2>8. Orphans'
    BY <2>1 DEF Orphans, LetGo
  <2> QED BY <2>2, <2>5, <2>6, <2>7, <2>8
<1> QED BY <1>1, <1>2 DEF Retry

(* The cleanup closes whatever the run had alive.                          *)
LEMMA CleanupHook ==
  ASSUME HookInv, run # None, Teardown, NEW new \in SUBSET Sockets,
         \/ new = {} /\ run' = None
         \/ run' = run + 1 /\ run' \in Runs /\ \E s \in new : new = { s } /\ Free(s),
         socket' \in [Sockets -> SocketState], runOf' \in [Sockets -> Runs],
         \A r \in Sockets \ new : runOf'[r] = runOf[r] /\ socket'[r] = Closing(LastOf(run))[r],
         \A r \in new : runOf'[r] = run' /\ socket'[r] = "connecting"
  PROVE  HookInv'
<1> USE DEF HookInv, HookTypes
<1>1. /\ wsRef' = None /\ UNCHANGED timers /\ pending' = pending \cup (timers \cap { run })
      /\ selfClose' \in [Runs -> BOOLEAN] /\ selfClose'[run]
      /\ \A f \in Runs \ { run } : selfClose'[f] = selfClose[f]
  BY DEF Teardown
<1>2. \A r \in Sockets \ new :
        /\ runOf'[r] = runOf[r]
        /\ socket'[r] = IF r \in LastOf(run) /\ socket[r] \in { "connecting", "open" }
                        THEN "closing" ELSE socket[r]
  BY DEF Closing
<1>3. \A r \in new : runOf'[r] = run' /\ run' = run + 1 /\ socket'[r] = "connecting"
  OBVIOUS
<1>4. \A s \in new :
        /\ new = { s } /\ ~Used(s)
        /\ \A r \in Sockets : (Used(r) => r < s) /\ (r < s => Used(r))
  BY FreeIsLast DEF Free, Used
<1>5. HookTypes'
  BY <1>1
<1>6. /\ Alive' = Alive \cup new
      /\ \A r \in Sockets \ new : Used(r)' <=> Used(r)
  BY <1>2, <1>3, <1>4 DEF Alive, Used
<1>7. ASSUME NEW r \in Sockets, socket[r] \in { "connecting", "open" }, runOf[r] = run
      PROVE  r \in LastOf(run)
  BY <1>7 DEF OneAlive, Alive, LastOf, Used
<1>8. InTurn'
  BY <1>1, <1>2, <1>3, <1>4, <1>6 DEF InTurn, Runs
<1>9. OneAlive'
  <2>1. ASSUME NEW f \in Nat, f \in timers \/ \E a \in Sockets : Used(a) /\ f = runOf[a]
        PROVE  f <= run
    BY <2>1 DEF LetGo, InTurn, Runs, None
  <2>2. run + 1 > run /\ run \in Nat /\ Runs \subseteq Nat
    BY DEF Runs, None
  <2>3. \A a \in Alive' : runOf'[a] \notin timers'
    BY <1>1, <1>2, <1>3, <1>6, <2>1, <2>2 DEF OneAlive, Alive
  <2>4. ASSUME NEW a \in Alive', NEW r \in Sockets, Used(r)', runOf'[r] = runOf'[a]
        PROVE  r <= a
    <3>1. CASE a \in new
      BY <1>4, <1>6, <2>4, <3>1 DEF Sockets
    <3>2. CASE a \notin new /\ r \in new
      <4>1. Used(a) /\ runOf[a] = run + 1
        BY <1>2, <1>3, <1>6, <2>4, <3>2 DEF Alive, Used
      <4> QED BY <2>1, <2>2, <3>2, <4>1 DEF Alive
    <3>3. CASE a \notin new /\ r \notin new
      BY <1>2, <1>6, <2>4, <3>3 DEF OneAlive, Alive
    <3> QED BY <3>1, <3>2, <3>3
  <2> QED BY <2>3, <2>4 DEF OneAlive
<1>10. LetGo'
  BY <1>1, <1>2, <1>3, <1>4, <1>6 DEF LetGo
<1>11. Orphans'
  <2>1. ASSUME NEW r \in Sockets, socket'[r] \in { "connecting", "open" }, runOf'[r] # run'
        PROVE  runOf[r] \in pending /\ r \notin new
    BY <1>2, <1>3, <1>7, <2>1 DEF Orphans
  <2> QED BY <1>1, <1>2, <2>1 DEF Orphans
<1> QED BY <1>5, <1>8, <1>9, <1>10, <1>11

LEMMA NextHook ==
  ASSUME HookInv, [SubNext]_subVars
  PROVE  HookInv'
<1>1. ASSUME NEW u \in Uids, ChangeResource(u) PROVE HookInv'
  BY <1>1, StillHook DEF ChangeResource
<1>2. CASE Refetch \/ Turn \/ QueryReads \/ QueryReturns
  BY <1>2, StillHook DEF Refetch, Turn, QueryReads, QueryReturns
<1>3. ASSUME NEW s \in Sockets, OnMessage(s) \/ Handle(s) \/ SendReads(s) \/ SendWrites(s)
      PROVE  HookInv'
  BY <1>3, StillHook DEF OnMessage, Handle, SendReads, SendWrites
<1>4. ASSUME NEW s \in Sockets, OnOpen(s) PROVE HookInv'
  BY <1>4, OpenHook
<1>5. ASSUME NEW s \in Sockets, Close(s) PROVE HookInv'
  <2>1. { s } \in SUBSET Alive
    BY <1>5 DEF Close
  <2> QED BY <1>5, <2>1, CutHook DEF Close
<1>6. ASSUME NEW s \in Sockets, ConcurrentMapWrite(s) PROVE HookInv'
  BY <1>6, CutHook DEF ConcurrentMapWrite
<1>7. ASSUME NEW e \in Runs, Retry(e) PROVE HookInv'
  BY <1>7, RetryHook
<1>8. CASE Rerun
  <2>1. PICK s \in Sockets :
          /\ Free(s) /\ socket' = [Closing(LastOf(run)) EXCEPT ![s] = "connecting"]
          /\ runOf' = [runOf EXCEPT ![s] = run + 1]
    BY <1>8 DEF Rerun
  <2>2. run # None /\ run + 1 \in Runs /\ run' = run + 1 /\ Teardown
    BY <1>8, SubBounds DEF Rerun, HookInv, HookTypes, Runs, None
  <2>3. socket' \in [Sockets -> SocketState] /\ runOf' \in [Sockets -> Runs]
    BY <2>1, <2>2 DEF HookInv, HookTypes, Closing, SocketState
  <2>4. /\ \A r \in Sockets \ { s } : runOf'[r] = runOf[r] /\ socket'[r] = Closing(LastOf(run))[r]
        /\ runOf'[s] = run' /\ socket'[s] = "connecting"
    BY <2>1, <2>2 DEF HookInv, HookTypes, Closing
  <2> DEFINE new == { s }
  <2>5. /\ new \in SUBSET Sockets /\ \E r \in new : new = { r } /\ Free(r)
        /\ \A r \in Sockets \ new : runOf'[r] = runOf[r] /\ socket'[r] = Closing(LastOf(run))[r]
        /\ \A r \in new : runOf'[r] = run' /\ socket'[r] = "connecting"
    BY <2>1, <2>4
  <2>6. run' = run + 1 /\ run' \in Runs
    BY <2>2
  <2> HIDE DEF new
  <2> QED BY <2>2, <2>3, <2>5, <2>6, CleanupHook
<1>9. CASE LeavePage
  <2>1. /\ run # None /\ Teardown /\ run' = None /\ UNCHANGED runOf
        /\ socket' = Closing(LastOf(run))
    BY <1>9 DEF LeavePage
  <2>2. socket' \in [Sockets -> SocketState] /\ runOf' \in [Sockets -> Runs]
    BY <2>1 DEF HookInv, HookTypes, Closing, SocketState
  <2> DEFINE new == {}
  <2>3. /\ new \in SUBSET Sockets /\ new = {}
        /\ \A r \in Sockets \ new : runOf'[r] = runOf[r] /\ socket'[r] = Closing(LastOf(run))[r]
    BY <2>1
  <2> HIDE DEF new
  <2> QED BY <2>1, <2>2, <2>3, CleanupHook
<1>10. CASE UNCHANGED subVars
  BY <1>10, StillHook DEF subVars
<1> QED BY <1>1, <1>2, <1>3, <1>4, <1>5, <1>6, <1>7, <1>8, <1>9, <1>10 DEF SubNext

(* Only a retry timer that was set before the cleanup leaves a connection  *)
(* behind, for any number of runs and sockets and however they are lost    *)
(* (connect, ws.onclose and the cleanup of useSubscription).               *)
THEOREM OnlyTimersLeaveOrphans == SubSpec => []Orphans
<1>1. HookInv => Orphans
  BY DEF HookInv
<1> QED BY <1>1, InitHook, NextHook, PTL DEF SubSpec

-----------------------------------------------------------------------------
(* What a push has told the page.  Nothing is ahead of the database; what  *)
(* a connection has pushed last has arrived or is on its way; and if the   *)
(* display is behind what has arrived, the page is excused.                *)
DataTypes ==
  /\ db \in [Uids -> Nat \ { 0 }] /\ shown \in [Uids -> Nat] /\ result \in [Uids -> Nat]
  /\ received \in [Uids -> Nat] /\ overtaken \subseteq Uids
  /\ cache \in [Sockets -> [Uids -> Nat]] /\ read \in [Sockets -> [Uids -> Nat]]
  /\ down \in [Sockets -> Seq(Updates)]

NotAhead ==
  /\ \A u \in Uids : shown[u] <= db[u] /\ result[u] <= db[u]
  /\ \A s \in Sockets : \A u \in Uids : read[s][u] <= db[u]
  /\ \A s \in Sockets : \A i \in 1 .. Len(down[s]) : down[s][i].version <= db[down[s][i].uid]

Told(s, u) ==
  \/ received[u] >= cache[s][u]
  \/ \E i \in 1 .. Len(down[s]) : down[s][i] = [uid |-> u, version |-> cache[s][u]]

Excused(u) == run # None /\ shown[u] # None => shown[u] >= received[u] \/ u \in overtaken

DisplayInv ==
  /\ DataTypes /\ NotAhead
  /\ \A s \in Sockets : \A u \in Uids : Told(s, u)
  /\ \A u \in Uids : Excused(u)

LEMMA InitDisplay == SubInit => DisplayInv
<1> SUFFICES ASSUME SubInit PROVE DisplayInv
  OBVIOUS
<1>1. DataTypes
  BY DEF SubInit, DataTypes, Nothing, None
<1>2. NotAhead
  BY DEF SubInit, NotAhead, Nothing, None
<1>3. (\A s \in Sockets : \A u \in Uids : Told(s, u)) /\ \A u \in Uids : Excused(u)
  BY DEF SubInit, Told, Excused, Nothing, None
<1> QED BY <1>1, <1>2, <1>3 DEF DisplayInv

(* The steps that read, push and display nothing.                          *)
DisplayStays ==
  UNCHANGED << db, shown, received, overtaken, result, cache, read, down >> /\ (run' # None => run # None)

LEMMA StaysDisplay == DisplayInv /\ DisplayStays => DisplayInv'
BY DEF DisplayStays, DisplayInv, DataTypes, NotAhead, Told, Excused

LEMMA ChangeDisplay ==
  ASSUME DisplayInv, NEW u \in Uids, ChangeResource(u)
  PROVE  DisplayInv'
<1> USE DEF DisplayInv, query, display, hook, server
<1>1. /\ db' \in [Uids -> Nat \ { 0 }] /\ \A v \in Uids : db'[v] >= db[v]
      /\ UNCHANGED << shown, received, overtaken, result, cache, read, down, run >>
  BY DEF ChangeResource, DataTypes
<1>2. DataTypes'
  BY <1>1 DEF DataTypes
<1>3. NotAhead'
  <2>1. ASSUME NEW v \in Uids, NEW n \in Nat, n <= db[v] PROVE n <= db'[v]
    BY <1>1, <2>1 DEF DataTypes
  <2>2. \A s \in Sockets : \A i \in 1 .. Len(down[s]) : down[s][i] \in Updates
    BY DEF DataTypes
  <2>3. \A s \in Sockets : \A i \in 1 .. Len(down[s]) :
          down'[s][i].version <= db'[down'[s][i].uid]
    BY <1>1, <2>1, <2>2 DEF NotAhead, Updates
  <2>4. \A s \in Sockets : \A v \in Uids : read'[s][v] <= db'[v]
    BY <1>1, <2>1 DEF NotAhead, DataTypes
  <2>5. \A v \in Uids : shown'[v] <= db'[v] /\ result'[v] <= db'[v]
    BY <1>1, <2>1 DEF NotAhead, DataTypes
  <2> QED BY <1>1, <2>3, <2>4, <2>5 DEF NotAhead
<1> QED BY <1>1, <1>2, <1>3 DEF Told, Excused

LEMMA QueryDisplay ==
  ASSUME DisplayInv, Refetch \/ Turn \/ QueryReads \/ QueryReturns
  PROVE  DisplayInv'
<1> USE DEF DisplayInv, query, display, hook, server
<1>1. CASE Refetch
  BY <1>1, StaysDisplay DEF Refetch, DisplayStays
<1>2. CASE Turn
  BY <1>2 DEF Turn, DataTypes, NotAhead, Told, Excused, Nothing, None
<1>3. CASE QueryReads
  BY <1>3 DEF QueryReads, DataTypes, NotAhead, Told, Excused, None
<1>4. CASE QueryReturns
  BY <1>4 DEF QueryReturns, DataTypes, NotAhead, Told, Excused, Nothing, None
<1> QED BY <1>1, <1>2, <1>3, <1>4

LEMMA CutDisplay ==
  ASSUME DisplayInv, NEW S \in SUBSET Alive, Cut(S), UNCHANGED << db, display, query, run >>
  PROVE  DisplayInv'
<1> USE DEF DisplayInv, query, display
<1>1. \A s \in S : down'[s] = << >> /\ cache'[s] = Nothing /\ read'[s] = Nothing
  BY DEF Cut, Alive
<1>2. \A s \in Sockets \ S : down'[s] = down[s] /\ cache'[s] = cache[s] /\ read'[s] = read[s]
  BY DEF Cut
<1>3. Nothing \in [Uids -> Nat] /\ \A u \in Uids : Nothing[u] = 0
  BY DEF Nothing, None
<1>4. DataTypes'
  BY <1>3 DEF DataTypes, Cut
<1>5. NotAhead'
  <2>1. \A s \in S : Len(down'[s]) = 0 /\ \A u \in Uids : read'[s][u] = 0
    BY <1>1, <1>3
  <2>2. \A u \in Uids : 0 <= db[u] /\ UNCHANGED << db, shown, result >>
    BY DEF DataTypes
  <2>3. \A s \in Sockets : \A u \in Uids : read'[s][u] <= db'[u]
    BY <1>2, <2>1, <2>2 DEF NotAhead
  <2>4. \A s \in Sockets : \A i \in 1 .. Len(down'[s]) :
          down'[s][i].version <= db'[down'[s][i].uid]
    <3>1. ASSUME NEW s \in S, NEW i \in 1 .. Len(down'[s]) PROVE FALSE
      BY <2>1, <3>1
    <3> QED BY <1>2, <3>1 DEF NotAhead
  <2> QED BY <2>2, <2>3, <2>4 DEF NotAhead
<1>6. \A s \in Sockets : \A u \in Uids : Told(s, u)'
  <2>1. \A s \in S : \A u \in Uids : Told(s, u)'
    BY <1>1, <1>3 DEF Told, DataTypes
  <2> QED BY <1>2, <2>1 DEF Told
<1> QED BY <1>4, <1>5, <1>6 DEF Excused

LEMMA OfHeadAndTail ==
  ASSUME NEW S, NEW q \in Seq(S), q # << >>
  PROVE  /\ Head(q) = q[1] /\ q[1] \in S /\ 1 \in 1 .. Len(q) /\ Tail(q) \in Seq(S)
         /\ Len(Tail(q)) = Len(q) - 1 /\ \A i \in 1 .. Len(Tail(q)) : Tail(q)[i] = q[i + 1]
OBVIOUS

LEMMA OfConcatenation ==
  ASSUME NEW S, NEW p \in Seq(S), NEW q \in Seq(S)
  PROVE  /\ p \o q \in Seq(S) /\ Len(p \o q) = Len(p) + Len(q) /\ Len(p) \in Nat
         /\ \A i \in 1 .. Len(p) : (p \o q)[i] = p[i]
         /\ \A i \in 1 .. Len(q) : (p \o q)[Len(p) + i] = q[i]
OBVIOUS

LEMMA MessageDisplay ==
  ASSUME DisplayInv, NEW s \in Sockets, OnMessage(s)
  PROVE  DisplayInv'
<1> USE DEF DisplayInv
<1> DEFINE u == Head(down[s]).uid
           v == Head(down[s]).version
           rest == Tail(down[s])
<1>1. /\ down[s] \in Seq(Updates) /\ down[s] # << >> /\ Head(down[s]) = down[s][1]
      /\ u \in Uids /\ v \in Nat /\ v <= db[u] /\ rest \in Seq(Updates)
      /\ down[s][1] = [uid |-> u, version |-> v]
      /\ Len(rest) = Len(down[s]) - 1 /\ \A i \in 1 .. Len(rest) : rest[i] = down[s][i + 1]
  <2>1. down[s] \in Seq(Updates) /\ down[s] # << >>
    BY DEF OnMessage, DataTypes
  <2>2. /\ Head(down[s]) = down[s][1] /\ down[s][1] \in Updates /\ 1 \in 1 .. Len(down[s])
        /\ rest \in Seq(Updates) /\ Len(rest) = Len(down[s]) - 1
        /\ \A i \in 1 .. Len(rest) : rest[i] = down[s][i + 1]
    BY <2>1, OfHeadAndTail
  <2>3. down[s][1].version <= db[down[s][1].uid]
    BY <2>2 DEF NotAhead
  <2> QED BY <2>1, <2>2, <2>3 DEF Updates
<1>2. /\ received' = [received EXCEPT ![u] = IF v > @ THEN v ELSE @]
      /\ down' = [down EXCEPT ![s] = rest] /\ UNCHANGED << db, result, cache, read, run >>
  BY DEF OnMessage, query, hook, server
<1>3. \/ /\ shown' = [shown EXCEPT ![u] = v]
         /\ overtaken' = IF v < received[u] THEN overtaken \cup { u } ELSE overtaken \ { u }
      \/ /\ UNCHANGED shown
         /\ overtaken' = IF shown[u] # None /\ shown[u] < v THEN overtaken \cup { u } ELSE overtaken
  BY DEF OnMessage
<1> HIDE DEF u, v, rest
<1>4. DataTypes'
  BY <1>1, <1>2, <1>3 DEF DataTypes
<1>5. NotAhead'
  <2>1. \A w \in Uids : shown'[w] <= db'[w] /\ result'[w] <= db'[w]
    BY <1>1, <1>2, <1>3 DEF NotAhead, DataTypes
  <2>2. ASSUME NEW r \in Sockets, NEW i \in 1 .. Len(down'[r])
        PROVE  down'[r][i].version <= db'[down'[r][i].uid]
    <3>1. CASE r = s
      <4>1. i + 1 \in 1 .. Len(down[s]) /\ down'[s][i] = down[s][i + 1]
        BY <1>1, <1>2, <2>2, <3>1 DEF DataTypes
      <4> QED BY <1>2, <3>1, <4>1 DEF NotAhead
    <3>2. CASE r # s
      BY <1>2, <2>2, <3>2 DEF NotAhead, DataTypes
    <3> QED BY <3>1, <3>2
  <2> QED BY <1>2, <2>1, <2>2 DEF NotAhead
<1>6. \A w \in Uids : received'[w] \in Nat /\ received'[w] >= received[w] /\ received'[u] >= v
  BY <1>1, <1>2 DEF DataTypes
<1>7. ASSUME NEW r \in Sockets, NEW w \in Uids PROVE Told(r, w)'
  <2>0. cache[r][w] \in Nat /\ received[w] \in Nat
    BY DEF DataTypes
  <2>1. CASE received[w] >= cache[r][w]
    BY <1>2, <1>6, <2>0, <2>1 DEF Told
  <2>2. ASSUME NEW i \in 1 .. Len(down[r]), down[r][i] = [uid |-> w, version |-> cache[r][w]]
        PROVE  Told(r, w)'
    <3>1. CASE r # s
      BY <1>2, <2>2, <3>1 DEF Told, DataTypes
    <3>2. CASE r = s /\ i = 1
      <4>1. u = w /\ v = cache[r][w]
        BY <1>1, <2>2, <3>2
      <4> QED BY <1>2, <1>6, <4>1 DEF Told
    <3>3. CASE r = s /\ i # 1
      <4>1. i - 1 \in 1 .. Len(rest) /\ rest[i - 1] = down[s][i]
        BY <1>1, <2>2, <3>3
      <4>2. down'[s] = rest
        BY <1>2 DEF DataTypes
      <4> QED BY <1>2, <2>2, <3>3, <4>1, <4>2 DEF Told
    <3> QED BY <3>1, <3>2, <3>3
  <2> QED BY <2>1, <2>2 DEF Told
<1>8. ASSUME NEW w \in Uids PROVE Excused(w)'
  <2>1. CASE w # u
    BY <1>1, <1>2, <1>3, <2>1 DEF Excused, DataTypes
  <2>2. CASE w = u
    BY <1>1, <1>2, <1>3, <2>2 DEF Excused, DataTypes
  <2> QED BY <2>1, <2>2
<1> QED BY <1>4, <1>5, <1>7, <1>8

LEMMA SendDisplay ==
  ASSUME DisplayInv, NEW s \in Sockets, SendReads(s) \/ SendWrites(s)
  PROVE  DisplayInv'
<1> USE DEF DisplayInv, display, query, hook
<1>1. CASE SendReads(s)
  <2> DEFINE now == [u \in Uids |-> IF u \in subs[s] THEN db[u] ELSE None]
  <2>1. /\ read' = [read EXCEPT ![s] = now]
        /\ UNCHANGED << db, shown, received, overtaken, result, run, cache, down >>
    BY <1>1 DEF SendReads
  <2>2. now \in [Uids -> Nat] /\ \A u \in Uids : now[u] <= db[u]
    BY DEF DataTypes, None
  <2> HIDE DEF now
  <2>3. DataTypes'
    BY <2>1, <2>2 DEF DataTypes
  <2>4. NotAhead'
    BY <2>1, <2>2 DEF NotAhead, DataTypes
  <2> QED BY <2>1, <2>3, <2>4 DEF Told, Excused
<1>2. CASE SendWrites(s)
  <2> DEFINE new == News(s, cache[s])
  <2>1. PICK order \in Orders(new) : down' = Push(s, order)
    BY <1>2 DEF SendWrites
  <2> DEFINE n == Cardinality(new)
             pushed == [i \in DOMAIN order |-> [uid |-> order[i], version |-> read[s][order[i]]]]
  <2>2. /\ UNCHANGED << db, shown, received, overtaken, result, run >>
        /\ cache' = [cache EXCEPT ![s] =
                       [u \in Uids |-> IF read[s][u] # None THEN read[s][u] ELSE cache[s][u]]]
        /\ read' = [read EXCEPT ![s] = Nothing]
    BY <1>2 DEF SendWrites, DataTypes
  <2>3. /\ new \subseteq Uids /\ n \in Nat
        /\ order \in [1 .. n -> new] /\ \A u \in new : \E i \in 1 .. n : order[i] = u
    <3>1. new \subseteq Uids
      BY DEF News
    <3>2. IsFiniteSet(new)
      BY <3>1, SubBounds, FS_Subset
    <3> QED BY <2>1, <3>1, <3>2, FS_CardinalityType DEF Orders
  <2>4. /\ pushed \in Seq(Updates) /\ Len(pushed) = n
        /\ \A i \in 1 .. n : pushed[i] = [uid |-> order[i], version |-> read[s][order[i]]]
    <3>1. DOMAIN order = 1 .. n /\ \A i \in 1 .. n : order[i] \in Uids
      BY <2>3
    <3>2. \A i \in 1 .. n : [uid |-> order[i], version |-> read[s][order[i]]] \in Updates
      BY <3>1 DEF DataTypes, Updates
    <3>3. pushed \in [1 .. n -> Updates]
      BY <3>1, <3>2
    <3> HIDE DEF pushed
    <3>4. pushed \in Seq(Updates) /\ Len(pushed) = n
      BY <2>3, <3>3
    <3> QED BY <3>1, <3>4 DEF pushed
  <2>5. down' = [down EXCEPT ![s] = down[s] \o pushed] /\ down[s] \in Seq(Updates)
    BY <2>1 DEF Push, DataTypes
  <2> HIDE DEF new, n, pushed
  <2>6. DataTypes'
    BY <2>2, <2>4, <2>5 DEF DataTypes, Nothing, None
  <2>7. /\ Len(down'[s]) = Len(down[s]) + n /\ Len(down[s]) \in Nat
        /\ \A i \in 1 .. Len(down[s]) : down'[s][i] = down[s][i]
        /\ \A i \in 1 .. n : down'[s][Len(down[s]) + i] = pushed[i]
    <3>1. down'[s] = down[s] \o pushed
      BY <2>5 DEF DataTypes
    <3> QED BY <2>4, <2>5, <3>1, OfConcatenation
  <2>8. NotAhead'
    <3>1. /\ \A u \in Uids : shown'[u] <= db'[u] /\ result'[u] <= db'[u]
          /\ \A r \in Sockets : \A u \in Uids : read'[r][u] <= db'[u]
      BY <2>2 DEF NotAhead, DataTypes, Nothing, None
    <3>2. ASSUME NEW r \in Sockets, NEW i \in 1 .. Len(down'[r])
          PROVE  down'[r][i].version <= db'[down'[r][i].uid]
      <4>1. CASE r # s
        BY <2>2, <2>5, <3>2, <4>1 DEF NotAhead, DataTypes
      <4>2. CASE r = s /\ i <= Len(down[s])
        BY <2>2, <2>7, <3>2, <4>2 DEF NotAhead
      <4>3. CASE r = s /\ i > Len(down[s])
        <5>1. PICK j \in 1 .. n : i = Len(down[s]) + j
          <6>1. i - Len(down[s]) \in 1 .. n
            BY <2>3, <2>7, <3>2, <4>3
          <6> QED BY <2>7, <6>1
        <5>2. down'[r][i] = [uid |-> order[j], version |-> read[s][order[j]]] /\ order[j] \in Uids
          BY <2>3, <2>4, <2>7, <4>3, <5>1
        <5> QED BY <2>2, <5>2 DEF NotAhead
      <4> QED BY <2>7, <3>2, <4>1, <4>2, <4>3
    <3> QED BY <2>2, <3>1, <3>2 DEF NotAhead
  <2>9. ASSUME NEW r \in Sockets, NEW u \in Uids PROVE Told(r, u)'
    <3>1. CASE r # s
      BY <2>2, <2>5, <3>1 DEF Told, DataTypes
    <3>2. CASE r = s /\ u \notin new
      <4>1. cache'[s][u] = cache[s][u]
        BY <2>2, <3>2 DEF new, News, DataTypes
      <4>2. \A i \in 1 .. Len(down[s]) : i \in 1 .. Len(down'[s])
        BY <2>3, <2>7
      <4> QED BY <2>2, <2>7, <3>2, <4>1, <4>2 DEF Told
    <3>3. CASE r = s /\ u \in new
      <4>1. cache'[s][u] = read[s][u]
        BY <2>2, <3>3 DEF new, News, DataTypes
      <4>2. PICK j \in 1 .. n : order[j] = u
        BY <2>3, <3>3
      <4>3. Len(down[s]) + j \in 1 .. Len(down'[s])
        BY <2>3, <2>7
      <4>4. down'[s][Len(down[s]) + j] = [uid |-> u, version |-> cache'[s][u]]
        BY <2>4, <2>7, <4>1, <4>2
      <4> QED BY <3>3, <4>3, <4>4 DEF Told
    <3> QED BY <3>1, <3>2, <3>3
  <2> QED BY <2>2, <2>6, <2>8, <2>9 DEF Excused
<1> QED BY <1>1, <1>2

LEMMA NextDisplay ==
  ASSUME DisplayInv, [SubNext]_subVars
  PROVE  DisplayInv'
<1> USE DEF display, query, hook, server
<1>1. ASSUME NEW u \in Uids, ChangeResource(u) PROVE DisplayInv'
  BY <1>1, ChangeDisplay
<1>2. CASE Refetch \/ Turn \/ QueryReads \/ QueryReturns
  BY <1>2, QueryDisplay
<1>3. ASSUME NEW s \in Sockets, OnMessage(s) PROVE DisplayInv'
  BY <1>3, MessageDisplay
<1>4. ASSUME NEW s \in Sockets, OnOpen(s) \/ Handle(s) PROVE DisplayInv'
  BY <1>4, StaysDisplay DEF OnOpen, Handle, DisplayStays
<1>5. ASSUME NEW s \in Sockets, Close(s) PROVE DisplayInv'
  <2>1. { s } \in SUBSET Alive
    BY <1>5 DEF Close
  <2> QED BY <1>5, <2>1, CutDisplay DEF Close, OnSocketClose
<1>6. ASSUME NEW s \in Sockets, ConcurrentMapWrite(s) PROVE DisplayInv'
  BY <1>6, CutDisplay DEF ConcurrentMapWrite, OnSocketClose
<1>7. ASSUME NEW s \in Sockets, SendReads(s) \/ SendWrites(s) PROVE DisplayInv'
  BY <1>7, SendDisplay
<1>8. ASSUME NEW e \in Runs, Retry(e) PROVE DisplayInv'
  BY <1>8, StaysDisplay DEF Retry, DisplayStays
<1>9. CASE Rerun \/ LeavePage
  BY <1>9, StaysDisplay DEF Rerun, LeavePage, DisplayStays
<1>10. CASE UNCHANGED subVars
  BY <1>10, StaysDisplay DEF subVars, DisplayStays
<1> QED BY <1>1, <1>2, <1>3, <1>4, <1>5, <1>6, <1>7, <1>8, <1>9, <1>10 DEF SubNext

(* A page shows the current version of what it lists once a connection has *)
(* pushed it and none is behind, unless an older answer came after a newer *)
(* one or the page had not registered it: for any number of resources,     *)
(* versions and sockets, whatever is lost, torn down or asked again (send, *)
(* ws.onmessage, the merge of the pages, and the query's answer).          *)
THEOREM PushesAreShown == SubSpec => []ShowsCurrent
<1>1. DisplayInv => ShowsCurrent
  <2> SUFFICES ASSUME DisplayInv, run # None, NEW u \in Listed, NEW s \in Sockets, Caught(s, u),
                      \A r \in Sockets : ~Behind(r, u)
               PROVE  shown[u] = db[u] \/ u \in overtaken
    BY DEF ShowsCurrent
  <2>1. u \in Uids /\ shown[u] # None /\ cache[s][u] = db[u] /\ s \in Alive
    BY DEF Listed, Caught, Alive
  <2>2. \A i \in 1 .. Len(down[s]) : down[s][i].uid # u
    BY <2>1 DEF Behind, DisplayInv, DataTypes
  <2>3. received[u] >= db[u]
    <3>1. Told(s, u) /\ s \in Sockets
      BY <2>1 DEF DisplayInv
    <3>2. \A i \in 1 .. Len(down[s]) : down[s][i] # [uid |-> u, version |-> cache[s][u]]
      BY <2>2
    <3> QED BY <2>1, <3>1, <3>2 DEF Told
  <2>4. shown[u] <= db[u] /\ (shown[u] >= received[u] \/ u \in overtaken)
    BY <2>1 DEF DisplayInv, NotAhead, Excused
  <2> QED BY <2>1, <2>3, <2>4 DEF DisplayInv, DataTypes
<1> QED BY <1>1, InitDisplay, NextDisplay, PTL DEF SubSpec
=============================================================================

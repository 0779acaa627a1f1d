---------------------------- MODULE SocketProofs ----------------------------
(***************************************************************************)
(* Proofs about four of the dashboard's web sockets: the shell of          *)
(* TerminalView, the pods of PodsWatch, the events of KubeEvents and the   *)
(* logs of LogView, for any number of pages, connections, messages and     *)
(* losses.                                                                 *)
(***************************************************************************)
EXTENDS TerminalView, PodsWatch, KubeEvents, LogView, FiniteSetTheorems, TLAPS

(* TerminalView: a socket that is in use was opened for what the page      *)
(* wants; but for a heartbeat that is being answered the timer of the      *)
(* reads is never ahead of the page's silence; without a lull there is a   *)
(* timeout only while one is answered, and that is the last one; what has  *)
(* been shown is in the recording, and a stored one is of a lost socket.   *)
SocketOfPage == termSock.st \in { "connecting", "open" } => termSock.of = props

TimerBehind ==
  /\ quiet \in 0 .. Timeout /\ lull \in [now : 0 .. Timeout, most : 0 .. Timeout]
  /\ lull.now <= lull.most
  /\ watching /\ reader # "replying" => quiet <= lull.now
  /\ timedOut /\ lull.most # Timeout =>
       quiet <= lull.now /\ reader \in { "replying", "parting", "ended" }
  /\ stream = "none" => ~watching /\ quiet = 0 /\ reader = "none"
  /\ stream = "made" => reader = "none"

Kept ==
  /\ recorded \in Nat /\ displayed \in Nat /\ stored \in Nat
  /\ displayed <= recorded /\ (output = "sending" => displayed < recorded)
  /\ saved => termSock.st \in { "closing", "closed" }

TermSockets == [st : { "connecting", "open", "closing", "closed" }, of : Shells]

TermInv ==
  /\ termSock \in TermSockets /\ SocketOfPage /\ TypedHere
  /\ TimerBehind /\ PanicsExplained /\ Kept /\ ShownIsStored

LEMMA InitTerm == TermInit => TermInv
BY DEF TermInit, TermInv, TermSockets, SocketOfPage, TypedHere, TimerBehind, Timeout, Kept,
       PanicsExplained, ShownIsStored

LEMMA NextTerm == TermInv /\ [TermNext]_termVars => TermInv'
<1> SUFFICES ASSUME TermInv, [TermNext]_termVars PROVE TermInv'
  OBVIOUS
<1> USE DEF TermInv, TermSockets, SocketOfPage, TypedHere, TimerBehind, Timeout, Kept,
            PanicsExplained, ShownIsStored, Clash, browser, handler, timer, recording,
            termHist, Connected
<1>1. CASE TermOpens
  BY <1>1 DEF TermOpens
<1>2. CASE Heartbeat
  BY <1>2 DEF Heartbeat
<1>3. CASE Type
  BY <1>3 DEF Type
<1>4. CASE TermRerun
  BY <1>4 DEF TermRerun
<1>5. CASE TermCloses
  BY <1>5 DEF TermCloses
<1>6. CASE Silence
  BY <1>6 DEF Silence
<1>7. CASE Refuse
  BY <1>7 DEF Refuse
<1>8. CASE Make
  BY <1>8 DEF Make
<1>9. CASE Start
  BY <1>9 DEF Start, NextRead
<1>10. CASE StartFails
  BY <1>10 DEF StartFails
<1>11. CASE StreamReturns
  BY <1>11 DEF StreamReturns, Disconnect
<1>12. CASE ErrorWritten
  BY <1>12 DEF ErrorWritten, Disconnect
<1>13. CASE Output
  BY <1>13 DEF Output
<1>14. CASE AppendOutput
  BY <1>14 DEF AppendOutput
<1>15. CASE SendOutput
  BY <1>15 DEF SendOutput
<1>16. CASE Read
  BY <1>16 DEF Read, Heard, TimerAgain, NextRead
<1>17. CASE InputLost
  BY <1>17 DEF InputLost, Heard, TimerAgain
<1>18. CASE HeartbeatRead
  BY <1>18 DEF HeartbeatRead, Heard
<1>19. CASE Replied
  BY <1>19 DEF Replied, TimerAgain, NextRead
<1>20. CASE ReplyFails
  BY <1>20 DEF ReplyFails
<1>21. CASE Parted
  BY <1>21 DEF Parted
<1>22. CASE ReadFails
  BY <1>22 DEF ReadFails, DoClose
<1>23. CASE ConcurrentWrite
  BY <1>23 DEF ConcurrentWrite
<1>24. CASE Break
  BY <1>24 DEF Break, Disconnect
<1>25. CASE Tick
  BY <1>25 DEF Tick
<1>26. CASE Expire
  BY <1>26 DEF Expire
<1>27. ASSUME NEW f \in Files, BeforeUpload(f) PROVE TermInv'
  BY <1>27 DEF BeforeUpload
<1>28. ASSUME NEW i \in 1 .. Len(uploads), UploadSuccess(i) PROVE TermInv'
  <2>1. UNCHANGED << termSock, props, stream, reader, output, timer, crashed, recording, termHist >>
    BY <1>28 DEF UploadSuccess
  <2> QED
    BY <2>1
<1>29. CASE UNCHANGED termVars
  BY <1>29 DEF termVars
<1> QED BY <1>1, <1>2, <1>3, <1>4, <1>5, <1>6, <1>7, <1>8, <1>9, <1>10, <1>11, <1>12,
           <1>13, <1>14, <1>15, <1>16, <1>17, <1>18, <1>19, <1>20, <1>21, <1>22, <1>23,
           <1>24, <1>25, <1>26, <1>27, <1>28, <1>29 DEF TermNext

LEMMA TermInvariant == TermSpec => []TermInv
BY InitTerm, NextTerm, PTL DEF TermSpec

(* What is typed goes to the container that the dialog is about, whatever  *)
(* the terminal is opened in next and however often (the effect of         *)
(* Terminal, its cleanup and wsRef).                                       *)
THEOREM TypesWhereItShould == TermSpec => []TypedHere
<1>1. TermInv => TypedHere
  BY DEF TermInv
<1> QED BY <1>1, TermInvariant, PTL

(* The server process panics only after a lull of thirty minutes, or when  *)
(* two goroutines get in each other's way: a page's heartbeats keep the    *)
(* watcher from it (watchRead and Read, and the heartbeat of Terminal).    *)
THEOREM OnlyLullsAndRacesPanic == TermSpec => []PanicsExplained
<1>1. TermInv => PanicsExplained
  BY DEF TermInv
<1> QED BY <1>1, TermInvariant, PTL

(* A stored recording holds all that was ever shown, however the shell's   *)
(* output, the page's messages and the loss of the connection interleave   *)
(* (ConnWrite, Read and doClose of WebTerminal).                           *)
THEOREM WhatIsShownIsStored == TermSpec => []ShownIsStored
<1>1. TermInv => ShownIsStored
  BY DEF TermInv
<1> QED BY <1>1, TermInvariant, PTL

-----------------------------------------------------------------------------
(* PodsWatch: the connections and handlers that are in use, and whoever    *)
(* has sent last manages as long as its client is there.                   *)
HandlersInv ==
  /\ viewer \in [Viewers -> { "connected", "waiting", "stopped", "left" }]
  /\ conn \in [Viewers -> Conns \cup { 0 }] /\ podsShown \in [Viewers -> Views \cup { Unseen }]
  /\ link \in [Conns -> { "unused", "open", "closed" }]
  /\ pc \in [Conns -> { "none", "joined", "read", "waiting", "claiming", "listening",
                       "managing", "resigned", "ended" }]
  /\ known \in [Conns -> Views \cup { Unseen }] /\ view \in Views
  /\ conns \subseteq Conns /\ events \subseteq Conns /\ last \in Conns \cup { 0 }
  /\ \A c \in Conns : link[c] = "unused" => pc[c] = "none"
  /\ \A c \in conns : pc[c] # "none"
  /\ \A c \in Conns : pc[c] = "resigned" => link[c] = "closed"
  /\ \A c \in events : pc[c] \in { "managing", "resigned" }
  /\ last # 0 => pc[last] \in { "managing", "resigned" }

(* A connected page that has got something displays what the handler that  *)
(* sent last knows, or what its own handler has read.                      *)
Displays(v, w) ==
  LET c == conn[v] IN
  (viewer[v] = "connected" /\ c \in conns /\ link[c] = "open" /\ pc[c] # "joined")
    => podsShown[v] = w \/ c \in own \/ pc[c] = "read"

LastSent == last # 0 /\ link[last] = "open"

ManagerShown ==
  LastSent => /\ \A v \in Viewers : Displays(v, known[last])
              /\ last \notin events => known[last] = view

WatchInv == HandlersInv /\ ManagerShown

LEMMA InitWatch == WatchInit => WatchInv
BY DEF WatchInit, WatchInv, HandlersInv, ManagerShown, LastSent, Displays, Unseen

LEMMA NextHandlers ==
  ASSUME HandlersInv, [WatchNext]_watchVars
  PROVE  HandlersInv'
<1> USE DEF HandlersInv, watchPage, wsPods, shared, pods, watchHist
<1>1. ASSUME NEW v \in Viewers, OnClose(v) \/ Leave(v) PROVE HandlersInv'
  BY <1>1 DEF OnClose, Leave
<1>2. ASSUME NEW v \in Viewers, NEW c \in Conns, Connect(v, c) PROVE HandlersInv'
  BY <1>2 DEF Connect
<1>3. ASSUME NEW c \in Conns, Drop(c) PROVE HandlersInv'
  BY <1>3 DEF Drop
<1>4. ASSUME NEW c \in Conns, Join(c) \/ ReadPods(c) PROVE HandlersInv'
  BY <1>4 DEF Join, ReadPods, Goto
<1>5. ASSUME NEW c \in Conns, WriteFirst(c) PROVE HandlersInv'
  BY <1>5 DEF WriteFirst, Goto, Display
<1>6. ASSUME NEW c \in Conns, Fails(c) PROVE HandlersInv'
  BY <1>6 DEF Fails, Stopped
<1>7. ASSUME NEW c \in Conns, SeeNoManager(c) \/ StopWaiting(c) \/ Claim(c) PROVE HandlersInv'
  BY <1>7 DEF SeeNoManager, StopWaiting, Claim, Goto
<1>8. ASSUME NEW c \in Conns, Listen(c) PROVE HandlersInv'
  BY <1>8 DEF Listen, Goto
<1>9. ASSUME NEW c \in Conns, Send(c) PROVE HandlersInv'
  BY <1>9 DEF Send, Display
<1>10. ASSUME NEW c \in Conns, SendNothing(c) PROVE HandlersInv'
  BY <1>10 DEF SendNothing
<1>11. ASSUME NEW c \in Conns, SendFails(c) PROVE HandlersInv'
  BY <1>11 DEF SendFails, Stopped
<1>12. ASSUME NEW c \in Conns, Resign(c) PROVE HandlersInv'
  BY <1>12 DEF Resign, Goto
<1>13. CASE Change
  BY <1>13 DEF Change
<1>14. CASE UNCHANGED watchVars
  BY <1>14 DEF watchVars
<1> QED BY <1>1, <1>2, <1>3, <1>4, <1>5, <1>6, <1>7, <1>8, <1>9, <1>10, <1>11, <1>12, <1>13,
           <1>14 DEF WatchNext

LEMMA NextManagerShown ==
  ASSUME WatchInv, [WatchNext]_watchVars
  PROVE  ManagerShown'
<1> SUFFICES ASSUME LastSent'
             PROVE  /\ \A v \in Viewers : Displays(v, known[last])'
                    /\ last' \notin events' => known'[last'] = view'
  BY DEF ManagerShown
<1> USE DEF WatchInv, HandlersInv, ManagerShown, LastSent, Displays, watchPage, wsPods, shared,
            pods, watchHist
<1>1. ASSUME NEW v \in Viewers, OnClose(v) \/ Leave(v) PROVE ManagerShown'
  BY <1>1 DEF OnClose, Leave
<1>2. ASSUME NEW v \in Viewers, NEW c \in Conns, Connect(v, c) PROVE ManagerShown'
  BY <1>2 DEF Connect
<1>3. ASSUME NEW c \in Conns, Drop(c) PROVE ManagerShown'
  BY <1>3 DEF Drop
<1>4. ASSUME NEW c \in Conns, Join(c) \/ ReadPods(c) PROVE ManagerShown'
  BY <1>4 DEF Join, ReadPods, Goto
<1>5. ASSUME NEW c \in Conns, WriteFirst(c) PROVE ManagerShown'
  BY <1>5 DEF WriteFirst, Goto, Display, Of
<1>6. ASSUME NEW c \in Conns, Fails(c) PROVE ManagerShown'
  BY <1>6 DEF Fails, Stopped
<1>7. ASSUME NEW c \in Conns, SeeNoManager(c) \/ StopWaiting(c) \/ Claim(c) PROVE ManagerShown'
  BY <1>7 DEF SeeNoManager, StopWaiting, Claim, Goto
<1>8. ASSUME NEW c \in Conns, Listen(c) PROVE ManagerShown'
  BY <1>8 DEF Listen, Goto
<1>9. ASSUME NEW c \in Conns, Send(c) PROVE ManagerShown'
  BY <1>9 DEF Send, Display, Of
<1>10. ASSUME NEW c \in Conns, SendNothing(c) PROVE ManagerShown'
  BY <1>10 DEF SendNothing
<1>11. ASSUME NEW c \in Conns, SendFails(c) PROVE ManagerShown'
  BY <1>11 DEF SendFails, Stopped
<1>12. ASSUME NEW c \in Conns, Resign(c) PROVE ManagerShown'
  BY <1>12 DEF Resign, Goto
<1>13. CASE Change
  BY <1>13 DEF Change
<1>14. CASE UNCHANGED watchVars
  BY <1>14 DEF watchVars
<1> QED BY <1>1, <1>2, <1>3, <1>4, <1>5, <1>6, <1>7, <1>8, <1>9, <1>10, <1>11, <1>12, <1>13,
           <1>14 DEF WatchNext

(* As long as the manager that sent last is there and has no event left to *)
(* deliver, every page with a connection displays the pods as they are, or *)
(* what its own handler read when it connected: for any number of pages    *)
(* and handlers, however they come, go, fail and take over (WsPods and     *)
(* useFetchDeploymentPods).                                                *)
THEOREM PagesAreUpToDate == WatchSpec => []UpToDate
<1>1. WatchSpec => []WatchInv
  BY InitWatch, NextHandlers, NextManagerShown, PTL DEF WatchSpec, WatchInv
<1>2. WatchInv => UpToDate
  BY DEF WatchInv, ManagerShown, LastSent, Displays, UpToDate
<1> QED BY <1>1, <1>2, PTL

-----------------------------------------------------------------------------
(* KubeEvents: the types of its state, and what a handler has sent.        *)
EventSockets == [st : { "unused", "connecting", "open", "closing", "closed" }, turn : Nat]

EventTypes ==
  /\ turn \in Nat /\ occurred \in Nat /\ occurred <= MaxEvents
  /\ evSock \in [EvConns -> EventSockets]
  /\ informed \in [EvConns -> Nat] /\ isSent \in [EvConns -> BOOLEAN]
  /\ seen \in [EvConns -> SUBSET Events] /\ coming \in [EvConns -> Seq(SUBSET Events)]
  /\ window \in BOOLEAN /\ written \in [Events -> Nat]
  /\ trailing \in Seq(SUBSET Events)
  /\ trailing # << >> => window

(* A run of the effect has one connection that is not over, or a timer.    *)
Present(c) == evSock[c].turn = turn /\ evSock[c].st \in { "connecting", "open", "closing" }

OnePresent ==
  /\ \A c \in EvConns : evSock[c].turn <= turn
  /\ \A c \in EvConns : evSock[c].st \in { "connecting", "open" } => evSock[c].turn = turn
  /\ \A c, d \in EvConns : Present(c) /\ Present(d) => c = d
  /\ dueAgain => \A c \in EvConns : ~Present(c)

(* What a handler has sent is all there was when it last looked; an event  *)
(* is in one message at most.                                              *)
OnceSent(c) ==
  /\ evSock[c].st \in { "unused", "connecting" } => ~isSent[c]
  /\ ~isSent[c] => seen[c] = {} /\ coming[c] = << >> /\ informed[c] = 0
  /\ \A e \in seen[c] : e <= occurred /\ 1 .. e \subseteq seen[c]
  /\ 1 .. informed[c] \subseteq seen[c]
  /\ \A i \in 1 .. Len(coming[c]) :
       /\ coming[c][i] \subseteq seen[c]
       /\ \A j \in 1 .. Len(coming[c]) : i # j => coming[c][i] \cap coming[c][j] = {}

(* Where the newest event is, once sent: in the last message, the last     *)
(* call of the window or on display.                                       *)
Newest(c) ==
  evSock[c].st = "open" /\ occurred \in seen[c] =>
    /\ coming[c] # << >> => occurred \in coming[c][Len(coming[c])]
    /\ coming[c] = << >> /\ trailing # << >> => occurred \in trailing[1]
    /\ coming[c] = << >> /\ trailing = << >> => written[occurred] > 0

(* The connections of the run from which an event has reached the page:    *)
(* it is on display, or about to be, at most once for each of them.        *)
Bearers(e) ==
  { c \in EvConns : /\ evSock[c].st # "unused" /\ evSock[c].turn = turn /\ e \in seen[c]
                    /\ \A i \in 1 .. Len(coming[c]) : e \notin coming[c][i] }

Awaited(e) == IF trailing # << >> /\ e \in trailing[1] THEN 1 ELSE 0

Counted(e) == written[e] + Awaited(e) <= Cardinality(Bearers(e))

EventsInv ==
  /\ EventTypes /\ OnePresent
  /\ \A c \in EvConns : OnceSent(c) /\ Newest(c)
  /\ \A e \in Events : Counted(e)
LEMMA InitEvents == EventsInit => EventsInv
<1> SUFFICES ASSUME EventsInit PROVE EventsInv
  OBVIOUS
<1>1. EventTypes
  <2>1. evSock \in [EvConns -> EventSockets]
    BY DEF EventsInit, EventSockets
  <2>2. coming \in [EvConns -> Seq(SUBSET Events)] /\ trailing \in Seq(SUBSET Events)
    BY DEF EventsInit
  <2>3. /\ informed \in [EvConns -> Nat] /\ isSent \in [EvConns -> BOOLEAN]
        /\ seen \in [EvConns -> SUBSET Events] /\ written \in [Events -> Nat]
    BY DEF EventsInit, Nowhere
  <2>4. turn = 1 /\ occurred = 0 /\ window = FALSE /\ trailing = << >>
    BY DEF EventsInit
  <2>5. 1 \in Nat /\ 0 \in Nat /\ 0 <= MaxEvents
    BY EventsBounds
  <2> QED BY <2>1, <2>2, <2>3, <2>4, <2>5 DEF EventTypes
<1>2. OnePresent
  BY DEF EventsInit, OnePresent, Present, EvConns
<1>3. \A c \in EvConns : OnceSent(c) /\ Newest(c)
  BY DEF EventsInit, OnceSent, Newest
<1>4. \A e \in Events : Counted(e)
  <2> SUFFICES ASSUME NEW e \in Events PROVE Counted(e)
    OBVIOUS
  <2>1. Bearers(e) = {}
    BY DEF EventsInit, Bearers
  <2> QED BY <2>1, FS_EmptySet DEF EventsInit, Counted, Awaited, Nowhere
<1> QED BY <1>1, <1>2, <1>3, <1>4 DEF EventsInv

LEMMA RenderType ==
  ASSUME NEW es \in SUBSET Events, NEW on \in [Events -> Nat]
  PROVE  RenderEvents(es, on) \in [Events -> Nat]
BY DEF RenderEvents, Nowhere

LEMMA SocketMoves ==
  ASSUME EventTypes, NEW c \in EvConns,
         NEW s \in { "unused", "connecting", "open", "closing", "closed" },
         evSock' = [evSock EXCEPT ![c].st = s]
  PROVE  /\ evSock' \in [EvConns -> EventSockets]
         /\ evSock'[c].st = s /\ evSock'[c].turn = evSock[c].turn
         /\ \A d \in EvConns \ { c } : evSock'[d] = evSock[d]
BY DEF EventTypes, EventSockets

LEMMA NextEventTypes ==
  ASSUME EventTypes, [EventsNext]_evVars
  PROVE  EventTypes'
<1> USE DEF EventTypes, EventSockets, evClient, evServer, Nowhere
<1>1. CASE EventsReconnect
  BY <1>1 DEF EventsReconnect, EventsConnect, FreeConn
<1>2. CASE EventsRerun
  <2>1. << >> \in Seq(SUBSET Events) /\ Nowhere \in [Events -> Nat]
    OBVIOUS
  <2>2. turn' = turn + 1 /\ turn' \in Nat
    BY <1>2 DEF EventsRerun
  <2>5. evSock' \in [EvConns -> EventSockets]
    <3>1. \A d \in EvConns : [evSock[d] EXCEPT !.st = "closing"] \in EventSockets
      OBVIOUS
    <3>2. [st |-> "connecting", turn |-> turn + 1] \in EventSockets
      OBVIOUS
    <3> HIDE DEF EventSockets
    <3> QED BY <1>2, <3>1, <3>2 DEF EventsRerun, FreeConn
  <2>3. /\ trailing' = << >> /\ written' = Nowhere /\ window' = FALSE
        /\ UNCHANGED << occurred, informed, isSent, seen, coming >>
    BY <1>2 DEF EventsRerun
  <2> QED BY <2>1, <2>2, <2>3, <2>5
<1>3. CASE Throttled
  <2>1. trailing # << >> => trailing[1] \in SUBSET Events
    OBVIOUS
  <2>2. trailing # << >> => RenderEvents(trailing[1], written) \in [Events -> Nat]
    BY <2>1, RenderType
  <2>3. trailing' = << >> /\ window' \in BOOLEAN /\ written' \in [Events -> Nat]
    BY <1>3, <2>2 DEF Throttled
  <2>4. << >> \in Seq(SUBSET Events)
    OBVIOUS
  <2> QED BY <1>3, <2>3, <2>4 DEF Throttled
<1>4. CASE Occurs
  BY <1>4, EventsBounds DEF Occurs
<1>5. ASSUME NEW c \in EvConns, EventsOpen(c) \/ EventsClose(c) \/ EventsLost(c) PROVE EventTypes'
  BY <1>5 DEF EventsOpen, EventsClose, EventsLost
<1>6. ASSUME NEW c \in EvConns, OnEvents(c) PROVE EventTypes'
  <2>1. Head(coming[c]) \in SUBSET Events /\ Tail(coming[c]) \in Seq(SUBSET Events)
    BY <1>6 DEF OnEvents
  <2>2. Nowhere \in [Events -> Nat]
    OBVIOUS
  <2> DEFINE on == IF first THEN Nowhere ELSE written
  <2>3. RenderEvents(Head(coming[c]), on) \in [Events -> Nat]
    BY <2>1, <2>2, RenderType
  <2>4. written' \in [Events -> Nat] /\ window' \in BOOLEAN
    BY <1>6, <2>2, <2>3 DEF OnEvents
  <2>5. trailing' \in Seq(SUBSET Events) /\ (trailing' # << >> => window')
    <3>1. << Head(coming[c]) >> \in Seq(SUBSET Events)
      BY <2>1
    <3> QED BY <1>6, <3>1 DEF OnEvents
  <2>6. coming' \in [EvConns -> Seq(SUBSET Events)]
    BY <1>6, <2>1 DEF OnEvents
  <2> QED BY <1>6, <2>4, <2>5, <2>6 DEF OnEvents
<1>7. ASSUME NEW c \in EvConns, EventsSend(c) PROVE EventTypes'
  <2>1. (1 .. occurred) \subseteq Events
    BY EventsBounds DEF Events
  <2> QED BY <1>7, <2>1 DEF EventsSend
<1>8. CASE UNCHANGED evVars
  BY <1>8 DEF evVars
<1> QED BY <1>1, <1>2, <1>3, <1>4, <1>5, <1>6, <1>7, <1>8 DEF EventsNext

LEMMA NextOnePresent ==
  ASSUME EventTypes, OnePresent, [EventsNext]_evVars
  PROVE  OnePresent'
<1> USE DEF EventTypes, EventSockets, OnePresent, Present, evClient, evServer
<1>1. CASE EventsReconnect
  BY <1>1 DEF EventsReconnect, EventsConnect, FreeConn
<1>2. CASE EventsRerun
  BY <1>2 DEF EventsRerun, FreeConn
<1>3. CASE Throttled
  BY <1>3 DEF Throttled
<1>4. CASE Occurs
  BY <1>4 DEF Occurs
<1>5. ASSUME NEW c \in EvConns, EventsOpen(c) PROVE OnePresent'
  BY <1>5, SocketMoves DEF EventsOpen
<1>9. ASSUME NEW c \in EvConns, EventsLost(c) PROVE OnePresent'
  BY <1>9, SocketMoves DEF EventsLost
<1>10. ASSUME NEW c \in EvConns, EventsClose(c) PROVE OnePresent'
  <2>1. /\ \A d \in EvConns \ { c } : evSock'[d] = evSock[d]
        /\ evSock'[c].st = "closed" /\ evSock'[c].turn = evSock[c].turn /\ UNCHANGED turn
        /\ evSock[c].st = "closing" /\ dueAgain' = (dueAgain \/ evSock[c].turn = turn)
    BY <1>10, SocketMoves DEF EventsClose
  <2>2. \A d \in EvConns : Present(d)' => d # c /\ Present(d)
    BY <2>1
  <2>3. dueAgain' => \A d \in EvConns : ~Present(d)'
    <3>1. CASE dueAgain
      BY <2>2, <3>1
    <3>2. CASE evSock[c].turn = turn
      <4>1. Present(c)
        BY <2>1, <3>2
      <4> QED BY <2>2, <4>1
    <3> QED BY <2>1, <3>1, <3>2
  <2>4. /\ \A d \in EvConns : evSock'[d].turn <= turn'
        /\ \A d \in EvConns : evSock'[d].st \in { "connecting", "open" } => evSock'[d].turn = turn'
    BY <2>1
  <2>5. \A d, f \in EvConns : Present(d)' /\ Present(f)' => d = f
    <3> HIDE DEF Present
    <3> QED BY <2>2
  <2> HIDE DEF Present
  <2> QED BY <2>3, <2>4, <2>5
<1>6. ASSUME NEW c \in EvConns, OnEvents(c) PROVE OnePresent'
  BY <1>6 DEF OnEvents
<1>7. ASSUME NEW c \in EvConns, EventsSend(c) PROVE OnePresent'
  BY <1>7 DEF EventsSend
<1>8. CASE UNCHANGED evVars
  BY <1>8 DEF evVars
<1> QED BY <1>1, <1>2, <1>3, <1>4, <1>5, <1>6, <1>7, <1>8, <1>9,
           <1>10 DEF EventsNext

LEMMA NewSockets ==
  ASSUME EventTypes, EventsReconnect \/ EventsRerun, NEW c \in EvConns
  PROVE  /\ evSock'[c].st \in { "unused", "connecting" }
              => evSock[c].st \in { "unused", "connecting" }
         /\ evSock'[c].st = "open" => evSock[c].st = "open" /\ EventsReconnect
<1> USE DEF EventTypes, EventSockets
<1>1. CASE EventsReconnect
  <2>1. PICK d \in EvConns : evSock[d].st = "unused" /\ EventsConnect(d)
    BY <1>1 DEF EventsReconnect, FreeConn
  <2>2. CASE c = d
    BY <1>1, <2>1, <2>2 DEF EventsConnect
  <2>3. CASE c # d
    BY <1>1, <2>1, <2>3 DEF EventsConnect
  <2> QED BY <2>2, <2>3
<1>2. CASE EventsRerun
  <2>1. PICK d \in EvConns :
          /\ evSock[d].st = "unused"
          /\ evSock' = [f \in EvConns |->
               IF f = d THEN [st |-> "connecting", turn |-> turn + 1]
               ELSE IF evSock[f].st \in { "connecting", "open" }
                    THEN [evSock[f] EXCEPT !.st = "closing"]
               ELSE evSock[f]]
    BY <1>2 DEF EventsRerun, FreeConn
  <2>2. CASE c = d
    BY <2>1, <2>2
  <2>3. CASE c # d /\ evSock[c].st \in { "connecting", "open" }
    BY <2>1, <2>3
  <2>4. CASE c # d /\ evSock[c].st \notin { "connecting", "open" }
    BY <2>1, <2>4
  <2> QED BY <2>2, <2>3, <2>4
<1> QED BY <1>1, <1>2

LEMMA NextOnceSent ==
  ASSUME EventTypes, [EventsNext]_evVars, NEW c \in EvConns, OnceSent(c)
  PROVE  OnceSent(c)'
<1> USE DEF evClient, evServer
<1>1. CASE EventsReconnect \/ EventsRerun
  BY <1>1, NewSockets DEF EventsReconnect, EventsRerun, OnceSent
<1>2. CASE Throttled
  BY <1>2 DEF Throttled, OnceSent
<1>3. CASE Occurs
  <2>1. \A e \in seen[c] : e \in Nat /\ (e <= occurred => e <= occurred')
    BY <1>3, EventsBounds DEF Occurs, EventTypes, Events
  <2> QED BY <1>3, <2>1 DEF Occurs, OnceSent
<1>4. ASSUME NEW d \in EvConns, EventsOpen(d) \/ EventsClose(d) \/ EventsLost(d)
      PROVE  OnceSent(c)'
  BY <1>4, SocketMoves DEF EventsOpen, EventsClose, EventsLost, OnceSent
<1>5. ASSUME NEW d \in EvConns, OnEvents(d) PROVE OnceSent(c)'
  BY <1>5 DEF OnEvents, OnceSent, EventTypes
<1>6. ASSUME NEW d \in EvConns, EventsSend(d) PROVE OnceSent(c)'
  BY <1>6 DEF EventsSend, OnceSent, EventTypes
<1>7. CASE UNCHANGED evVars
  BY <1>7 DEF evVars, OnceSent
<1> QED BY <1>1, <1>2, <1>3, <1>4, <1>5, <1>6, <1>7 DEF EventsNext

LEMMA NextNewest ==
  ASSUME EventTypes, OnePresent, \A d \in EvConns : OnceSent(d) /\ Newest(d),
         [EventsNext]_evVars, NEW c \in EvConns
  PROVE  Newest(c)'
<1> SUFFICES ASSUME evSock'[c].st = "open", occurred' \in seen'[c]
             PROVE  /\ coming'[c] # << >> => occurred' \in coming'[c][Len(coming'[c])]
                    /\ coming'[c] = << >> /\ trailing' # << >> => occurred' \in trailing'[1]
                    /\ coming'[c] = << >> /\ trailing' = << >> => written'[occurred'] > 0
  BY DEF Newest
<1> USE DEF evClient, evServer
<1>1. CASE EventsReconnect \/ EventsRerun
  BY <1>1, NewSockets DEF EventsReconnect, Newest
<1>2. CASE Throttled
  BY <1>2 DEF Throttled, Newest, EventTypes, RenderEvents
<1>3. CASE Occurs
  BY <1>3 DEF Occurs, OnceSent, EventTypes
<1>4. ASSUME NEW d \in EvConns, EventsOpen(d) PROVE Newest(c)'
  BY <1>4, SocketMoves DEF EventsOpen, OnceSent, Newest
<1>8. ASSUME NEW d \in EvConns, EventsClose(d) \/ EventsLost(d) PROVE Newest(c)'
  BY <1>8, SocketMoves DEF EventsClose, EventsLost, Newest
<1>5. ASSUME NEW d \in EvConns, OnEvents(d) PROVE Newest(c)'
  <2>1. d = c
    BY <1>5 DEF OnEvents, OnePresent, Present
  <2>2. coming[c] # << >> /\ coming[c] \in Seq(SUBSET Events) /\ coming'[c] = Tail(coming[c])
    BY <1>5, <2>1 DEF OnEvents, EventTypes
  <2>3. occurred \in coming[c][Len(coming[c])] /\ occurred \in Events /\ UNCHANGED occurred
    BY <1>5, <2>1, <2>2 DEF OnEvents, Newest, EventTypes
  <2>4. CASE coming'[c] # << >>
    <3>1. coming'[c][Len(coming'[c])] = coming[c][Len(coming[c])]
      BY <2>2, <2>4
    <3> QED BY <2>3, <2>4, <3>1 DEF Newest
  <2>5. CASE coming'[c] = << >>
    <3>1. Head(coming[c]) = coming[c][Len(coming[c])]
      <4> DEFINE ms == coming[c]
      <4>1. ms \in Seq(SUBSET Events) /\ ms # << >> /\ Tail(ms) = << >>
        BY <2>2, <2>5
      <4> HIDE DEF ms
      <4>2. Len(Tail(ms)) = Len(ms) - 1 /\ Len(ms) \in Nat
        BY <4>1
      <4>3. Len(ms) = 1
        <5>1. Tail(ms) \in Seq(SUBSET Events)
          BY <4>1
        <5>2. \A s \in Seq(SUBSET Events) : s = << >> => Len(s) = 0
          OBVIOUS
        <5>3. Len(Tail(ms)) = 0
          BY <4>1, <5>1, <5>2
        <5> QED BY <4>2, <5>3
      <4>4. Head(ms) = ms[Len(ms)]
        BY <4>1, <4>3
      <4> QED BY <4>4 DEF ms
    <3>2. CASE window
      <4>1. trailing' = << Head(coming[c]) >>
        BY <1>5, <2>1, <3>2 DEF OnEvents
      <4> QED BY <2>3, <2>5, <3>1, <4>1 DEF Newest
    <3>3. CASE ~window
      <4> DEFINE on == IF first THEN Nowhere ELSE written
      <4>1. written' = RenderEvents(Head(coming[c]), on) /\ trailing' = << >>
        BY <1>5, <2>1, <3>3 DEF OnEvents, EventTypes
      <4>2. on \in [Events -> Nat]
        BY DEF EventTypes, Nowhere
      <4>3. written'[occurred] > 0
        BY <2>3, <3>1, <4>1, <4>2 DEF RenderEvents
      <4> QED BY <2>3, <2>5, <4>1, <4>3 DEF Newest
    <3> QED BY <3>2, <3>3
  <2> QED BY <2>4, <2>5
<1>6. ASSUME NEW d \in EvConns, EventsSend(d) PROVE Newest(c)'
  <2> DEFINE news == (1 .. occurred) \ seen[d]
  <2>1. /\ coming[d] \in Seq(SUBSET Events) /\ news \subseteq Events
        /\ UNCHANGED << occurred, evSock, trailing, written >>
    BY <1>6, EventsBounds DEF EventsSend, EventTypes, Events
  <2>2. CASE c # d
    BY <1>6, <2>1, <2>2 DEF EventsSend, EventTypes, Newest
  <2>3. CASE c = d /\ occurred \in seen[d]
    <3>1. news = {} /\ isSent[d]
      BY <2>3 DEF OnceSent
    <3>2. UNCHANGED coming
      BY <1>6, <3>1 DEF EventsSend
    <3> QED BY <2>1, <2>3, <3>2 DEF Newest
  <2>4. CASE c = d /\ occurred \notin seen[d]
    <3>1. occurred \in news
      BY <1>6, <2>4 DEF EventsSend, EventTypes
    <3>2. coming'[c] = Append(coming[d], news)
      BY <1>6, <2>4, <3>1 DEF EventsSend, EventTypes
    <3>3. coming'[c] # << >> /\ coming'[c][Len(coming'[c])] = news
      BY <2>1, <3>2
    <3> QED BY <2>1, <3>1, <3>3 DEF Newest
  <2> QED BY <2>2, <2>3, <2>4
<1>7. CASE UNCHANGED evVars
  BY <1>7 DEF evVars, Newest
<1> QED BY <1>1, <1>2, <1>3, <1>4, <1>5, <1>6, <1>7, <1>8 DEF EventsNext, Newest
LEMMA SomeConns ==
  ASSUME NEW C \in SUBSET EvConns
  PROVE  IsFiniteSet(C) /\ Cardinality(C) \in Nat
<1>1. IsFiniteSet(EvConns)
  BY EventsBounds, FS_Interval DEF EvConns
<1> QED BY <1>1, FS_Subset, FS_CardinalityType

LEMMA InTail ==
  ASSUME NEW s \in Seq(SUBSET Events), s # << >>, NEW e, e \notin s[1]
  PROVE  (\A i \in 1 .. Len(Tail(s)) : e \notin Tail(s)[i]) <=> \A i \in 1 .. Len(s) : e \notin s[i]
<1>1. /\ Len(Tail(s)) = Len(s) - 1 /\ Len(s) \in Nat
      /\ \A i \in 1 .. Len(s) - 1 : Tail(s)[i] = s[i + 1]
  OBVIOUS
<1>2. ASSUME \A i \in 1 .. Len(Tail(s)) : e \notin Tail(s)[i], NEW i \in 1 .. Len(s)
      PROVE  e \notin s[i]
  <2>1. CASE i = 1
    BY <2>1
  <2>2. CASE i # 1
    <3>1. i - 1 \in 1 .. Len(s) - 1 /\ (i - 1) + 1 = i
      BY <1>1, <2>2
    <3> QED BY <1>1, <1>2, <3>1
  <2> QED BY <2>1, <2>2
<1>3. ASSUME \A i \in 1 .. Len(s) : e \notin s[i], NEW i \in 1 .. Len(Tail(s))
      PROVE  e \notin Tail(s)[i]
  <2>1. i \in 1 .. Len(s) - 1 /\ i + 1 \in 1 .. Len(s)
    BY <1>1
  <2> QED BY <1>1, <1>3, <2>1
<1> QED BY <1>2, <1>3

LEMMA InAppend ==
  ASSUME NEW s \in Seq(SUBSET Events), NEW es \in SUBSET Events, NEW e, e \notin es
  PROVE  (\A i \in 1 .. Len(Append(s, es)) : e \notin Append(s, es)[i])
           <=> \A i \in 1 .. Len(s) : e \notin s[i]
<1>1. /\ Len(Append(s, es)) = Len(s) + 1 /\ Len(s) \in Nat /\ Append(s, es)[Len(s) + 1] = es
      /\ \A i \in 1 .. Len(s) : Append(s, es)[i] = s[i]
  OBVIOUS
<1> QED BY <1>1

LEMMA NextCounted ==
  ASSUME EventTypes, \A c \in EvConns : OnceSent(c), [EventsNext]_evVars,
         NEW e \in Events, Counted(e)
  PROVE  Counted(e)'
<1> USE DEF evClient, evServer
<1>0. /\ written \in [Events -> Nat] /\ Awaited(e) \in { 0, 1 }
      /\ written'[e] \in Nat /\ Awaited(e)' \in { 0, 1 }
      /\ Cardinality(Bearers(e)) \in Nat /\ Cardinality(Bearers(e)') \in Nat
  BY SomeConns, NextEventTypes DEF EventTypes, Awaited, Bearers
<1>1. CASE EventsReconnect
  <2>1. PICK d \in EvConns : evSock[d].st = "unused" /\ EventsConnect(d)
    BY <1>1 DEF EventsReconnect, FreeConn
  <2>2. seen[d] = {}
    BY <2>1 DEF OnceSent
  <2>3. \A c \in EvConns \ { d } : evSock'[c] = evSock[c]
    BY <2>1 DEF EventsConnect, EventTypes
  <2>4. Bearers(e)' = Bearers(e)
    BY <1>1, <2>2, <2>3 DEF EventsReconnect, Bearers
  <2> QED BY <1>1, <2>4 DEF EventsReconnect, Counted, Awaited
<1>2. CASE EventsRerun
  BY <1>0, <1>2 DEF EventsRerun, Counted, Awaited, Nowhere
<1>3. CASE Throttled
  <2>1. Bearers(e)' = Bearers(e) /\ Awaited(e)' = 0
    BY <1>3 DEF Throttled, Bearers, Awaited
  <2>2. written'[e] \in Nat /\ written'[e] <= written[e] + Awaited(e)
    BY <1>0, <1>3 DEF Throttled, RenderEvents, Nowhere, Awaited
  <2> QED BY <1>0, <2>1, <2>2 DEF Counted
<1>4. CASE Occurs
  BY <1>4 DEF Occurs, Counted, Awaited, Bearers
<1>5. ASSUME NEW d \in EvConns, EventsOpen(d) \/ EventsClose(d) \/ EventsLost(d) PROVE Counted(e)'
  <2>1. Bearers(e)' = Bearers(e)
    BY <1>5, SocketMoves DEF EventsOpen, EventsClose, EventsLost, Bearers
  <2> QED BY <1>5, <2>1 DEF EventsOpen, EventsClose, EventsLost, Counted, Awaited
<1>6. ASSUME NEW d \in EvConns, OnEvents(d) PROVE Counted(e)'
  <2> DEFINE es == Head(coming[d])
             on == IF first THEN Nowhere ELSE written
             gain == IF e \in es THEN 1 ELSE 0
  <2>1. /\ coming[d] \in Seq(SUBSET Events) /\ coming[d] # << >>
        /\ coming'[d] = Tail(coming[d]) /\ es = coming[d][1] /\ es \in SUBSET Events
        /\ \A c \in EvConns \ { d } : coming'[c] = coming[c]
    BY <1>6 DEF OnEvents, EventTypes
  <2>2. written'[e] + Awaited(e)' <= written[e] + Awaited(e) + gain
    <3>1. on[e] \in Nat /\ on[e] <= written[e] /\ written[e] \in Nat
      BY <1>0 DEF Nowhere
    <3>2. CASE window
      <4>1. trailing' = << es >> /\ written' = on
        BY <1>6, <3>2 DEF OnEvents
      <4>2. Awaited(e)' = gain
        BY <4>1 DEF Awaited
      <4> QED BY <1>0, <3>1, <4>1, <4>2
    <3>3. CASE ~window
      <4>1. UNCHANGED trailing /\ trailing = << >> /\ written' = RenderEvents(es, on)
        BY <1>6, <3>3 DEF OnEvents, EventTypes
      <4>2. written'[e] <= on[e] + gain /\ written'[e] \in Nat
        BY <3>1, <4>1 DEF RenderEvents, Nowhere
      <4>3. Awaited(e) = 0 /\ Awaited(e)' = 0
        BY <4>1 DEF Awaited
      <4> QED BY <3>1, <4>2, <4>3
    <3> QED BY <3>2, <3>3
  <2>3. UNCHANGED << evSock, turn, seen >>
    BY <1>6 DEF OnEvents
  <2>4. CASE e \in es
    <3>1. d \notin Bearers(e)
      BY <2>1, <2>4 DEF Bearers
    <3>2. d \in Bearers(e)'
      <4>1. e \in seen[d] /\ \A i \in 1 .. Len(coming'[d]) : e \notin coming'[d][i]
        BY <2>1, <2>4 DEF OnceSent
      <4>2. evSock[d].st # "unused" /\ evSock[d].turn = turn
        BY <1>6 DEF OnEvents
      <4> QED BY <2>3, <4>1, <4>2 DEF Bearers
    <3>3. Bearers(e)' = Bearers(e) \cup { d }
      BY <2>1, <2>3, <3>2 DEF Bearers
    <3>4. Cardinality(Bearers(e)') = Cardinality(Bearers(e)) + 1
      BY <3>1, <3>3, SomeConns, FS_AddElement DEF Bearers
    <3> QED BY <1>0, <2>2, <2>4, <3>4 DEF Counted
  <2>5. CASE e \notin es
    <3>1. (\A i \in 1 .. Len(coming'[d]) : e \notin coming'[d][i])
            <=> \A i \in 1 .. Len(coming[d]) : e \notin coming[d][i]
      BY <2>1, <2>5, InTail
    <3>2. Bearers(e)' = Bearers(e)
      BY <2>1, <2>3, <3>1 DEF Bearers
    <3> QED BY <1>0, <2>2, <2>5, <3>2 DEF Counted
  <2> QED BY <2>4, <2>5
<1>7. ASSUME NEW d \in EvConns, EventsSend(d) PROVE Counted(e)'
  <2> DEFINE news == (1 .. occurred) \ seen[d]
  <2>1. /\ coming[d] \in Seq(SUBSET Events) /\ news \in SUBSET Events
        /\ \A c \in EvConns \ { d } : coming'[c] = coming[c] /\ seen'[c] = seen[c]
        /\ seen'[d] = seen[d] \cup news
        /\ coming'[d] \in { coming[d], Append(coming[d], news) }
        /\ UNCHANGED evClient
    BY <1>7, EventsBounds DEF EventsSend, EventTypes, Events
  <2>2. CASE e \in news
    <3>1. d \notin Bearers(e)
      BY <2>2 DEF Bearers
    <3>2. coming'[d] = Append(coming[d], news)
      BY <1>7, <2>2 DEF EventsSend, EventTypes
    <3>3. \E i \in 1 .. Len(coming'[d]) : e \in coming'[d][i]
      <4>1. coming'[d][Len(coming[d]) + 1] = news /\ Len(coming[d]) + 1 \in 1 .. Len(coming'[d])
        BY <2>1, <3>2
      <4> QED BY <2>2, <4>1
    <3>4. Bearers(e)' = Bearers(e)
      BY <2>1, <3>1, <3>3 DEF Bearers
    <3> QED BY <2>1, <3>4 DEF Counted, Awaited
  <2>3. CASE e \notin news
    <3>1. (\A i \in 1 .. Len(coming'[d]) : e \notin coming'[d][i])
            <=> \A i \in 1 .. Len(coming[d]) : e \notin coming[d][i]
      BY <2>1, <2>3, InAppend
    <3>2. Bearers(e)' = Bearers(e)
      BY <2>1, <2>3, <3>1 DEF Bearers
    <3> QED BY <2>1, <3>2 DEF Counted, Awaited
  <2> QED BY <2>2, <2>3
<1>8. CASE UNCHANGED evVars
  BY <1>8 DEF evVars, Counted, Awaited, Bearers
<1> QED BY <1>1, <1>2, <1>3, <1>4, <1>5, <1>6, <1>7, <1>8 DEF EventsNext

(* At rest a page shows the newest event, and none is on display more      *)
(* often than the page has connected in this run, for any number of events *)
(* and connections: what the throttle drops is neither the last message    *)
(* nor written twice (send of the handlers, ws.onmessage, renderEvents).   *)
THEOREM NewestIsShown == EventsSpec => []EventsShown
<1>1. EventsInv /\ [EventsNext]_evVars => EventsInv'
  BY NextEventTypes, NextOnePresent, NextOnceSent, NextNewest, NextCounted DEF EventsInv
<1>2. EventsInv => EventsShown
  <2> SUFFICES ASSUME EventsInv PROVE EventsShown
    OBVIOUS
  <2>1. ASSUME NEW c \in EvConns, evSock[c].st = "open", isSent[c], informed[c] = occurred,
               coming[c] = << >>, trailing = << >>, occurred > 0
        PROVE  written[occurred] > 0
    <3>1. occurred \in 1 .. informed[c]
      BY <2>1 DEF EventsInv, EventTypes
    <3>2. occurred \in seen[c]
      BY <3>1 DEF EventsInv, OnceSent
    <3> QED BY <2>1, <3>2 DEF EventsInv, Newest
  <2>2. ASSUME NEW e \in Events
        PROVE  written[e] <= Cardinality({ c \in EvConns : evSock[c].st # "unused"
                                                          /\ evSock[c].turn = turn })
    <3> DEFINE used == { c \in EvConns : evSock[c].st # "unused" /\ evSock[c].turn = turn }
    <3>1. Cardinality(Bearers(e)) <= Cardinality(used)
      <4>1. Bearers(e) \in SUBSET used /\ IsFiniteSet(used)
        BY SomeConns DEF Bearers
      <4> QED BY <4>1, FS_Subset
    <3>2. Counted(e) /\ Awaited(e) \in { 0, 1 } /\ written[e] \in Nat
      BY DEF EventsInv, EventTypes, Awaited
    <3>3. Cardinality(Bearers(e)) \in Nat /\ Cardinality(used) \in Nat
      BY SomeConns DEF Bearers
    <3> HIDE DEF used
    <3>4. written[e] <= Cardinality(used)
      BY <3>1, <3>2, <3>3 DEF Counted
    <3> QED BY <3>4 DEF used
  <2> QED BY <2>1, <2>2 DEF EventsShown
<1>3. EventsSpec => []EventsInv
  BY <1>1, InitEvents, PTL DEF EventsSpec
<1> QED BY <1>2, <1>3, PTL

-----------------------------------------------------------------------------
(* LogView.  A request has an id that nothing had before.                  *)
LogMessages  == [id : Nat, type : { "replace", "append" }, upto : Nat]
LogFollowers == [id : Nat, next : Nat, checked : BOOLEAN]

LogSocketTypes ==
  /\ logSock \in [LogSockets -> [st : { "unused", "connecting", "open", "closing", "closed" },
                                 run : LogRuns]]
  /\ logRun \in LogRuns /\ due \subseteq LogRuns /\ wsOpen \in BOOLEAN
  /\ logRef \in LogSockets \cup { 0 }

LogTypes ==
  /\ chosen \in Options /\ captured \in [LogRuns -> Options]
  /\ asked \in Seq(Options) /\ reqId = Len(asked)
  /\ terminal \in [id : Nat, upto : Nat, whole : BOOLEAN]
  /\ reqs \in [LogSockets -> Seq(Nat)] /\ msgs \in [LogSockets -> Seq(LogMessages)]
  /\ task \in [LogSockets -> [id : Nat, now : Nat]]
  /\ followers \in [LogSockets -> SUBSET LogFollowers] /\ lines \in [Names -> Nat]

(* Each request has a number of its own, and what the handlers do is for   *)
(* a request that was made.                                                *)
Numbered ==
  /\ terminal.id <= reqId
  /\ \A s \in LogSockets :
       /\ \A i \in 1 .. Len(reqs[s]) : reqs[s][i] \in 1 .. reqId
       /\ task[s] # NoTask => task[s].id \in 1 .. reqId
       /\ \A i \in 1 .. Len(msgs[s]) : msgs[s][i].id <= reqId
       /\ \A f \in followers[s] : f.id <= reqId

(* A run of the effect has one socket that is not over, or a timer; what   *)
(* is open is the current run's, and wsRef's.                              *)
InUse(s) == logSock[s].st \in { "connecting", "open", "closing" } /\ logSock[s].run = logRun

OneInUse ==
  /\ \A s \in LogSockets : logSock[s].st # "unused" => logSock[s].run <= logRun
  /\ \A s \in LogSockets :
       logSock[s].st \in { "connecting", "open" } => logSock[s].run = logRun
  /\ \A r, s \in LogSockets : InUse(r) /\ InUse(s) => r = s
  /\ logRun \in due => \A s \in LogSockets : ~InUse(s)
  /\ \A e \in due : e <= logRun
  /\ \A s \in LogSockets : logSock[s].st = "open" => logRef = s

(* Nothing was sent on a socket that has never been open.                  *)
Untouched(s) ==
  logSock[s].st \in { "unused", "connecting" } =>
    /\ reqs[s] = << >> /\ msgs[s] = << >> /\ task[s] = NoTask /\ followers[s] = {}
    /\ logRef # s

(* The page's last request on its way: it waits for the handler, is being  *)
(* worked on, or its snapshot comes; nothing of it is seen before that.    *)
Requested(s) == \E i \in 1 .. Len(reqs[s]) : reqs[s][i] = reqId
Working(s)   == task[s] # NoTask /\ task[s].id = reqId

Early(s) ==
  Requested(s) \/ Working(s) =>
    /\ terminal.id # reqId
    /\ \A i \in 1 .. Len(msgs[s]) : msgs[s][i].id # reqId
    /\ \A f \in followers[s] : f.id # reqId

(* It is the last that waits, and waits once.                              *)
LastInLine(s) ==
  \A i \in 1 .. Len(reqs[s]) : reqs[s][i] = reqId => i = Len(reqs[s]) /\ ~Working(s)

IsSnapshot(m) == m.id = reqId /\ m.type = "replace"

(* Its snapshot comes before anything else of it.                          *)
SnapshotFirst(s) ==
  \A i \in 1 .. Len(msgs[s]) : IsSnapshot(msgs[s][i]) =>
    terminal.id # reqId /\ \A j \in 1 .. i - 1 : msgs[s][j].id # reqId

Arrives(s) ==
  \/ Requested(s) \/ Working(s) \/ terminal.id = reqId
  \/ \E i \in 1 .. Len(msgs[s]) : IsSnapshot(msgs[s][i])

(* After the first k messages, nothing is missing before line n.           *)
Joins(s, k, n) ==
  \/ terminal.id = reqId /\ n <= terminal.upto + 1
  \/ \E j \in 1 .. k : msgs[s][j].id = reqId /\ n <= msgs[s][j].upto + 1

(* Every line that is to be appended joins what is there by then.          *)
InSequence(s) ==
  /\ \A i \in 1 .. Len(msgs[s]) :
       msgs[s][i].id = reqId /\ msgs[s][i].type = "append" => Joins(s, i - 1, msgs[s][i].upto)
  /\ \A f \in followers[s] : f.id = reqId => Joins(s, Len(msgs[s]), f.next)

WhatIsWanted ==
  reqId # 0 /\ (wsOpen => asked[reqId] \in { chosen, captured[logRun] })

Served(s) ==
  /\ Early(s) /\ LastInLine(s) /\ SnapshotFirst(s) /\ Arrives(s) /\ InSequence(s)
  /\ WhatIsWanted

LogInv ==
  /\ LogSocketTypes /\ LogTypes /\ Numbered /\ OneInUse /\ NoGap
  /\ \A s \in LogSockets : Untouched(s) /\ (logSock[s].st = "open" => Served(s))

-----------------------------------------------------------------------------
LEMMA InitLog == LogInit => LogInv
<1> SUFFICES ASSUME LogInit PROVE LogInv
  OBVIOUS
<1>1. 1 \in LogRuns /\ 1 \in LogSockets
  BY LogBounds DEF LogRuns, LogSockets
<1>2. LogSocketTypes
  BY <1>1 DEF LogInit, LogSocketTypes
<1>3. LogTypes
  <2>1. chosen \in Options /\ captured \in [LogRuns -> Options] /\ lines \in [Names -> Nat]
    BY DEF LogInit, Options
  <2>2. /\ asked \in Seq(Options) /\ reqId = Len(asked)
        /\ reqs \in [LogSockets -> Seq(Nat)] /\ msgs \in [LogSockets -> Seq(LogMessages)]
    BY DEF LogInit
  <2>3. /\ terminal \in [id : Nat, upto : Nat, whole : BOOLEAN]
        /\ task \in [LogSockets -> [id : Nat, now : Nat]]
        /\ followers \in [LogSockets -> SUBSET LogFollowers]
    BY DEF LogInit, Blank, NoTask
  <2> QED BY <2>1, <2>2, <2>3 DEF LogTypes
<1>4. /\ \A s \in LogSockets : /\ logSock[s].st = IF s = 1 THEN "connecting" ELSE "unused"
                               /\ logSock[s].run = logRun
      /\ due = {} /\ terminal.id = 0 /\ terminal.whole = TRUE /\ reqId = 0 /\ logRun = 1
      /\ \A s \in LogSockets : /\ reqs[s] = << >> /\ msgs[s] = << >> /\ task[s] = NoTask
                               /\ followers[s] = {}
  BY DEF LogInit, Blank
<1>5. \A s \in LogSockets : logRef # s
  BY DEF LogInit, LogSockets
<1>6. Numbered /\ OneInUse /\ NoGap
  BY <1>1, <1>4 DEF Numbered, OneInUse, InUse, NoGap
<1> QED BY <1>2, <1>3, <1>4, <1>5, <1>6 DEF LogInv, Untouched

(* The containers of requests have logs.                                   *)
LEMMA ContainersHaveLogs ==
  ASSUME LogTypes, NEW id \in 1 .. reqId
  PROVE  ContainerOf(id) \in Names /\ asked[id].follow \in BOOLEAN
<1>1. asked[id] \in Options
  BY DEF LogTypes
<1>2. Containers[1] \in Names
  BY LogBounds DEF Names
<1> QED BY <1>1, <1>2 DEF ContainerOf, Options

LEMMA NextLogSockets ==
  ASSUME LogSocketTypes, OneInUse, [LogNext]_logVars
  PROVE  LogSocketTypes' /\ OneInUse'
<1> USE DEF LogSocketTypes, OneInUse, InUse, logHook, request, tailer, pod
<1>0. LogRuns \subseteq Nat
  BY DEF LogRuns
<1>1. ASSUME NEW o \in Options, Choose(o) PROVE LogSocketTypes' /\ OneInUse'
  BY <1>1 DEF Choose
<1>2. ASSUME NEW e \in LogRuns, Reconnect(e) PROVE LogSocketTypes' /\ OneInUse'
  <2>1. e \in due /\ due' = due \ { e } /\ UNCHANGED << logRun, wsOpen, logRef >>
    BY <1>2 DEF Reconnect
  <2>2. CASE e = logRun
    <3>1. PICK n \in LogSockets :
            /\ logSock[n].st = "unused"
            /\ logSock' = [logSock EXCEPT ![n] = [st |-> "connecting", run |-> e]]
      BY <1>2, <2>2 DEF Reconnect, LogConnect, Fresh
    <3>2. /\ logSock'[n] = [st |-> "connecting", run |-> logRun]
          /\ \A s \in LogSockets \ { n } : logSock'[s] = logSock[s]
      BY <2>2, <3>1
    <3>3. LogSocketTypes'
      BY <2>1, <3>1
    <3> QED BY <1>0, <2>1, <2>2, <3>2, <3>3
  <2>3. CASE e # logRun
    BY <1>2, <2>1, <2>3 DEF Reconnect
  <2> QED BY <2>2, <2>3
<1>3. CASE LogRerun
  <2>1. /\ logRun' = logRun + 1 /\ logRun' \in LogRuns /\ logRef' = 0
        /\ UNCHANGED << due, wsOpen >>
    BY <1>3, LogBounds DEF LogRerun, LogRuns
  <2>2. PICK n \in LogSockets :
          /\ logSock[n].st = "unused"
          /\ logSock' = [s \in LogSockets |->
               IF s = n THEN [st |-> "connecting", run |-> logRun + 1]
               ELSE IF logSock[s].st \in { "connecting", "open" }
                    THEN [logSock[s] EXCEPT !.st = "closing"] ELSE logSock[s]]
    BY <1>3 DEF LogRerun, Fresh
  <2>3. /\ logSock'[n].st = "connecting" /\ logSock'[n].run = logRun'
        /\ \A s \in LogSockets \ { n } :
             /\ logSock'[s].st \notin { "connecting", "open" }
             /\ logSock'[s].st # "unused" => logSock[s].st # "unused"
             /\ logSock'[s].run = logSock[s].run
    BY <2>1, <2>2
  <2>4. LogSocketTypes'
    BY <2>1, <2>2
  <2>5. \A s \in LogSockets \ { n } : logSock'[s].st # "unused" => logSock'[s].run < logRun'
    <3>1. logRun \in Nat /\ \A s \in LogSockets : logSock[s].run \in Nat
      BY <1>0
    <3> HIDE DEF LogSocketTypes
    <3> QED BY <2>1, <2>3, <3>1
  <2>6. logRun' \notin due' /\ \A e \in due' : e <= logRun'
    BY <1>0, <2>1
  <2>7. \A s \in LogSockets : logSock'[s].run \in Nat
    BY <1>0, <2>4
  <2> HIDE DEF LogSocketTypes
  <2> QED BY <1>0, <2>1, <2>3, <2>4, <2>5, <2>6, <2>7
<1>4. ASSUME NEW s \in LogSockets, LogOpens(s) PROVE LogSocketTypes' /\ OneInUse'
  BY <1>4 DEF LogOpens
<1>5. ASSUME NEW s \in LogSockets, LogCloses(s) PROVE LogSocketTypes' /\ OneInUse'
  BY <1>5 DEF LogCloses
<1>6. ASSUME NEW s \in LogSockets, Lost(s) \/ SnapshotFails(s)
      PROVE  LogSocketTypes' /\ OneInUse'
  <2>1. /\ logSock[s].st \in { "connecting", "open" }
        /\ logSock' = [logSock EXCEPT ![s].st = "closing"]
        /\ UNCHANGED << logRun, due, wsOpen, logRef >>
    BY <1>6 DEF Lost, SnapshotFails
  <2>2. LogSocketTypes' /\ logSock'[s].st = "closing" /\ logSock'[s].run = logSock[s].run
    BY <2>1
  <2>3. \A r \in LogSockets \ { s } : logSock'[r] = logSock[r]
    BY <2>1
  <2> QED BY <2>1, <2>2, <2>3
<1>7. ASSUME NEW s \in LogSockets, OnLogMessage(s) \/ Take(s) \/ Snapshot(s)
      PROVE  LogSocketTypes' /\ OneInUse'
  BY <1>7 DEF OnLogMessage, Take, Snapshot
<1>8. ASSUME NEW s \in LogSockets, NEW f \in followers[s],
             Check(s, f) \/ WriteLine(s, f) \/ Breaks(s, f)
      PROVE  LogSocketTypes' /\ OneInUse'
  BY <1>8 DEF Check, WriteLine, Breaks
<1>9. ASSUME NEW c \in Names, Starts(c) \/ Logs(c) PROVE LogSocketTypes' /\ OneInUse'
  BY <1>9 DEF Starts, Logs
<1>10. CASE UNCHANGED logVars
  BY <1>10 DEF logVars
<1> QED BY <1>1, <1>2, <1>3, <1>4, <1>5, <1>6, <1>7, <1>8, <1>9, <1>10 DEF LogNext, FollowStep

LEMMA TailOf ==
  ASSUME NEW S, NEW q \in Seq(S), q # << >>
  PROVE  /\ Head(q) = q[1] /\ q[1] \in S /\ Tail(q) \in Seq(S) /\ Len(q) \in Nat \ { 0 }
         /\ Len(Tail(q)) = Len(q) - 1 /\ \A i \in 1 .. Len(q) - 1 : Tail(q)[i] = q[i + 1]
OBVIOUS

LEMMA AppendOf ==
  ASSUME NEW S, NEW q \in Seq(S), NEW x \in S
  PROVE  /\ Append(q, x) \in Seq(S) /\ Len(q) \in Nat /\ Len(Append(q, x)) = Len(q) + 1
         /\ Append(q, x)[Len(q) + 1] = x /\ \A i \in 1 .. Len(q) : Append(q, x)[i] = q[i]
OBVIOUS

(* What a step makes of the requests: nothing, or a new one, which goes to *)
(* wsRef's socket if that is in use.                                       *)
LEMMA RequestSent ==
  ASSUME LogTypes, NEW o \in Options, NEW open \in BOOLEAN, NEW ref \in LogSockets \cup { 0 },
         SendTailReq(o, open, ref)
  PROVE  /\ asked' \in Seq(Options) /\ reqId' = Len(asked') /\ reqs' \in [LogSockets -> Seq(Nat)]
         /\ ~open => UNCHANGED << asked, reqId, reqs >>
         /\ open => /\ reqId' = reqId + 1 /\ asked'[reqId'] = o
                    /\ \A s \in LogSockets :
                         reqs'[s] = reqs[s] \/ (s = ref /\ reqs'[s] = Append(reqs[s], reqId'))
                    /\ ref # 0 /\ logSock[ref].st \in { "connecting", "open" } =>
                         reqs'[ref] = Append(reqs[ref], reqId')
<1> USE DEF SendTailReq, request, LogTypes
<1>1. CASE ~open
  BY <1>1
<1>2. CASE open
  <2>1. /\ asked' = Append(asked, o) /\ reqId' = reqId + 1 /\ reqId \in Nat
    BY <1>2
  <2>2. asked' \in Seq(Options) /\ reqId' = Len(asked') /\ asked'[reqId'] = o
    BY <2>1, AppendOf
  <2>3. CASE ref # 0 /\ logSock[ref].st \in { "connecting", "open" }
    <3>1. reqs' = [reqs EXCEPT ![ref] = Append(@, reqId')] /\ ref \in LogSockets
      BY <1>2, <2>1, <2>3
    <3>2. Append(reqs[ref], reqId') \in Seq(Nat)
      BY <2>1, <3>1, AppendOf
    <3> QED BY <1>2, <2>1, <2>2, <3>1, <3>2
  <2>4. CASE ~(ref # 0 /\ logSock[ref].st \in { "connecting", "open" })
    <3>1. reqs' = reqs
      BY <1>2, <2>4
    <3> QED BY <1>2, <2>1, <2>2, <2>4, <3>1
  <2> QED BY <2>3, <2>4
<1> QED BY <1>1, <1>2

(* What a message leaves on display.                                       *)
LEMMA RenderedType ==
  ASSUME LogTypes, NEW m \in LogMessages
  PROVE  /\ Rendered(m) \in [id : Nat, upto : Nat, whole : BOOLEAN] /\ Rendered(m).id = m.id
         /\ m.upto <= Rendered(m).upto
         /\ m.type = "append" => terminal.upto <= Rendered(m).upto
         /\ m.type = "replace" => Rendered(m).whole
         /\ terminal.whole /\ m.upto <= terminal.upto + 1 => Rendered(m).whole
BY DEF LogTypes, LogMessages, Rendered

LEMMA NextLogTypes ==
  ASSUME LogSocketTypes, LogTypes, Numbered, [LogNext]_logVars
  PROVE  LogTypes'
<1> USE DEF LogTypes, logHook, request, tailer, pod
<1>1. ASSUME NEW o \in Options, Choose(o) PROVE LogTypes'
  <2>1. /\ chosen' = o /\ SendTailReq(o, wsOpen, logRef)
        /\ UNCHANGED << captured, terminal, msgs, task, followers, lines >>
    BY <1>1 DEF Choose
  <2> QED BY <2>1, RequestSent DEF LogSocketTypes
<1>2. ASSUME NEW r \in LogRuns, Reconnect(r) PROVE LogTypes'
  BY <1>2 DEF Reconnect
<1>3. CASE LogRerun
  BY <1>3 DEF LogRerun, Blank
<1>4. ASSUME NEW s \in LogSockets, LogOpens(s) PROVE LogTypes'
  <2>1. /\ SendTailReq(captured[logSock[s].run], TRUE, s)
        /\ UNCHANGED << chosen, captured, terminal, msgs, task, followers, lines >>
    BY <1>4 DEF LogOpens
  <2>2. captured[logSock[s].run] \in Options
    BY DEF LogSocketTypes
  <2> QED BY <2>1, <2>2, RequestSent
<1>5. ASSUME NEW s \in LogSockets, LogCloses(s) \/ Lost(s) \/ SnapshotFails(s) PROVE LogTypes'
  BY <1>5 DEF LogCloses, Lost, SnapshotFails
<1>6. ASSUME NEW s \in LogSockets, OnLogMessage(s) PROVE LogTypes'
  <2>1. /\ msgs' = [msgs EXCEPT ![s] = Tail(@)] /\ msgs[s] # << >>
        /\ terminal' \in { terminal, Rendered(Head(msgs[s])) }
        /\ UNCHANGED << chosen, captured, asked, reqId, reqs, task, followers, lines >>
    BY <1>6 DEF OnLogMessage
  <2>2. Tail(msgs[s]) \in Seq(LogMessages) /\ Head(msgs[s]) \in LogMessages
    BY <2>1, TailOf
  <2>3. msgs' \in [LogSockets -> Seq(LogMessages)]
    BY <2>1, <2>2
  <2> QED BY <2>1, <2>2, <2>3, RenderedType
<1>7. ASSUME NEW s \in LogSockets, Take(s) PROVE LogTypes'
  <2>1. /\ reqs[s] # << >> /\ reqs' = [reqs EXCEPT ![s] = Tail(@)]
        /\ task' = [task EXCEPT ![s] = [id |-> Head(reqs[s]),
                                       now |-> lines[ContainerOf(Head(reqs[s]))]]]
        /\ UNCHANGED << chosen, captured, asked, reqId, terminal, msgs, followers, lines >>
    BY <1>7 DEF Take
  <2>2. Tail(reqs[s]) \in Seq(Nat) /\ Head(reqs[s]) \in 1 .. reqId
    BY <2>1, TailOf DEF Numbered
  <2>3. Head(reqs[s]) \in Nat /\ lines[ContainerOf(Head(reqs[s]))] \in Nat
    BY <2>2, ContainersHaveLogs
  <2>4. reqs' \in [LogSockets -> Seq(Nat)]
    BY <2>1, <2>2
  <2>5. task' \in [LogSockets -> [id : Nat, now : Nat]]
    BY <2>1, <2>3
  <2> QED BY <2>1, <2>4, <2>5
<1>8. ASSUME NEW s \in LogSockets, Snapshot(s) PROVE LogTypes'
  <2>1. task[s].id \in Nat /\ task[s].now \in Nat
    OBVIOUS
  <2>2. PICK n \in task[s].now .. lines[ContainerOf(task[s].id)] :
          /\ msgs' = [msgs EXCEPT ![s] =
                       Append(@, [id |-> task[s].id, type |-> "replace", upto |-> n])]
          /\ \/ followers' = [followers EXCEPT ![s] = @ \cup { Follower(task[s].id, task[s].now) }]
             \/ followers' = followers
    BY <1>8 DEF Snapshot
  <2>3. task' = [task EXCEPT ![s] = NoTask]
        /\ UNCHANGED << chosen, captured, asked, reqId, reqs, terminal, lines >>
    BY <1>8 DEF Snapshot
  <2>4. n \in Nat
    BY <2>1
  <2>5. [id |-> task[s].id, type |-> "replace", upto |-> n] \in LogMessages
    BY <2>1, <2>4 DEF LogMessages
  <2>6. msgs' \in [LogSockets -> Seq(LogMessages)]
    BY <2>2, <2>5, AppendOf
  <2>7. followers' \in [LogSockets -> SUBSET LogFollowers]
    <3>1. Follower(task[s].id, task[s].now) \in LogFollowers
      BY <2>1 DEF Follower, LogFollowers
    <3>2. followers[s] \cup { Follower(task[s].id, task[s].now) } \in SUBSET LogFollowers
      BY <3>1
    <3> QED BY <2>2, <3>2
  <2>8. task' \in [LogSockets -> [id : Nat, now : Nat]]
    BY <2>3 DEF NoTask
  <2> QED BY <2>3, <2>6, <2>7, <2>8
<1>9. ASSUME NEW s \in LogSockets, NEW f \in followers[s], Check(s, f) \/ Breaks(s, f)
      PROVE  LogTypes'
  <2>1. /\ UNCHANGED << chosen, captured, asked, reqId, reqs, terminal, msgs, task, lines >>
        /\ \/ followers' = [followers EXCEPT ![s] = (@ \ { f }) \cup
                IF current[s] = f.id THEN { [f EXCEPT !.checked = TRUE] } ELSE {}]
           \/ followers' = [followers EXCEPT ![s] = @ \ { f }]
    BY <1>9 DEF Check, Breaks
  <2>2. f \in LogFollowers
    OBVIOUS
  <2>3. [f EXCEPT !.checked = TRUE] \in LogFollowers
    BY <2>2 DEF LogFollowers
  <2>4. /\ followers[s] \ { f } \in SUBSET LogFollowers
        /\ (followers[s] \ { f }) \cup
              (IF current[s] = f.id THEN { [f EXCEPT !.checked = TRUE] } ELSE {})
             \in SUBSET LogFollowers
    BY <2>3
  <2>5. followers' \in [LogSockets -> SUBSET LogFollowers]
    BY <2>1, <2>4
  <2> QED BY <2>1, <2>5
<1>10. ASSUME NEW s \in LogSockets, NEW f \in followers[s], WriteLine(s, f) PROVE LogTypes'
  <2>1. /\ UNCHANGED << chosen, captured, asked, reqId, reqs, terminal, task, lines >>
        /\ msgs' = [msgs EXCEPT ![s] =
                      Append(@, [id |-> f.id, type |-> "append", upto |-> f.next])]
        /\ followers' = [followers EXCEPT ![s] = (@ \ { f }) \cup
                           { [f EXCEPT !.checked = FALSE, !.next = @ + 1] }]
    BY <1>10 DEF WriteLine
  <2>2. f \in LogFollowers
    OBVIOUS
  <2>3. /\ [f EXCEPT !.checked = FALSE, !.next = @ + 1] \in LogFollowers
        /\ [id |-> f.id, type |-> "append", upto |-> f.next] \in LogMessages
    <3>1. f.id \in Nat /\ f.next \in Nat /\ f.next + 1 \in Nat
      BY <2>2 DEF LogFollowers
    <3> QED BY <2>2, <3>1 DEF LogFollowers, LogMessages
  <2>4. followers' \in [LogSockets -> SUBSET LogFollowers]
    <3>1. (followers[s] \ { f }) \cup { [f EXCEPT !.checked = FALSE, !.next = @ + 1] }
             \in SUBSET LogFollowers
      BY <2>3
    <3> QED BY <2>1, <3>1
  <2>5. msgs' \in [LogSockets -> Seq(LogMessages)]
    BY <2>1, <2>3, AppendOf
  <2> QED BY <2>1, <2>4, <2>5
<1>11. ASSUME NEW c \in Names, Starts(c) \/ Logs(c) PROVE LogTypes'
  BY <1>11 DEF Starts, Logs
<1>12. CASE UNCHANGED logVars
  BY <1>12 DEF logVars
<1> QED BY <1>1, <1>2, <1>3, <1>4, <1>5, <1>6, <1>7, <1>8, <1>9, <1>10, <1>11, <1>12
        DEF LogNext, FollowStep

-----------------------------------------------------------------------------
(* What the steps at an open socket change.                                *)
elsewhere == << chosen, logRun, captured, wsOpen, logSock, asked, reqId >>

LEMMA MessageShown ==
  ASSUME LogTypes, NEW s \in LogSockets, OnLogMessage(s)
  PROVE  /\ logSock[s].st = "open" /\ Len(msgs[s]) \in Nat \ { 0 } /\ msgs[s][1] \in LogMessages
         /\ Len(msgs'[s]) = Len(msgs[s]) - 1
         /\ \A i \in 1 .. Len(msgs[s]) - 1 : msgs'[s][i] = msgs[s][i + 1]
         /\ \A r \in LogSockets \ { s } : msgs'[r] = msgs[r]
         /\ terminal' = IF msgs[s][1].id = reqId THEN Rendered(msgs[s][1]) ELSE terminal
         /\ UNCHANGED << elsewhere, reqs, task, followers >>
<1> USE DEF OnLogMessage, LogTypes, logHook, request, tailer, pod, elsewhere
<1>1. msgs' = [msgs EXCEPT ![s] = Tail(@)] /\ msgs[s] # << >> /\ msgs[s] \in Seq(LogMessages)
  OBVIOUS
<1>2. /\ msgs'[s] = Tail(msgs[s]) /\ \A r \in LogSockets \ { s } : msgs'[r] = msgs[r]
  BY <1>1
<1> QED BY <1>1, <1>2, TailOf

LEMMA RequestTaken ==
  ASSUME LogTypes, NEW s \in LogSockets, Take(s)
  PROVE  /\ logSock[s].st = "open" /\ task[s] = NoTask /\ Len(reqs[s]) \in Nat \ { 0 }
         /\ Len(reqs'[s]) = Len(reqs[s]) - 1
         /\ \A i \in 1 .. Len(reqs[s]) - 1 : reqs'[s][i] = reqs[s][i + 1]
         /\ task'[s].id = reqs[s][1] /\ task'[s].now = lines[ContainerOf(reqs[s][1])]
         /\ \A r \in LogSockets \ { s } : reqs'[r] = reqs[r] /\ task'[r] = task[r]
         /\ UNCHANGED << elsewhere, terminal, msgs, followers >>
<1> USE DEF Take, LogTypes, logHook, request, tailer, pod, elsewhere
<1>1. /\ reqs' = [reqs EXCEPT ![s] = Tail(@)] /\ reqs[s] # << >> /\ reqs[s] \in Seq(Nat)
      /\ task' = [task EXCEPT ![s] = [id |-> Head(reqs[s]),
                                     now |-> lines[ContainerOf(Head(reqs[s]))]]]
  OBVIOUS
<1>2. /\ reqs'[s] = Tail(reqs[s]) /\ Head(reqs[s]) = reqs[s][1]
      /\ \A r \in LogSockets \ { s } : reqs'[r] = reqs[r] /\ task'[r] = task[r]
  BY <1>1, TailOf
<1> QED BY <1>1, <1>2, TailOf

LEMMA SnapshotSent ==
  ASSUME LogTypes, NEW s \in LogSockets, Snapshot(s)
  PROVE  /\ logSock[s].st = "open" /\ task[s] # NoTask /\ task'[s] = NoTask
         /\ Len(msgs[s]) \in Nat /\ Len(msgs'[s]) = Len(msgs[s]) + 1
         /\ \A i \in 1 .. Len(msgs[s]) : msgs'[s][i] = msgs[s][i]
         /\ LET m == msgs'[s][Len(msgs[s]) + 1] IN
              /\ m.id = task[s].id /\ m.type = "replace"
              /\ m.upto \in Nat /\ task[s].now <= m.upto
         /\ \A f \in followers'[s] :
              f \in followers[s] \/ (f.id = task[s].id /\ f.next = task[s].now + 1)
         /\ \A r \in LogSockets \ { s } :
              msgs'[r] = msgs[r] /\ task'[r] = task[r] /\ followers'[r] = followers[r]
         /\ UNCHANGED << elsewhere, terminal, reqs >>
<1> USE DEF LogTypes
<1>1. /\ logSock[s].st = "open" /\ task[s] # NoTask /\ task' = [task EXCEPT ![s] = NoTask]
      /\ UNCHANGED << elsewhere, terminal, reqs >>
  BY DEF Snapshot, logHook, request, pod, elsewhere
<1>2. PICK n \in task[s].now .. lines[ContainerOf(task[s].id)] :
        /\ msgs' = [msgs EXCEPT ![s] =
                     Append(@, [id |-> task[s].id, type |-> "replace", upto |-> n])]
        /\ \/ followers' = [followers EXCEPT ![s] = @ \cup { Follower(task[s].id, task[s].now) }]
           \/ followers' = followers
  BY DEF Snapshot
<1>3. task[s].id \in Nat /\ task[s].now \in Nat /\ n \in Nat /\ task[s].now <= n
  BY <1>2
<1>4. [id |-> task[s].id, type |-> "replace", upto |-> n] \in LogMessages
  BY <1>3 DEF LogMessages
<1>5. /\ msgs'[s] = Append(msgs[s], [id |-> task[s].id, type |-> "replace", upto |-> n])
      /\ \A r \in LogSockets \ { s } : msgs'[r] = msgs[r] /\ followers'[r] = followers[r]
      /\ \A f \in followers'[s] : f \in followers[s] \/ f = Follower(task[s].id, task[s].now)
  BY <1>2
<1>6. /\ task'[s] = NoTask /\ \A r \in LogSockets \ { s } : task'[r] = task[r]
  BY <1>1
<1>7. /\ Len(msgs[s]) \in Nat /\ Len(msgs'[s]) = Len(msgs[s]) + 1
      /\ \A i \in 1 .. Len(msgs[s]) : msgs'[s][i] = msgs[s][i]
      /\ msgs'[s][Len(msgs[s]) + 1] = [id |-> task[s].id, type |-> "replace", upto |-> n]
  BY <1>4, <1>5, AppendOf
<1> QED BY <1>1, <1>3, <1>5, <1>6, <1>7 DEF Follower

LEMMA FollowerMoves ==
  ASSUME LogTypes, NEW s \in LogSockets, NEW f \in followers[s], Check(s, f) \/ Breaks(s, f)
  PROVE  /\ \A g \in followers'[s] :
              \E h \in followers[s] : g.id = h.id /\ g.next = h.next
         /\ \A r \in LogSockets \ { s } : followers'[r] = followers[r]
         /\ UNCHANGED << elsewhere, terminal, reqs, msgs, task >>
<1> USE DEF LogTypes
<1>1. /\ UNCHANGED << elsewhere, terminal, reqs, msgs, task >>
      /\ \/ followers' = [followers EXCEPT ![s] = (@ \ { f }) \cup
              IF current[s] = f.id THEN { [f EXCEPT !.checked = TRUE] } ELSE {}]
         \/ followers' = [followers EXCEPT ![s] = @ \ { f }]
  BY DEF Check, Breaks, logHook, request, pod, elsewhere
<1>2. f \in LogFollowers
  OBVIOUS
<1>3. [f EXCEPT !.checked = TRUE].id = f.id /\ [f EXCEPT !.checked = TRUE].next = f.next
  BY <1>2 DEF LogFollowers
<1>4. \A g \in followers'[s] : g \in followers[s] \/ g = [f EXCEPT !.checked = TRUE]
  BY <1>1
<1> QED BY <1>1, <1>3, <1>4

LEMMA LineWritten ==
  ASSUME LogTypes, NEW s \in LogSockets, NEW f \in followers[s], WriteLine(s, f)
  PROVE  /\ logSock[s].st = "open" /\ f.next \in Nat
         /\ Len(msgs[s]) \in Nat /\ Len(msgs'[s]) = Len(msgs[s]) + 1
         /\ \A i \in 1 .. Len(msgs[s]) : msgs'[s][i] = msgs[s][i]
         /\ LET m == msgs'[s][Len(msgs[s]) + 1] IN
              m.id = f.id /\ m.type = "append" /\ m.upto = f.next
         /\ \A g \in followers'[s] : g \in followers[s] \/ (g.id = f.id /\ g.next = f.next + 1)
         /\ \A r \in LogSockets \ { s } : msgs'[r] = msgs[r] /\ followers'[r] = followers[r]
         /\ UNCHANGED << elsewhere, terminal, reqs, task >>
<1> USE DEF LogTypes
<1>1. /\ logSock[s].st = "open" /\ UNCHANGED << elsewhere, terminal, reqs, task >>
      /\ msgs' = [msgs EXCEPT ![s] =
                    Append(@, [id |-> f.id, type |-> "append", upto |-> f.next])]
      /\ followers' = [followers EXCEPT ![s] = (@ \ { f }) \cup
                         { [f EXCEPT !.checked = FALSE, !.next = @ + 1] }]
  BY DEF WriteLine, logHook, request, pod, elsewhere
<1>2. f \in LogFollowers /\ f.id \in Nat /\ f.next \in Nat
  BY DEF LogFollowers
<1>3. /\ [f EXCEPT !.checked = FALSE, !.next = @ + 1].id = f.id
      /\ [f EXCEPT !.checked = FALSE, !.next = @ + 1].next = f.next + 1
  BY <1>2 DEF LogFollowers
<1>4. [id |-> f.id, type |-> "append", upto |-> f.next] \in LogMessages
  BY <1>2 DEF LogMessages
<1>5. /\ msgs'[s] = Append(msgs[s], [id |-> f.id, type |-> "append", upto |-> f.next])
      /\ \A r \in LogSockets \ { s } : msgs'[r] = msgs[r] /\ followers'[r] = followers[r]
      /\ \A g \in followers'[s] :
           g \in followers[s] \/ g = [f EXCEPT !.checked = FALSE, !.next = @ + 1]
  BY <1>1
<1>6. /\ Len(msgs[s]) \in Nat /\ Len(msgs'[s]) = Len(msgs[s]) + 1
      /\ \A i \in 1 .. Len(msgs[s]) : msgs'[s][i] = msgs[s][i]
      /\ msgs'[s][Len(msgs[s]) + 1] = [id |-> f.id, type |-> "append", upto |-> f.next]
  BY <1>4, <1>5, AppendOf
<1>7. LET m == msgs'[s][Len(msgs[s]) + 1] IN m.id = f.id /\ m.type = "append" /\ m.upto = f.next
  BY <1>6
<1>8. \A g \in followers'[s] : g \in followers[s] \/ (g.id = f.id /\ g.next = f.next + 1)
  BY <1>3, <1>5
<1> HIDE DEF LogTypes
<1> QED BY <1>1, <1>2, <1>5, <1>6, <1>7, <1>8

LEMMA SentNumbered ==
  ASSUME LogTypes, Numbered, NEW o \in Options, NEW open \in BOOLEAN,
         NEW ref \in LogSockets \cup { 0 }, SendTailReq(o, open, ref),
         UNCHANGED << terminal, msgs, task, followers >>
  PROVE  Numbered'
<1>1. CASE ~open
  BY <1>1, RequestSent DEF Numbered
<1>2. CASE open
  <2>1. /\ reqId' = reqId + 1 /\ reqId \in Nat /\ terminal.id \in Nat
        /\ \A s \in LogSockets : reqs'[s] = reqs[s] \/ reqs'[s] = Append(reqs[s], reqId')
    <3>1. reqId \in Nat /\ terminal.id \in Nat
      BY DEF LogTypes
    <3> QED BY <1>2, <3>1, RequestSent
  <2>2. ASSUME NEW s \in LogSockets
        PROVE  \A i \in 1 .. Len(reqs'[s]) : reqs'[s][i] \in 1 .. reqId'
    <3>1. \A i \in 1 .. Len(reqs[s]) : reqs[s][i] \in 1 .. reqId'
      BY <2>1 DEF Numbered
    <3>2. CASE reqs'[s] = Append(reqs[s], reqId')
      <4>1. /\ Len(reqs[s]) \in Nat /\ Len(reqs'[s]) = Len(reqs[s]) + 1
            /\ reqs'[s][Len(reqs[s]) + 1] = reqId'
            /\ \A i \in 1 .. Len(reqs[s]) : reqs'[s][i] = reqs[s][i]
        <5>1. reqs[s] \in Seq(Nat) /\ reqId' \in Nat
          BY <2>1 DEF LogTypes
        <5> QED BY <3>2, <5>1, AppendOf
      <4>2. reqId' \in 1 .. reqId'
        BY <2>1
      <4> QED BY <3>1, <4>1, <4>2
    <3> QED BY <2>1, <3>1, <3>2
  <2>3. ASSUME NEW s \in LogSockets
        PROVE  /\ task[s] # NoTask => task[s].id \in 1 .. reqId'
               /\ \A i \in 1 .. Len(msgs[s]) : msgs[s][i].id <= reqId'
               /\ \A f \in followers[s] : f.id <= reqId'
    <3>1. \A i \in 1 .. Len(msgs[s]) : msgs[s][i].id \in Nat
      <4>1. msgs[s] \in Seq(LogMessages)
        BY DEF LogTypes
      <4>2. \A i \in 1 .. Len(msgs[s]) : msgs[s][i] \in LogMessages
        BY <4>1
      <4> QED BY <4>2 DEF LogMessages
    <3>2. \A f \in followers[s] : f.id \in Nat
      BY DEF LogTypes, LogFollowers
    <3> QED BY <2>1, <3>1, <3>2 DEF Numbered
  <2>4. terminal.id <= reqId'
    BY <2>1 DEF Numbered
  <2> QED BY <2>2, <2>3, <2>4 DEF Numbered
<1> QED BY <1>1, <1>2

LEMMA NextNumbered ==
  ASSUME LogSocketTypes, LogTypes, LogTypes', Numbered, [LogNext]_logVars
  PROVE  Numbered'
<1> USE DEF logHook, request, tailer, pod
<1>1. ASSUME NEW o \in Options, Choose(o) PROVE Numbered'
  <2>1. wsOpen \in BOOLEAN /\ logRef \in LogSockets \cup { 0 }
    BY DEF LogSocketTypes
  <2> QED BY <1>1, <2>1, SentNumbered DEF Choose
<1>2. ASSUME NEW r \in LogRuns, Reconnect(r) PROVE Numbered'
  BY <1>2 DEF Reconnect, Numbered
<1>3. CASE LogRerun
  <2>1. UNCHANGED << reqId, reqs, msgs, task, followers >> /\ terminal'.id = 0
    BY <1>3 DEF LogRerun, Blank
  <2>2. reqId \in Nat
    BY DEF LogTypes
  <2> QED BY <2>1, <2>2 DEF Numbered
<1>4. ASSUME NEW s \in LogSockets, LogOpens(s) PROVE Numbered'
  <2>1. captured[logSock[s].run] \in Options
    BY DEF LogSocketTypes, LogTypes
  <2> QED BY <1>4, <2>1, SentNumbered DEF LogOpens
<1>5. ASSUME NEW s \in LogSockets, LogCloses(s) \/ Lost(s) \/ SnapshotFails(s) PROVE Numbered'
  BY <1>5 DEF LogCloses, Lost, SnapshotFails, Numbered
<1>6. ASSUME NEW s \in LogSockets, OnLogMessage(s) PROVE Numbered'
  <2>1. terminal'.id <= reqId'
    BY <1>6, MessageShown, RenderedType DEF Numbered, elsewhere
  <2>2. ASSUME NEW r \in LogSockets
        PROVE  \A i \in 1 .. Len(msgs'[r]) : msgs'[r][i].id <= reqId'
    <3>1. \A i \in 1 .. Len(msgs'[s]) : msgs'[s][i].id <= reqId
      <4>1. /\ Len(msgs[s]) \in Nat /\ Len(msgs'[s]) = Len(msgs[s]) - 1
            /\ \A i \in 1 .. Len(msgs[s]) - 1 : msgs'[s][i] = msgs[s][i + 1]
        BY <1>6, MessageShown
      <4>2. \A i \in 1 .. Len(msgs[s]) : msgs[s][i].id <= reqId
        BY DEF Numbered
      <4> QED BY <4>1, <4>2
    <3> QED BY <1>6, <3>1, MessageShown DEF Numbered, elsewhere
  <2> QED BY <1>6, <2>1, <2>2, MessageShown DEF Numbered, elsewhere
<1>7. ASSUME NEW s \in LogSockets, Take(s) PROVE Numbered'
  <2>1. ASSUME NEW r \in LogSockets
        PROVE  /\ \A i \in 1 .. Len(reqs'[r]) : reqs'[r][i] \in 1 .. reqId'
               /\ task'[r] # NoTask => task'[r].id \in 1 .. reqId'
    <3>1. /\ Len(reqs[s]) \in Nat \ { 0 } /\ Len(reqs'[s]) = Len(reqs[s]) - 1
          /\ \A i \in 1 .. Len(reqs[s]) - 1 : reqs'[s][i] = reqs[s][i + 1]
          /\ task'[s].id = reqs[s][1]
      BY <1>7, RequestTaken
    <3>2. \A i \in 1 .. Len(reqs[s]) : reqs[s][i] \in 1 .. reqId
      BY DEF Numbered
    <3>3. \A i \in 1 .. Len(reqs'[s]) : reqs'[s][i] \in 1 .. reqId
      BY <3>1, <3>2
    <3>4. task'[s].id \in 1 .. reqId
      BY <3>1, <3>2
    <3>5. reqId' = reqId /\ \A q \in LogSockets \ { s } : reqs'[q] = reqs[q] /\ task'[q] = task[q]
      BY <1>7, RequestTaken DEF elsewhere
    <3>6. CASE r = s
      BY <3>3, <3>4, <3>5, <3>6
    <3>7. CASE r # s
      BY <3>5, <3>7 DEF Numbered
    <3> QED BY <3>6, <3>7
  <2> QED BY <1>7, <2>1, RequestTaken DEF Numbered, elsewhere
<1>8. ASSUME NEW s \in LogSockets, Snapshot(s) PROVE Numbered'
  <2>1. /\ \A i \in 1 .. Len(msgs'[s]) : msgs'[s][i].id <= reqId
        /\ \A f \in followers'[s] : f.id <= reqId
    BY <1>8, SnapshotSent DEF Numbered
  <2> QED BY <1>8, <2>1, SnapshotSent DEF Numbered, elsewhere
<1>9. ASSUME NEW s \in LogSockets, NEW f \in followers[s], Check(s, f) \/ Breaks(s, f)
      PROVE  Numbered'
  <2>1. \A g \in followers'[s] : g.id <= reqId
    BY <1>9, FollowerMoves DEF Numbered
  <2> QED BY <1>9, <2>1, FollowerMoves DEF Numbered, elsewhere
<1>10. ASSUME NEW s \in LogSockets, NEW f \in followers[s], WriteLine(s, f) PROVE Numbered'
  <2>1. /\ \A i \in 1 .. Len(msgs'[s]) : msgs'[s][i].id <= reqId
        /\ \A g \in followers'[s] : g.id <= reqId
    BY <1>10, LineWritten DEF Numbered
  <2> QED BY <1>10, <2>1, LineWritten DEF Numbered, elsewhere
<1>11. ASSUME NEW c \in Names, Starts(c) \/ Logs(c) PROVE Numbered'
  BY <1>11 DEF Starts, Logs, Numbered
<1>12. CASE UNCHANGED logVars
  BY <1>12 DEF logVars, Numbered
<1> QED BY <1>1, <1>2, <1>3, <1>4, <1>5, <1>6, <1>7, <1>8, <1>9, <1>10, <1>11, <1>12
        DEF LogNext, FollowStep

LEMMA NextUntouched ==
  ASSUME LogSocketTypes, LogTypes, OneInUse, [LogNext]_logVars,
         NEW r \in LogSockets, Untouched(r)
  PROVE  Untouched(r)'
<1> USE DEF logHook, request, tailer, pod
<1>0. logSock'[r].st \in { "unused", "connecting" } => logSock[r].st \in { "unused", "connecting" }
  <2> USE DEF LogSocketTypes
  <2>1. ASSUME NEW e \in LogRuns, Reconnect(e)
        PROVE  logSock'[r].st \in { "unused", "connecting" }
                 => logSock[r].st \in { "unused", "connecting" }
    BY <2>1 DEF Reconnect, LogConnect, Fresh
  <2>2. CASE LogRerun
    BY <2>2 DEF LogRerun, Fresh
  <2>3. ASSUME NEW s \in LogSockets, LogOpens(s) \/ LogCloses(s) \/ Lost(s) \/ SnapshotFails(s)
        PROVE  logSock'[r].st \in { "unused", "connecting" }
                 => logSock[r].st \in { "unused", "connecting" }
    BY <2>3 DEF LogOpens, LogCloses, Lost, SnapshotFails
  <2>4. ASSUME UNCHANGED logSock
        PROVE  logSock'[r].st \in { "unused", "connecting" }
                 => logSock[r].st \in { "unused", "connecting" }
    BY <2>4
  <2> QED BY <2>1, <2>2, <2>3, <2>4 DEF LogNext, Choose, OnLogMessage, Take, Snapshot, FollowStep,
             Check, WriteLine, Breaks, Starts, Logs, logVars
<1> SUFFICES ASSUME logSock'[r].st \in { "unused", "connecting" }
             PROVE  /\ reqs'[r] = << >> /\ msgs'[r] = << >> /\ task'[r] = NoTask
                    /\ followers'[r] = {} /\ logRef' # r
  BY DEF Untouched
<1>1. /\ reqs[r] = << >> /\ msgs[r] = << >> /\ task[r] = NoTask /\ followers[r] = {}
      /\ logRef # r /\ logSock[r].st # "open"
  BY <1>0 DEF Untouched
<1>2. ASSUME NEW o \in Options, Choose(o) PROVE reqs'[r] = reqs[r]
  <2>1. SendTailReq(o, wsOpen, logRef) /\ wsOpen \in BOOLEAN /\ logRef \in LogSockets \cup { 0 }
    BY <1>2 DEF Choose, LogSocketTypes
  <2> QED BY <1>1, <2>1, RequestSent
<1>3. ASSUME NEW s \in LogSockets, LogOpens(s) PROVE reqs'[r] = reqs[r] /\ logRef' # r
  <2>1. /\ SendTailReq(captured[logSock[s].run], TRUE, s)
        /\ captured[logSock[s].run] \in Options /\ logRef' = s
    BY <1>3 DEF LogOpens, LogSocketTypes, LogTypes
  <2>2. logSock'[s].st = "open"
    BY <1>3 DEF LogOpens, LogSocketTypes
  <2>3. r # s
    BY <2>2
  <2> QED BY <2>1, <2>3, RequestSent
<1>4. ASSUME NEW s \in LogSockets, OnLogMessage(s) \/ Take(s) \/ Snapshot(s)
      PROVE  /\ UNCHANGED logRef
             /\ reqs'[r] = reqs[r] /\ msgs'[r] = msgs[r] /\ task'[r] = task[r]
             /\ followers'[r] = followers[r]
  <2>1. r # s
    BY <1>1, <1>4 DEF OnLogMessage, Take, Snapshot
  <2>2. UNCHANGED logRef
    BY <1>4 DEF OnLogMessage, Take, Snapshot
  <2> QED BY <1>4, <2>1, <2>2, MessageShown, RequestTaken, SnapshotSent
<1>5. ASSUME NEW s \in LogSockets, NEW f \in followers[s],
             Check(s, f) \/ Breaks(s, f) \/ WriteLine(s, f)
      PROVE  /\ UNCHANGED << logRef, reqs, task >> /\ msgs'[r] = msgs[r]
             /\ followers'[r] = followers[r]
  <2>1. r # s
    BY <1>1, <1>5
  <2>2. UNCHANGED << logRef, reqs, task >>
    BY <1>5 DEF Check, Breaks, WriteLine
  <2> QED BY <1>5, <2>1, <2>2, FollowerMoves, LineWritten
<1>6. logRef' # r
  <2>1. CASE LogRerun
    <3>1. r # 0
      BY DEF LogSockets
    <3> QED BY <2>1, <3>1 DEF LogRerun
  <2> QED BY <1>1, <1>3, <1>4, <1>5, <2>1 DEF LogNext, Choose, Reconnect, LogCloses, Lost,
             SnapshotFails, FollowStep, Starts, Logs, logVars
<1>7. reqs'[r] = reqs[r] /\ msgs'[r] = msgs[r] /\ task'[r] = task[r] /\ followers'[r] = followers[r]
  BY <1>2, <1>3, <1>4, <1>5 DEF LogNext, Choose, Reconnect, LogRerun, LogOpens, LogCloses, Lost,
     SnapshotFails, FollowStep, Starts, Logs, logVars
<1> QED BY <1>1, <1>6, <1>7

-----------------------------------------------------------------------------
(* A request that was just made is last in line, and nothing else has its  *)
(* number.                                                                 *)
LEMMA ServedAnew ==
  ASSUME LogTypes, Numbered, NEW s \in LogSockets,
         reqId' = reqId + 1, reqs'[s] = Append(reqs[s], reqId'), WhatIsWanted',
         UNCHANGED << terminal, msgs, task, followers >>
  PROVE  Served(s)'
<1>1. reqId \in Nat /\ terminal.id \in Nat /\ reqs[s] \in Seq(Nat) /\ task[s].id \in Nat
  BY DEF LogTypes
<1>2. /\ Len(reqs[s]) \in Nat /\ Len(reqs'[s]) = Len(reqs[s]) + 1
      /\ reqs'[s][Len(reqs[s]) + 1] = reqId'
      /\ \A i \in 1 .. Len(reqs[s]) : reqs'[s][i] = reqs[s][i]
  BY <1>1, AppendOf
<1>3. /\ terminal'.id # reqId' /\ ~Working(s)'
      /\ \A i \in 1 .. Len(reqs[s]) : reqs[s][i] # reqId'
  BY <1>1 DEF Numbered, Working
<1>4. \A i \in 1 .. Len(msgs[s]) : msgs[s][i].id # reqId'
  <2>1. \A i \in 1 .. Len(msgs[s]) : msgs[s][i] \in LogMessages
    <3>1. msgs[s] \in Seq(LogMessages)
      BY DEF LogTypes
    <3> QED BY <3>1
  <2> QED BY <1>1, <2>1 DEF Numbered, LogMessages
<1>5. \A f \in followers[s] : f.id # reqId'
  BY <1>1 DEF Numbered, LogTypes, LogFollowers
<1>6. Requested(s)' /\ LastInLine(s)'
  BY <1>2, <1>3 DEF Requested, LastInLine
<1>7. Early(s)' /\ SnapshotFirst(s)' /\ InSequence(s)'
  BY <1>3, <1>4, <1>5 DEF Early, SnapshotFirst, IsSnapshot, InSequence
<1> QED BY <1>6, <1>7 DEF Served, Arrives

(* Followers may check or break.                                           *)
LEMMA ServedStill ==
  ASSUME NEW s \in LogSockets, Served(s), UNCHANGED << terminal, reqId >>,
         reqs'[s] = reqs[s], msgs'[s] = msgs[s], task'[s] = task[s], WhatIsWanted',
         \A g \in followers'[s] : \E h \in followers[s] : g.id = h.id /\ g.next = h.next
  PROVE  Served(s)'
<1>1. LastInLine(s)' /\ SnapshotFirst(s)' /\ Arrives(s)'
  BY DEF Served, LastInLine, SnapshotFirst, Arrives, Requested, Working, IsSnapshot
<1>2. Early(s)'
  BY DEF Served, Early, Requested, Working
<1>3. InSequence(s)'
  BY DEF Served, InSequence, Joins
<1> QED BY <1>1, <1>2, <1>3 DEF Served

LEMMA ServedMessage ==
  ASSUME LogTypes, NEW s \in LogSockets, OnLogMessage(s), Served(s), terminal.whole
  PROVE  Served(s)' /\ terminal'.whole
<1> DEFINE n == Len(msgs[s])  m == msgs[s][1]
<1>1. /\ n \in Nat \ { 0 } /\ m \in LogMessages /\ Len(msgs'[s]) = n - 1
      /\ \A i \in 1 .. n - 1 : msgs'[s][i] = msgs[s][i + 1]
      /\ terminal' = IF m.id = reqId THEN Rendered(m) ELSE terminal
      /\ UNCHANGED << reqId, reqs, task, followers >> /\ WhatIsWanted'
  BY MessageShown DEF elsewhere, Served, WhatIsWanted
<1>2. m.id = reqId => /\ terminal'.id = reqId /\ m.upto <= terminal'.upto
                      /\ m.type = "append" => terminal.upto <= terminal'.upto
  BY <1>1, RenderedType
<1>3. m.id # reqId => terminal' = terminal
  BY <1>1
<1>4. /\ terminal.upto \in Nat /\ terminal'.upto \in Nat
      /\ \A i \in 1 .. n : msgs[s][i] \in LogMessages
  <2>1. msgs[s] \in Seq(LogMessages) /\ terminal \in [id : Nat, upto : Nat, whole : BOOLEAN]
    BY DEF LogTypes
  <2>2. terminal' \in [id : Nat, upto : Nat, whole : BOOLEAN]
    BY <1>1, <2>1, RenderedType
  <2> QED BY <2>1, <2>2
<1> HIDE DEF n, m
<1>5. m.id = reqId => ~Requested(s) /\ ~Working(s)
  BY <1>1 DEF Served, Early, n, m
(* A snapshot is the first message of its request, an append joins.        *)
<1>6. m.id = reqId /\ m.type = "append" => terminal.id = reqId /\ m.upto <= terminal.upto + 1
  <2>1. m.id = reqId /\ m.type = "append" => Joins(s, 0, m.upto)
    BY <1>1 DEF Served, InSequence, n, m
  <2> QED BY <2>1 DEF Joins
<1>7. terminal'.whole
  BY <1>1, <1>3, <1>6, RenderedType DEF LogMessages
<1>8. terminal.id = reqId => terminal'.id = reqId /\ terminal.upto <= terminal'.upto
  <2>1. m.id = reqId /\ m.type = "replace" => terminal.id # reqId
    BY <1>1 DEF Served, SnapshotFirst, IsSnapshot, n, m
  <2> QED BY <1>1, <1>2, <1>3, <1>4, <2>1 DEF LogMessages
<1>9. ASSUME NEW k \in 1 .. n, NEW u \in Nat, Joins(s, k, u) PROVE Joins(s, k - 1, u)'
  <2>1. CASE terminal.id = reqId /\ u <= terminal.upto + 1
    BY <1>1, <1>4, <1>8, <2>1 DEF Joins
  <2>2. ASSUME NEW j \in 1 .. k, msgs[s][j].id = reqId, u <= msgs[s][j].upto + 1
        PROVE  Joins(s, k - 1, u)'
    <3>1. CASE j = 1
      BY <1>1, <1>2, <1>4, <2>2, <3>1 DEF Joins, m, LogMessages
    <3>2. CASE j # 1
      <4>1. j - 1 \in 1 .. k - 1 /\ msgs'[s][j - 1] = msgs[s][j]
        BY <1>1, <3>2
      <4> QED BY <1>1, <2>2, <4>1 DEF Joins
    <3> QED BY <3>1, <3>2
  <2> QED BY <1>9, <2>1, <2>2 DEF Joins
<1>10. Early(s)' /\ LastInLine(s)'
  <2>1. Requested(s)' <=> Requested(s)
    BY <1>1 DEF Requested
  <2>2. Working(s)' <=> Working(s)
    BY <1>1 DEF Working
  <2>3. LastInLine(s)'
    BY <1>1, <2>2 DEF Served, LastInLine
  <2>4. \A i \in 1 .. Len(msgs'[s]) : i + 1 \in 1 .. n /\ msgs'[s][i] = msgs[s][i + 1]
    BY <1>1
  <2> QED BY <1>1, <1>3, <1>5, <2>1, <2>2, <2>3, <2>4 DEF Served, Early, n
<1>11. SnapshotFirst(s)'
  <2> SUFFICES ASSUME NEW i \in 1 .. Len(msgs'[s]), IsSnapshot(msgs[s][i])'
               PROVE  terminal'.id # reqId' /\ \A j \in 1 .. i - 1 : msgs'[s][j].id # reqId'
    BY DEF SnapshotFirst
  <2>1. /\ i + 1 \in 1 .. n /\ msgs'[s][i] = msgs[s][i + 1] /\ IsSnapshot(msgs[s][i + 1])
        /\ \A j \in 1 .. i - 1 : msgs'[s][j] = msgs[s][j + 1]
    BY <1>1 DEF IsSnapshot
  <2>2. terminal.id # reqId /\ \A j \in 1 .. i : msgs[s][j].id # reqId
    BY <2>1 DEF Served, SnapshotFirst, n
  <2>3. m.id # reqId
    BY <2>1, <2>2 DEF m
  <2> QED BY <1>1, <1>3, <2>1, <2>2, <2>3
<1>12. Arrives(s)'
  <2>1. CASE Requested(s) \/ Working(s)
    BY <1>1, <2>1 DEF Arrives, Requested, Working
  <2>2. CASE terminal.id = reqId
    BY <1>1, <1>8, <2>2 DEF Arrives
  <2>3. ASSUME NEW i \in 1 .. n, IsSnapshot(msgs[s][i]) PROVE Arrives(s)'
    <3>1. CASE i = 1
      BY <1>1, <1>2, <2>3, <3>1 DEF Arrives, IsSnapshot, m
    <3>2. CASE i # 1
      <4>1. i - 1 \in 1 .. Len(msgs'[s]) /\ msgs'[s][i - 1] = msgs[s][i]
        BY <1>1, <3>2
      <4> QED BY <1>1, <2>3, <4>1 DEF Arrives, IsSnapshot
    <3> QED BY <3>1, <3>2
  <2> QED BY <2>1, <2>2, <2>3 DEF Served, Arrives, n
<1>13. InSequence(s)'
  <2>1. ASSUME NEW i \in 1 .. Len(msgs'[s]), msgs'[s][i].id = reqId', msgs'[s][i].type = "append"
        PROVE  Joins(s, i - 1, msgs[s][i].upto)'
    <3>1. i + 1 \in 1 .. n /\ i \in 1 .. n /\ msgs'[s][i] = msgs[s][i + 1]
      BY <1>1
    <3>2. Joins(s, i, msgs[s][i + 1].upto) /\ msgs[s][i + 1].upto \in Nat
      BY <1>1, <1>4, <2>1, <3>1 DEF Served, InSequence, n, LogMessages
    <3>3. PICK u \in Nat : u = msgs[s][i + 1].upto
      BY <3>2
    <3>4. Joins(s, i - 1, u)'
      BY <1>9, <3>1, <3>2, <3>3
    <3> QED BY <3>1, <3>3, <3>4 DEF Joins
  <2>2. ASSUME NEW f \in followers'[s], f.id = reqId' PROVE Joins(s, Len(msgs[s]), f.next)'
    <3>1. f \in followers[s] /\ f.next \in Nat
      BY <1>1 DEF LogTypes, LogFollowers
    <3>2. n \in 1 .. n /\ Joins(s, n, f.next)
      BY <1>1, <2>2, <3>1 DEF Served, InSequence, n
    <3>3. PICK k \in 1 .. n : k = n
      BY <3>2
    <3>4. Joins(s, k - 1, f.next)'
      BY <1>9, <3>1, <3>2, <3>3
    <3> QED BY <1>1, <3>3, <3>4 DEF Joins
  <2> QED BY <2>1, <2>2 DEF InSequence
<1> QED BY <1>1, <1>7, <1>10, <1>11, <1>12, <1>13 DEF Served

LEMMA ServedRequest ==
  ASSUME LogTypes, NEW s \in LogSockets, Take(s), Served(s)
  PROVE  Served(s)'
<1> DEFINE n == Len(reqs[s])
<1>1. /\ n \in Nat \ { 0 } /\ Len(reqs'[s]) = n - 1 /\ task'[s].id = reqs[s][1]
      /\ \A i \in 1 .. n - 1 : reqs'[s][i] = reqs[s][i + 1]
      /\ task[s] = NoTask
      /\ UNCHANGED << terminal, reqId, msgs, followers >> /\ WhatIsWanted'
  BY RequestTaken DEF elsewhere, Served, WhatIsWanted, Working
<1>2. reqs[s][1] # 0 => task'[s] # NoTask
  BY <1>1 DEF NoTask
<1> HIDE DEF n
<1>3. Requested(s)' \/ Working(s)' => Requested(s)
  BY <1>1 DEF Requested, Working, n
<1>4. Early(s)'
  BY <1>1, <1>3 DEF Served, Early
<1>5. LastInLine(s)'
  <2> SUFFICES ASSUME NEW i \in 1 .. n - 1, reqs'[s][i] = reqId'
               PROVE  i = n - 1 /\ ~Working(s)'
    BY <1>1 DEF LastInLine
  <2>1. i + 1 = n
    BY <1>1 DEF Served, LastInLine, n
  <2>2. reqs[s][1] # reqId
    BY <1>1, <2>1 DEF Served, LastInLine, n
  <2> QED BY <1>1, <2>1, <2>2 DEF Working
<1>6. SnapshotFirst(s)' /\ InSequence(s)'
  BY <1>1 DEF Served, SnapshotFirst, InSequence, IsSnapshot, Joins
<1>7. Arrives(s)'
  <2>1. ASSUME NEW i \in 1 .. n, reqs[s][i] = reqId PROVE Requested(s)' \/ Working(s)'
    <3>1. CASE i = 1
      <4>1. reqId # 0
        BY DEF Served, WhatIsWanted
      <4> QED BY <1>1, <1>2, <2>1, <3>1, <4>1 DEF Working
    <3>2. CASE i # 1
      <4>1. i - 1 \in 1 .. n - 1 /\ reqs'[s][i - 1] = reqId'
        BY <1>1, <2>1, <3>2
      <4> QED BY <1>1, <4>1 DEF Requested
    <3> QED BY <3>1, <3>2
  <2>2. Requested(s) => Requested(s)' \/ Working(s)'
    BY <2>1 DEF Requested, n
  <2>3. ~Working(s)
    BY <1>1 DEF Working
  <2> QED BY <1>1, <2>2, <2>3 DEF Served, Arrives, IsSnapshot
<1> QED BY <1>1, <1>4, <1>5, <1>6, <1>7 DEF Served

(* The same holds after one more message at the end, if it joins.          *)
LEMMA JoinsMore ==
  ASSUME NEW s \in LogSockets, Len(msgs[s]) \in Nat, Len(msgs'[s]) = Len(msgs[s]) + 1,
         \A i \in 1 .. Len(msgs[s]) : msgs'[s][i] = msgs[s][i],
         UNCHANGED << terminal, reqId >>,
         NEW k \in 0 .. Len(msgs[s]), NEW u, Joins(s, k, u)
  PROVE  Joins(s, k, u)'
<1>1. 1 .. k \subseteq 1 .. Len(msgs[s])
  OBVIOUS
<1> QED BY <1>1 DEF Joins

LEMMA ServedSnapshot ==
  ASSUME LogTypes, NEW s \in LogSockets, Snapshot(s), Served(s)
  PROVE  Served(s)'
<1>1. PICK n \in Nat : n = Len(msgs[s])
  BY SnapshotSent
<1>2. /\ task[s] # NoTask /\ task'[s] = NoTask /\ Len(msgs'[s]) = n + 1
      /\ \A i \in 1 .. n : msgs'[s][i] = msgs[s][i]
      /\ \A f \in followers'[s] :
           f \in followers[s] \/ (f.id = task[s].id /\ f.next = task[s].now + 1)
      /\ UNCHANGED << terminal, reqId, reqs >> /\ WhatIsWanted'
  BY <1>1, SnapshotSent DEF elsewhere, Served, WhatIsWanted
<1>3. PICK m : m = msgs'[s][n + 1]
  OBVIOUS
<1>4. /\ m.id = task[s].id /\ m.type = "replace" /\ m.upto \in Nat /\ task[s].now <= m.upto
      /\ task[s].now \in Nat
  BY <1>1, <1>3, SnapshotSent DEF LogTypes
<1>5. Working(s) <=> m.id = reqId
  BY <1>2, <1>4 DEF Working
<1>6. ~Working(s)' /\ (Requested(s)' <=> Requested(s))
  BY <1>2 DEF Working, Requested
<1>7. Requested(s) => ~Working(s)
  BY DEF Served, LastInLine, Requested
<1>8. Working(s) => /\ terminal.id # reqId /\ \A i \in 1 .. n : msgs[s][i].id # reqId
                    /\ \A f \in followers[s] : f.id # reqId
  BY <1>1 DEF Served, Early
<1>9. \A i \in 1 .. n + 1 :
          (i \in 1 .. n /\ msgs'[s][i] = msgs[s][i]) \/ (i = n + 1 /\ msgs'[s][i] = m)
  BY <1>2, <1>3
<1>10. Early(s)'
  <2> SUFFICES ASSUME Requested(s)
               PROVE  /\ terminal'.id # reqId' /\ \A i \in 1 .. n + 1 : msgs'[s][i].id # reqId'
                      /\ \A f \in followers'[s] : f.id # reqId'
    BY <1>2, <1>6 DEF Early
  <2>1. m.id # reqId
    BY <1>5, <1>7
  <2>2. /\ terminal.id # reqId /\ \A i \in 1 .. n : msgs[s][i].id # reqId
        /\ \A f \in followers[s] : f.id # reqId
    BY <1>1 DEF Served, Early
  <2> QED BY <1>2, <1>4, <1>9, <2>1, <2>2
<1>11. LastInLine(s)'
  BY <1>2, <1>6 DEF Served, LastInLine
<1>12. SnapshotFirst(s)'
  <2> SUFFICES ASSUME NEW i \in 1 .. n + 1, msgs'[s][i].id = reqId', msgs'[s][i].type = "replace"
               PROVE  terminal'.id # reqId' /\ \A j \in 1 .. i - 1 : msgs'[s][j].id # reqId'
    BY <1>2 DEF SnapshotFirst, IsSnapshot
  <2>1. \A j \in 1 .. i - 1 : j \in 1 .. n /\ msgs'[s][j] = msgs[s][j]
    BY <1>2
  <2>2. CASE i = n + 1
    <3>1. Working(s)
      BY <1>2, <1>3, <1>5, <2>2
    <3> QED BY <1>2, <1>8, <2>1, <3>1
  <2>3. CASE i \in 1 .. n
    BY <1>1, <1>2, <2>1, <2>3 DEF Served, SnapshotFirst, IsSnapshot
  <2> QED BY <2>2, <2>3
<1>13. Arrives(s)'
  <2>1. CASE Working(s)
    <3>1. n + 1 \in 1 .. Len(msgs'[s]) /\ msgs'[s][n + 1].id = reqId'
          /\ msgs'[s][n + 1].type = "replace"
      BY <1>2, <1>3, <1>4, <1>5, <2>1
    <3> QED BY <3>1 DEF Arrives, IsSnapshot
  <2>2. CASE ~Working(s)
    <3>1. 1 .. n \subseteq 1 .. Len(msgs'[s])
      BY <1>2
    <3> QED BY <1>1, <1>2, <1>6, <2>2, <3>1 DEF Served, Arrives, IsSnapshot
  <2> QED BY <2>1, <2>2
<1>14. InSequence(s)'
  <2>1. ASSUME NEW i \in 1 .. n + 1, msgs'[s][i].id = reqId', msgs'[s][i].type = "append"
        PROVE  Joins(s, i - 1, msgs[s][i].upto)'
    <3>1. i \in 1 .. n /\ msgs'[s][i] = msgs[s][i]
      BY <1>4, <1>9, <2>1
    <3>2. PICK u : u = msgs[s][i].upto
      OBVIOUS
    <3>3. Joins(s, i - 1, u) /\ i - 1 \in 0 .. Len(msgs[s])
      BY <1>1, <1>2, <2>1, <3>1, <3>2 DEF Served, InSequence
    <3>4. Joins(s, i - 1, u)'
      BY <1>1, <1>2, <3>3, JoinsMore
    <3> QED BY <3>1, <3>2, <3>4 DEF Joins
  <2>2. ASSUME NEW f \in followers'[s], f.id = reqId' PROVE Joins(s, n + 1, f.next)'
    <3>1. CASE f \in followers[s]
      <4>1. Joins(s, n, f.next) /\ n \in 0 .. Len(msgs[s])
        BY <1>1, <1>2, <2>2, <3>1 DEF Served, InSequence
      <4>2. Joins(s, n, f.next)'
        BY <1>1, <1>2, <4>1, JoinsMore
      <4>3. 1 .. n \subseteq 1 .. n + 1
        OBVIOUS
      <4> QED BY <4>2, <4>3 DEF Joins
    <3>2. CASE f.id = task[s].id /\ f.next = task[s].now + 1
      <4>1. m.id = reqId /\ f.next <= m.upto + 1
        BY <1>2, <1>4, <2>2, <3>2
      <4>2. n + 1 \in 1 .. n + 1
        OBVIOUS
      <4> QED BY <1>2, <1>3, <4>1, <4>2 DEF Joins
    <3> QED BY <1>2, <3>1, <3>2
  <2> QED BY <1>2, <2>1, <2>2 DEF InSequence
<1> QED BY <1>2, <1>10, <1>11, <1>12, <1>13, <1>14 DEF Served

LEMMA ServedLine ==
  ASSUME LogTypes, NEW s \in LogSockets, NEW f \in followers[s], WriteLine(s, f), Served(s)
  PROVE  Served(s)'
<1>1. PICK n \in Nat : n = Len(msgs[s])
  BY LineWritten
<1>2. /\ f.next \in Nat /\ Len(msgs'[s]) = n + 1
      /\ \A i \in 1 .. n : msgs'[s][i] = msgs[s][i]
      /\ \A g \in followers'[s] : g \in followers[s] \/ (g.id = f.id /\ g.next = f.next + 1)
      /\ UNCHANGED << terminal, reqId, reqs, task >> /\ WhatIsWanted'
  BY <1>1, LineWritten DEF elsewhere, Served, WhatIsWanted
<1>3. PICK m : m = msgs'[s][n + 1]
  OBVIOUS
<1>4. m.id = f.id /\ m.type = "append" /\ m.upto = f.next
  BY <1>1, <1>3, LineWritten
<1>5. (Working(s)' <=> Working(s)) /\ (Requested(s)' <=> Requested(s))
  BY <1>2 DEF Working, Requested
<1>6. Requested(s) \/ Working(s) => m.id # reqId
  BY <1>4 DEF Served, Early
<1>7. \A i \in 1 .. n + 1 :
          (i \in 1 .. n /\ msgs'[s][i] = msgs[s][i]) \/ (i = n + 1 /\ msgs'[s][i] = m)
  BY <1>2, <1>3
<1>8. Early(s)'
  <2> SUFFICES ASSUME Requested(s) \/ Working(s)
               PROVE  /\ terminal'.id # reqId' /\ \A i \in 1 .. n + 1 : msgs'[s][i].id # reqId'
                      /\ \A g \in followers'[s] : g.id # reqId'
    BY <1>2, <1>5 DEF Early
  <2>1. /\ terminal.id # reqId /\ \A i \in 1 .. n : msgs[s][i].id # reqId
        /\ \A g \in followers[s] : g.id # reqId
    BY <1>1 DEF Served, Early
  <2> QED BY <1>2, <1>4, <1>6, <1>7, <2>1
<1>9. LastInLine(s)'
  BY <1>2, <1>5 DEF Served, LastInLine
<1>10. SnapshotFirst(s)'
  <2> SUFFICES ASSUME NEW i \in 1 .. n + 1, msgs'[s][i].id = reqId', msgs'[s][i].type = "replace"
               PROVE  terminal'.id # reqId' /\ \A j \in 1 .. i - 1 : msgs'[s][j].id # reqId'
    BY <1>2 DEF SnapshotFirst, IsSnapshot
  <2>1. i \in 1 .. n /\ msgs'[s][i] = msgs[s][i]
    BY <1>4, <1>7
  <2>2. \A j \in 1 .. i - 1 : j \in 1 .. n /\ msgs'[s][j] = msgs[s][j]
    BY <1>2
  <2> QED BY <1>1, <1>2, <2>1, <2>2 DEF Served, SnapshotFirst, IsSnapshot
<1>11. Arrives(s)'
  <2>1. 1 .. n \subseteq 1 .. Len(msgs'[s])
    BY <1>2
  <2> QED BY <1>1, <1>2, <1>5, <2>1 DEF Served, Arrives, IsSnapshot
<1>12. f.id = reqId => Joins(s, n, f.next)'
  <2>1. f.id = reqId => Joins(s, n, f.next) /\ n \in 0 .. Len(msgs[s])
    BY <1>1 DEF Served, InSequence
  <2> QED BY <1>1, <1>2, <2>1, JoinsMore
<1>13. InSequence(s)'
  <2>1. ASSUME NEW i \in 1 .. n + 1, msgs'[s][i].id = reqId', msgs'[s][i].type = "append"
        PROVE  Joins(s, i - 1, msgs[s][i].upto)'
    <3>1. CASE i \in 1 .. n /\ msgs'[s][i] = msgs[s][i]
      <4>1. PICK u : u = msgs[s][i].upto
        OBVIOUS
      <4>2. Joins(s, i - 1, u) /\ i - 1 \in 0 .. Len(msgs[s])
        BY <1>1, <1>2, <2>1, <3>1, <4>1 DEF Served, InSequence
      <4>3. Joins(s, i - 1, u)'
        BY <1>1, <1>2, <4>2, JoinsMore
      <4> QED BY <3>1, <4>1, <4>3 DEF Joins
    <3>2. CASE i = n + 1 /\ msgs'[s][i] = m
      <4>1. i - 1 = n /\ f.id = reqId
        BY <1>2, <1>4, <2>1, <3>2
      <4> QED BY <1>4, <1>12, <3>2, <4>1 DEF Joins
    <3> QED BY <1>7, <3>1, <3>2
  <2>2. ASSUME NEW g \in followers'[s], g.id = reqId' PROVE Joins(s, n + 1, g.next)'
    <3>1. CASE g \in followers[s]
      <4>1. Joins(s, n, g.next) /\ n \in 0 .. Len(msgs[s])
        BY <1>1, <1>2, <2>2, <3>1 DEF Served, InSequence
      <4>2. Joins(s, n, g.next)'
        BY <1>1, <1>2, <4>1, JoinsMore
      <4>3. 1 .. n \subseteq 1 .. n + 1
        OBVIOUS
      <4> QED BY <4>2, <4>3 DEF Joins
    <3>2. CASE g.id = f.id /\ g.next = f.next + 1
      <4>1. m.id = reqId /\ g.next <= m.upto + 1
        BY <1>2, <1>4, <2>2, <3>2
      <4>2. n + 1 \in 1 .. n + 1
        OBVIOUS
      <4> QED BY <1>2, <1>3, <4>1, <4>2 DEF Joins
    <3> QED BY <1>2, <3>1, <3>2
  <2> QED BY <1>2, <2>1, <2>2 DEF InSequence
<1> QED BY <1>2, <1>8, <1>9, <1>10, <1>11, <1>13 DEF Served

(* What is open after a step was open before, or has just been opened.     *)
LEMMA NextServed ==
  ASSUME LogInv, LogSocketTypes', [LogNext]_logVars, NEW s \in LogSockets, logSock'[s].st = "open"
  PROVE  Served(s)'
<1> USE DEF logHook, request, tailer, pod
<1>0. LogSocketTypes /\ LogTypes /\ Numbered /\ OneInUse /\ terminal.whole
  BY DEF LogInv, NoGap
<1>1. logSock[s].st = "open" => Served(s) /\ logRef = s
  BY <1>0 DEF LogInv, OneInUse
<1>2. ASSUME logSock[s].st = "open",
             UNCHANGED << terminal, reqId, asked, reqs, msgs, task, followers, chosen, captured,
                          logRun >>,
             wsOpen' => wsOpen
      PROVE  Served(s)'
  <2>1. WhatIsWanted'
    BY <1>1, <1>2 DEF Served, WhatIsWanted
  <2> QED BY <1>1, <1>2, <2>1, ServedStill
<1>3. ASSUME NEW o \in Options, Choose(o) PROVE Served(s)'
  <2>1. /\ logSock[s].st = "open" /\ SendTailReq(o, wsOpen, logRef) /\ chosen' = o
        /\ UNCHANGED << terminal, msgs, task, followers, captured, logRun, wsOpen >>
    BY <1>3 DEF Choose
  <2>2. wsOpen \in BOOLEAN /\ s # 0 /\ reqId \in Nat
    BY <1>0 DEF LogSocketTypes, LogSockets, LogTypes
  <2>3. CASE wsOpen
    <3>1. /\ reqId' = reqId + 1 /\ asked'[reqId'] = chosen'
          /\ reqs'[s] = Append(reqs[s], reqId')
      BY <1>0, <1>1, <2>1, <2>2, <2>3, RequestSent
    <3>2. WhatIsWanted'
      BY <2>2, <3>1 DEF WhatIsWanted
    <3> QED BY <1>0, <2>1, <3>1, <3>2, ServedAnew
  <2>4. CASE ~wsOpen
    <3>1. UNCHANGED << asked, reqId, reqs >>
      BY <1>0, <1>1, <2>1, <2>2, <2>4, RequestSent
    <3>2. WhatIsWanted'
      BY <1>1, <2>1, <2>4, <3>1 DEF Served, WhatIsWanted
    <3> QED BY <1>1, <2>1, <3>1, <3>2, ServedStill
  <2> QED BY <2>2, <2>3, <2>4
<1>4. ASSUME NEW r \in LogRuns, Reconnect(r) PROVE Served(s)'
  <2>1. logSock[s].st = "open"
    BY <1>0, <1>4 DEF Reconnect, LogConnect, LogSocketTypes
  <2> QED BY <1>2, <1>4, <2>1 DEF Reconnect
<1>5. ASSUME LogRerun PROVE Served(s)'
  BY <1>0, <1>5 DEF LogRerun, LogSocketTypes
<1>6. ASSUME NEW r \in LogSockets, LogOpens(r) PROVE Served(s)'
  <2>1. r = s
    <3>1. logSock[r].st = "connecting" /\ logSock' = [logSock EXCEPT ![r].st = "open"]
      BY <1>6 DEF LogOpens
    <3>2. r # s => logSock[s].st = "open"
      BY <1>0, <3>1 DEF LogSocketTypes
    <3> QED BY <1>0, <3>1, <3>2 DEF OneInUse, InUse
  <2>2. /\ SendTailReq(captured[logSock[s].run], TRUE, s) /\ logSock[s].st = "connecting"
        /\ UNCHANGED << terminal, msgs, task, followers, chosen, captured, logRun >>
    BY <1>6, <2>1 DEF LogOpens
  <2>3. captured[logSock[s].run] \in Options /\ logSock[s].run = logRun /\ s # 0 /\ reqId \in Nat
    BY <1>0, <2>2 DEF LogSocketTypes, LogTypes, OneInUse, LogSockets
  <2>4. /\ reqId' = reqId + 1 /\ asked'[reqId'] = captured[logRun]
        /\ reqs'[s] = Append(reqs[s], reqId')
    BY <1>0, <2>2, <2>3, RequestSent
  <2>5. WhatIsWanted'
    BY <2>2, <2>3, <2>4 DEF WhatIsWanted
  <2> QED BY <1>0, <2>2, <2>4, <2>5, ServedAnew
<1>7. ASSUME NEW r \in LogSockets, LogCloses(r) \/ Lost(r) \/ SnapshotFails(r) PROVE Served(s)'
  <2>1. logSock[s].st = "open"
    BY <1>0, <1>7 DEF LogCloses, Lost, SnapshotFails, LogSocketTypes
  <2> QED BY <1>2, <1>7, <2>1 DEF LogCloses, Lost, SnapshotFails
<1>8. ASSUME NEW r \in LogSockets, OnLogMessage(r) \/ Take(r) \/ Snapshot(r) PROVE Served(s)'
  <2>1. logSock[s].st = "open" /\ r = s
    BY <1>0, <1>1, <1>8 DEF OnLogMessage, Take, Snapshot, OneInUse
  <2> QED BY <1>0, <1>1, <1>8, <2>1, ServedMessage, ServedRequest, ServedSnapshot
<1>9. ASSUME NEW r \in LogSockets, NEW f \in followers[r], Check(r, f) \/ Breaks(r, f)
      PROVE  Served(s)'
  <2>1. /\ UNCHANGED << terminal, reqId, reqs, msgs, task >> /\ logSock[s].st = "open"
        /\ UNCHANGED << asked, chosen, captured, logRun, wsOpen >>
    BY <1>9 DEF Check, Breaks
  <2>2. \A g \in followers'[s] : \E h \in followers[s] : g.id = h.id /\ g.next = h.next
    BY <1>0, <1>9, FollowerMoves
  <2>3. WhatIsWanted'
    BY <1>1, <2>1 DEF Served, WhatIsWanted
  <2> QED BY <1>1, <2>1, <2>2, <2>3, ServedStill
<1>10. ASSUME NEW r \in LogSockets, NEW f \in followers[r], WriteLine(r, f) PROVE Served(s)'
  <2>1. logSock[s].st = "open" /\ r = s
    BY <1>0, <1>1, <1>10 DEF WriteLine, OneInUse
  <2> QED BY <1>0, <1>1, <1>10, <2>1, ServedLine
<1>11. ASSUME NEW c \in Names, Starts(c) \/ Logs(c) PROVE Served(s)'
  <2>1. logSock[s].st = "open"
    BY <1>11 DEF Starts, Logs
  <2> QED BY <1>2, <1>11, <2>1 DEF Starts, Logs
<1>12. CASE UNCHANGED logVars
  <2>1. logSock[s].st = "open"
    BY <1>12 DEF logVars
  <2> QED BY <1>2, <1>12, <2>1 DEF logVars
<1> QED BY <1>3, <1>4, <1>5, <1>6, <1>7, <1>8, <1>9, <1>10, <1>11, <1>12 DEF LogNext, FollowStep

LEMMA NextNoGap ==
  ASSUME LogInv, [LogNext]_logVars
  PROVE  NoGap'
<1>1. ASSUME NEW s \in LogSockets, OnLogMessage(s) PROVE terminal'.whole
  BY <1>1, ServedMessage DEF LogInv, NoGap, OnLogMessage
<1>2. CASE LogRerun
  BY <1>2 DEF LogRerun, Blank, NoGap
<1>3. CASE UNCHANGED terminal
  BY <1>3 DEF LogInv, NoGap
<1> QED BY <1>1, <1>2, <1>3 DEF NoGap, LogNext, Choose, Reconnect, LogOpens, LogCloses, Lost, Take,
        Snapshot, SnapshotFails, FollowStep, Check, WriteLine, Breaks, Starts, Logs, logVars

LEMMA LogInvariant == LogSpec => []LogInv
<1>1. ASSUME LogInv, [LogNext]_logVars PROVE LogInv'
  <2>1. LogSocketTypes /\ LogTypes /\ Numbered /\ OneInUse
    BY <1>1 DEF LogInv
  <2>2. LogSocketTypes' /\ OneInUse'
    BY <1>1, <2>1, NextLogSockets
  <2>3. LogTypes' /\ Numbered'
    BY <1>1, <2>1, NextLogTypes, NextNumbered
  <2>4. \A s \in LogSockets : Untouched(s)'
    BY <1>1, <2>1, NextUntouched DEF LogInv
  <2>5. \A s \in LogSockets : logSock'[s].st = "open" => Served(s)'
    BY <1>1, <2>2, NextServed
  <2>6. NoGap'
    BY <1>1, NextNoGap
  <2> QED BY <2>2, <2>3, <2>4, <2>5, <2>6 DEF LogInv
<1> QED BY <1>1, InitLog, PTL DEF LogSpec

(* The log on display has every line up to its last, whatever is logged,   *)
(* chosen, lost or asked again meanwhile, for any number of containers,    *)
(* requests and sockets (Tail.Start, sendTailReq, ws.onmessage).           *)
THEOREM NoLineIsMissing == LogSpec => []NoGap
<1>1. LogInv => NoGap
  BY DEF LogInv
<1> QED BY <1>1, LogInvariant, PTL

(* At rest the page shows the log it has asked for last; that is the one   *)
(* chosen or the one a reconnect has asked for again, unless a late close  *)
(* has cleared wsOpenRef: for any number of choices, runs of the effect    *)
(* and reconnects (sendTailReq, the effects of Log and Tail.Start).        *)
THEOREM LogIsHeeded == LogSpec => []Heeded
<1>1. LogInv => Heeded
  <2> SUFFICES ASSUME LogInv, NEW s \in LogSockets, AtRest(s)
               PROVE  terminal.id = reqId
                      /\ (wsOpen => asked[reqId] \in { chosen, captured[logRun] })
    BY DEF Heeded
  <2>1. Served(s) /\ Len(reqs[s]) = 0 /\ Len(msgs[s]) = 0 /\ ~Working(s)
    BY DEF LogInv, AtRest, Working
  <2> QED BY <2>1 DEF Served, Arrives, Requested, WhatIsWanted
<1> QED BY <1>1, LogInvariant, PTL
=============================================================================

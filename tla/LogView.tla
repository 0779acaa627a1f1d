------------------------------ MODULE LogView ------------------------------
(***************************************************************************)
(* The log of a pod's container: the component Log with its web socket,    *)
(* and the handler that tails the log.                                     *)
(*                                                                         *)
(* A choice of container or of "realtime" sends a request with a new id,   *)
(* and the page drops messages of any other id.  The effect that opens the *)
(* socket has the request function of the render it ran in: after a        *)
(* reconnect it asks for what was chosen then.  wsOpenRef is shared by all *)
(* sockets, and the close of an old one that comes late clears it.         *)
(***************************************************************************)
EXTENDS Naturals, Sequences, FiniteSets

CONSTANTS
  Containers,    \* of the pod, in the order of its status
  MaxLines,      \* bound on the lines each of them logs
  MaxLogRuns,    \* bound on the runs of the effect
  MaxLogSockets, \* bound on the sockets it opens
  MaxChoices     \* bound on what the user chooses

ASSUME LogBounds ==
  /\ MaxLogRuns \in Nat \ { 0 } /\ MaxLogSockets \in Nat \ { 0 }
  /\ Len(Containers) \in Nat \ { 0 }

Names      == { Containers[i] : i \in 1 .. Len(Containers) }
Options    == [container : Names \cup { "none" }, follow : BOOLEAN]
LogRuns    == 1 .. MaxLogRuns
LogSockets == 1 .. MaxLogSockets
Ids        == 1 .. MaxChoices + MaxLogSockets

VARIABLES
  waiting,   \* containers that wait for their start
  chosen,    \* the options on display
  logRun,    \* the current run of the effect
  captured,  \* the options that each run's sendTailReq has
  due,       \* runs whose reconnect timer is set
  asked,     \* the options of the requests made, by id
  reqId,     \* reqIdRef
  wsOpen,    \* wsOpenRef
  logRef,    \* wsRef, 0 for null
  terminal,  \* what is on display: of which request, up to which line, and
             \* whether no line before that is missing
  logSock,   \* each socket: its state and the run that opened it
  reqs,      \* requests on the way to the server, by socket
  msgs,      \* messages on the way to the page, by socket
  current,   \* the handler's currentReqId, by socket
  task,      \* the request it works on, and the line it will follow from
  followers, \* its goroutines that follow a log
  lines      \* how many lines each container has logged

logHook == << chosen, logRun, captured, due, wsOpen, logRef >>
request == << asked, reqId, reqs >>
tailer  == << current, task, followers >>
pod     == << waiting, lines >>
logVars == << logHook, request, terminal, logSock, msgs, tailer, pod >>

Blank  == [id |-> 0, upto |-> 0, whole |-> TRUE]
NoTask == [id |-> 0, now |-> 0]

-----------------------------------------------------------------------------
(* The places of the containers that can be selected: a container that    *)
(* crashes again and again is not among those that wait.                   *)
ContainerOptions == { i \in 1 .. Len(Containers) : Containers[i] \notin waiting }

(* The last of them is selected at first; none if there is none.           *)
Default(c) ==
  IF ContainerOptions = {} THEN c = "none"
  ELSE \E i \in ContainerOptions :
         c = Containers[i] /\ \A j \in ContainerOptions : j <= i

(* The server has a default of its own.                                    *)
ContainerOf(id) ==
  IF asked[id].container = "none" THEN Containers[1] ELSE asked[id].container

LogInit ==
  /\ waiting \in SUBSET Names /\ lines = [c \in Names |-> 0]
  /\ \E c \in Names \cup { "none" } :
       Default(c) /\ chosen = [container |-> c, follow |-> TRUE]
  /\ logRun = 1 /\ captured = [r \in LogRuns |-> chosen] /\ due = {}
  /\ asked = << >> /\ reqId = 0 /\ wsOpen = FALSE /\ logRef = 0 /\ terminal = Blank
  /\ logSock = [s \in LogSockets |->
                  [st |-> IF s = 1 THEN "connecting" ELSE "unused", run |-> 1]]
  /\ reqs = [s \in LogSockets |-> << >>] /\ msgs = [s \in LogSockets |-> << >>]
  /\ current = [s \in LogSockets |-> 0] /\ task = [s \in LogSockets |-> NoTask]
  /\ followers = [s \in LogSockets |-> {}]

(* sendTailReq of a render with options o: nothing without an open socket. *)
SendTailReq(o, open, ref) ==
  IF ~open THEN UNCHANGED request
  ELSE LET id == Len(asked) + 1
       IN /\ asked' = Append(asked, o) /\ reqId' = id
          /\ reqs' = IF ref # 0 /\ logSock[ref].st \in { "connecting", "open" }
                     THEN [reqs EXCEPT ![ref] = Append(@, id)] ELSE reqs

(* Another container or mode, and the effect that asks for it.             *)
Choose(o) ==
  /\ Len(asked) < MaxChoices + Cardinality({ s \in LogSockets : logSock[s].st = "open" })
  /\ o # chosen /\ o.container \in Names \ waiting
  /\ chosen' = o /\ SendTailReq(o, wsOpen, logRef)
  /\ UNCHANGED << logRun, captured, due, wsOpen, logRef, terminal, logSock, msgs, tailer, pod >>

(* The next socket.                                                        *)
Fresh(s) ==
  /\ logSock[s].st = "unused"
  /\ \A r \in LogSockets : r < s => logSock[r].st # "unused"

LogConnect(r) ==
  \E s \in LogSockets :
    Fresh(s) /\ logSock' = [logSock EXCEPT ![s] = [st |-> "connecting", run |-> r]]

(* connect, from setTimeout; it does nothing once its run has ended.       *)
Reconnect(r) ==
  /\ r \in due /\ due' = due \ { r }
  /\ IF r = logRun THEN LogConnect(r) ELSE UNCHANGED logSock
  /\ UNCHANGED << chosen, logRun, captured, wsOpen, logRef, request, terminal, msgs, tailer, pod >>

(* The dialog's address, its theme or its being open changes: cleanup and  *)
(* the next run of the effect, with a terminal of its own.                 *)
LogRerun ==
  /\ logRun < MaxLogRuns /\ logRun' = logRun + 1
  /\ captured' = [captured EXCEPT ![logRun + 1] = chosen]
  /\ \E n \in LogSockets :
       /\ Fresh(n)
       /\ logSock' = [s \in LogSockets |->
            IF s = n THEN [st |-> "connecting", run |-> logRun + 1]
            ELSE IF logSock[s].st \in { "connecting", "open" }
                 THEN [logSock[s] EXCEPT !.st = "closing"] ELSE logSock[s]]
  /\ logRef' = 0 /\ terminal' = Blank
  /\ UNCHANGED << chosen, due, wsOpen, request, msgs, tailer, pod >>

(* onopen.  It asks with the options of its run.                           *)
LogOpens(s) ==
  /\ logSock[s].st = "connecting"
  /\ logSock' = [logSock EXCEPT ![s].st = "open"]
  /\ wsOpen' = TRUE /\ logRef' = s
  /\ SendTailReq(captured[logSock[s].run], TRUE, s)
  /\ UNCHANGED << chosen, logRun, captured, due, terminal, msgs, tailer, pod >>

(* onclose.                                                                *)
LogCloses(s) ==
  /\ logSock[s].st = "closing"
  /\ logSock' = [logSock EXCEPT ![s].st = "closed"]
  /\ wsOpen' = FALSE
  /\ due' = IF logSock[s].run = logRun THEN due \cup { logRun } ELSE due
  /\ UNCHANGED << chosen, logRun, captured, logRef, request, terminal, msgs, tailer, pod >>

(* The network, or a handler that fails, ends the connection.              *)
Lost(s) ==
  /\ logSock[s].st \in { "connecting", "open" }
  /\ logSock' = [logSock EXCEPT ![s].st = "closing"]
  /\ UNCHANGED << logHook, request, terminal, msgs, tailer, pod >>

(* What a message leaves on display.                                       *)
Rendered(m) ==
  IF m.type = "replace" THEN [id |-> m.id, upto |-> m.upto, whole |-> TRUE]
  ELSE [id    |-> m.id,
        upto  |-> IF m.upto > terminal.upto THEN m.upto ELSE terminal.upto,
        whole |-> terminal.whole /\ m.upto <= terminal.upto + 1]

(* Mutant: messages of earlier requests are displayed too.                 *)
OnLogMessageOfAny(s) ==
  /\ logSock[s].st = "open" /\ msgs[s] # << >>
  /\ msgs' = [msgs EXCEPT ![s] = Tail(@)] /\ terminal' = Rendered(Head(msgs[s]))
  /\ UNCHANGED << logHook, request, logSock, tailer, pod >>

(* onmessage.                                                              *)
OnLogMessage(s) ==
  /\ logSock[s].st = "open" /\ msgs[s] # << >>
  /\ msgs' = [msgs EXCEPT ![s] = Tail(@)]
  /\ terminal' = IF Head(msgs[s]).id = reqId THEN Rendered(Head(msgs[s])) ELSE terminal
  /\ UNCHANGED << logHook, request, logSock, tailer, pod >>

-----------------------------------------------------------------------------
(* The handler, while the connection lasts.                                *)

(* The goroutine that works on requests takes the next one and looks at    *)
(* the clock.                                                              *)
Take(s) ==
  /\ logSock[s].st = "open" /\ task[s] = NoTask /\ reqs[s] # << >>
  /\ LET id == Head(reqs[s])
     IN /\ current' = [current EXCEPT ![s] = id]
        /\ task' = [task EXCEPT ![s] = [id |-> id, now |-> lines[ContainerOf(id)]]]
  /\ reqs' = [reqs EXCEPT ![s] = Tail(@)]
  /\ UNCHANGED << logHook, asked, reqId, terminal, logSock, msgs, followers, pod >>

(* A goroutine that will follow the log from a line on.                    *)
Follower(id, from) == [id |-> id, next |-> from + 1, checked |-> FALSE]

(* Mutant: it follows from when the snapshot has been written and read.    *)
SnapshotThenFollow(s) ==
  /\ logSock[s].st = "open" /\ task[s] # NoTask /\ task' = [task EXCEPT ![s] = NoTask]
  /\ LET id == task[s].id  c == ContainerOf(id)
     IN \E n \in task[s].now .. lines[c] :
          /\ msgs' = [msgs EXCEPT ![s] = Append(@, [id |-> id, type |-> "replace", upto |-> n])]
          /\ followers' = IF asked[id].follow
                          THEN [followers EXCEPT ![s] = @ \cup { Follower(id, lines[c]) }]
                          ELSE followers
  /\ UNCHANGED << logHook, request, terminal, logSock, current, pod >>

(* The log up to now, or up to what it was when the stream was opened;     *)
(* then a goroutine that follows it from when the request was taken.       *)
Snapshot(s) ==
  /\ logSock[s].st = "open" /\ task[s] # NoTask /\ task' = [task EXCEPT ![s] = NoTask]
  /\ LET id == task[s].id  c == ContainerOf(id)
     IN \E n \in task[s].now .. lines[c] :
          /\ c \notin waiting
          /\ msgs' = [msgs EXCEPT ![s] = Append(@, [id |-> id, type |-> "replace", upto |-> n])]
          /\ followers' = IF asked[id].follow
                          THEN [followers EXCEPT ![s] = @ \cup { Follower(id, task[s].now) }]
                          ELSE followers
  /\ UNCHANGED << logHook, request, terminal, logSock, current, pod >>

(* The container waits for its start: there is no log, and the handler     *)
(* ends.                                                                   *)
SnapshotFails(s) ==
  /\ logSock[s].st = "open" /\ task[s] # NoTask /\ ContainerOf(task[s].id) \in waiting
  /\ logSock' = [logSock EXCEPT ![s].st = "closing"]
  /\ UNCHANGED << logHook, request, terminal, msgs, tailer, pod >>

(* The next line: it ends, or goes on, depending on the current request.   *)
Check(s, f) ==
  /\ logSock[s].st = "open" /\ ~f.checked /\ f.next <= lines[ContainerOf(f.id)]
  /\ followers' = [followers EXCEPT ![s] = (@ \ { f }) \cup
       IF current[s] = f.id THEN { [f EXCEPT !.checked = TRUE] } ELSE {}]
  /\ UNCHANGED << logHook, request, terminal, logSock, msgs, current, task, pod >>

WriteLine(s, f) ==
  /\ logSock[s].st = "open" /\ f.checked
  /\ msgs' = [msgs EXCEPT ![s] = Append(@, [id |-> f.id, type |-> "append", upto |-> f.next])]
  /\ followers' = [followers EXCEPT ![s] = (@ \ { f }) \cup
                     { [f EXCEPT !.checked = FALSE, !.next = @ + 1] }]
  /\ UNCHANGED << logHook, request, terminal, logSock, current, task, pod >>

(* The stream breaks, or was never opened: nobody is told.                 *)
Breaks(s, f) ==
  /\ ~f.checked /\ followers' = [followers EXCEPT ![s] = @ \ { f }]
  /\ UNCHANGED << logHook, request, terminal, logSock, msgs, current, task, pod >>

-----------------------------------------------------------------------------
Starts(c) ==
  /\ c \in waiting /\ waiting' = waiting \ { c }
  /\ UNCHANGED << logHook, request, terminal, logSock, msgs, tailer, lines >>

Logs(c) ==
  /\ c \notin waiting /\ lines[c] < MaxLines /\ lines' = [lines EXCEPT ![c] = @ + 1]
  /\ UNCHANGED << logHook, request, terminal, logSock, msgs, tailer, waiting >>

FollowStep(s) == \E f \in followers[s] : Check(s, f) \/ WriteLine(s, f)

LogNext ==
  \/ \E o \in Options : Choose(o)
  \/ \E r \in LogRuns : Reconnect(r)
  \/ LogRerun
  \/ \E s \in LogSockets :
       \/ LogOpens(s) \/ LogCloses(s) \/ Lost(s) \/ OnLogMessage(s)
       \/ Take(s) \/ Snapshot(s) \/ SnapshotFails(s) \/ FollowStep(s)
       \/ \E f \in followers[s] : Breaks(s, f)
  \/ \E c \in Names : Starts(c) \/ Logs(c)

LogSpec == LogInit /\ [][LogNext]_logVars

(* The browser's event loop, the handler's goroutine for requests and      *)
(* those that follow get on with what they have; nobody has to choose      *)
(* anything, and no container has to log.                                  *)
LogFairness ==
  /\ \A r \in LogRuns : WF_logVars(Reconnect(r))
  /\ \A s \in LogSockets :
       /\ WF_logVars(LogOpens(s) \/ LogCloses(s) \/ OnLogMessage(s))
       /\ WF_logVars(Take(s) \/ Snapshot(s) \/ SnapshotFails(s))
       /\ WF_logVars(FollowStep(s))

-----------------------------------------------------------------------------
(* The types of the state.                                                 *)
LogTypeOK ==
  /\ waiting \subseteq Names /\ lines \in [Names -> 0 .. MaxLines]
  /\ chosen \in Options /\ logRun \in LogRuns /\ captured \in [LogRuns -> Options]
  /\ due \subseteq LogRuns /\ wsOpen \in BOOLEAN /\ logRef \in 0 .. MaxLogSockets
  /\ Len(asked) <= MaxChoices + MaxLogSockets /\ reqId = Len(asked)
  /\ \A s \in LogSockets :
       /\ logSock[s].st \in { "unused", "connecting", "open", "closing", "closed" }
       /\ \A f \in followers[s] : f.next <= MaxLines + 1 /\ f.id \in 1 .. Len(asked)
  /\ \A s \in LogSockets :
       logSock[s].st \in { "connecting", "open" } => logSock[s].run = logRun

(* No line is missing between those that a snapshot shows and those that   *)
(* are appended to it, whatever is logged meanwhile and whichever requests *)
(* overlap: the handler looks at the clock before it reads the snapshot,   *)
(* and the page tells requests apart (Tail.Start, ws.onmessage).           *)
NoGap == terminal.whole

(* Nothing is under way on the open socket s.                              *)
AtRest(s) ==
  /\ logSock[s].st = "open" /\ reqs[s] = << >> /\ msgs[s] = << >> /\ task[s] = NoTask
  /\ \A f \in followers[s] : ~f.checked

(* At rest the page shows the log of its last request.  It is the one      *)
(* chosen, or the one that was chosen when the effect last ran, asked for  *)
(* again by a reconnect; unless an old socket's close came after the new   *)
(* one's opening, from when on no choice is sent at all (sendTailReq and   *)
(* the effects of Log).                                                    *)
Heeded ==
  \A s \in LogSockets :
    AtRest(s) =>
      /\ terminal.id = reqId
      /\ wsOpen => asked[reqId] \in { chosen, captured[logRun] }

(* In real time: a line that is logged gets displayed, unless another      *)
(* request or a reconnect takes over or the stream breaks.                 *)
Followed(id) ==
  \E s \in LogSockets : \E f \in followers[s] : f.id = id /\ logSock[s].st = "open"

Streams ==
  \A id \in Ids, n \in 1 .. MaxLines :
    (reqId = id /\ terminal.id = id /\ Followed(id) /\ lines[ContainerOf(id)] >= n)
      ~> (terminal.upto >= n \/ reqId # id \/ ~Followed(id))
=============================================================================

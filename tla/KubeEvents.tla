----------------------------- MODULE KubeEvents -----------------------------
(***************************************************************************)
(* The events of a pod, a deployment or a namespace: the component         *)
(* KubePodEvents with its web socket, and the handlers GetPodKubeEvents    *)
(* and GetDeploymentKubeEvents, which differ in what they let through.     *)
(*                                                                         *)
(* A handler sends each event once.  The page writes them through a        *)
(* throttle, which runs the first call of a window and the last one: what  *)
(* the calls in between were to write is never written.  A new connection  *)
(* sends everything again, below what is on display.                       *)
(***************************************************************************)
EXTENDS Naturals, Sequences, FiniteSets

CONSTANTS
  MaxEvents,  \* bound on the events that pass the filter
  MaxEvConns, \* bound on the connections
  MaxTurns    \* bound on the runs of the effect

Events  == 1 .. MaxEvents
EvConns == 1 .. MaxEvConns

ASSUME EventsBounds == MaxEvents \in Nat /\ MaxEvConns \in Nat /\ MaxTurns \in Nat

VARIABLES
  orgKnown,  \* the organization has a name
  turn,      \* the run of the effect
  evSock,    \* the state of each connection and the run it belongs to
  dueAgain,  \* a reconnect timer of the run is set
  occurred,  \* how many events there are; a later one has a higher number
  informed,  \* how many of them the handler's informer has called it for
  seen,      \* what each handler has sent
  isSent,    \* whether it has sent anything
  coming,    \* messages on the way to the page
  first,     \* no message has come in this run
  window,    \* the throttle's timer runs
  trailing,  \* the call it will make then: << >>, or the events in a tuple
  written    \* how often each event is on display; "no event" counts for none

evClient == << orgKnown, turn, evSock, dueAgain, first, window, trailing, written >>
evServer == << informed, seen, isSent, coming >>
evVars   == << evClient, occurred, evServer >>

Nowhere == [e \in Events |-> 0]
FreeConn == { c \in EvConns : evSock[c].st = "unused" /\ \A d \in 1 .. c - 1 : evSock[d].st # "unused" }

EventsInit ==
  /\ orgKnown \in BOOLEAN /\ turn = 1 /\ dueAgain = FALSE /\ occurred = 0
  /\ evSock = [c \in EvConns |-> [st |-> IF c = 1 /\ orgKnown THEN "connecting" ELSE "unused",
                                turn |-> 1]]
  /\ informed = [c \in EvConns |-> 0] /\ seen = [c \in EvConns |-> {}]
  /\ isSent = [c \in EvConns |-> FALSE] /\ coming = [c \in EvConns |-> << >>]
  /\ first = TRUE /\ window = FALSE /\ trailing = << >> /\ written = Nowhere

-----------------------------------------------------------------------------
(* The page.                                                               *)

(* connect: not without the organization's name.                           *)
EventsConnect(c) ==
  evSock' = IF orgKnown THEN [evSock EXCEPT ![c] = [st |-> "connecting", turn |-> turn]] ELSE evSock

(* connect, from setTimeout.                                               *)
EventsReconnect ==
  /\ dueAgain /\ dueAgain' = FALSE
  /\ \E c \in FreeConn : EventsConnect(c)
  /\ UNCHANGED << orgKnown, turn, first, window, trailing, written, occurred, evServer >>

(* What the effect depends on changes, the name of the organization for    *)
(* one: the cleanup, which a timer outlives in vain, and another terminal. *)
EventsRerun ==
  /\ turn < MaxTurns /\ turn' = turn + 1 /\ orgKnown' = TRUE /\ dueAgain' = FALSE
  /\ \E c \in FreeConn :
       evSock' = [d \in EvConns |->
         IF d = c THEN [st |-> "connecting", turn |-> turn + 1]
         ELSE IF evSock[d].st \in { "connecting", "open" } THEN [evSock[d] EXCEPT !.st = "closing"]
         ELSE evSock[d]]
  /\ first' = TRUE /\ window' = FALSE /\ trailing' = << >> /\ written' = Nowhere
  /\ UNCHANGED << occurred, evServer >>

EventsOpen(c) ==
  /\ evSock[c].st = "connecting" /\ evSock' = [evSock EXCEPT ![c].st = "open"]
  /\ UNCHANGED << orgKnown, turn, dueAgain, first, window, trailing, written, occurred, evServer >>

(* onclose.                                                                *)
EventsClose(c) ==
  /\ evSock[c].st = "closing" /\ evSock' = [evSock EXCEPT ![c].st = "closed"]
  /\ dueAgain' = (dueAgain \/ evSock[c].turn = turn)
  /\ UNCHANGED << orgKnown, turn, first, window, trailing, written, occurred, evServer >>

EventsLost(c) ==
  /\ evSock[c].st \in { "connecting", "open" }
  /\ evSock' = [evSock EXCEPT ![c].st = "closing"]
  /\ UNCHANGED << orgKnown, turn, dueAgain, first, window, trailing, written, occurred, evServer >>

(* The lines for some events; for none the terminal is cleared.            *)
RenderEvents(es, on) ==
  IF es = {} THEN Nowhere ELSE [e \in Events |-> IF e \in es THEN on[e] + 1 ELSE on[e]]

(* Mutant: a throttle without its last call.                               *)
OnEventsLeading(c) ==
  /\ evSock[c].st = "open" /\ evSock[c].turn = turn /\ coming[c] # << >>
  /\ coming' = [coming EXCEPT ![c] = Tail(@)] /\ first' = FALSE /\ window' = TRUE
  /\ written' = IF window THEN written
                ELSE RenderEvents(Head(coming[c]), IF first THEN Nowhere ELSE written)
  /\ UNCHANGED << orgKnown, turn, evSock, dueAgain, trailing, occurred, informed, seen, isSent >>

(* onmessage: the first one of the run resets the terminal.                *)
OnEvents(c) ==
  /\ evSock[c].st = "open" /\ evSock[c].turn = turn /\ coming[c] # << >>
  /\ coming' = [coming EXCEPT ![c] = Tail(@)] /\ first' = FALSE
  /\ LET es == Head(coming[c])  on == IF first THEN Nowhere ELSE written
     IN IF window THEN trailing' = << es >> /\ written' = on /\ UNCHANGED window
        ELSE window' = TRUE /\ written' = RenderEvents(es, on) /\ UNCHANGED trailing
  /\ UNCHANGED << orgKnown, turn, evSock, dueAgain, occurred, informed, seen, isSent >>

(* Three seconds later: the last call of the window, if there were any;    *)
(* another one that comes soon after that waits again.                     *)
Throttled ==
  /\ window /\ trailing' = << >>
  /\ IF trailing = << >> THEN window' = FALSE /\ UNCHANGED written
     ELSE window' \in BOOLEAN /\ written' = RenderEvents(trailing[1], written)
  /\ UNCHANGED << orgKnown, turn, evSock, dueAgain, first, occurred, evServer >>

-----------------------------------------------------------------------------
(* The handlers.                                                           *)

(* Mutant: nothing is remembered as sent.                                  *)
EventsSendAll(c) ==
  /\ evSock[c].st = "open"
  /\ IF isSent[c] THEN informed[c] < occurred ELSE TRUE
  /\ informed' = [informed EXCEPT ![c] = IF isSent[c] THEN @ + 1 ELSE @]
  /\ isSent' = [isSent EXCEPT ![c] = TRUE] /\ seen' = seen
  /\ coming' = [coming EXCEPT ![c] = Append(@, 1 .. occurred)]
  /\ UNCHANGED << evClient, occurred >>

(* send: at first, then for each event the informer tells of, those the    *)
(* lister has already among them.  It writes what it has not sent.         *)
EventsSend(c) ==
  /\ evSock[c].st = "open"
  /\ IF isSent[c] THEN informed[c] < occurred ELSE TRUE
  /\ informed' = [informed EXCEPT ![c] = IF isSent[c] THEN @ + 1 ELSE @]
  /\ LET news == (1 .. occurred) \ seen[c]
     IN /\ seen' = [seen EXCEPT ![c] = @ \cup news]
        /\ isSent' = [isSent EXCEPT ![c] = TRUE]
        /\ coming' = IF news # {} \/ ~isSent[c]
                     THEN [coming EXCEPT ![c] = Append(@, news)] ELSE coming
  /\ UNCHANGED << evClient, occurred >>

(* There is another event.                                                 *)
Occurs ==
  /\ occurred < MaxEvents /\ occurred' = occurred + 1
  /\ UNCHANGED << evClient, evServer >>

EventsNext ==
  \/ EventsReconnect \/ EventsRerun \/ Throttled \/ Occurs
  \/ \E c \in EvConns : EventsOpen(c) \/ EventsClose(c) \/ EventsLost(c) \/ OnEvents(c) \/ EventsSend(c)

EventsSpec == EventsInit /\ [][EventsNext]_evVars

-----------------------------------------------------------------------------
(* The types of the state.                                                 *)
EventsTypeOK ==
  /\ orgKnown \in BOOLEAN /\ turn \in 1 .. MaxTurns /\ occurred \in 0 .. MaxEvents
  /\ \A c \in EvConns :
       /\ evSock[c].st \in { "unused", "connecting", "open", "closing", "closed" }
       /\ seen[c] \subseteq Events /\ informed[c] \in 0 .. occurred
  /\ written \in [Events -> 0 .. MaxEvConns]
  /\ trailing # << >> => window

(* At rest the page shows the newest event, and none is on display more    *)
(* often than the page has connected.  Events in between may be missing    *)
(* for good, for the throttle drops what came neither first nor last       *)
(* (send, ws.onmessage, renderEvents).                                     *)
EventsShown ==
  /\ \A c \in EvConns :
       (/\ evSock[c].st = "open" /\ isSent[c] /\ informed[c] = occurred
        /\ coming[c] = << >> /\ trailing = << >> /\ occurred > 0)
         => written[occurred] > 0
  /\ \A e \in Events :
       written[e] <= Cardinality({ c \in EvConns : evSock[c].st # "unused" /\ evSock[c].turn = turn })
=============================================================================

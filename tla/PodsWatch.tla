------------------------------ MODULE PodsWatch ------------------------------
(***************************************************************************)
(* The pods of one deployment, live: every page that shows them opens a    *)
(* web socket (useFetchDeploymentPods), and of the handlers that serve     *)
(* these (WsPods) one becomes the manager, listens to the informer and     *)
(* sends the pods to all connections when it finds them changed.           *)
(*                                                                         *)
(* A connection is one attempt of a viewer, a run of the hook's effect;    *)
(* its handler lives as long as it.  The pods are a view: what the lister  *)
(* returns, with no pods one of the values.                                *)
(***************************************************************************)
EXTENDS Naturals, FiniteSets

CONSTANTS
  Viewers,     \* pages on display
  MaxConns,    \* bound on the connections ever opened
  Views,       \* what the pods of the deployment can look like
  NoPods,      \* the view without any pod
  MaxChanges   \* bound on the changes of the pods

Conns  == 1 .. MaxConns
Unseen == "unseen"      \* nothing displayed, or read, yet

VARIABLES
  viewer,   \* each page: "connected", "waiting" to connect, "stopped" by an
            \* error, "left"
  conn,     \* the page's last connection, 0 at first
  podsShown, \* what it displays
  loading,  \* whether it displays its skeleton instead
  owner,    \* the page that opened a connection
  link,     \* each connection: "unused", "open", "closed" by either end
  pc,       \* each handler: "none", "joined", "read", "waiting", "claiming",
            \* "listening", "managing", "resigned", "ended"
  known,    \* a handler's podSchemas: the view it read or sent last
  conns,    \* deploymentPodsWsConns: connections that get what is sent
  managed,  \* deploymentPodsWsHasManagers
  events,   \* handlers with an informer event to deliver
  view,     \* the pods
  changes,  \* how often they have changed
  last,     \* history: the manager that has last sent a change, or 0
  own       \* history: connections that have only got their own first message

watchPage == << viewer, conn, podsShown, loading >>
wsPods    == << pc, known >>
shared    == << conns, managed >>
pods      == << view, changes >>
watchHist == << last, own >>
watchVars == << watchPage, owner, link, wsPods, shared, events, pods, watchHist >>

WatchInit ==
  /\ viewer = [v \in Viewers |-> "waiting"] /\ conn = [v \in Viewers |-> 0]
  /\ podsShown = [v \in Viewers |-> Unseen] /\ loading = [v \in Viewers |-> FALSE]
  /\ owner = [c \in Conns |-> CHOOSE v \in Viewers : TRUE] /\ link = [c \in Conns |-> "unused"]
  /\ pc = [c \in Conns |-> "none"] /\ known = [c \in Conns |-> Unseen]
  /\ conns = {} /\ managed = FALSE /\ events = {}
  /\ view \in Views /\ changes = 0 /\ last = 0 /\ own = {}

-----------------------------------------------------------------------------
(* The page.                                                               *)

Of(C) == { v \in Viewers : viewer[v] = "connected" /\ conn[v] \in C }

Display(C, w) ==
  /\ podsShown' = [v \in Viewers |-> IF v \in Of(C) THEN w ELSE podsShown[v]]
  /\ loading' = [v \in Viewers |-> loading[v] /\ v \notin Of(C)]

(* connect: the pods are loading until the first message.                  *)
Connect(v, c) ==
  /\ viewer[v] = "waiting" /\ link[c] = "unused"
  /\ \A d \in Conns : d < c => link[d] # "unused"
  /\ viewer' = [viewer EXCEPT ![v] = "connected"]
  /\ conn' = [conn EXCEPT ![v] = c] /\ loading' = [loading EXCEPT ![v] = TRUE]
  /\ link' = [link EXCEPT ![c] = "open"] /\ owner' = [owner EXCEPT ![c] = v]
  /\ UNCHANGED << podsShown, wsPods, shared, events, pods, watchHist >>

(* Mutant: the page takes every closing for its own.                       *)
OnCloseForGood(v) ==
  /\ viewer[v] = "connected" /\ link[conn[v]] = "closed"
  /\ UNCHANGED << watchPage, owner, link, wsPods, shared, events, pods, watchHist >>

(* onclose, unless the page itself has closed: try again in three seconds. *)
OnClose(v) ==
  /\ viewer[v] = "connected" /\ link[conn[v]] = "closed"
  /\ viewer' = [viewer EXCEPT ![v] = "waiting"]
  /\ UNCHANGED << conn, podsShown, loading, owner, link, wsPods, shared, events, pods, watchHist >>

(* The page is left: its effect is cleaned up.                             *)
Leave(v) ==
  /\ viewer[v] # "left" /\ viewer' = [viewer EXCEPT ![v] = "left"]
  /\ link' = [c \in Conns |-> IF c = conn[v] THEN "closed" ELSE link[c]]
  /\ UNCHANGED << conn, podsShown, loading, owner, wsPods, shared, events, pods, watchHist >>

(* An error message: the page closes, and does not try again.              *)
Stopped(C) == [v \in Viewers |-> IF v \in Of(C) THEN "stopped" ELSE viewer[v]]

Drop(c) ==
  /\ link[c] = "open" /\ link' = [link EXCEPT ![c] = "closed"]
  /\ UNCHANGED << watchPage, owner, wsPods, shared, events, pods, watchHist >>

-----------------------------------------------------------------------------
(* The handler.  It leaves with an error message if anything fails.        *)

Goto(c, from, to) == pc[c] = from /\ pc' = [pc EXCEPT ![c] = to]

(* Registered before anything is read: it may be sent to from now on.      *)
Join(c) ==
  /\ link[c] = "open" /\ Goto(c, "none", "joined")
  /\ conns' = conns \cup { c }
  /\ UNCHANGED << watchPage, owner, link, known, managed, events, pods, watchHist >>

ReadPods(c) ==
  /\ Goto(c, "joined", "read") /\ known' = [known EXCEPT ![c] = view]
  /\ UNCHANGED << watchPage, owner, link, shared, events, pods, watchHist >>

(* Its own first message, outside the lock that sends are made under.      *)
WriteFirst(c) ==
  /\ link[c] = "open" /\ Goto(c, "read", "waiting")
  /\ Display({ c }, known[c])
  /\ own' = own \cup { c }
  /\ UNCHANGED << viewer, conn, owner, link, known, shared, events, pods, last >>

Fails(c) ==
  /\ pc[c] \in { "none", "joined", "read" } /\ link[c] # "unused" /\ pc' = [pc EXCEPT ![c] = "ended"]
  /\ link' = [link EXCEPT ![c] = "closed"]
  /\ viewer' = IF link[c] = "open" THEN Stopped({ c }) ELSE viewer
  /\ UNCHANGED << conn, podsShown, loading, owner, known, shared, events, pods, watchHist >>

(* Every ten seconds, until there is no manager or the client is gone.     *)
SeeNoManager(c) ==
  /\ ~managed /\ Goto(c, "waiting", "claiming")
  /\ UNCHANGED << watchPage, owner, link, known, shared, events, pods, watchHist >>

StopWaiting(c) ==
  /\ link[c] = "closed" /\ Goto(c, "waiting", "ended")
  /\ UNCHANGED << watchPage, owner, link, known, shared, events, pods, watchHist >>

Claim(c) ==
  /\ Goto(c, "claiming", "listening") /\ managed' = TRUE
  /\ UNCHANGED << watchPage, owner, link, known, conns, events, pods, watchHist >>

(* AddEventHandler delivers an event for every pod there is.               *)
Listen(c) ==
  /\ Goto(c, "listening", "managing")
  /\ events' = IF view = NoPods THEN events ELSE events \cup { c }
  /\ UNCHANGED << watchPage, owner, link, known, shared, pods, watchHist >>

(* Mutant: whoever sends has only the connections of its own page.         *)
SendToSelf(c) ==
  /\ c \in events /\ events' = events \ { c } /\ link[c] = "open"
  /\ known' = [known EXCEPT ![c] = view] /\ Display({ c }, view)
  /\ last' = c /\ own' = own \ { c } /\ conns' = conns
  /\ UNCHANGED << viewer, conn, owner, link, pc, managed, pods >>

(* send, under the lock: to all connections, if the view is not what this  *)
(* handler knows.  What cannot be written to is taken off the list.        *)
Send(c) ==
  /\ c \in events /\ events' = events \ { c } /\ link[c] = "open"
  /\ known' = [known EXCEPT ![c] = view]
  /\ IF view = known[c] THEN UNCHANGED << podsShown, loading, last, own, conns >>
     ELSE LET live == { d \in conns : link[d] = "open" }
          IN /\ conns' = live /\ Display(live, view)
             /\ last' = c /\ own' = own \ live
  /\ UNCHANGED << viewer, conn, owner, link, pc, managed, pods >>

(* The informer goes on calling a handler that has lost its client; send   *)
(* returns at once.                                                        *)
SendNothing(c) ==
  /\ c \in events /\ events' = events \ { c } /\ link[c] = "closed"
  /\ UNCHANGED << watchPage, owner, link, wsPods, shared, pods, watchHist >>

(* Listing the pods fails: the manager's own client is told, and stops.    *)
SendFails(c) ==
  /\ c \in events /\ events' = events \ { c } /\ link[c] = "open"
  /\ viewer' = Stopped({ c }) /\ link' = [link EXCEPT ![c] = "closed"]
  /\ UNCHANGED << conn, podsShown, loading, owner, wsPods, shared, pods, watchHist >>

(* Mutant: nobody says that there is no manager any more.                  *)
ResignSilently(c) ==
  /\ link[c] = "closed" /\ Goto(c, "managing", "resigned")
  /\ UNCHANGED << watchPage, owner, link, known, shared, events, pods, watchHist >>

(* At its next tick, up to ten seconds after its client has gone.          *)
Resign(c) ==
  /\ link[c] = "closed" /\ Goto(c, "managing", "resigned") /\ managed' = FALSE
  /\ UNCHANGED << watchPage, owner, link, known, conns, events, pods, watchHist >>

(* Mutant: every handler hears of it, also those that do not manage.       *)
ChangeForAll ==
  /\ changes < MaxChanges /\ changes' = changes + 1
  /\ view' \in Views \ { view } /\ events' = conns
  /\ UNCHANGED << watchPage, owner, link, wsPods, shared, watchHist >>

(* The pods change; the informer calls every handler ever added.           *)
Change ==
  /\ changes < MaxChanges /\ changes' = changes + 1
  /\ view' \in Views \ { view }
  /\ events' = events \cup { c \in Conns : pc[c] \in { "managing", "resigned" } }
  /\ UNCHANGED << watchPage, owner, link, wsPods, shared, watchHist >>

WatchNext ==
  \/ \E v \in Viewers : OnClose(v) \/ Leave(v) \/ \E c \in Conns : Connect(v, c)
  \/ \E c \in Conns :
       \/ Drop(c) \/ Join(c) \/ ReadPods(c) \/ WriteFirst(c) \/ Fails(c)
       \/ SeeNoManager(c) \/ StopWaiting(c) \/ Claim(c) \/ Listen(c)
       \/ Send(c) \/ SendNothing(c) \/ SendFails(c) \/ Resign(c)
  \/ Change

WatchSpec == WatchInit /\ [][WatchNext]_watchVars

(* Handlers run, their tickers tick, the informer delivers, and the page's *)
(* timer fires.  Nobody has to leave, and nothing has to fail.             *)
WatchFairness ==
  /\ \A v \in Viewers : WF_watchVars(OnClose(v)) /\ WF_watchVars(\E c \in Conns : Connect(v, c))
  /\ \A c \in Conns :
       /\ WF_watchVars(Join(c) \/ ReadPods(c) \/ WriteFirst(c) \/ Claim(c) \/ Listen(c))
       /\ WF_watchVars(Send(c) \/ SendNothing(c)) /\ WF_watchVars(StopWaiting(c) \/ Resign(c))
       /\ SF_watchVars(SeeNoManager(c))

WatchFairSpec == WatchSpec /\ WatchFairness

-----------------------------------------------------------------------------
(* The state of the pages, the connections and their handlers.             *)
WatchTypeOK ==
  /\ viewer \in [Viewers -> { "connected", "waiting", "stopped", "left" }]
  /\ conn \in [Viewers -> 0 .. MaxConns] /\ owner \in [Conns -> Viewers]
  /\ { podsShown[v] : v \in Viewers } \cup { known[c] : c \in Conns } \subseteq Views \cup { Unseen }
  /\ loading \in [Viewers -> BOOLEAN] /\ managed \in BOOLEAN
  /\ link \in [Conns -> { "unused", "open", "closed" }]
  /\ \A c \in events : pc[c] \in { "managing", "resigned" }
  /\ \A c \in conns : pc[c] # "none"
  /\ last \in 0 .. MaxConns /\ conns \cup events \cup own \subseteq Conns /\ view \in Views

(* As long as the manager that sent last is there and has no event left to *)
(* deliver, every page with a connection displays the pods as they are, or *)
(* what its own handler read when it connected: that message is written    *)
(* outside the manager's lock and unknown to it, so nothing may follow it  *)
(* (send and the first WriteJSON of WsPods).  Another manager, the next or *)
(* a second one, takes what it has read itself for what all display.       *)
UpToDate ==
  last # 0 /\ link[last] = "open" /\ last \notin events =>
    \A v \in Viewers :
      LET c == conn[v] IN
      viewer[v] = "connected" /\ c \in conns /\ link[c] = "open" /\ pc[c] # "joined" =>
        podsShown[v] = view \/ c \in own \/ pc[c] = "read"

(* While a page is connected there is a manager, again and again: whoever  *)
(* resigns lets the next one in (the loop before the claim and the         *)
(* deferred release in WsPods).                                            *)
Managing(c) == pc[c] = "managing" /\ link[c] = "open"

Managed == \A c \in Conns : pc[c] = "waiting" ~> link[c] = "closed" \/ \E m \in Conns : Managing(m)

(* A page on display gets to show pods, unless an error message or the     *)
(* bound on connections stops it (onclose and connect of                   *)
(* useFetchDeploymentPods, the first message of WsPods).                   *)
Loads ==
  \A v \in Viewers :
    viewer[v] = "waiting" ~> \/ viewer[v] = "connected" /\ ~loading[v]
                             \/ viewer[v] \in { "stopped", "left" }
                             \/ \A c \in Conns : link[c] # "unused"
=============================================================================

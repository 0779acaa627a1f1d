---------------------------- MODULE Subscription ----------------------------
(***************************************************************************)
(* The live updates of a page: the hook useSubscription keeps a web socket *)
(* to the server, the page subscribes the resources that its last query    *)
(* returned, the server polls the database and pushes what has changed     *)
(* since it last pushed it, and the page merges that into the query's      *)
(* cached result.                                                          *)
(*                                                                         *)
(* The hook runs its effect again when the organization changes (it is     *)
(* part of the socket's address, and unknown when the page is loaded).     *)
(* Every run of the effect has its own selfClose and its own retry timer,  *)
(* while wsRef and cbItemsRef are shared by all.                           *)
(***************************************************************************)
EXTENDS Naturals, Sequences, FiniteSetsExt

CONSTANTS
  Pages,       \* components that show live resources
  Uids,        \* resources
  TypeOf,      \* the type of each
  MaxVersion,  \* bound on the versions of a resource
  MaxRuns,     \* bound on the runs of the hook's effect
  MaxSockets,  \* bound on the sockets it opens
  MaxQueries   \* bound on the queries of the page

ASSUME SubBounds ==
  IsFiniteSet(Uids) /\ MaxRuns \in Nat \ { 0 } /\ MaxSockets \in Nat \ { 0 }

(* What a page subscribes, and whether a push gives its list a new array   *)
(* (so that it unsubscribes and subscribes again) or not.                  *)
Live(types, again) == [types |-> types, again |-> again]

DeploymentListCard     == Live({ "deployment" }, TRUE)
DeploymentLayout       == Live({ "deployment" }, FALSE)
BentoList              == Live({ "bento" }, TRUE)
BentoFlatListCard      == Live({ "bento" }, TRUE)
BentoRepositoryListCard == Live({ "bento", "deployment" }, TRUE)
ModelList              == Live({ "model" }, TRUE)
ModelListCard          == Live({ "model" }, TRUE)
ModelFlatListCard      == Live({ "model" }, TRUE)

Component(p) ==
  CASE p = "DeploymentListCard"      -> DeploymentListCard
    [] p = "DeploymentLayout"        -> DeploymentLayout
    [] p = "BentoList"               -> BentoList
    [] p = "BentoFlatListCard"       -> BentoFlatListCard
    [] p = "BentoRepositoryListCard" -> BentoRepositoryListCard
    [] p = "ModelList"               -> ModelList
    [] p = "ModelListCard"           -> ModelListCard
    [] p = "ModelFlatListCard"       -> ModelFlatListCard

AllPages == { "DeploymentListCard", "DeploymentLayout", "BentoList",
  "BentoFlatListCard", "BentoRepositoryListCard", "ModelList", "ModelListCard",
  "ModelFlatListCard" }

ResourceType == { "bento", "deployment", "model" }

Runs     == 1 .. MaxRuns
Sockets  == 1 .. MaxSockets
None     == 0
Versions == [Uids -> 0 .. MaxVersion]
Nothing  == [u \in Uids |-> None]

VARIABLES
  page,      \* the component on display
  db,        \* version of each resource
  shown,     \* version of each that is on display, or None
  fetch,     \* the query under way: "none", "asked" or "read"
  result,    \* what it has read
  queries,   \* how many queries there have been
  run,       \* the current run of the effect, None once the page is left
  selfClose, \* each run's flag
  timers,    \* runs whose retry timer is set
  socket,    \* each socket: "unused", "connecting", "open", "closing", "closed"
  runOf,     \* the run that opened it
  wsRef,     \* the hook's socket, or None
  cbItems,   \* what the hook has registered: resources by type
  up,        \* messages on the way to the server, by socket
  down,      \* messages on the way to the page
  subs,      \* the server's resourceUidsMap, by socket
  cache,     \* its schemasCache: the version last pushed
  sending,   \* sockets whose poll is under way
  read,      \* what it has read, by socket
  received,  \* history: the newest version that was pushed to the page
  overtaken, \* history: resources whose display is behind a push, for an
             \* older answer came after it or they were not registered then
  pending    \* history: runs torn down while their retry timer was set

display == << shown, received, overtaken >>
query   == << fetch, result, queries >>
hook    == << run, selfClose, timers, runOf, pending >>
subLink == << socket, wsRef >>
server  == << subs, cache, sending, read >>
subVars == << page, db, display, query, hook, subLink, cbItems, up, down, server >>

Types    == Component(page).types
OfType(t) == { u \in Uids : TypeOf[u] = t }
Item(t, S) == [type |-> t, uids |-> S \cap OfType(t)]
Listed   == { u \in Uids : shown[u] # None }
Free(s)  == socket[s] = "unused" /\ \A r \in Sockets : r < s => socket[r] # "unused"

SubInit ==
  /\ page \in Pages
  /\ db = [u \in Uids |-> 1] /\ shown = Nothing
  /\ fetch = "asked" /\ result = Nothing /\ queries = 1
  /\ run = 1 /\ selfClose = [e \in Runs |-> FALSE] /\ timers = {} /\ pending = {}
  /\ socket = [s \in Sockets |-> IF s = 1 THEN "connecting" ELSE "unused"]
  /\ runOf = [s \in Sockets |-> 1] /\ wsRef = None /\ cbItems = {}
  /\ up = [s \in Sockets |-> << >>] /\ down = [s \in Sockets |-> << >>]
  /\ subs = [s \in Sockets |-> {}] /\ cache = [s \in Sockets |-> Nothing]
  /\ sending = {} /\ read = [s \in Sockets |-> Nothing]
  /\ received = Nothing /\ overtaken = {}

ChangeResource(u) ==
  /\ TypeOf[u] \in Types /\ db[u] < MaxVersion
  /\ db' = [db EXCEPT ![u] = @ + 1]
  /\ UNCHANGED << page, display, query, hook, subLink, cbItems, up, down, server >>

-----------------------------------------------------------------------------
(* The hook's unsubscribe(old) and then subscribe(new), of every type of   *)
(* the page; both do nothing while the hook has no socket.                 *)
UidsOf(items, t) == UNION { i.uids : i \in { j \in items : j.type = t } }

Kept(old) == cbItems \ { Item(t, old) : t \in Types }

Resubscriptions(old, new, messages) ==
  LET Messages(t) ==
        << [action |-> "unsubscribe", uids |-> UidsOf(cbItems, t) \ UidsOf(Kept(old), t)],
           [action |-> "subscribe", uids |-> new \cap OfType(t)] >>
  IN FoldSet(LAMBDA t, m : m \o Messages(t), messages, Types)

Resubscribe(old, new) ==
  IF wsRef = None THEN UNCHANGED << cbItems, up >>
  ELSE /\ cbItems' = Kept(old) \cup { Item(t, new) : t \in Types }
       /\ up' = [up EXCEPT ![wsRef] = Resubscriptions(old, new, @)]

(* Ask again: on focus, or after a command.  A query that is under way     *)
(* serves both.                                                            *)
Refetch ==
  /\ run # None /\ fetch = "none" /\ queries < MaxQueries
  /\ fetch' = "asked" /\ queries' = queries + 1 /\ UNCHANGED result
  /\ UNCHANGED << page, db, display, hook, subLink, cbItems, up, down, server >>

(* Another page of the list, another filter: another key of the cache.     *)
Turn ==
  /\ run # None /\ queries < MaxQueries
  /\ fetch' = "asked" /\ result' = Nothing /\ queries' = queries + 1
  /\ shown' = Nothing /\ overtaken' = {}
  /\ Resubscribe(Listed, {})
  /\ UNCHANGED << page, db, received, hook, subLink, down, server >>

QueryReads ==
  /\ fetch = "asked" /\ fetch' = "read"
  /\ \E S \in SUBSET { u \in Uids : TypeOf[u] \in Types } :
       result' = [u \in Uids |-> IF u \in S THEN db[u] ELSE None]
  /\ UNCHANGED << page, db, display, queries, hook, subLink, cbItems, up, down, server >>

(* The result replaces what is cached.  Unless it is the same, the page's  *)
(* list is another array.                                                  *)
QueryReturns ==
  /\ fetch = "read" /\ run # None
  /\ fetch' = "none" /\ shown' = result /\ result' = Nothing
  /\ overtaken' = { u \in Uids : result[u] # None /\ result[u] < received[u] }
  /\ LET new == { u \in Uids : result[u] # None }
     IN IF result = shown \/ (~Component(page).again /\ Listed = new)
          THEN UNCHANGED << cbItems, up >> ELSE Resubscribe(Listed, new)
  /\ UNCHANGED << page, db, received, queries, hook, subLink, down, server >>

(* onmessage: the callbacks registered for the resource merge it into the  *)
(* cached result, if it is there.                                          *)
OnMessage(s) ==
  /\ socket[s] = "open" /\ down[s] # << >>
  /\ down' = [down EXCEPT ![s] = Tail(@)]
  /\ LET u == Head(down[s]).uid
         v == Head(down[s]).version
         shows == shown[u] # None /\ run # None /\ u \in UidsOf(cbItems, TypeOf[u])
     IN /\ received' = [received EXCEPT ![u] = IF v > @ THEN v ELSE @]
        /\ IF ~shows
           THEN /\ overtaken' = IF shown[u] # None /\ shown[u] < v THEN overtaken \cup { u } ELSE overtaken
                /\ UNCHANGED << shown, cbItems, up >>
           ELSE /\ shown' = [shown EXCEPT ![u] = v]
                /\ overtaken' = IF v < received[u] THEN overtaken \cup { u } ELSE overtaken \ { u }
                /\ IF Component(page).again THEN Resubscribe(Listed, Listed)
                   ELSE UNCHANGED << cbItems, up >>
  /\ UNCHANGED << page, db, query, hook, subLink, server >>

-----------------------------------------------------------------------------
(* The hook's socket opens: subscribe all that is registered.              *)
Subscribe(items, messages) ==
  FoldSet(LAMBDA i, m : Append(m, [action |-> "subscribe", uids |-> i.uids]), messages, items)

OnOpen(s) ==
  /\ socket[s] = "connecting"
  /\ socket' = [socket EXCEPT ![s] = "open"] /\ wsRef' = s
  /\ up' = [up EXCEPT ![s] = Subscribe(cbItems, @)]
  /\ UNCHANGED << page, db, display, query, hook, cbItems, down, server >>

(* What was on its way is lost, and the server's handler ends.             *)
Cut(S) ==
  /\ socket' = [s \in Sockets |-> IF s \in S THEN "closed" ELSE socket[s]]
  /\ up' = [s \in Sockets |-> IF s \in S THEN << >> ELSE up[s]]
  /\ down' = [s \in Sockets |-> IF s \in S THEN << >> ELSE down[s]]
  /\ subs' = [s \in Sockets |-> IF s \in S THEN {} ELSE subs[s]]
  /\ cache' = [s \in Sockets |-> IF s \in S THEN Nothing ELSE cache[s]]
  /\ sending' = sending \ S
  /\ read' = [s \in Sockets |-> IF s \in S THEN Nothing ELSE read[s]]

(* onclose: whichever socket it was, the hook has none now.                *)
OnSocketClose(S) ==
  /\ wsRef' = None
  /\ timers' = timers \cup { e \in { runOf[s] : s \in S } : ~selfClose[e] }
  /\ UNCHANGED << run, selfClose, runOf, pending >>

Alive == { s \in Sockets : socket[s] \in { "connecting", "open", "closing" } }

Close(s) ==
  /\ s \in Alive
  /\ Cut({ s }) /\ OnSocketClose({ s })
  /\ UNCHANGED << page, db, display, query, cbItems >>

(* Mutant: the timer only fires while the page has no socket.              *)
RetryOnce(e) ==
  /\ e \in timers /\ timers' = timers \ { e }
  /\ wsRef # None
  /\ socket' = [socket EXCEPT ![wsRef] = "closing"]
  /\ UNCHANGED << page, db, display, query, run, selfClose, runOf, wsRef, pending,
                  cbItems, up, down, server >>

(* connect, from the retry timer of a run: close the hook's socket if it   *)
(* has one, else open another.                                             *)
Retry(e) ==
  /\ e \in timers /\ timers' = timers \ { e }
  /\ \/ /\ wsRef # None
        /\ socket' = [socket EXCEPT ![wsRef] = "closing"]
        /\ UNCHANGED << selfClose, runOf >>
     \/ \E s \in Sockets :
        /\ wsRef = None /\ Free(s)
        /\ socket' = [socket EXCEPT ![s] = "connecting"]
        /\ runOf' = [runOf EXCEPT ![s] = e]
        /\ selfClose' = [selfClose EXCEPT ![e] = FALSE]
  /\ UNCHANGED << page, db, display, query, run, wsRef, pending, cbItems, up, down, server >>

(* The variable ws of a run: the last socket it has opened.                *)
LastOf(e) ==
  { s \in Sockets : /\ runOf[s] = e /\ socket[s] # "unused"
                    /\ \A r \in Sockets : runOf[r] = e /\ socket[r] # "unused" => r <= s }

Closing(S) == [s \in Sockets |->
  IF s \in S /\ socket[s] \in { "connecting", "open" } THEN "closing" ELSE socket[s]]

(* Mutant: selfClose is forgotten.                                         *)
TeardownSilently ==
  /\ UNCHANGED << selfClose, timers >> /\ wsRef' = None
  /\ pending' = pending \cup (timers \cap { run })

(* The cleanup of the effect.  A retry timer stays set.                    *)
Teardown ==
  /\ selfClose' = [selfClose EXCEPT ![run] = TRUE] /\ wsRef' = None
  /\ pending' = pending \cup (timers \cap { run })
  /\ UNCHANGED timers

(* The organization changes, or becomes known: cleanup and another run.    *)
Rerun ==
  /\ run # None /\ run < MaxRuns
  /\ Teardown
  /\ run' = run + 1
  /\ \E s \in Sockets :
       /\ Free(s)
       /\ socket' = [Closing(LastOf(run)) EXCEPT ![s] = "connecting"]
       /\ runOf' = [runOf EXCEPT ![s] = run + 1]
  /\ UNCHANGED << page, db, display, query, cbItems, up, down, server >>

(* The page is left.  The hook has let go of its socket before the page    *)
(* unsubscribes, so nothing is sent.                                       *)
LeavePage ==
  /\ run # None
  /\ Teardown
  /\ run' = None /\ socket' = Closing(LastOf(run))
  /\ UNCHANGED << page, db, display, query, runOf, cbItems, up, down, server >>

-----------------------------------------------------------------------------
(* The server's reader.                                                    *)
Handle(s) ==
  /\ socket[s] \in { "open", "closing" } /\ up[s] # << >>
  /\ up' = [up EXCEPT ![s] = Tail(@)]
  /\ LET m == Head(up[s])
     IN subs' = [subs EXCEPT ![s] =
          IF m.action = "subscribe" THEN @ \cup m.uids ELSE @ \ m.uids]
  /\ UNCHANGED << page, db, display, query, hook, subLink, cbItems, down, cache, sending, read >>

(* It writes the map that send ranges over without the lock: the runtime   *)
(* may end the process, and with it every connection.                      *)
ConcurrentMapWrite(s) ==
  /\ s \in Alive /\ up[s] # << >> /\ s \in sending
  /\ Cut(Alive) /\ OnSocketClose(Alive)
  /\ UNCHANGED << page, db, display, query, cbItems >>

(* send: every ten seconds read what is subscribed (one that finds nothing *)
(* new does nothing) ...                                                   *)
SendReads(s) ==
  /\ socket[s] = "open" /\ s \notin sending
  /\ \E u \in subs[s] : cache[s][u] # db[u]
  /\ sending' = sending \cup { s }
  /\ read' = [read EXCEPT ![s] = [u \in Uids |-> IF u \in subs[s] THEN db[u] ELSE None]]
  /\ UNCHANGED << page, db, display, query, hook, subLink, cbItems, up, down, subs, cache >>

News(s, c) == { u \in Uids : read[s][u] # None /\ c[u] # read[s][u] }

Push(s, order) == [down EXCEPT ![s] =
  @ \o [i \in DOMAIN order |-> [uid |-> order[i], version |-> read[s][order[i]]]]]

(* Go ranges over a map, and the database lists, in any order.             *)
Orders(S) ==
  { order \in [1 .. Cardinality(S) -> S] : \A u \in S : \E i \in DOMAIN order : order[i] = u }

(* Mutant: connections share the cache.                                    *)
SendWritesOnce(s) ==
  /\ s \in sending /\ socket[s] = "open"
  /\ cache' = [cache EXCEPT ![s] = [u \in Uids |-> IF read[s][u] # None THEN read[s][u] ELSE @[u]]]
  /\ LET news == { u \in News(s, cache[s]) : \A r \in Sockets : cache[r][u] # read[s][u] }
     IN \E order \in Orders(news) : down' = Push(s, order)
  /\ sending' = sending \ { s } /\ read' = [read EXCEPT ![s] = Nothing]
  /\ UNCHANGED << page, db, display, query, hook, subLink, cbItems, up, subs >>

(* ... and push what differs from what was last pushed on the connection.  *)
SendWrites(s) ==
  /\ s \in sending /\ socket[s] = "open"
  /\ cache' = [cache EXCEPT ![s] = [u \in Uids |-> IF read[s][u] # None THEN read[s][u] ELSE @[u]]]
  /\ \E order \in Orders(News(s, cache[s])) : down' = Push(s, order)
  /\ sending' = sending \ { s } /\ read' = [read EXCEPT ![s] = Nothing]
  /\ UNCHANGED << page, db, display, query, hook, subLink, cbItems, up, subs >>

SubNext ==
  \/ \E u \in Uids : ChangeResource(u)
  \/ Refetch \/ Turn \/ QueryReads \/ QueryReturns
  \/ \E s \in Sockets :
       OnMessage(s) \/ OnOpen(s) \/ Close(s) \/ Handle(s) \/ ConcurrentMapWrite(s)
         \/ SendReads(s) \/ SendWrites(s)
  \/ \E e \in Runs : Retry(e)
  \/ Rerun \/ LeavePage

SubSpec == SubInit /\ [][SubNext]_subVars

(* The browser ends what it has begun, and its timers fire.                *)
SubFairness ==
  /\ \A s \in Sockets : WF_subVars(OnOpen(s)) /\ WF_subVars(socket[s] = "closing" /\ Close(s))
  /\ \A e \in Runs : WF_subVars(Retry(e))

SubFairSpec == SubSpec /\ SubFairness

-----------------------------------------------------------------------------
(* The state of the hook, the page and the server's handlers.              *)
SubTypeOK ==
  /\ page \in Pages /\ { db, shown, received, result } \subseteq Versions
  /\ fetch \in { "none", "asked", "read" } /\ queries \in 1 .. MaxQueries
  /\ run \in { None } \cup Runs /\ wsRef \in { None } \cup Sockets
  /\ timers \cup pending \subseteq Runs /\ overtaken \subseteq Uids
  /\ selfClose \in [Runs -> BOOLEAN] /\ runOf \in [Sockets -> Runs]
  /\ socket \in [Sockets -> { "unused", "connecting", "open", "closing", "closed" }]
  /\ \A i \in cbItems : i.type \in Types /\ i.uids \subseteq OfType(i.type)
  /\ subs \in [Sockets -> SUBSET Uids] /\ cache \in [Sockets -> Versions]
  /\ sending \subseteq Sockets /\ read \in [Sockets -> Versions]

(* A page shows the current version of a resource once every connection    *)
(* that has it subscribed has pushed that version and the page has got it, *)
(* unless an older answer came after a newer one (a query's result that    *)
(* was read before the push, or a push of another socket of the hook) or   *)
(* the page listed it while the hook had no socket to register it with     *)
(* (SubscribeResource, useSubscription and the merge in subscribeCb).      *)
Caught(s, u) == socket[s] = "open" /\ u \in subs[s] /\ cache[s][u] = db[u]

Behind(s, u) ==
  /\ s \in Alive
  /\ \/ u \in subs[s] /\ cache[s][u] # db[u]
     \/ \E i \in DOMAIN down[s] : down[s][i].uid = u

ShowsCurrent ==
  run # None => \A u \in Listed :
    (\E s \in Sockets : Caught(s, u)) /\ (\A s \in Sockets : ~Behind(s, u))
      => shown[u] = db[u] \/ u \in overtaken

(* A connection that a run of the effect still keeps after its cleanup was *)
(* opened by a retry timer that had been set before: the cleanup leaves it *)
(* set, and connect takes selfClose back.                                  *)
Orphans == \A s \in Sockets :
  socket[s] \in { "connecting", "open" } /\ runOf[s] # run => runOf[s] \in pending

(* A page on display gets a connection again, whichever of the hook's runs *)
(* lost or closed the one before (onclose and connect of useSubscription), *)
(* as long as the model has a socket left to open.                         *)
Reconnects ==
  run # None ~> \/ \E s \in Sockets : socket[s] = "open"
                \/ run = None \/ ~\E s \in Sockets : Free(s)
=============================================================================

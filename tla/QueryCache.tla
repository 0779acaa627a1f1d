----------------------------- MODULE QueryCache -----------------------------
(***************************************************************************)
(* A component of the dashboard with one of its queries, the cache of      *)
(* answers, and one of its commands: react-query as the dashboard uses it, *)
(* with its defaults.                                                      *)
(*                                                                         *)
(* The cache goes by keys.  A component that comes on display, or whose    *)
(* key changes, or that is focused, shows what the cache has under its key *)
(* and asks anew, but for one key there is one request at a time: whoever  *)
(* asks meanwhile gets the answer of that.  An answer is known here by the *)
(* parameters it was asked with and by the version of what it tells.       *)
(***************************************************************************)
EXTENDS Naturals, FiniteSets, DashboardPages

CONSTANT MaxMoves \* bound on the changes of a parameter

VARIABLES
  subject,  \* the view, its query and its command (none: << >> for steps)
  params,   \* the value of each parameter, 1 or 2
  store,    \* the answers in the cache, at most one for a key
  asking,   \* requests under way, at most one for a key
  broken,   \* keys whose last request failed
  version,  \* the version of the data of the server
  held,     \* what the component keeps in the global state, in a set
  box,     \* of the command: "none", "open", "busy", "done"
  command,  \* what is left to do, with which parameters, and how it went
  moves     \* how often a parameter has changed

cacheVars == << subject, params, store, asking, broken, version, held, box, command, moves >>

NoCommand == Command("none", "", << >>)

(* A view's commands concern one query each.                               *)
Subjects ==
  UNION { UNION { { [view |-> v, read |-> r, command |-> c] :
                      c \in LET own == { d \in v.commands : d.query = r.name }
                            IN IF own = {} THEN { NoCommand } ELSE own } :
                  r \in v.reads } : v \in AllViews }

R          == subject.read
Parameters == R.by \cup R.call
KeyOf(ps)  == [p \in R.by |-> ps[p]]
Idle       == [todo |-> << >>, with |-> params, joined |-> FALSE, failed |-> FALSE, wrote |-> 0]

(* What the component displays: at most one answer.                        *)
Shown == { d \in store : d.key = KeyOf(params) }

Ask(k, ps) ==
  IF \E f \in asking : f.key = k THEN asking
  ELSE asking \cup { [key |-> k, with |-> ps, read |-> FALSE, version |-> 0] }

CacheInit ==
  /\ subject \in Subjects /\ params = [p \in Parameters |-> 1]
  /\ store = {} /\ broken = {} /\ version = 0 /\ held = {} /\ moves = 0
  /\ asking = { [key |-> KeyOf(params), with |-> params, read |-> FALSE, version |-> 0] }
  /\ box = "none" /\ command = Idle

-----------------------------------------------------------------------------
(* The window gets the focus, or the network is back, or the table asks    *)
(* again after another page was chosen.                                    *)
Focus ==
  /\ asking' = Ask(KeyOf(params), params) /\ asking' # asking
  /\ UNCHANGED << subject, params, store, broken, version, held, box, command, moves >>

(* Another page of a list, or another organization in the header, while    *)
(* the component stays.                                                    *)
Turn(p) ==
  /\ p \in Parameters \cap { "query", "org" } /\ moves < MaxMoves /\ moves' = moves + 1
  /\ box \in { "none", "done" } /\ box' = "none"
  /\ params' = [params EXCEPT ![p] = 3 - @]
  /\ asking' = IF KeyOf(params') = KeyOf(params) THEN asking ELSE Ask(KeyOf(params'), params')
  /\ command' = IF command.with = params THEN [command EXCEPT !.with = params'] ELSE command
  /\ UNCHANGED << subject, store, broken, version, held >>

(* The same component for something else: it is gone and comes again; what *)
(* its command has left to do is done all the same, with the old           *)
(* parameters.  The global state stays until something is put into it.     *)
Visit(p) ==
  /\ p \in Parameters \ { "query", "org" } /\ moves < MaxMoves /\ moves' = moves + 1
  /\ params' = [params EXCEPT ![p] = 3 - @]
  /\ asking' = Ask(KeyOf(params'), params') /\ box' = "none"
  /\ UNCHANGED << subject, store, broken, version, held, command >>

(* The server reads what it is asked for.                                  *)
ServerReads(f) ==
  /\ ~f.read
  /\ asking' = (asking \ { f }) \cup { [f EXCEPT !.read = TRUE, !.version = version] }
  /\ UNCHANGED << subject, params, store, broken, version, held, box, command, moves >>

(* Whoever waits for the request of a key goes on when it ends.            *)
Awakened(k, failed) ==
  IF command.todo # << >> /\ Head(command.todo) = "await" /\ KeyOf(command.with) = k
  THEN [command EXCEPT !.todo = Tail(@), !.failed = failed] ELSE command

Answered(f) ==
  /\ f.read /\ asking' = asking \ { f } /\ broken' = broken \ { f.key }
  /\ store' = { d \in store : d.key # f.key }
              \cup { [key |-> f.key, with |-> f.with, version |-> f.version] }
  /\ command' = Awakened(f.key, FALSE)
  /\ UNCHANGED << subject, params, version, held, box, moves >>

(* After its retries; what the cache has under the key stays.              *)
Failed(f) ==
  /\ asking' = asking \ { f } /\ broken' = broken \cup { f.key }
  /\ command' = Awakened(f.key, TRUE)
  /\ UNCHANGED << subject, params, store, version, held, box, moves >>

-----------------------------------------------------------------------------
(* What the effect of a layout leaves in the global state: "any" answer    *)
(* that is on display, or only one about "another" thing.  It empties it   *)
(* while there is none, unless that is for an error.                       *)
Keep ==
  IF R.keeps = "nothing" THEN held
  ELSE IF Shown = {} THEN IF R.keeps = "another" /\ KeyOf(params) \in broken THEN held ELSE {}
  ELSE IF R.keeps = "another" /\ (\E d \in Shown, h \in held : h.with = d.with) THEN held
  ELSE Shown

Effect ==
  /\ held # Keep /\ held' = Keep
  /\ UNCHANGED << subject, params, store, asking, broken, version, box, command, moves >>

-----------------------------------------------------------------------------
OpenForm ==
  /\ subject.command # NoCommand /\ command.todo = << >> /\ version = 0
  /\ box \in { "none", "done" } /\ box' = "open"
  /\ UNCHANGED << subject, params, store, asking, broken, version, held, command, moves >>

CloseForm ==
  /\ box \in { "open", "busy" } /\ box' = "none"
  /\ UNCHANGED << subject, params, store, asking, broken, version, held, command, moves >>

Submit ==
  /\ box = "open" /\ box' = "busy"
  /\ command' = [Idle EXCEPT !.todo = subject.command.steps]
  /\ UNCHANGED << subject, params, store, asking, broken, version, held, moves >>

Next1(step) == command.todo # << >> /\ Head(command.todo) = step

Write ==
  /\ Next1("write") /\ version' = version + 1
  /\ command' = [command EXCEPT !.todo = Tail(@), !.wrote = version + 1]
  /\ UNCHANGED << subject, params, store, asking, broken, held, box, moves >>

(* An error of the server: nothing that follows is done.                   *)
WriteFails ==
  /\ Next1("write") /\ command' = [command EXCEPT !.todo = << >>]
  /\ box' = IF box = "busy" THEN "open" ELSE box
  /\ UNCHANGED << subject, params, store, asking, broken, version, held, moves >>

Refetch ==
  /\ Next1("refetch")
  /\ asking' = Ask(KeyOf(command.with), command.with)
  /\ command' = [command EXCEPT !.todo = Tail(@), !.joined = asking' = asking]
  /\ UNCHANGED << subject, params, store, broken, version, held, box, moves >>

(* The answer to the write, put into the global state.                     *)
KeepWritten ==
  /\ Next1("keep")
  /\ held' = { [key |-> KeyOf(command.with), with |-> command.with, version |-> command.wrote] }
  /\ command' = [command EXCEPT !.todo = Tail(@)] /\ box' = IF box = "busy" THEN "done" ELSE box
  /\ UNCHANGED << subject, params, store, asking, broken, version, moves >>

Close ==
  /\ Next1("close") /\ box' = IF box = "busy" THEN "done" ELSE box
  /\ command' = [command EXCEPT !.todo = Tail(@)]
  /\ UNCHANGED << subject, params, store, asking, broken, version, held, moves >>

CacheNext ==
  \/ Focus \/ Effect \/ OpenForm \/ CloseForm \/ Submit
  \/ Write \/ WriteFails \/ Refetch \/ KeepWritten \/ Close
  \/ \E p \in Parameters : Turn(p) \/ Visit(p)
  \/ \E f \in asking : ServerReads(f) \/ Answered(f) \/ Failed(f)

CacheSpec == CacheInit /\ [][CacheNext]_cacheVars

-----------------------------------------------------------------------------
(* The types of the state.                                                 *)
CacheTypeOK ==
  /\ subject.read \in subject.view.reads /\ params \in [Parameters -> { 1, 2 }] /\ version \in 0 .. 1
  /\ \A d \in store : d.version <= version /\ d.with \in [Parameters -> { 1, 2 }]
  /\ \A d, e \in store : d.key = e.key => d = e
  /\ \A f, g \in asking : f.key = g.key => f = g
  /\ box \in { "none", "open", "busy", "done" } /\ Cardinality(held) <= 1

(* No request for what is on display is under way, the last one succeeded, *)
(* and the effects have run.                                               *)
AtRest ==
  /\ Shown # {} /\ KeyOf(params) \notin broken /\ held = Keep
  /\ \A f \in asking : f.key # KeyOf(params)

(* At rest a component shows the answer to what it would ask now, and so   *)
(* does the global state.  The keys of some queries leave something out:   *)
(* the organization, which may be another one in the header; and the       *)
(* namespace of terminal records, so that who comes from a deployment of   *)
(* the same name gets the answer that is still under way for that.         *)
OwnData ==
  AtRest =>
    \A d \in Shown \cup held, p \in Parameters :
      \/ d.with[p] = params[p]
      \/ p = "org" /\ "org" \notin R.by
      \/ p = "namespace" /\ R.name = "fetchDeploymentTerminalRecords"

(* A dialog that has closed by itself has done what it was for; and if the *)
(* command asks anew before that, what it has written is on display, but   *)
(* for a request that failed or was under way already.                     *)
ReadsOwnWrite ==
  box = "done" =>
    /\ command.wrote > 0
    /\ (subject.command.steps = Awaited /\ ~command.joined /\ ~command.failed)
         => \E d \in Shown : d.version >= command.wrote
=============================================================================

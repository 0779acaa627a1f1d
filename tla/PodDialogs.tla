------------------------------ MODULE PodDialogs ------------------------------
(***************************************************************************)
(* The pages that list pods, and the dialogs that are opened from them: a  *)
(* pod's log, its events, a terminal or a debug terminal in one of its     *)
(* containers.  The pods are pushed (module PodsWatch) while a dialog is   *)
(* open.  A table (PodList) keeps its dialogs itself; of a row of balls    *)
(* (PodStatuses) every ball keeps its own, and a ball is known by its      *)
(* place in the row, not by its pod.                                       *)
(***************************************************************************)
EXTENDS Naturals, SequencesExt

CONSTANTS
  Pods,          \* names of pods, with the other constants about them
  Order(_, _),   \* which of two names comes first
  RunnerOf,      \* the runner of each, or ApiServer
  ApiServer,
  StatusOf,      \* their status
  Old,           \* pods of an older revision
  Canary,        \* pods of a canary target
  Debug,         \* pods with the label of a debug target
  ContainersOf,  \* the containers of each pod
  Replicas,      \* the number of replicas a row of balls is for
  NoPod

(* Status as getKubePodActualStatus of the server gives it.                *)
PodStatus == { "Pending", "Running", "Succeeded", "Failed", "Unknown", "Terminating" }

VARIABLES
  page,     \* the page on display
  pods,     \* the pods it has got last
  loading,  \* whether its socket has yet to bring the first message
  known,    \* whether organization and cluster are known
  traffic,  \* runners whose debug pods receive production traffic
  dialog    \* the dialog that is open, or Closed

vars == << page, pods, loading, known, traffic, dialog >>

-----------------------------------------------------------------------------
(* The pages: how they list pods, and the state of loading they begin in.  *)
Listing(table, grouped, loads) == [table |-> table, grouped |-> grouped, loads |-> loads]

DeploymentReplicas   == Listing(TRUE, TRUE, FALSE)
BuilderPods          == Listing(TRUE, FALSE, FALSE)
KubeResourceDetail   == Listing(TRUE, FALSE, FALSE)
KubeResourcePodStatuses == Listing(FALSE, FALSE, TRUE)

ListingOf(g) ==
  CASE g = "replicas" -> DeploymentReplicas
    [] g = "builders" -> BuilderPods
    [] g = "resource" -> KubeResourceDetail
    [] g = "components" -> KubeResourcePodStatuses

AllPages == { "replicas", "builders", "resource", "components" }
Table    == ListingOf(page).table

(* The groups of a table: the API server, then the runners by the name of  *)
(* their first pod; or, ungrouped, all pods.                               *)
OfRunner(r) == SelectSeq(pods, LAMBDA p : RunnerOf[p] = r)
Before(r, q) == Order(Head(OfRunner(r)), Head(OfRunner(q)))

(* Mutant: the API server's group is left out when it has no runners.      *)
GroupsOfRunners ==
  LET Theirs == { RunnerOf[pods[i]] : i \in DOMAIN pods } \ { ApiServer }
  IN IF Theirs = {} THEN << >>
     ELSE << OfRunner(ApiServer) >> \o
          [i \in 1 .. Cardinality(Theirs) |->
            OfRunner(SetToSortSeq(Theirs, Before)[i])]

Groups ==
  LET Theirs == { RunnerOf[pods[i]] : i \in DOMAIN pods } \ { ApiServer }
  IN IF ~ListingOf(page).grouped THEN << pods >>
     ELSE << OfRunner(ApiServer) >> \o
          [i \in 1 .. Cardinality(Theirs) |->
            OfRunner(SetToSortSeq(Theirs, Before)[i])]

(* The ball of a pod: its colours, and a tick where it has succeeded.      *)
Good(p)   == StatusOf[p] \in { "Running", "Succeeded" }
Yellow(p) == p \in Old /\ (Good(p) \/ StatusOf[p] = "Pending")

Ball(p) ==
  LET tone(colour) == IF p \in Canary THEN << "canary", colour >> ELSE << colour >>
  IN [pod |-> p, tick |-> StatusOf[p] = "Succeeded",
      colours |-> { c \in { << "yellow" >>, << "creating" >>, << "terminating" >>,
                            tone("green"), tone("red") } :
        \/ c = << "yellow" >> /\ Yellow(p)
        \/ c = << "creating" >> /\ StatusOf[p] = "Pending"
        \/ c = << "terminating" >> /\ StatusOf[p] = "Terminating"
        \/ c = tone("green") /\ ~Yellow(p) /\ Good(p)
        \/ c = tone("red") /\ ~Yellow(p) /\ StatusOf[p] = "Failed" }]

Grey == [pod |-> NoPod, tick |-> FALSE, colours |-> { << "grey" >> }]

(* A row of a table: the ball, what traffic its pod receives, and whether  *)
(* it has a container to debug in.                                         *)
Traffic(p) ==
  IF p \notin Debug THEN "production pod"
  ELSE IF RunnerOf[p] \in traffic THEN "production traffic" ELSE "debug traffic"

Row(p) == [ball |-> Ball(p), traffic |-> Traffic(p), debugger |-> "debugger" \in ContainersOf[p]]

(* The two rows of balls; grey ones stand for replicas that are lacking,   *)
(* unless the row is a canary's.                                           *)
RowOf(p) == IF p \in Canary THEN "canary" ELSE "production"
Split(list, row) == SelectSeq(list, LAMBDA p : RowOf(p) = row)
Half(row) == Split(pods, row)

PodStatuses(row) ==
  LET own     == Half(row)
      replicas == IF page = "components" THEN Len(pods) ELSE Replicas
      lacking == IF row = "canary" \/ replicas <= Len(own) THEN 0 ELSE replicas - Len(own)
  IN [i \in 1 .. Len(own) |-> Ball(own[i])] \o [i \in 1 .. lacking |-> Grey]

Displayed ==
  IF loading THEN << >>
  ELSE IF Table THEN FlattenSeq([i \in DOMAIN Groups |-> [j \in DOMAIN Groups[i] |-> Row(Groups[i][j])]])
  ELSE LET balls == PodStatuses("production") \o PodStatuses("canary")
       IN [i \in DOMAIN balls |-> [ball |-> balls[i]]]

-----------------------------------------------------------------------------
NoContainer == ""

Closed == [kind |-> "none", at |-> << "table", 0 >>, pod |-> NoPod, container |-> NoContainer]

Lists == UNION { { s \in [1 .. n -> Pods] : IsInjective(s) } : n \in 0 .. Cardinality(Pods) }

Init ==
  /\ page \in AllPages /\ pods = << >> /\ loading = ListingOf(page).loads
  /\ known \in BOOLEAN /\ traffic = {} /\ dialog = Closed

(* Where the buttons of a pod are: in a row of the table, or in the        *)
(* tooltip of a ball.                                                      *)
Holders(p) ==
  IF Table THEN { << "table", 0 >> }
  ELSE LET row == Half(RowOf(p)) IN { << RowOf(p), i >> : i \in { i \in DOMAIN row : row[i] = p } }

Open(kind, p, c) ==
  /\ ~loading /\ dialog = Closed /\ p \in Range(pods)
  /\ \E h \in Holders(p) : dialog' = [kind |-> kind, at |-> h, pod |-> p, container |-> c]
  /\ UNCHANGED << page, pods, loading, known, traffic >>

ViewLog(p)     == Open("log", p, NoContainer)
ViewEvents(p)  == Open("events", p, NoContainer)
OpenTerminal(p) == \E c \in ContainersOf[p] : Open("terminal", p, c)
OpenDebug(p)   == \E c \in ContainersOf[p] : Open("debug", p, c)

(* The tag "Debugger" of a row.                                            *)
OpenDebugger(p) == Table /\ "debugger" \in ContainersOf[p] /\ Open("terminal", p, "debugger")

CloseDialog ==
  /\ dialog # Closed /\ dialog' = Closed
  /\ UNCHANGED << page, pods, loading, known, traffic >>

(* Mutant: the dialog stays.                                               *)
RemainingOpen(list, unmounted) == dialog

(* A ball that goes takes its dialog with it.                              *)
Remaining(list, unmounted) ==
  LET gone == \/ unmounted /\ ~Table
              \/ /\ ~Table /\ dialog # Closed
                 /\ dialog.at[2] > Len(Split(list, dialog.at[1]))
  IN IF gone THEN Closed ELSE dialog

(* Mutant: a dialog goes with its pod.                                     *)
PushKeyed(list) ==
  /\ pods' = list /\ loading' = FALSE
  /\ dialog' = IF dialog.pod \in Range(list) THEN dialog ELSE Closed
  /\ UNCHANGED << page, known, traffic >>

Push(list) ==
  /\ pods' = list /\ loading' = FALSE /\ dialog' = Remaining(list, FALSE)
  /\ UNCHANGED << page, known, traffic >>

(* The socket opens again: a row of balls gives way to a skeleton, of the  *)
(* table only its rows.                                                    *)
Reconnect ==
  /\ loading' = TRUE /\ dialog' = Remaining(pods, TRUE)
  /\ UNCHANGED << page, pods, known, traffic >>

(* Organization and cluster get known, the deployment's revision changes.  *)
Learn ==
  /\ known' = TRUE
  /\ traffic' \in SUBSET { RunnerOf[p] : p \in Debug }
  /\ UNCHANGED << page, pods, loading, dialog >>

Next ==
  \/ \E p \in Pods :
       ViewLog(p) \/ ViewEvents(p) \/ OpenTerminal(p) \/ OpenDebug(p) \/ OpenDebugger(p)
  \/ CloseDialog \/ Reconnect \/ Learn
  \/ \E list \in Lists : Push(list)

Spec == Init /\ [][Next]_vars

(* What the dialog shows: a log looks its pod up by name in the pods its   *)
(* holder has; the others hold on to the pod they were opened with.        *)
NotExists == "pod is not exists"

(* Neither of these is the name of a pod.                                  *)
ASSUME PodNames == { NoPod, NotExists } \cap Pods = {}

(* Mutant: the log of whatever pod is now at the ball's place.             *)
ContentByPlace ==
  IF dialog.at[1] = "table" THEN dialog.pod
  ELSE Half(dialog.at[1])[dialog.at[2]]

ShownPod(listed) ==
  IF ~known THEN (IF dialog.kind = "log" THEN NotExists ELSE NoPod)
  ELSE IF dialog.kind = "log" /\ dialog.pod \notin listed THEN NotExists
  ELSE dialog.pod

DialogOfTable == ShownPod(Range(pods))
DialogOfBall  == ShownPod({ p \in Range(pods) : RowOf(p) = dialog.at[1] })

Content == IF Table THEN DialogOfTable ELSE DialogOfBall

-----------------------------------------------------------------------------
(* The page, its pods and its dialog.  A terminal is in a container of its *)
(* pod.                                                                    *)
TypeOK ==
  /\ page \in AllPages /\ pods \in Lists /\ { loading, known } \subseteq BOOLEAN
  /\ dialog.kind \in { "none", "log", "events", "terminal", "debug" }
  /\ dialog.kind \in { "terminal", "debug" } => dialog.container \in ContainersOf[dialog.pod]
  /\ dialog.at[1] # "table" => ~Table /\ dialog.at[2] <= Len(Half(dialog.at[1]))

(* However the pods are split, into the API server's and those of each     *)
(* runner or into production and canary, each is displayed once, and a     *)
(* ball is without colour only if its pod is in no status that is known,   *)
(* failed ones of an older revision included (renderPodRow, PodStatuses).  *)
ShownOnce ==
  ~loading =>
    LET rows  == Displayed
        Of(p) == { i \in DOMAIN rows : rows[i].ball.pod = p }
    IN /\ \A p \in Range(pods) :
            \E i \in Of(p) : Of(p) = { i }
              /\ (rows[i].ball.colours = {} => StatusOf[p] = "Unknown")
       /\ \A i \in DOMAIN rows : rows[i].ball.pod \in Range(pods) \cup { NoPod }

(* No push and no lost connection closes a dialog of a table; one of a     *)
(* ball survives as long as its row has as many balls, whichever pods they *)
(* are of, and does not survive a new connection (PodList, and PodStatuses *)
(* with its balls keyed by their index).                                   *)
KeepsDialog ==
  dialog # Closed /\ dialog' # dialog =>
    \/ CloseDialog
    \/ ~Table /\ (loading' \/ dialog.at[2] > Len(Split(pods', dialog.at[1])))

Kept == [][KeepsDialog]_vars

(* A dialog shows the pod it was opened for or none, never the pod that    *)
(* has come to its place; a log says that its pod does not exist only when *)
(* the page does not list it, or when organization or cluster are unknown  *)
(* (desiredShowLogsPod of PodList and PodStatus).                          *)
Follows ==
  dialog # Closed =>
    /\ Content \in { dialog.pod, NoPod, NotExists }
    /\ known => (Content = NotExists <=> dialog.kind = "log" /\ dialog.pod \notin Range(pods))
=============================================================================

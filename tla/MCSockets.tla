----------------------------- MODULE MCSockets -----------------------------
(***************************************************************************)
(* The web sockets of the dashboard, each with its hook and its handler.   *)
(* They share nothing but the browser: every behaviour is of one of them,  *)
(* and the variables of the others do not change.                          *)
(***************************************************************************)
EXTENDS Naturals, Sequences, Subscription, PodsWatch, LogView, TerminalView, KubeEvents

CONSTANT Parts \* the parts to check

VARIABLE part

(* A bento and a deployment; the lists of bentos show the one only.       *)
TypeOfName == [u \in { "b1", "d1" } |-> IF u = "d1" THEN "deployment" ELSE "bento"]

(* The containers of a pod.                                                *)
TwoContainers == << "a", "b" >>

(* The first container has a longer log; or both log a line and the dialog *)
(* is opened twice.                                                        *)
OneLog == logRun = 1 /\ "b" \in waiting

ShortLogs == \A c \in Names : lines[c] <= 1

(* The parts that are not checked are in one initial state of theirs.      *)
IdleList   == SubInit /\ page = "BentoList"
IdleWatch  == WatchInit /\ view = "none"
IdleLog    == LogInit /\ waiting = {}
IdleShell  == TermInit /\ props = "a"
IdleEvents == EventsInit /\ orgKnown = FALSE

Init ==
  \/ /\ part \in Parts \cap { "list" }
     /\ IdleList /\ IdleWatch /\ IdleLog /\ IdleShell /\ IdleEvents
  \/ /\ part \in Parts \cap { "mixed" }
     /\ SubInit /\ page # "BentoList" /\ IdleWatch /\ IdleLog /\ IdleShell /\ IdleEvents
  \/ /\ part \in Parts \cap { "pods" }
     /\ WatchInit /\ IdleList /\ IdleLog /\ IdleShell /\ IdleEvents
  \/ /\ part \in Parts \cap { "long log" }
     /\ LogInit /\ OneLog /\ IdleList /\ IdleWatch /\ IdleShell /\ IdleEvents
  \/ /\ part \in Parts \cap { "two logs" }
     /\ LogInit /\ IdleList /\ IdleWatch /\ IdleShell /\ IdleEvents
  \/ /\ part \in Parts \cap { "shell" }
     /\ TermInit /\ IdleList /\ IdleWatch /\ IdleLog /\ IdleEvents
  \/ /\ part \in Parts \cap { "events" }
     /\ EventsInit /\ IdleList /\ IdleWatch /\ IdleLog /\ IdleShell

Next ==
  /\ UNCHANGED part
  /\ \/ /\ part \in { "list", "mixed" } /\ SubNext
        /\ part = "mixed" => run' <= 1 /\ \A s \in Sockets \ { 1 } : socket'[s] = "unused"
        /\ UNCHANGED << watchVars, logVars, termVars, evVars >>
     \/ part = "pods" /\ WatchNext /\ UNCHANGED << subVars, logVars, termVars, evVars >>
     \/ /\ part \in { "long log", "two logs" } /\ LogNext
        /\ part = "long log" => OneLog'
        /\ part = "two logs" => ShortLogs'
        /\ UNCHANGED << subVars, watchVars, termVars, evVars >>
     \/ /\ part = "shell" /\ TermNext
        /\ stream' = "none" \/ uploads' = << >>
        /\ UNCHANGED << subVars, watchVars, logVars, evVars >>
     \/ /\ part = "events" /\ EventsNext
        /\ UNCHANGED << subVars, watchVars, logVars, termVars >>

Spec == Init /\ [][Next]_<< part, subVars, watchVars, logVars, termVars, evVars >>

(* Each part is as fair as its own module says.                            *)
FairSpec ==
  /\ Spec
  /\ \/ part = "list" /\ SubFairness
     \/ part = "pods" /\ WatchFairness
     \/ part = "long log" /\ LogFairness

-----------------------------------------------------------------------------
(* The types of whichever part it is.                                      *)
TypeOK ==
  /\ part \in { "list", "mixed" } => SubTypeOK
  /\ part = "pods" => WatchTypeOK
  /\ part \in { "long log", "two logs" } => LogTypeOK
  /\ part = "shell" => TermTypeOK
  /\ part = "events" => EventsTypeOK

(* A page on display gets a connection again (see Subscription).           *)
ListReconnects == part = "list" => Reconnects

(* While a page is connected there is a manager, again and again (see      *)
(* PodsWatch).                                                             *)
PodsManaged == part = "pods" => Managed

(* A page on display gets to show pods (see PodsWatch).                    *)
PodsLoad == part = "pods" => Loads

(* In real time, a line that is logged gets displayed, unless something    *)
(* takes over or breaks (see LogView).                                     *)
LogStreams == part = "long log" => Streams
=============================================================================

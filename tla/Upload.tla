------------------------------- MODULE Upload -------------------------------
(***************************************************************************)
(* The upload of one bento or model (controllersv1/bento.go, model.go):    *)
(* clients push the same version, through the server or to the store       *)
(* itself with URLs the server signs.  The row's upload status, the object *)
(* and the event "pushed" are written by separate calls; each call that    *)
(* writes the row or the event is a transaction of its own.                *)
(*                                                                         *)
(* The client is not part of the repository: it is taken to report success *)
(* only of an object that the store has acknowledged.                      *)
(***************************************************************************)
EXTENDS Naturals

CONSTANTS
  Pushers,    \* clients that push this version
  MaxPushes   \* bound: pushes of each

ASSUME PushBound == MaxPushes \in Nat

VARIABLES
  artifact, \* "bento" or "model": their error paths differ
  status,   \* upload_status of the row
  by,       \* history: the push that has written it last
  put,      \* history: the pushes whose object the store has taken
  events,   \* "pushed" events: by which push, saying what
  pushes,   \* how many times each client has begun to push
  route,    \* of its present push
  stage,    \* how far it is
  says,     \* uploadStatus of the handler, or the status the client sends
  cut       \* history: pushes that ended without their last write of the status

row    == << status, by >>
client == << pushes, route, stage, says >>
uploadVars   == << artifact, row, put, events, client, cut >>

Nobody  == [who |-> "nobody", nth |-> 0]
Push(c) == [who |-> c, nth |-> pushes[c]]
Routes  == { "proxy", "signed" }

UploadTypeOK ==
  /\ artifact \in { "bento", "model" }
  /\ status \in { "pending", "uploading", "success", "failed" }
  /\ pushes \in [Pushers -> 0 .. MaxPushes]
  /\ route \in [Pushers -> Routes]
  /\ stage \in [Pushers -> { "idle", "open", "granted", "ended", "noting" }]
  /\ says \in [Pushers -> { "uploading", "success", "failed" }]

(* services Create: the row is there before anything is uploaded.          *)
UploadInit ==
  /\ artifact \in { "bento", "model" }
  /\ status = "pending" /\ by = Nobody
  /\ put = {} /\ events = {} /\ cut = {}
  /\ pushes = [c \in Pushers |-> 0]
  /\ route = [c \in Pushers |-> "proxy"]
  /\ stage = [c \in Pushers |-> "idle"]
  /\ says = [c \in Pushers |-> "uploading"]

-----------------------------------------------------------------------------
Goto(c, place) == stage' = [stage EXCEPT ![c] = place]

WriteStatus(push, s) == status' = s /\ by' = push

(* A commit that fails is not noticed: the callback drops its error.       *)
WriteOrLose(push, s) == WriteStatus(push, s) \/ UNCHANGED row

(* StartUpload, or the beginning of the proxied Upload: "uploading".  No   *)
(* status is refused, not even success.                                    *)
BeginPush(c, r) ==
  /\ stage[c] = "idle" /\ pushes[c] < MaxPushes
  /\ pushes' = [pushes EXCEPT ![c] = @ + 1]
  /\ route' = [route EXCEPT ![c] = r]
  /\ says' = [says EXCEPT ![c] = "uploading"]
  /\ WriteOrLose([who |-> c, nth |-> pushes[c] + 1], "uploading")
  /\ Goto(c, "open")
  /\ UNCHANGED << artifact, put, events, cut >>

(* The update fails.  StartUpload answers so; the proxied handler has lost *)
(* the bento to the error, and its deferred event panics on it.  Either    *)
(* way nothing is stored.                                                  *)
BeginPushFails(c, r) ==
  /\ stage[c] = "idle" /\ pushes[c] < MaxPushes
  /\ pushes' = [pushes EXCEPT ![c] = @ + 1]
  /\ route' = [route EXCEPT ![c] = r]
  /\ UNCHANGED << artifact, row, put, events, stage, says, cut >>

(* PreSignUploadUrl, or StartMultipartUpload and its URLs for the parts.   *)
Grant(c) ==
  /\ stage[c] = "open" /\ route[c] # "proxy"
  /\ Goto(c, "granted")
  /\ UNCHANGED << artifact, row, put, events, pushes, route, says, cut >>

Sending(c) == stage[c] = IF route[c] = "proxy" THEN "open" ELSE "granted"

(* The store takes the object: all of a PUT, or what                       *)
(* CompleteMultipartUpload puts together.                                  *)
StoreTakes(c) ==
  /\ Sending(c)
  /\ put' = put \cup { Push(c) }
  /\ says' = [says EXCEPT ![c] = "success"]
  /\ Goto(c, "ended")
  /\ UNCHANGED << artifact, row, events, pushes, route, cut >>

(* Mutant: the outcome is not set.                                         *)
StoreFailsUnsaid(c) ==
  /\ Sending(c) \/ stage[c] = "open"
  /\ Goto(c, "ended")
  /\ UNCHANGED << artifact, row, put, events, pushes, route, says, cut >>

(* The store or the connection fails, or a URL cannot be signed.           *)
StoreFails(c) ==
  /\ Sending(c) \/ stage[c] = "open"
  /\ says' = [says EXCEPT ![c] = "failed"]
  /\ Goto(c, "ended")
  /\ UNCHANGED << artifact, row, put, events, pushes, route, cut >>

(* Mutant: every report is taken for a success.                            *)
ReportSuccess(c) ==
  /\ stage[c] = "ended"
  /\ WriteStatus(Push(c), "success")
  /\ Goto(c, "noting")
  /\ UNCHANGED << artifact, put, events, pushes, route, says, cut >>

(* FinishUpload, or the end of the proxied Upload: the outcome is stored,  *)
(* whatever the status is by now.  (A client that sends no status changes  *)
(* times only.)                                                            *)
Report(c) ==
  /\ stage[c] = "ended"
  /\ \/ WriteStatus(Push(c), says[c]) /\ cut' = cut \ { Push(c) }
     \/ UNCHANGED row /\ cut' = cut \cup { Push(c) }
  /\ Goto(c, "noting")
  /\ UNCHANGED << artifact, put, events, pushes, route, says >>

(* The proxied handler of a model loses the model to an error of its last  *)
(* update and panics in the deferred event; that of a bento goes on to     *)
(* record the push, as a success.                                          *)
LosesModel(c) == artifact = "model" /\ says[c] = "success"

ReportFails(c) ==
  /\ stage[c] = "ended"
  /\ IF route[c] = "proxy"
     THEN Goto(c, IF LosesModel(c) THEN "idle" ELSE "noting")
     ELSE UNCHANGED stage
  /\ cut' = cut \cup { Push(c) }
  /\ UNCHANGED << artifact, row, put, events, pushes, route, says >>

(* The event "pushed", in a transaction of its own, whose commit may fail  *)
(* unnoticed as well.                                                      *)
Note(c) ==
  /\ stage[c] = "noting"
  /\ events' \in { events, events \cup { [by |-> Push(c), says |-> says[c]] } }
  /\ Goto(c, "idle")
  /\ UNCHANGED << artifact, row, put, pushes, route, says, cut >>

(* Without it FinishUpload answers with an error, and the client may       *)
(* finish again; a proxied push is over.                                   *)
NoteFails(c) ==
  /\ stage[c] = "noting"
  /\ Goto(c, IF route[c] = "proxy" THEN "idle" ELSE "ended")
  /\ UNCHANGED << artifact, row, put, events, pushes, route, says, cut >>

(* A client that talks to the store itself goes away.  A proxied one       *)
(* that does makes the body end early, see StoreFails.                     *)
Leave(c) ==
  /\ route[c] # "proxy" /\ stage[c] \in { "open", "granted", "ended" }
  /\ Goto(c, "idle")
  /\ cut' = cut \cup { Push(c) }
  /\ UNCHANGED << artifact, row, put, events, pushes, route, says >>

(* The server ends: its handlers with it, the clients' own transfers not.  *)
ServerEnds ==
  /\ stage' = [c \in Pushers |->
       IF route[c] = "proxy" THEN "idle"
       ELSE IF stage[c] = "noting" THEN "ended" ELSE stage[c]]
  /\ cut' = cut \cup { Push(c) : c \in { d \in Pushers :
       route[d] = "proxy" /\ stage[d] \in { "open", "ended" } } }
  /\ UNCHANGED << artifact, row, put, events, pushes, route, says >>

UploadNext ==
  \/ \E c \in Pushers, r \in Routes : BeginPush(c, r) \/ BeginPushFails(c, r)
  \/ \E c \in Pushers :
       \/ Grant(c) \/ StoreTakes(c) \/ StoreFails(c)
       \/ Report(c) \/ ReportFails(c) \/ Note(c) \/ NoteFails(c) \/ Leave(c)
  \/ ServerEnds

UploadSpec == UploadInit /\ [][UploadNext]_uploadVars

-----------------------------------------------------------------------------
(* Whatever order pushes, failures and repeated reports come in, neither   *)
(* the status nor an event says success of a push whose object the store   *)
(* has not taken: who finds "success" can download.                        *)
ClaimsStored ==
  /\ status = "success" => by \in put
  /\ \A e \in events : e.says = "success" => e.by \in put

(* The status is "uploading" only while the push that has set it last is   *)
(* under way, or after its report was lost: with the server or the client, *)
(* or to a failed update or commit.  Pushes that end in any order do not   *)
(* leave it behind.                                                        *)
Settled ==
  status = "uploading" =>
    \/ by \in cut
    \/ /\ by = Push(by.who)
       /\ stage[by.who] \in { "open", "granted", "ended" }
=============================================================================

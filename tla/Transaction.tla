----------------------------- MODULE Transaction -----------------------------
(***************************************************************************)
(* Database transactions of a request, as services/db.go starts and ends   *)
(* them: startTransaction opens one or joins the one in the context, and   *)
(* the callback it returns, deferred by the frame that called it, commits  *)
(* or rolls back, or does nothing in a frame that has joined.              *)
(*                                                                         *)
(* A request runs the program of its kind: the statements its handler      *)
(* issues, each with what the code does with an error of it.  A statement  *)
(* that fails inside a transaction aborts it: PostgreSQL refuses all that  *)
(* follow, and its commit is then a rollback.                              *)
(***************************************************************************)
EXTENDS Naturals, Sequences, FiniteSets

CONSTANTS
  Kinds,    \* kinds of requests that clients send
  Faults,   \* statements, commits and the server fail
  Panics    \* kinds whose handlers panic

(* One step of a program: what it does, what becomes of its error and, if  *)
(* it is deferred, the step that defers it.                                *)
(*   "return"  the caller returns it and the callback sees it              *)
(*   "hide"    the caller returns it, the callback looks at another err    *)
(*   "drop"    the caller goes on                                          *)
(*   "log"     the deferred block it belongs to ends                       *)
Step(does, onErr, since) == [does |-> does, onErr |-> onErr, since |-> since]

Begin    == Step("begin", "return", 0)
End(b)   == Step("end", "drop", b)
Read(e)  == Step("read", e, 0)
Write(e) == Step("write", e, 0)
Kube     == Step("call", "return", 0)

(* The deferred event of a request: a frame that joins, looks the resource *)
(* up and inserts the event.                                               *)
Event(s, b) == << Step("begin", "log", s), Step("read", "log", s),
                  Step("write", "log", s), End(b) >>

(* Row, labels; bentos, revision, old revisions, CR, status, answer; event.*)
CreateDeployment ==
  << Begin, Write("return"), Write("return"), Read("return"), Write("return"),
     Write("return"), Kube, Write("drop"), Read("return") >>
  \o Event(3, 10) \o << End(1) >>

(* Description, labels; as above.                                          *)
UpdateDeployment ==
  << Begin, Write("return"), Write("return"), Read("return"), Write("return"),
     Write("return"), Kube, Write("drop"), Read("return"), End(1) >>

(* The component, looked up and then inserted or updated.                  *)
RegisterComponent ==
  << Begin, Read("return"), Write("return"), Read("return"), End(1) >>

(* Row, relations to models, labels; then the answer is put together.      *)
CreateBento ==
  << Begin, Write("return"), Read("return"), Write("return"), Read("return"),
     Write("return"), End(1), Read("return") >>

(* Upload status or manifest; the labels with an err of their own.         *)
UpdateBento ==
  << Begin, Write("return"), Read("hide"), Write("hide"), End(1), Read("return") >>

(* Status in one transaction, event in another.                            *)
FinishUpload ==
  << Begin, Write("return"), End(1), Read("return"),
     Begin, Read("return"), Write("return"), End(5), Read("return") >>

(* The cluster in one transaction, its first member in another.            *)
CreateCluster ==
  << Begin, Write("return"), End(1), Read("return"),
     Begin, Write("return"), End(5), Read("return") >>

(* The organization in no transaction, its first member in one.            *)
CreateOrganization ==
  << Write("return"), Read("return"), Begin, Write("return"), End(3), Read("return") >>

Program(k) ==
  CASE k = "create deployment"   -> CreateDeployment
    [] k = "update deployment"   -> UpdateDeployment
    [] k = "register component"  -> RegisterComponent
    [] k = "create bento"        -> CreateBento
    [] k = "update bento"        -> UpdateBento
    [] k = "finish upload"       -> FinishUpload
    [] k = "create cluster"      -> CreateCluster
    [] k = "create organization" -> CreateOrganization

AllKinds == { "create deployment", "update deployment", "register component",
  "create bento", "update bento", "finish upload", "create cluster",
  "create organization" }

ASSUME TransactionAssumption ==
  Kinds \subseteq AllKinds /\ Faults \in BOOLEAN /\ Panics \subseteq AllKinds

VARIABLES
  kind,      \* the kind of the request, "none" before it arrives
  at,        \* its next step
  done,      \* the steps that have succeeded
  session,   \* the transaction in the context: none, open or aborted
  joined,    \* begin steps that have joined a transaction
  err,       \* the err variable that the deferred callback looks at
  told,      \* the handler returns an error
  panic,     \* the handler panics
  pending,   \* writes of the open transaction
  stored,    \* writes in the database
  swallowed, \* history: a failed statement or commit that nobody looked at
  answer     \* what the client got: none yet, ok, error, lost

progress == << kind, at, done, joined >>
outcome  == << err, told, panic >>
data     == << session, pending, stored >>
vars     == << progress, outcome, data, swallowed, answer >>

-----------------------------------------------------------------------------
Steps   == Program(kind)
Running == kind # "none" /\ answer = "none" /\ at \in 1 .. Len(Steps)
Here    == Steps[at]

(* Steps still to come once the handler is on its way out: the deferred    *)
(* ones, as far as they were deferred.                                     *)
Deferred(i, d) ==
  { j \in 1 .. Len(Steps) : j > i /\ Steps[j].since # 0 /\ Steps[j].since \in d }

Least(S) == CHOOSE i \in S : \A j \in S : i <= j

(* Mutant: callbacks are called at the end of the handler, not deferred.   *)
UnwindNothing(i, d) == Len(Steps) + 1

Unwind(i, d) == Least(Deferred(i, d) \cup { Len(Steps) + 1 })

BlockEnd(i) == Least({ j \in i .. Len(Steps) : Steps[j].does = "end" })

(* The step succeeds and the next one follows.                             *)
Succeed ==
  /\ done' = done \cup { at }
  /\ at' = IF told \/ panic THEN Unwind(at, done') ELSE at + 1

(* Mutant: the handler goes on after an error.                             *)
FailOn ==
  /\ UNCHANGED << done, outcome >>
  /\ at' = at + 1

(* The step returns an error.                                              *)
Fail ==
  /\ UNCHANGED << done, panic >>
  /\ CASE Here.onErr = "return" -> err' = TRUE /\ told' = TRUE /\ at' = Unwind(at, done)
       [] Here.onErr = "hide"   -> UNCHANGED err /\ told' = TRUE /\ at' = Unwind(at, done)
       [] Here.onErr = "drop"   -> UNCHANGED << err, told >> /\ at' = at + 1
       [] Here.onErr = "log"    -> UNCHANGED << err, told >> /\ at' = BlockEnd(at)

Init ==
  /\ kind = "none" /\ at = 1 /\ done = {} /\ joined = {}
  /\ err = FALSE /\ told = FALSE /\ panic = FALSE
  /\ session = "none" /\ pending = {} /\ stored = {}
  /\ swallowed = FALSE /\ answer = "none"

Receive ==
  /\ kind = "none" /\ kind' \in Kinds
  /\ UNCHANGED << at, done, joined, outcome, data, swallowed, answer >>

(* startTransaction: join the session of the context or open one.          *)
StartTransaction ==
  /\ Running /\ Here.does = "begin"
  /\ Succeed
  /\ session' = IF session = "none" THEN "open" ELSE session
  /\ joined' = IF session = "none" THEN joined ELSE joined \cup { at }
  /\ UNCHANGED << kind, outcome, pending, stored, swallowed, answer >>

StartFails ==
  /\ Running /\ Here.does = "begin" /\ session = "none" /\ Faults
  /\ Fail
  /\ UNCHANGED << kind, joined, data, swallowed, answer >>

(* Mutant: it runs on a connection of its own, the context being the one   *)
(* from before startTransaction.                                           *)
StatementOutside ==
  /\ Running /\ Here.does \in { "read", "write" } /\ session # "aborted"
  /\ Succeed
  /\ stored' = IF Here.does = "write" THEN stored \cup { at } ELSE stored
  /\ UNCHANGED << kind, joined, outcome, session, pending, swallowed, answer >>

(* A statement runs in the session of the context, if there is one.        *)
Statement ==
  /\ Running /\ Here.does \in { "read", "write" } /\ session # "aborted"
  /\ Succeed
  /\ IF Here.does = "read" THEN UNCHANGED << pending, stored >>
     ELSE IF session = "open" THEN pending' = pending \cup { at } /\ UNCHANGED stored
     ELSE stored' = stored \cup { at } /\ UNCHANGED pending
  /\ UNCHANGED << kind, joined, outcome, session, swallowed, answer >>

StatementFails ==
  /\ Running /\ Here.does \in { "read", "write" }
  /\ Faults \/ session = "aborted"
  /\ Fail
  /\ session' = IF session = "none" THEN "none" ELSE "aborted"
  /\ swallowed' = (swallowed \/ Here.onErr \in { "drop", "log" })
  /\ UNCHANGED << kind, joined, pending, stored, answer >>

(* The handler refuses to go on without any statement having failed: what  *)
(* it looked for is not there, there is no current user.                   *)
Refuse ==
  /\ Running /\ Here.does = "read" /\ session # "aborted"
  /\ Fail
  /\ UNCHANGED << kind, joined, data, swallowed, answer >>

Call ==
  /\ Running /\ Here.does = "call"
  /\ Succeed
  /\ UNCHANGED << kind, joined, outcome, data, swallowed, answer >>

CallFails ==
  /\ Running /\ Here.does = "call" /\ Faults
  /\ Fail
  /\ UNCHANGED << kind, joined, data, swallowed, answer >>

Panic ==
  /\ kind \in Panics /\ Running /\ ~told /\ ~panic /\ Here.since = 0
  /\ panic' = TRUE
  /\ at' = Unwind(at - 1, done)
  /\ UNCHANGED << kind, done, joined, err, told, data, swallowed, answer >>

-----------------------------------------------------------------------------
(* The frame at whose end the request stands opened the transaction.       *)
Owns == Here.since \notin joined

(* The deferred callback.  It is not deferred itself but called from the   *)
(* deferred function, so its recover() never sees a panic: without an      *)
(* error it commits.  Nobody looks at the error of the commit.             *)
Commit ==
  /\ Running /\ Here.does = "end" /\ Owns /\ ~err
  /\ Succeed
  /\ session' = "none" /\ pending' = {}
  /\ \/ stored' = stored \cup (IF session = "open" THEN pending ELSE {})
        /\ UNCHANGED swallowed
     \/ Faults /\ UNCHANGED stored /\ swallowed' = TRUE
  /\ UNCHANGED << kind, joined, outcome, answer >>

(* Mutant: released without being rolled back.                             *)
RollbackForgotten ==
  /\ Running /\ Here.does = "end" /\ Owns /\ err
  /\ Succeed
  /\ session' = "none"
  /\ UNCHANGED << kind, joined, outcome, pending, stored, swallowed, answer >>

Rollback ==
  /\ Running /\ Here.does = "end" /\ Owns /\ err
  /\ Succeed
  /\ session' = "none" /\ pending' = {}
  /\ UNCHANGED << kind, joined, outcome, stored, swallowed, answer >>

(* The callback of a frame that has joined does nothing.                   *)
LeaveJoined ==
  /\ Running /\ Here.does = "end" /\ ~Owns
  /\ Succeed
  /\ UNCHANGED << kind, joined, outcome, data, swallowed, answer >>

(* A panic that nobody recovers closes the connection without an answer.   *)
Answer ==
  /\ kind # "none" /\ answer = "none" /\ at > Len(Steps)
  /\ answer' = IF panic THEN "lost" ELSE IF told THEN "error" ELSE "ok"
  /\ UNCHANGED << progress, outcome, data, swallowed >>

(* The server dies and the database rolls back.                            *)
Crash ==
  /\ Faults /\ kind # "none" /\ answer = "none"
  /\ answer' = "lost" /\ session' = "none" /\ pending' = {}
  /\ UNCHANGED << progress, outcome, stored, swallowed >>

Answered == answer # "none" /\ UNCHANGED vars

Next ==
  \/ Receive \/ StartTransaction \/ StartFails \/ Statement \/ StatementFails
  \/ Refuse \/ Call \/ CallFails \/ Panic
  \/ Commit \/ Rollback \/ LeaveJoined
  \/ Answer \/ Crash \/ Answered

Spec == Init /\ [][Next]_vars

-----------------------------------------------------------------------------
(* The writes of a kind, those between the outermost begin b and its end   *)
(* together and the others alone.                                          *)
WritesOf(k) == { i \in 1 .. Len(Program(k)) : Program(k)[i].does = "write" }

Frame(k, b) ==
  { i \in 1 .. Len(Program(k)) :
      \E e \in 1 .. Len(Program(k)) :
        Program(k)[e].does = "end" /\ Program(k)[e].since = b /\ b < i /\ i < e }

Begins(k) == { b \in 1 .. Len(Program(k)) : Program(k)[b].does = "begin" }

UnitsOf(k) ==
  { { j \in WritesOf(k) : j = i \/ \E b \in Begins(k) : i \in Frame(k, b) /\ j \in Frame(k, b) }
      : i \in WritesOf(k) }

OptionalOf(k) == { i \in WritesOf(k) : Program(k)[i].onErr # "return" }

Abstract == INSTANCE AtomicRequest
  WITH Units <- UnitsOf, Optional <- OptionalOf

(* The types of the state; writes are pending in a transaction only.       *)
TypeOK ==
  /\ kind \in Kinds \cup { "none" }
  /\ answer \in { "none", "ok", "error", "lost" }
  /\ err \in BOOLEAN /\ told \in BOOLEAN /\ panic \in BOOLEAN /\ swallowed \in BOOLEAN
  /\ session \in { "none", "open", "aborted" }
  /\ session = "none" => pending = {}
  /\ kind = "none" => at = 1 /\ done = {} /\ pending = {} /\ stored = {}
  /\ kind # "none" =>
       /\ at \in 1 .. Len(Steps) + 1 /\ done \subseteq 1 .. Len(Steps)
       /\ joined \subseteq Begins(kind)
       /\ pending \subseteq WritesOf(kind) /\ stored \subseteq WritesOf(kind)

(* Each transaction of a request is stored at once and whole or not at     *)
(* all, however its frames nest, whichever of its statements fails and     *)
(* whenever the server dies (startTransaction and its callback).           *)
Atomic == Abstract!Spec

(* A request that has been answered holds no connection any more: whatever *)
(* path it took out of its frames, each transaction it opened has ended    *)
(* (startTransaction and its callback; the pool has MaxOpenConns of them). *)
NothingOpen == answer # "none" => session = "none"

(* A client that is told of success has everything stored that the handler *)
(* insists on, unless the error of a statement or of the commit went       *)
(* unheeded.                                                               *)
Honest ==
  answer = "ok" =>
    WritesOf(kind) \ OptionalOf(kind) \subseteq stored \/ swallowed

(* A handler that panics leaves nothing of its transaction behind, as the  *)
(* callback of startTransaction means it to                                *)
(* ("if p := recover(); p != nil { tx.Rollback(); panic(p) }").            *)
PanicRollsBack ==
  panic /\ answer # "none" =>
    \A u \in UnitsOf(kind) : u \cap stored = {} \/ u \ OptionalOf(kind) \subseteq stored

(* The event of CreateDeployment.                                          *)
EventWrite == 12

(* The event "created" that the handler writes with status failed when the *)
(* creation of a deployment fails ("createEventOpt.Status =                *)
(* modelschemas.EventStatusFailed") is there when it has answered.         *)
FailureRecorded ==
  kind = "create deployment" /\ answer = "error" /\ EventWrite \in done
    => EventWrite \in stored
=============================================================================

----------------------------- MODULE Deployment -----------------------------
(***************************************************************************)
(* The life of one deployment of the api-server: the requests that create, *)
(* update, record, terminate, delete and sync it, the database             *)
(* transactions they run in, the custom resource (CR) they write to        *)
(* Kubernetes, and the goroutines that bring the status back from there.   *)
(*                                                                         *)
(* Requests of several clients and several goroutines interleave between   *)
(* any two database statements or calls to Kubernetes.  Statements outside *)
(* a transaction commit by themselves; the ones inside see the committed   *)
(* rows and their own writes (read committed) and hold the locks of the    *)
(* rows they wrote until the transaction ends.  Kubernetes knows nothing   *)
(* of transactions: what was written there stays.                          *)
(*                                                                         *)
(* Only the deployment's own rows are modelled: the deployment, created at *)
(* most once, and its revisions, which are numbered in order of insertion. *)
(***************************************************************************)
EXTENDS Naturals, FiniteSets, DeploymentStatus

CONSTANTS
  Requests,      \* goroutines that serve HTTP requests
  Syncers,       \* goroutines that run SyncStatus on their own
  MaxRev,        \* bound: revision ids are 1 .. MaxRev
  Targets,       \* deployment targets in every update
  Ops,           \* the requests that clients send
  Describes,     \* whether updates carry a description: a set of BOOLEANs
  Serial,        \* clients wait for an answer before the next request
  Faults,        \* Kubernetes calls fail, the server crashes
  PodViews,      \* the sets of statuses the deployment's pods may show
  BuilderViews   \* the same for its image builder pods

AllOps == { "create", "update", "record", "terminate", "delete", "sync" }

ASSUME DeploymentAssumption ==
  /\ MaxRev \in Nat
  /\ Targets \in Nat
  /\ Requests \cap Syncers = {}
  /\ Ops \subseteq AllOps
  /\ Describes \subseteq BOOLEAN
  /\ Serial \in BOOLEAN
  /\ Faults \in BOOLEAN
  /\ PodViews \subseteq SUBSET PodStatuses
  /\ BuilderViews \subseteq SUBSET PodStatuses

Rev == 1 .. MaxRev
Procs == Requests \cup Syncers

VARIABLES
  row,        \* committed status of the deployment row, "unborn" or "deleted"
  revs,       \* committed status of each revision row, "free" without a row
  nextRev,    \* the revision id sequence, which no rollback rewinds
  cr,         \* the revision the CR was last written for, 0 without a CR
  saw,        \* what a request knows of the CR's resource version
  pods,       \* statuses of the deployment's pods
  builders,   \* statuses of the image builder pods of its bento
  pc,         \* where each goroutine stands
  op,         \* the operation a request serves
  mem,        \* status in the goroutine's own copy of the deployment
  calc,       \* status computed from Kubernetes, not yet stored
  list,       \* active revisions the request has listed
  left,       \* targets the request has still to deploy
  own,        \* revision inserted by the request's open transaction, or 0
  off,        \* revisions it made inactive; it holds their row locks
  wrote,      \* status it wrote to the deployment row, or "nothing"
  locked,     \* it holds the lock of the deployment row
  seen,       \* history: active revisions when the transaction began
  superseded, \* history: seen, by the revision the transaction committed
  lost        \* history: revisions rolled back after the CR was written

db   == << row, revs, nextRev >>
kube == << cr, saw, pods, builders >>
tx   == << own, off, wrote, locked, seen >>
work == << op, mem, calc, list, left >>
hist == << superseded, lost >>
vars == << db, kube, pc, work, tx, hist >>

-----------------------------------------------------------------------------
TxPCs == { "begin", "list", "insert", "relist", "deactivate", "get", "write",
           "status", "commit" }
SyncPCs == { "mark", "read", "store" }
RequestPCs == { "idle", "term", "termlist", "termcr", "del", "aborted" }
              \cup TxPCs \cup SyncPCs

Exists == row \in DeploymentStatuses
Active == { r \in Rev : revs[r] = "active" }

(* The active revisions a statement of h's transaction sees.               *)
Visible(h) == (Active \ off[h]) \cup (Rev \cap { own[h] })

(* Nobody else's transaction holds the lock of the deployment row.  A row  *)
(* that is not there yet matches no UPDATE and blocks none.                *)
RowFree(p) == Exists => \A h \in Requests \ { p } : ~locked[h]

At(p, l)   == pc[p] = l
Goto(p, l) == pc' = [pc EXCEPT ![p] = l]

(* A goroutine ends and its local variables go with it.                    *)
Leave(p) ==
  /\ Goto(p, "idle")
  /\ op' = [op EXCEPT ![p] = "sync"]
  /\ mem' = [mem EXCEPT ![p] = "unknown"]
  /\ calc' = [calc EXCEPT ![p] = "unknown"]
  /\ list' = [list EXCEPT ![p] = {}]
  /\ left' = [left EXCEPT ![p] = 0]

(* Its transaction ends: the locks are released.                           *)
EndTx(h) ==
  /\ own' = [own EXCEPT ![h] = 0]
  /\ off' = [off EXCEPT ![h] = {}]
  /\ wrote' = [wrote EXCEPT ![h] = "nothing"]
  /\ locked' = [locked EXCEPT ![h] = FALSE]
  /\ seen' = [seen EXCEPT ![h] = {}]
  /\ saw' = [saw EXCEPT ![h] = "nothing"]

Init ==
  /\ row = "unborn"
  /\ revs = [r \in Rev |-> "free"]
  /\ nextRev = 1
  /\ cr = 0
  /\ saw = [h \in Requests |-> "nothing"]
  /\ pods = {} /\ builders = {}
  /\ pc = [p \in Procs |-> "idle"]
  /\ op = [p \in Procs |-> "sync"]
  /\ mem = [p \in Procs |-> "unknown"]
  /\ calc = [p \in Procs |-> "unknown"]
  /\ list = [p \in Procs |-> {}]
  /\ left = [p \in Procs |-> 0]
  /\ own = [h \in Requests |-> 0]
  /\ off = [h \in Requests |-> {}]
  /\ wrote = [h \in Requests |-> "nothing"]
  /\ locked = [h \in Requests |-> FALSE]
  /\ seen = [h \in Requests |-> {}]
  /\ superseded = [r \in Rev |-> {}]
  /\ lost = {}

-----------------------------------------------------------------------------
(* A request arrives: the handler reads the deployment row, unless it is   *)
(* to create it.  Create, Update and record (Update with do_not_deploy)    *)
(* start a transaction next.                                               *)
Arrive(h, o) ==
  /\ At(h, "idle")
  /\ Serial => \A k \in Requests : At(k, "idle")
  /\ IF o = "create" THEN row = "unborn" ELSE Exists
  /\ op' = [op EXCEPT ![h] = o]
  /\ mem' = [mem EXCEPT ![h] = IF o = "create" THEN "non-deployed" ELSE row]
  /\ Goto(h, CASE o \in { "create", "update", "record" } -> "begin"
               [] o = "terminate" -> "term"
               [] o = "delete" -> "del"
               [] o = "sync" -> "mark")
  /\ UNCHANGED << db, kube, calc, list, left, tx, hist >>

(* Mutant: what the transaction made inactive stays so when it fails.      *)
RollbackPartly(h) ==
  /\ EndTx(h)
  /\ Leave(h)
  /\ lost' = IF cr # 0 /\ cr = own[h] THEN lost \cup { cr } ELSE lost
  /\ revs' = [r \in Rev |-> IF r \in off[h] THEN "inactive" ELSE revs[r]]
  /\ UNCHANGED << row, nextRev, cr, pods, builders, superseded >>

(* The transaction ends without a trace in the database.  The service's    *)
(* own compensation (delete the new revision, make the old ones active     *)
(* again) runs inside the same transaction and goes with it.               *)
Rollback(h) ==
  /\ EndTx(h)
  /\ Leave(h)
  /\ lost' = IF cr # 0 /\ cr = own[h] THEN lost \cup { cr } ELSE lost
  /\ UNCHANGED << db, cr, pods, builders, superseded >>

(* First statement of the transaction: Create inserts the row (the unique  *)
(* key makes a second creator wait, then fail); Update writes the          *)
(* description if the request has one, and nothing at all if it has not.   *)
CreateRow(h) ==
  /\ At(h, "begin") /\ op[h] = "create"
  /\ row = "unborn" /\ \A k \in Requests \ { h } : ~locked[k]
  /\ wrote' = [wrote EXCEPT ![h] = "non-deployed"]
  /\ locked' = [locked EXCEPT ![h] = TRUE]
  /\ seen' = [seen EXCEPT ![h] = Active]
  /\ Goto(h, "list")
  /\ UNCHANGED << db, kube, work, own, off, hist >>

NameTaken(h) ==
  /\ At(h, "begin") /\ op[h] = "create"
  /\ row # "unborn"
  /\ Rollback(h)

(* Mutant: the description is written outside the transaction.             *)
DescribeUnlocked(h) ==
  /\ At(h, "begin") /\ op[h] \in { "update", "record" }
  /\ \E d \in Describes : d => RowFree(h)
  /\ seen' = [seen EXCEPT ![h] = Active]
  /\ Goto(h, "list")
  /\ UNCHANGED << db, kube, work, own, off, wrote, locked, hist >>

Describe(h) ==
  /\ At(h, "begin") /\ op[h] \in { "update", "record" }
  /\ \E d \in Describes :
       /\ d => RowFree(h)
       /\ locked' = [locked EXCEPT ![h] = d /\ Exists]
  /\ seen' = [seen EXCEPT ![h] = Active]
  /\ Goto(h, "list")
  /\ UNCHANGED << db, kube, work, own, off, wrote, hist >>

(* doUpdate lists the active revisions.  A record request that finds the   *)
(* target of the CR it reports stores the resource version there and is    *)
(* done; otherwise, and for every other request, a new revision follows.   *)
ListActive(h) ==
  /\ At(h, "list")
  /\ list' = [list EXCEPT ![h] = Visible(h)]
  /\ \/ Goto(h, "insert")
     \/ /\ op[h] = "record" /\ Visible(h) # {}
        /\ Goto(h, "commit")
  /\ UNCHANGED << db, kube, op, mem, calc, left, tx, hist >>

(* The new revision and its targets.  The foreign key locks the deployment *)
(* row against deletion; a deployment deleted meanwhile makes the insert   *)
(* fail, and so does a bento the request names that does not exist.        *)
InsertRevision(h) ==
  /\ At(h, "insert") /\ nextRev \in Rev
  /\ Exists \/ op[h] = "create"
  /\ own' = [own EXCEPT ![h] = nextRev]
  /\ nextRev' = nextRev + 1
  /\ Goto(h, IF op[h] = "record" THEN "deactivate" ELSE "relist")
  /\ UNCHANGED << row, revs, kube, work, off, wrote, locked, seen, hist >>

InsertFails(h) == At(h, "insert") /\ Rollback(h)

(* Deploy lists the active revisions again; the new one is among them.     *)
Relist(h) ==
  /\ At(h, "relist")
  /\ list' = [list EXCEPT ![h] = Visible(h)]
  /\ Goto(h, "deactivate")
  /\ UNCHANGED << db, kube, op, mem, calc, left, tx, hist >>

(* Mutant: only the newest of the others is taken, as Terminate does.      *)
ToDeactivateNewest(h) ==
  LET old == list[h] \ { own[h] } IN
  { r \in old : \A q \in old : q <= r } \ off[h]

ToDeactivate(h) == list[h] \ ({ own[h] } \cup off[h])

(* The old revisions become inactive one by one, newest first.             *)
Deactivate(h) ==
  /\ At(h, "deactivate")
  /\ \E r \in ToDeactivate(h) :
       /\ \A q \in ToDeactivate(h) : q <= r
       /\ \A k \in Requests \ { h } : r \notin off[k]
       /\ off' = [off EXCEPT ![h] = @ \cup { r }]
  /\ UNCHANGED << db, kube, pc, work, own, wrote, locked, seen, hist >>

(* Mutant: the targets of the new revision are not counted.                *)
DeactivatedUncounted(h) ==
  /\ At(h, "deactivate") /\ ToDeactivate(h) = {}
  /\ Goto(h, IF op[h] = "record" THEN "commit" ELSE "get")
  /\ UNCHANGED << db, kube, work, tx, hist >>

Deactivated(h) ==
  /\ At(h, "deactivate") /\ ToDeactivate(h) = {}
  /\ \/ /\ op[h] = "record" \/ Targets = 0
        /\ Goto(h, "commit") /\ UNCHANGED left
     \/ /\ op[h] # "record" /\ Targets # 0
        /\ Goto(h, "get") /\ left' = [left EXCEPT ![h] = Targets]
  /\ UNCHANGED << db, kube, op, mem, calc, list, tx, hist >>

-----------------------------------------------------------------------------
(* Deploying one target: read the CR, then create it or replace the one    *)
(* that was read.  Kubernetes refuses a create when the CR exists, and a   *)
(* replacement when the resource version has moved on.                     *)
GetCR(h) ==
  /\ At(h, "get")
  /\ saw' = [saw EXCEPT ![h] = IF cr = 0 THEN "none" ELSE "current"]
  /\ Goto(h, "write")
  /\ UNCHANGED << db, cr, pods, builders, work, tx, hist >>

(* What every request knows of the CR once it has changed.                 *)
Outdated == [h \in Requests |-> IF saw[h] = "current" THEN "stale" ELSE saw[h]]

Writable(h) == saw[h] = "current" \/ (saw[h] = "none" /\ cr = 0)

(* Mutant: a CR that exists is kept as it is.                              *)
WriteCRIfAbsent(h) ==
  /\ At(h, "write") /\ Writable(h)
  /\ cr' = IF cr = 0 THEN own[h] ELSE cr
  /\ saw' = [Outdated EXCEPT ![h] = "nothing"]
  /\ Goto(h, "status")
  /\ UNCHANGED << db, pods, builders, work, tx, hist >>

WriteCR(h) ==
  /\ At(h, "write") /\ Writable(h)
  /\ cr' = own[h]
  /\ saw' = [Outdated EXCEPT ![h] = "nothing"]
  /\ Goto(h, "status")
  /\ UNCHANGED << db, pods, builders, work, tx, hist >>

WriteConflict(h) == At(h, "write") /\ ~Writable(h) /\ Rollback(h)

(* The target is deployed: the status becomes image-building inside the    *)
(* transaction, and a goroutine of its own syncs the status outside it.    *)
(* With every Syncer busy the goroutine is taken to have run into its      *)
(* timeout at once.                                                        *)
Spawn(here) ==
  IF \E s \in Syncers : At(s, "idle")
  THEN \E s \in Syncers :
         /\ At(s, "idle")
         /\ pc' = [here EXCEPT ![s] = "mark"]
         /\ mem' = [mem EXCEPT ![s] = "image-building"]
  ELSE pc' = here /\ UNCHANGED mem

MarkBuilding(h) ==
  /\ At(h, "status") /\ RowFree(h)
  /\ wrote' = [wrote EXCEPT ![h] = "image-building"]
  /\ locked' = [locked EXCEPT ![h] = TRUE]
  /\ left' = [left EXCEPT ![h] = @ - 1]
  /\ Spawn([pc EXCEPT ![h] = IF left[h] > 1 THEN "get" ELSE "commit"])
  /\ UNCHANGED << db, kube, op, calc, list, own, off, seen, hist >>

Commit(h) ==
  /\ At(h, "commit")
  /\ row' = IF wrote[h] = "nothing" THEN row ELSE wrote[h]
  /\ revs' = [r \in Rev |-> IF r = own[h] THEN "active"
                            ELSE IF r \in off[h] /\ revs[r] # "free" THEN "inactive"
                            ELSE revs[r]]
  /\ superseded' = [r \in Rev |-> IF r = own[h] THEN seen[h] ELSE superseded[r]]
  /\ EndTx(h)
  /\ Leave(h)
  /\ UNCHANGED << nextRev, cr, pods, builders, lost >>

(* Requests whose row locks h waits for.                                   *)
WaitsFor(h) ==
  { k \in Requests \ { h } :
      \/ At(h, "status") /\ locked[k]
      \/ At(h, "deactivate") /\ off[k] \cap ToDeactivate(h) # {} }

(* The database breaks a cycle of waits by failing one of its statements.  *)
Victim(h) ==
  \E S \in SUBSET Requests : h \in S /\ \A k \in S : WaitsFor(k) \cap S # {}

DeadlockVictim(h) == At(h, "deactivate") /\ Victim(h) /\ Rollback(h)

(* Nobody looks at the error of the statement that marks the deployment:   *)
(* the goroutine starts all the same.  The database refuses whatever the   *)
(* transaction does next, so the request ends there.                       *)
StatusFails(h) ==
  /\ At(h, "status") /\ (Faults \/ Victim(h))
  /\ EndTx(h)
  /\ Spawn([pc EXCEPT ![h] = "aborted"])
  /\ lost' = IF cr # 0 /\ cr = own[h] THEN lost \cup { cr } ELSE lost
  /\ UNCHANGED << db, cr, pods, builders, op, calc, list, left, superseded >>

GiveUp(h) ==
  /\ At(h, "aborted")
  /\ Leave(h)
  /\ UNCHANGED << db, kube, tx, hist >>

(* Any other call inside the transaction may fail as well.                 *)
TxFault(h) == Faults /\ pc[h] \in TxPCs \ { "status" } /\ Rollback(h)

-----------------------------------------------------------------------------
(* Terminate runs outside any transaction: mark the row, find the newest   *)
(* active revision, delete the CR (an error if there is none), sync.       *)
MarkTerminating(h) ==
  /\ At(h, "term") /\ RowFree(h)
  /\ row' = IF Exists THEN "terminating" ELSE row
  /\ mem' = [mem EXCEPT ![h] = "terminating"]
  /\ Goto(h, "termlist")
  /\ UNCHANGED << revs, nextRev, kube, op, calc, list, left, tx, hist >>

ListNewest(h) ==
  /\ At(h, "termlist")
  /\ Goto(h, IF Active = {} THEN "mark" ELSE "termcr")
  /\ UNCHANGED << db, kube, work, tx, hist >>

DeleteCR(h) ==
  /\ At(h, "termcr") /\ cr # 0
  /\ cr' = 0
  /\ saw' = Outdated
  /\ Goto(h, "mark")
  /\ UNCHANGED << db, pods, builders, work, tx, hist >>

TerminateFails(h) ==
  /\ At(h, "termcr") /\ (cr = 0 \/ Faults)
  /\ Leave(h)
  /\ UNCHANGED << db, kube, tx, hist >>

(* Mutant: Delete takes deployments that have nothing deployed as well.    *)
DeleteUnused(h) ==
  /\ At(h, "del") /\ mem[h] \in { "terminated", "terminating", "non-deployed" }
  /\ \A k \in Requests : ~locked[k] /\ own[k] = 0
  /\ row' = "deleted"
  /\ revs' = [r \in Rev |-> "free"]
  /\ Leave(h)
  /\ UNCHANGED << nextRev, kube, tx, hist >>

(* Delete decides on its own copy of the row, then waits for the row: both *)
(* a lock on it and a new revision that refers to it keep it waiting.  The *)
(* revisions go with the deployment.                                       *)
Delete(h) ==
  /\ At(h, "del") /\ mem[h] \in { "terminated", "terminating" }
  /\ \A k \in Requests : ~locked[k] /\ own[k] = 0
  /\ row' = "deleted"
  /\ revs' = [r \in Rev |-> "free"]
  /\ Leave(h)
  /\ UNCHANGED << nextRev, kube, tx, hist >>

DeleteRefused(h) ==
  /\ At(h, "del") /\ mem[h] \notin { "terminated", "terminating" }
  /\ Leave(h)
  /\ UNCHANGED << db, kube, tx, hist >>

-----------------------------------------------------------------------------
(* SyncStatus, in a request or in a goroutine of its own: stamp the row,   *)
(* read Kubernetes, store the status that follows from the copy in memory. *)
MarkSyncing(p) ==
  /\ At(p, "mark") /\ RowFree(p)
  /\ Goto(p, "read")
  /\ UNCHANGED << db, kube, work, tx, hist >>

ReadKube(p) ==
  /\ At(p, "read")
  /\ \E s \in StatusesFromK8s(mem[p], builders, pods) : calc' = [calc EXCEPT ![p] = s]
  /\ Goto(p, "store")
  /\ UNCHANGED << db, kube, op, mem, list, left, tx, hist >>

StoreStatus(p) ==
  /\ At(p, "store") /\ RowFree(p)
  /\ row' = IF Exists THEN calc[p] ELSE row
  /\ Leave(p)
  /\ UNCHANGED << revs, nextRev, kube, tx, hist >>

(* A goroutine gives up after its timeout, wherever it is; a request does  *)
(* when a call of it fails.                                                *)
SyncFails(p) ==
  /\ pc[p] \in SyncPCs /\ (p \in Syncers \/ Faults)
  /\ Leave(p)
  /\ UNCHANGED << db, kube, tx, hist >>

(* Mutant: the cron job skips what is terminating.                         *)
CronSyncLiving(s) ==
  /\ At(s, "idle") /\ Exists /\ row # "terminating"
  /\ mem' = [mem EXCEPT ![s] = row]
  /\ Goto(s, "mark")
  /\ UNCHANGED << db, kube, op, calc, list, left, tx, hist >>

(* Mutant: the cron job skips what has nothing deployed.                   *)
CronSyncDeployed(s) ==
  /\ At(s, "idle") /\ Exists /\ row # "non-deployed"
  /\ mem' = [mem EXCEPT ![s] = row]
  /\ Goto(s, "mark")
  /\ UNCHANGED << db, kube, op, calc, list, left, tx, hist >>

(* The cron job, once a minute, and the pod watchers of the dashboard read *)
(* the row and sync it.                                                    *)
CronSync(s) ==
  /\ At(s, "idle") /\ Exists
  /\ mem' = [mem EXCEPT ![s] = row]
  /\ Goto(s, "mark")
  /\ UNCHANGED << db, kube, op, calc, list, left, tx, hist >>

-----------------------------------------------------------------------------
(* The cluster: pods come and go, but new ones only while there is a CR;   *)
(* controllers touch the CR, which moves its resource version.             *)
PodsChange ==
  /\ pods' \in PodViews /\ pods' # pods
  /\ cr = 0 => pods' \subseteq pods \cup { "Terminating", "Succeeded", "Failed" } /\ pods # {}
  /\ UNCHANGED << db, cr, saw, builders, pc, work, tx, hist >>

BuildersChange ==
  /\ builders' \in BuilderViews /\ builders' # builders
  /\ UNCHANGED << db, cr, saw, pods, pc, work, tx, hist >>

ControllerTouchesCR ==
  /\ Faults /\ cr # 0 /\ saw' = Outdated /\ saw' # saw
  /\ UNCHANGED << db, cr, pods, builders, pc, work, tx, hist >>

(* The server dies: every goroutine is gone, the database rolls back the   *)
(* transactions it had open.                                               *)
Crash ==
  /\ Faults
  /\ \E p \in Procs : ~At(p, "idle")
  /\ lost' = lost \cup ({ own[h] : h \in Requests } \cap ({ cr } \ { 0 }))
  /\ pc' = [p \in Procs |-> "idle"]
  /\ op' = [p \in Procs |-> "sync"]
  /\ mem' = [p \in Procs |-> "unknown"]
  /\ calc' = [p \in Procs |-> "unknown"]
  /\ list' = [p \in Procs |-> {}]
  /\ left' = [p \in Procs |-> 0]
  /\ own' = [h \in Requests |-> 0]
  /\ off' = [h \in Requests |-> {}]
  /\ wrote' = [h \in Requests |-> "nothing"]
  /\ locked' = [h \in Requests |-> FALSE]
  /\ seen' = [h \in Requests |-> {}]
  /\ saw' = [h \in Requests |-> "nothing"]
  /\ UNCHANGED << db, cr, pods, builders, superseded >>

-----------------------------------------------------------------------------
TxStep(h) ==
  \/ CreateRow(h) \/ NameTaken(h) \/ Describe(h) \/ ListActive(h)
  \/ InsertRevision(h) \/ InsertFails(h) \/ Relist(h) \/ Deactivate(h) \/ Deactivated(h)
  \/ GetCR(h) \/ WriteCR(h) \/ WriteConflict(h) \/ MarkBuilding(h) \/ Commit(h)
  \/ DeadlockVictim(h) \/ StatusFails(h) \/ GiveUp(h)

EndStep(h) ==
  \/ MarkTerminating(h) \/ ListNewest(h) \/ DeleteCR(h) \/ TerminateFails(h)
  \/ Delete(h) \/ DeleteRefused(h)

SyncStep(p) == MarkSyncing(p) \/ ReadKube(p) \/ StoreStatus(p)

ClusterStep == PodsChange \/ BuildersChange \/ ControllerTouchesCR

(* The deployment is gone for good and nobody works on it any more.        *)
Over ==
  /\ row = "deleted" /\ \A p \in Procs : At(p, "idle")
  /\ UNCHANGED vars

Next ==
  \/ \E h \in Requests :
       \/ \E o \in Ops : Arrive(h, o)
       \/ TxStep(h) \/ TxFault(h) \/ EndStep(h)
  \/ \E p \in Procs : SyncStep(p) \/ SyncFails(p)
  \/ \E s \in Syncers : CronSync(s)
  \/ ClusterStep
  \/ Crash
  \/ Over

Spec == Init /\ [][Next]_vars

(* Requests, goroutines and the database make progress.  Transactions end: *)
(* their statements and calls have answers, and waits for row locks form   *)
(* no lasting cycle.  The cron job runs every minute, and not each of its  *)
(* syncs is cut off by the timeout, hence strong fairness.  Clients and    *)
(* the cluster owe nothing.                                                *)
FairSpec ==
  /\ Spec
  /\ \A h \in Requests : WF_vars(TxStep(h)) /\ WF_vars(EndStep(h))
  /\ \A s \in Syncers : WF_vars(CronSync(s))
  /\ \A p \in Procs :
       SF_vars(MarkSyncing(p)) /\ SF_vars(ReadKube(p)) /\ SF_vars(StoreStatus(p))

-----------------------------------------------------------------------------
(* Every variable has its type, and a request that deploys has a target    *)
(* left to deploy.                                                         *)
TypeOK ==
  /\ row \in DeploymentStatuses \cup { "unborn", "deleted" }
  /\ revs \in [Rev -> { "free", "active", "inactive" }]
  /\ nextRev \in 1 .. MaxRev + 1
  /\ cr \in 0 .. MaxRev
  /\ saw \in [Requests -> { "nothing", "none", "current", "stale" }]
  /\ pods \in SUBSET PodStatuses /\ builders \in SUBSET PodStatuses
  /\ pc \in [Procs -> RequestPCs]
  /\ op \in [Procs -> AllOps]
  /\ mem \in [Procs -> DeploymentStatuses] /\ calc \in [Procs -> DeploymentStatuses]
  /\ list \in [Procs -> SUBSET Rev] /\ left \in [Procs -> 0 .. Targets]
  /\ \A h \in Requests : pc[h] \in { "get", "write", "status" } => left[h] # 0
  /\ own \in [Requests -> 0 .. MaxRev] /\ off \in [Requests -> SUBSET Rev]
  /\ wrote \in [Requests -> DeploymentStatuses \cup { "nothing" }]
  /\ locked \in [Requests -> BOOLEAN]
  /\ seen \in [Requests -> SUBSET Rev]
  /\ superseded \in [Rev -> SUBSET Rev] /\ lost \in SUBSET Rev

(* An update supersedes every revision that was active when its            *)
(* transaction began: once it has committed none of them is active, now or *)
(* ever again.  What two concurrent updates leave active side by side is   *)
(* therefore only their own two revisions (doUpdate, Deploy).              *)
Supersedes ==
  \A r \in Rev : \A q \in superseded[r] : revs[q] # "active"

(* When requests come one at a time, or every update carries a description *)
(* and so starts by locking the deployment row, at most one revision of    *)
(* the deployment is active.                                               *)
AtMostOneActive == \A q, r \in Active : q = r

(* A deployment that has ever had a revision has an active one: Terminate  *)
(* and the status find the CR and its bento through it.                    *)
SomeActive == Exists /\ (\E r \in Rev : revs[r] # "free") => Active # {}

(* When every update names a target and is deployed, the CR in the cluster *)
(* belongs to an active revision or to one whose transaction is still      *)
(* open; the exceptions are revisions that were rolled back after Deploy   *)
(* had written the CR.                                                     *)
CRBacked ==
  Exists /\ cr # 0 => cr \in Active \cup lost \/ \E h \in Requests : own[h] = cr

(* No sync brings a terminated deployment back, whatever pods it finds,    *)
(* unless it works on a copy of the row from before the termination or     *)
(* sees the image being built.                                             *)
NoRevival ==
  [][ row = "terminated" /\ row' \notin { "terminated", "deleted" } =>
        \/ \E h \in Requests : At(h, "commit") \/ At(h, "term")
        \/ \E p \in Procs : At(p, "store") /\ calc[p] = row' /\
             \/ mem[p] # "terminated"
             \/ calc[p] \in { "image-building", "image-build-failed" } ]_row

(* Deployments are deleted only when they are terminated, as the check in  *)
(* deploymentService.Delete says ("deployment is not terminated").         *)
DeleteOnlyTerminated ==
  [][ row \notin { "deleted", "terminated", "terminating" } => row' # "deleted" ]_row

Quiet == \A h \in Requests : At(h, "idle")

(* A deployment does not stay in "terminating" for good once clients have  *)
(* stopped and none of its pods is running: the cron job sees to it.       *)
TerminatingEnds ==
  <>[]Quiet => []<>(row # "terminating" \/ "Running" \in pods)

(* Once clients have stopped and the pods run, the stored status becomes   *)
(* "running" and stays so, whatever stale status a sync had stored before; *)
(* a deployment on its way out is the exception.                           *)
StatusConverges ==
  <>[](Quiet /\ pods = { "Running" } /\ Decisive(builders) = {})
    => <>[](row \in { "running", "terminating", "terminated", "deleted", "unborn" })
=============================================================================

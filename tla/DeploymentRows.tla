--------------------------- MODULE DeploymentRows ---------------------------
(***************************************************************************)
(* Theorems about Deployment: who holds the lock of the deployment row,    *)
(* that revisions are always replaced, whose CR is in the cluster, and     *)
(* what a sync can make of a terminated deployment.                        *)
(***************************************************************************)
EXTENDS DeploymentProofs

(* Steps that keep a request in its transaction, or out of one.            *)
KeepsPhase(h) ==
  \/ pc'[h] = pc[h] /\ op'[h] = op[h]
  \/ pc[h] \notin TxPCs /\ pc'[h] \notin TxPCs
  \/ pc[h] \in Underway /\ pc'[h] \in Underway /\ op'[h] = op[h]

LEMMA LocksKept ==
  ASSUME LocksInv, UNCHANGED << own, wrote, locked >>,
         row' = row \/ (Exists /\ Exists'), \A h \in Requests : KeepsPhase(h)
  PROVE  RowLocks'
  <1>1. /\ Exists => row # "deleted" /\ row # "unborn"
        /\ Exists' => row' # "deleted" /\ row' # "unborn"
    BY DEF Exists, DeploymentStatuses
  <1> QED
    BY <1>1 DEF LocksInv, RowLocks, KeepsPhase, Underway

LEMMA LocksInit == Init => RowLocks
  BY DEF Init, RowLocks, Underway, TxPCs, Procs

(* A request begins to work in a transaction, and inserts its revision.    *)
LEMMA LocksTaken ==
  ASSUME LocksInv, SupersedesInv', NEW h \in Requests,
         CreateRow(h) \/ Describe(h) \/ InsertRevision(h) \/ MarkBuilding(h)
  PROVE  RowLocks'
  <1> USE DEF LocksInv, SupersedesInv, TypeOK, Procs
  <1>1. CASE CreateRow(h) \/ Describe(h)
    <2>1. /\ pc[h] = "begin" /\ pc' = [pc EXCEPT ![h] = "list"]
          /\ UNCHANGED << row, own, op >>
      BY <1>1 DEF CreateRow, Describe, At, Goto, db, work
    <2>2. PICK b \in BOOLEAN : locked' = [locked EXCEPT ![h] = b]
      BY <1>1 DEF CreateRow, Describe, Exists
    <2>3. /\ b => row # "deleted"
          /\ op[h] = "create" => b
          /\ wrote' = wrote \/ (b /\ wrote' = [wrote EXCEPT ![h] = "non-deployed"])
      <3>1. CASE CreateRow(h)
        BY <2>2, <3>1 DEF CreateRow
      <3>2. CASE Describe(h)
        <4>1. PICK d \in Describes : b = (d /\ Exists)
          BY <2>2, <3>2 DEF Describe
        <4> QED
          BY <3>2, <4>1 DEF Describe, Exists, DeploymentStatuses
      <3> QED
        BY <1>1, <3>1, <3>2
    <2>4. ~locked[h]
      BY <2>1 DEF RowLocks, Underway
    <2> QED
      BY <2>1, <2>2, <2>3, <2>4 DEF RowLocks, Underway, TxPCs
  <1>2. CASE InsertRevision(h)
    <2>1. /\ pc[h] = "insert" /\ own' = [own EXCEPT ![h] = nextRev]
          /\ Exists \/ op[h] = "create"
          /\ \E l \in { "deactivate", "relist" } : pc' = [pc EXCEPT ![h] = l]
          /\ UNCHANGED << row, op, wrote, locked >>
      BY <1>2 DEF InsertRevision, At, Goto, work
    <2>2. row # "deleted"
      BY <2>1 DEF RowLocks, Underway, TxPCs, Exists, DeploymentStatuses
    <2>3. pc'[h] \in Underway /\ \A k \in Requests \ { h } : pc'[k] = pc[k] /\ own'[k] = own[k]
      BY <2>1 DEF Underway, TxPCs
    <2> QED
      BY <2>1, <2>2, <2>3 DEF RowLocks, Underway, TxPCs
  <1>3. CASE MarkBuilding(h)
    <2>1. /\ pc[h] = "status" /\ locked' = [locked EXCEPT ![h] = TRUE]
          /\ wrote' = [wrote EXCEPT ![h] = "image-building"]
          /\ UNCHANGED << row, op, own >>
      BY <1>3 DEF MarkBuilding, At, db
    <2>2. /\ pc'[h] \in { "get", "commit" }
          /\ \A k \in Requests \ { h } : pc'[k] = pc[k]
      BY <1>3, DeploymentAssumption DEF MarkBuilding, Spawn, At
    <2>3. own[h] # 0 /\ row # "deleted"
      BY <2>1 DEF Phases, Inserted, RowLocks
    <2> QED
      BY <2>1, <2>2, <2>3 DEF RowLocks, Underway, TxPCs
  <1> QED
    BY <1>1, <1>2, <1>3

(* Its transaction ends, one way or the other.                             *)
LEMMA LocksReleased ==
  ASSUME LocksInv, SupersedesInv', NEW h \in Requests,
         Rollback(h) \/ StatusFails(h) \/ Commit(h)
  PROVE  RowLocks'
  <1> USE DEF LocksInv, SupersedesInv, TypeOK, Procs
  <1>1. /\ own' = [own EXCEPT ![h] = 0] /\ wrote' = [wrote EXCEPT ![h] = "nothing"]
        /\ locked' = [locked EXCEPT ![h] = FALSE]
        /\ \A k \in Requests \ { h } : op'[k] = op[k]
    BY DEF Rollback, StatusFails, Commit, EndTx, Leave
  <1>2. row' = row \/ (row # "deleted" /\ row' # "deleted" /\ row' # "unborn")
    BY DEF Rollback, StatusFails, Commit, db, RowLocks, DeploymentStatuses
  <1>3. /\ pc'[h] \notin TxPCs
        /\ \A k \in Requests \ { h } : pc'[k] = pc[k]
    <2>1. CASE Rollback(h) \/ Commit(h)
      BY <2>1 DEF Rollback, Commit, Leave, Goto, TxPCs
    <2>2. CASE StatusFails(h)
      BY <2>2, DeploymentAssumption DEF StatusFails, Spawn, At, TxPCs
    <2> QED
      BY <2>1, <2>2
  <1> QED
    BY <1>1, <1>2, <1>3 DEF RowLocks, Underway, TxPCs

LEMMA LocksArrive ==
  ASSUME LocksInv, SupersedesInv', NEW h \in Requests, NEW o \in Ops, Arrive(h, o)
  PROVE  RowLocks'
  <1> USE DEF LocksInv, SupersedesInv, TypeOK, Procs
  <1>1. /\ pc[h] = "idle" /\ op' = [op EXCEPT ![h] = o]
        /\ o # "create" => row # "unborn"
        /\ UNCHANGED << row, own, wrote, locked >>
    BY DEF Arrive, At, Exists, DeploymentStatuses, db, tx
  <1>2. PICK l \in { "begin", "term", "del", "mark" } :
          /\ pc' = [pc EXCEPT ![h] = l]
          /\ l = "begin" => o \in { "create", "update", "record" }
    BY DeploymentAssumption DEF Arrive, AllOps, Goto
  <1> QED
    BY <1>1, <1>2 DEF RowLocks, Underway, TxPCs

LEMMA LocksEnd ==
  ASSUME LocksInv, SupersedesInv', Crash \/ \E h \in Requests : Delete(h)
  PROVE  RowLocks'
  <1> USE DEF LocksInv, SupersedesInv, TypeOK, Procs
  <1>1. CASE Crash
    <2>1. /\ pc' = [p \in Procs |-> "idle"] /\ own' = [h \in Requests |-> 0]
          /\ wrote' = [h \in Requests |-> "nothing"]
          /\ locked' = [h \in Requests |-> FALSE]
      BY <1>1 DEF Crash
    <2> QED
      BY <2>1 DEF RowLocks, Underway, TxPCs
  <1>2. ASSUME NEW h \in Requests, Delete(h) PROVE RowLocks'
    <2>1. /\ pc[h] = "del" /\ pc' = [pc EXCEPT ![h] = "idle"]
          /\ op' = [op EXCEPT ![h] = "sync"] /\ row' = "deleted"
          /\ \A k \in Requests : own[k] = 0 /\ ~locked[k]
          /\ UNCHANGED << own, wrote, locked >>
      BY <1>2 DEF Delete, Leave, At, Goto, tx
    <2>2. \A k \in Requests : pc[k] \in Underway => op[k] # "create"
      BY <2>1 DEF RowLocks
    <2> QED
      BY <2>1, <2>2 DEF RowLocks, Underway, TxPCs
  <1> QED
    BY <1>1, <1>2

(* What the other steps leave as it is.                                    *)
LEMMA LocksElsewhere ==
  ASSUME LocksInv, SupersedesInv',
         \/ \E h \in Requests :
              \/ ListActive(h) \/ Relist(h) \/ Deactivate(h) \/ Deactivated(h)
              \/ GetCR(h) \/ WriteCR(h) \/ GiveUp(h) \/ (EndStep(h) /\ ~Delete(h))
         \/ \E p \in Procs : SyncStep(p) \/ SyncFails(p) \/ (p \in Syncers /\ CronSync(p))
         \/ ClusterStep
  PROVE  RowLocks'
  <1> USE DEF LocksInv, SupersedesInv, TypeOK, Procs
  <1>1. ASSUME NEW h \in Requests,
               \/ ListActive(h) \/ Relist(h) \/ Deactivate(h) \/ Deactivated(h)
               \/ GetCR(h) \/ WriteCR(h)
        PROVE  RowLocks'
    <2>1. /\ UNCHANGED << row, op, own, wrote, locked >>
          /\ pc[h] \in Underway
          /\ pc' = pc \/ \E l \in Underway : pc' = [pc EXCEPT ![h] = l]
      BY <1>1 DEF ListActive, Relist, Deactivate, Deactivated, GetCR, WriteCR, At, Goto,
                  db, tx, work, Underway, TxPCs
    <2> QED
      BY <2>1, LocksKept DEF KeepsPhase, Underway, TxPCs
  <1>2. ASSUME NEW h \in Requests, GiveUp(h) \/ (EndStep(h) /\ ~Delete(h)) PROVE RowLocks'
    <2>1. /\ UNCHANGED << own, wrote, locked >>
          /\ row' = row \/ (Exists /\ row' = "terminating")
          /\ \A k \in Requests \ { h } : pc'[k] = pc[k] /\ op'[k] = op[k]
          /\ pc[h] \notin TxPCs /\ pc'[h] \notin TxPCs
      BY <1>2 DEF GiveUp, EndStep, MarkTerminating, ListNewest, DeleteCR, TerminateFails,
                  DeleteRefused, Leave, At, Goto, db, tx, work, TxPCs
    <2>2. row' = row \/ (Exists /\ Exists')
      BY <2>1 DEF Exists, DeploymentStatuses
    <2> QED
      BY <2>1, <2>2, LocksKept DEF KeepsPhase
  <1>3. ASSUME NEW p \in Procs, SyncStep(p) \/ SyncFails(p) \/ (p \in Syncers /\ CronSync(p))
        PROVE  RowLocks'
    <2>1. /\ UNCHANGED << own, wrote, locked >>
          /\ row' = row \/ (Exists /\ row' = calc[p])
          /\ \A k \in Requests \ { p } : pc'[k] = pc[k] /\ op'[k] = op[k]
          /\ pc[p] \notin TxPCs /\ pc'[p] \notin TxPCs
      BY <1>3
      DEF SyncStep, MarkSyncing, ReadKube, StoreStatus, SyncFails, CronSync,
          Leave, At, Goto, db, tx, work, TxPCs, SyncPCs
    <2>2. row' = row \/ (Exists /\ Exists')
      BY <2>1 DEF Exists
    <2> QED
      BY <2>1, <2>2, LocksKept DEF KeepsPhase
  <1>4. CASE ClusterStep
    BY <1>4, LocksKept
    DEF KeepsPhase, ClusterStep, PodsChange, BuildersChange, ControllerTouchesCR, db, tx, work
  <1> QED
    BY <1>1, <1>2, <1>3, <1>4

(* The lock of the deployment row is held by whoever has written it, and   *)
(* no transaction that writes it or inserts a revision outlives the        *)
(* deployment: what is deleted stays deleted.                              *)
THEOREM LocksInvariant == Spec => []LocksInv
  <1>1. LocksInv /\ SupersedesInv' /\ UNCHANGED vars => RowLocks'
    BY LocksKept DEF KeepsPhase, vars, db, kube, work, tx, hist
  <1>2. ASSUME LocksInv, SupersedesInv', Next PROVE RowLocks'
    BY <1>1, <1>2, LocksTaken, LocksReleased, LocksArrive, LocksEnd, LocksElsewhere
    DEF Next, TxStep, TxFault, NameTaken, InsertFails, WriteConflict, DeadlockVictim,
        EndStep, Over, Procs
  <1>3. LocksInv <=> SupersedesInv /\ RowLocks
    BY DEF LocksInv
  <1> QED
    BY <1>1, <1>2, <1>3, LocksInit, SupersedesInit, SupersedesInvariant, PTL DEF Spec

-----------------------------------------------------------------------------
LEMMA ReplacesStep ==
  ASSUME SupersedesInv, SupersedesInv', Replaces, NEW h \in Requests,
         TxStep(h) \/ TxFault(h)
  PROVE  Replaces'
  <1> USE DEF SupersedesInv, TypeOK, Procs
  <1>1. CASE Deactivate(h)
    <2>1. pc[h] = "deactivate" /\ own' = own /\ \A k \in Requests \ { h } : off'[k] = off[k]
      BY <1>1 DEF Deactivate, At
    <2>2. own[h] # 0
      BY <2>1 DEF Phases, Inserted
    <2> QED
      BY <2>1, <2>2 DEF Replaces
  <1>2. CASE InsertRevision(h)
    <2>1. own' = [own EXCEPT ![h] = nextRev] /\ off' = off /\ nextRev # 0
      BY <1>2, RevPositive DEF InsertRevision
    <2> QED
      BY <2>1 DEF Replaces
  <1>3. ASSUME EndTx(h) PROVE Replaces'
    BY <1>3 DEF EndTx, Replaces
  <1>4. CASE UNCHANGED << own, off >>
    BY <1>4 DEF Replaces
  <1> QED
    BY <1>1, <1>2, <1>3, <1>4
    DEF TxStep, TxFault, CreateRow, NameTaken, Describe, ListActive, InsertFails, Relist,
        Deactivated, GetCR, WriteCR, WriteConflict, MarkBuilding, Commit, DeadlockVictim,
        StatusFails, GiveUp, Rollback, tx

(* A commit that makes revisions inactive makes one active.                *)
LEMMA OneRemainsCommit ==
  ASSUME SupersedesInv, Replaces, OneRemains, NEW h \in Requests, Commit(h)
  PROVE  OneRemains'
  <1> USE DEF SupersedesInv, TypeOK
  <1>1. revs' = [r \in Rev |-> IF r = own[h] THEN "active"
                               ELSE IF r \in off[h] /\ revs[r] # "free" THEN "inactive"
                               ELSE revs[r]]
    BY DEF Commit
  <1>2. CASE own[h] = 0
    <2>1. revs' = revs
      BY <1>1, <1>2, RevPositive DEF Replaces
    <2> QED
      BY <2>1 DEF OneRemains, Active
  <1>3. CASE own[h] # 0
    <2>1. own[h] \in Rev
      BY <1>3, DeploymentAssumption DEF Rev
    <2>2. own[h] \in Active'
      BY <1>1, <2>1 DEF Active
    <2> QED
      BY <2>2 DEF OneRemains
  <1> QED
    BY <1>2, <1>3

(* Revisions are made inactive only by a transaction that puts one of its  *)
(* own in their place.                                                     *)
LEMMA SomeActiveInvariant == Spec => []SomeActiveInv
  <1>1. Init => Replaces /\ OneRemains
    BY DEF Init, Replaces, OneRemains
  <1>2. ASSUME SupersedesInv, SupersedesInv', Replaces, OneRemains, [Next]_vars
        PROVE  Replaces' /\ OneRemains'
    <2>1. ASSUME UNCHANGED << revs, own, off >> PROVE Replaces' /\ OneRemains'
      BY <1>2, <2>1 DEF Replaces, OneRemains, Active
    <2>2. ASSUME NEW h \in Requests, TxStep(h) \/ TxFault(h) PROVE Replaces' /\ OneRemains'
      <3>1. Replaces'
        BY <1>2, <2>2, ReplacesStep
      <3>2. CASE Commit(h)
        BY <1>2, <3>1, <3>2, OneRemainsCommit
      <3>3. CASE ~Commit(h)
        <4>1. revs' = revs
          BY <2>2, <3>3
          DEF TxStep, TxFault, CreateRow, NameTaken, Describe, ListActive, InsertRevision,
              InsertFails, Relist, Deactivate, Deactivated, GetCR, WriteCR, WriteConflict,
              MarkBuilding, DeadlockVictim, StatusFails, GiveUp, Rollback, db
        <4> QED
          BY <1>2, <3>1, <4>1 DEF OneRemains, Active
      <3> QED
        BY <3>2, <3>3
    <2>3. ASSUME NEW h \in Requests, Delete(h) PROVE Replaces' /\ OneRemains'
      BY <1>2, <2>3 DEF Delete, Replaces, OneRemains, tx
    <2>4. CASE Crash
      BY <1>2, <2>4 DEF Crash, Replaces, OneRemains, Active, db
    <2>5. ASSUME NEW h \in Requests, (\E o \in Ops : Arrive(h, o)) \/ (EndStep(h) /\ ~Delete(h))
          PROVE  Replaces' /\ OneRemains'
      BY <2>1, <2>5 DEF Arrive, EndStep, MarkTerminating, ListNewest, DeleteCR, TerminateFails,
                        DeleteRefused, db, tx
    <2>6. ASSUME NEW p \in Procs, SyncStep(p) \/ SyncFails(p) \/ (p \in Syncers /\ CronSync(p))
          PROVE  Replaces' /\ OneRemains'
      BY <2>1, <2>6 DEF SyncStep, MarkSyncing, ReadKube, StoreStatus, SyncFails, CronSync, db, tx
    <2>7. CASE ClusterStep \/ UNCHANGED vars
      BY <2>1, <2>7
      DEF ClusterStep, PodsChange, BuildersChange, ControllerTouchesCR, vars, db, tx
    <2> QED
      BY <1>2, <2>2, <2>3, <2>4, <2>5, <2>6, <2>7 DEF Next, Over, Procs, EndStep
  <1>3. SomeActiveInv <=> SupersedesInv /\ Replaces /\ OneRemains
    BY DEF SomeActiveInv
  <1> QED
    BY <1>1, <1>2, <1>3, SupersedesInvariant, PTL DEF Spec

(* A deployment that has ever had a revision has an active one, for any    *)
(* number of requests, revisions and targets and whatever fails: Terminate *)
(* and the status find the CR through it.                                  *)
THEOREM SomeRevisionActive == Spec => []SomeActive
  <1>1. SomeActiveInv => SomeActive
    BY DEF SomeActiveInv, OneRemains, SomeActive
  <1> QED
    BY <1>1, SomeActiveInvariant, PTL

-----------------------------------------------------------------------------
LEMMA VerdictTerminated ==
  ASSUME NEW b, NEW ps
  PROVE  StatusesFromK8s("terminated", b, ps)
           \subseteq { "terminated", "image-building", "image-build-failed" }
  BY DEF StatusesFromK8s, StatusOfPods, BuilderVerdict

LEMMA TerminatedStep ==
  ASSUME TypeOK, StaysTerminated, [Next]_vars
  PROVE  StaysTerminated'
  <1> USE DEF TypeOK
  <1>1. ASSUME NEW p \in Procs, ReadKube(p) PROVE StaysTerminated'
    <2>1. PICK s \in StatusesFromK8s(mem[p], builders, pods) : calc' = [calc EXCEPT ![p] = s]
      BY <1>1 DEF ReadKube
    <2>2. mem' = mem /\ \A k \in Procs \ { p } : pc'[k] = pc[k]
      BY <1>1 DEF ReadKube, Goto
    <2>3. mem[p] = "terminated" =>
            s \in { "terminated", "image-building", "image-build-failed" }
      BY <2>1, VerdictTerminated
    <2> QED
      BY <2>1, <2>2, <2>3 DEF StaysTerminated
  <1>2. ASSUME \A p \in Procs : pc'[p] = "store" =>
                 pc[p] = "store" /\ mem'[p] = mem[p] /\ calc'[p] = calc[p]
        PROVE  StaysTerminated'
    BY <1>2 DEF StaysTerminated
  <1>3. ASSUME NEW h \in Requests, MarkBuilding(h) \/ StatusFails(h) PROVE StaysTerminated'
    <2>1. calc' = calc /\ h \in Procs /\ pc[h] = "status"
      BY <1>3 DEF MarkBuilding, StatusFails, At, Procs
    <2>2. PICK l \in { "get", "commit", "aborted" } : Spawn([pc EXCEPT ![h] = l])
      BY <1>3 DEF MarkBuilding, StatusFails
    <2>3. \A p \in Procs : pc'[p] = "store" => pc[p] = "store" /\ mem'[p] = mem[p]
      <3>1. CASE \E s \in Syncers : At(s, "idle")
        <4>1. PICK s \in Syncers : /\ pc' = [[pc EXCEPT ![h] = l] EXCEPT ![s] = "mark"]
                                   /\ mem' = [mem EXCEPT ![s] = "image-building"]
          BY <2>2, <3>1 DEF Spawn
        <4> QED
          BY <2>2, <4>1 DEF Procs
      <3>2. CASE ~ \E s \in Syncers : At(s, "idle")
        BY <2>2, <3>2 DEF Spawn
      <3> QED
        BY <3>1, <3>2
    <2> QED
      BY <1>2, <2>1, <2>3
  <1>4. ASSUME NEW p \in Procs, Leave(p) PROVE StaysTerminated'
    BY <1>2, <1>4 DEF Leave, Goto
  <1>5. ASSUME NEW p \in Procs, NEW l, l # "store", Goto(p, l), calc' = calc,
               \A k \in Procs \ { p } : mem'[k] = mem[k]
        PROVE  StaysTerminated'
    BY <1>2, <1>5 DEF Goto
  <1>6. CASE Crash
    BY <1>2, <1>6 DEF Crash
  <1>7. ASSUME UNCHANGED << pc, mem, calc >> PROVE StaysTerminated'
    BY <1>2, <1>7
  <1>8. ASSUME NEW h \in Requests, TxStep(h) \/ TxFault(h) PROVE StaysTerminated'
    <2> USE DEF Procs, work
    <2>1. CASE CreateRow(h) \/ Describe(h) \/ InsertRevision(h) \/ Relist(h) \/ GetCR(h)
               \/ WriteCR(h)
      BY <1>5, <2>1 DEF CreateRow, Describe, InsertRevision, Relist, GetCR, WriteCR
    <2>2. CASE ListActive(h) \/ Deactivated(h)
      BY <1>5, <2>2 DEF ListActive, Deactivated
    <2>3. CASE Deactivate(h)
      BY <1>7, <2>3 DEF Deactivate
    <2>4. CASE Commit(h) \/ Rollback(h) \/ GiveUp(h)
      BY <1>4, <2>4 DEF Commit, Rollback, GiveUp
    <2> QED
      BY <1>3, <1>8, <2>1, <2>2, <2>3, <2>4
      DEF TxStep, TxFault, NameTaken, InsertFails, WriteConflict, DeadlockVictim
  <1>9. ASSUME NEW h \in Requests, EndStep(h) PROVE StaysTerminated'
    <2> USE DEF Procs, work
    <2>1. CASE MarkTerminating(h) \/ ListNewest(h) \/ DeleteCR(h)
      BY <1>5, <2>1 DEF MarkTerminating, ListNewest, DeleteCR
    <2>2. CASE TerminateFails(h) \/ Delete(h) \/ DeleteRefused(h)
      BY <1>4, <2>2 DEF TerminateFails, Delete, DeleteRefused
    <2> QED
      BY <1>9, <2>1, <2>2 DEF EndStep
  <1>10. ASSUME NEW h \in Requests, NEW o \in Ops, Arrive(h, o) PROVE StaysTerminated'
    <2>1. PICK l \in { "begin", "term", "del", "mark" } : Goto(h, l)
      BY <1>10, DeploymentAssumption DEF Arrive, AllOps
    <2> QED
      BY <1>5, <1>10, <2>1 DEF Arrive, Procs
  <1>11. ASSUME NEW p \in Procs, MarkSyncing(p) \/ StoreStatus(p) \/ SyncFails(p)
                                 \/ (p \in Syncers /\ CronSync(p))
         PROVE  StaysTerminated'
    <2>1. CASE MarkSyncing(p) \/ CronSync(p)
      BY <1>5, <2>1 DEF MarkSyncing, CronSync, work
    <2>2. CASE StoreStatus(p) \/ SyncFails(p)
      BY <1>4, <2>2 DEF StoreStatus, SyncFails
    <2> QED
      BY <1>11, <2>1, <2>2
  <1>12. CASE ClusterStep \/ UNCHANGED vars
    BY <1>7, <1>12
    DEF ClusterStep, PodsChange, BuildersChange, ControllerTouchesCR, vars, work
  <1> QED
    BY <1>1, <1>6, <1>8, <1>9, <1>10, <1>11, <1>12 DEF Next, Over, SyncStep, Procs

(* No sync brings a terminated deployment back, whatever pods it finds and *)
(* however many syncs and requests run at once, unless it works on a copy  *)
(* of the row from before the termination or sees the image being built.   *)
THEOREM SyncsReviveNothing == Spec => NoRevival
  <1>1. Init => StaysTerminated
    BY DEF Init, StaysTerminated
  <1>2. TypeOK /\ StaysTerminated /\ [Next]_vars => StaysTerminated'
    BY TerminatedStep
  <1>3. ASSUME TypeOK, StaysTerminated, [Next]_vars,
               row = "terminated", row' \notin { "terminated", "deleted" }
        PROVE  \/ \E h \in Requests : At(h, "commit") \/ At(h, "term")
               \/ \E p \in Procs : At(p, "store") /\ calc[p] = row' /\
                    \/ mem[p] # "terminated"
                    \/ calc[p] \in { "image-building", "image-build-failed" }
    <2>1. CASE \E h \in Requests : Commit(h) \/ MarkTerminating(h)
      BY <2>1 DEF Commit, MarkTerminating
    <2>2. CASE \E p \in Procs : StoreStatus(p)
      <3>1. PICK p \in Procs : StoreStatus(p)
        BY <2>2
      <3>2. At(p, "store") /\ calc[p] = row'
        BY <1>3, <3>1 DEF StoreStatus
      <3> QED
        BY <1>3, <3>2 DEF StaysTerminated, At
    <2>3. \/ row' = row \/ row' = "deleted"
          \/ \E h \in Requests : Commit(h) \/ MarkTerminating(h)
          \/ \E p \in Procs : StoreStatus(p)
      BY <1>3
      DEF Next, Arrive, TxStep, TxFault, CreateRow, NameTaken, Describe, ListActive,
          InsertRevision, InsertFails, Relist, Deactivate, Deactivated, GetCR, WriteCR,
          WriteConflict, MarkBuilding, DeadlockVictim, StatusFails, GiveUp, Rollback,
          EndStep, ListNewest, DeleteCR, TerminateFails, Delete, DeleteRefused,
          SyncStep, MarkSyncing, ReadKube, SyncFails, CronSync, ClusterStep, PodsChange,
          BuildersChange, ControllerTouchesCR, Crash, Over, vars, db
    <2> QED
      BY <1>3, <2>1, <2>2, <2>3
  <1> QED
    BY <1>1, <1>2, <1>3, TypeCorrect, PTL DEF Spec, NoRevival

-----------------------------------------------------------------------------
LEMMA BackedInit == EveryUpdateDeploys /\ Init => NoneRecords /\ Committed /\ TookOver /\ Backed
  BY DEF EveryUpdateDeploys, Init, NoneRecords, Committed, TookOver, Backed, AfterList, Inserted,
         HasWritten, OldRevisions, Procs

(* What OldRevisions says of S, a set before the step, after it.           *)
StillOld(S) == \A q \in S : q < nextRev' /\ \A k \in Requests : own'[k] # q

(* Revisions stay committed when open transactions own no others than      *)
(* before, or a fresh one.                                                 *)
LEMMA OldStay ==
  ASSUME SupersedesInv, SupersedesInv', nextRev' >= nextRev,
         \A k \in Requests : own'[k] \in { own[k], 0, nextRev },
         NEW S \in SUBSET Rev, OldRevisions(S)
  PROVE  StillOld(S)
  <1> SUFFICES ASSUME NEW q \in S
               PROVE  q < nextRev' /\ \A k \in Requests : own'[k] # q
    BY DEF StillOld
  <1>1. q < nextRev /\ q \in Nat /\ q # 0 /\ \A k \in Requests : own[k] # q
    BY RevPositive DEF OldRevisions
  <1>2. nextRev \in Nat /\ nextRev' \in Nat
    BY DeploymentAssumption DEF SupersedesInv, TypeOK
  <1> QED
    BY <1>1, <1>2

LEMMA ActiveAreOld == SupersedesInv => OldRevisions(Active)
  <1> SUFFICES ASSUME SupersedesInv, NEW q \in Active, NEW k \in Requests
               PROVE  q < nextRev /\ own[k] # q
    BY DEF OldRevisions, SupersedesInv, Numbers, Active
  <1>1. q \in Rev /\ revs[q] = "active" /\ q # 0
    BY RevPositive DEF Active
  <1> QED
    BY <1>1 DEF SupersedesInv, Numbers

(* Steps that change neither the CR nor what is active, and what open      *)
(* transactions have done to it.                                           *)
LEMMA BackedKept ==
  ASSUME BackedInv, LocksInv', UNCHANGED << revs, nextRev, cr, own, off, lost >>,
         row = "deleted" => row' = "deleted",
         \A h \in Requests :
           /\ op'[h] # "record"
           /\ \/ pc'[h] = pc[h] /\ list'[h] = list[h] /\ left'[h] = left[h]
              \/ pc[h] \notin TxPCs /\ pc'[h] \notin TxPCs
  PROVE  BackedInv'
  <1> USE DEF BackedInv
  <1>1. NoneRecords' /\ Committed'
    BY DEF NoneRecords, Committed, OldRevisions, AfterList, Inserted, TxPCs
  <1>2. TookOver'
    BY DEF TookOver, HasWritten, TxPCs
  <1>3. Backed'
    BY DEF Backed, Active
  <1> QED
    BY <1>1, <1>2, <1>3

(* A transaction up to its first write of the CR.                          *)
LEMMA BackedBefore ==
  ASSUME EveryUpdateDeploys, BackedInv, LocksInv', NEW h \in Requests,
         \/ CreateRow(h) \/ Describe(h) \/ ListActive(h) \/ InsertRevision(h) \/ Relist(h)
         \/ Deactivate(h) \/ Deactivated(h) \/ GetCR(h)
  PROVE  BackedInv'
  <1> USE DEF BackedInv, LocksInv, SupersedesInv, TypeOK, Procs
  <1>0. /\ UNCHANGED << row, revs, cr, lost, op >> /\ pc[h] \in TxPCs
        /\ \A k \in Requests \ { h } :
             pc'[k] = pc[k] /\ list'[k] = list[k] /\ left'[k] = left[k] /\ own'[k] = own[k]
             /\ off'[k] = off[k]
        /\ op[h] # "record"
    BY DEF CreateRow, Describe, ListActive, InsertRevision, Relist, Deactivate, Deactivated,
           GetCR, At, Goto, db, kube, work, tx, hist, TxPCs, NoneRecords
  <1>1. nextRev' >= nextRev /\ (own'[h] = own[h] \/ (own[h] = 0 /\ own'[h] = nextRev))
    <2>1. CASE InsertRevision(h)
      BY <2>1, DeploymentAssumption DEF InsertRevision, At, Phases, Inserted
    <2>2. CASE ~InsertRevision(h)
      BY <2>2, DeploymentAssumption
      DEF CreateRow, Describe, ListActive, Relist, Deactivate, Deactivated, GetCR, db, tx
    <2> QED
      BY <2>1, <2>2
  <1>2. Backed'
    BY <1>0, <1>1, DeploymentAssumption DEF Backed, Active, Numbers
  <1>3. NoneRecords'
    <2>1. pc'[h] # "commit"
      BY <1>0, DeploymentAssumption
      DEF CreateRow, Describe, ListActive, InsertRevision, Relist, Deactivate, Deactivated,
          GetCR, At, Goto, EveryUpdateDeploys, TxPCs
    <2> QED
      BY <1>0, <2>1 DEF NoneRecords
  <1>4. TookOver'
    <2>1. CASE HasWritten(h)'
      <3>1. GetCR(h) /\ HasWritten(h) /\ off' = off
        BY <2>1, <1>0, DeploymentAssumption
        DEF CreateRow, Describe, ListActive, InsertRevision, Relist, Deactivate, Deactivated,
            GetCR, At, Goto, EveryUpdateDeploys, HasWritten, work, tx
      <3> QED
        BY <1>0, <3>1 DEF TookOver, HasWritten
    <2>2. CASE ~HasWritten(h)'
      BY <1>0, <2>2 DEF TookOver, HasWritten
    <2> QED
      BY <2>1, <2>2
  <1>5. Committed'
    <2>1. \A S \in SUBSET Rev : OldRevisions(S) => StillOld(S)
      BY <1>0, <1>1, OldStay
    <2>2. \A k \in Requests \ { h } :
            StillOld(off'[k]) /\ (pc'[k] \in AfterList => StillOld(list'[k] \ { own'[k] }))
      BY <1>0, <2>1 DEF Committed
    <2>3. ASSUME StillOld(off'[h]), pc'[h] \in AfterList => StillOld(list'[h] \ { own'[h] })
          PROVE  Committed'
      BY <2>2, <2>3 DEF Committed, OldRevisions, StillOld
    <2>4. CASE ListActive(h) \/ Relist(h)
      <3>1. list'[h] = Visible(h) /\ own' = own /\ off' = off
        BY <2>4 DEF ListActive, Relist, tx
      <3>2. OldRevisions(Visible(h) \ { own[h] }) /\ Visible(h) \subseteq Rev
        BY ActiveAreOld DEF Visible, OldRevisions, Active
      <3>3. StillOld(off[h]) /\ StillOld(Visible(h) \ { own[h] })
        BY <2>1, <3>2 DEF Committed
      <3> QED
        BY <2>3, <3>1, <3>3
    <2>5. CASE Deactivate(h)
      <3>1. PICK r \in ToDeactivate(h) : off'[h] = off[h] \cup { r }
        BY <2>5 DEF Deactivate
      <3>2. pc[h] = "deactivate" /\ list' = list /\ own' = own
        BY <2>5 DEF Deactivate, At, work
      <3>3. OldRevisions(list[h] \ { own[h] }) /\ OldRevisions(off[h])
        BY <3>2 DEF Committed, AfterList, Inserted
      <3>4. StillOld(list[h] \ { own[h] }) /\ StillOld(off[h])
        BY <2>1, <3>3
      <3>5. StillOld(off'[h])
        BY <3>1, <3>4 DEF ToDeactivate, StillOld
      <3> QED
        BY <2>3, <3>2, <3>4, <3>5
    <2>6. CASE \/ CreateRow(h) \/ Describe(h) \/ InsertRevision(h)
               \/ Deactivated(h) \/ GetCR(h)
      <3>1. /\ list'[h] = list[h] /\ off'[h] = off[h]
            /\ pc'[h] \in AfterList => pc[h] \in AfterList
        BY <2>6 DEF CreateRow, Describe, InsertRevision, Deactivated, GetCR, At, Goto,
                    work, tx, AfterList, Inserted
      <3>2. StillOld(off[h])
        BY <2>1 DEF Committed
      <3>3. ASSUME pc'[h] \in AfterList PROVE StillOld(list[h] \ { own'[h] })
        <4>1. StillOld(list[h] \ { own[h] })
          BY <2>1, <3>1, <3>3 DEF Committed
        <4>2. list[h] \ { own'[h] } \subseteq list[h] \ { own[h] }
          BY <1>1, RevPositive
        <4> QED
          BY <4>1, <4>2 DEF StillOld
      <3> QED
        BY <2>3, <3>1, <3>2, <3>3
    <2> QED
      BY <2>4, <2>5, <2>6
  <1> QED
    BY <1>2, <1>3, <1>4, <1>5

(* The CR is written for the transaction's own revision, which no other    *)
(* takes for an old one.                                                   *)
LEMMA BackedWrite ==
  ASSUME BackedInv, LocksInv', NEW h \in Requests, WriteCR(h) \/ MarkBuilding(h)
  PROVE  BackedInv'
  <1> USE DEF BackedInv, LocksInv, SupersedesInv, TypeOK, Procs
  <1>1. CASE WriteCR(h)
    <2>1. /\ pc[h] = "write" /\ pc' = [pc EXCEPT ![h] = "status"] /\ cr' = own[h]
          /\ UNCHANGED << row, revs, nextRev, own, off, lost, op, list, left >>
      BY <1>1 DEF WriteCR, At, Goto, db, work, tx, hist
    <2>2. NoneRecords' /\ Committed'
      BY <2>1 DEF NoneRecords, Committed, OldRevisions, AfterList, Inserted
    <2>3. TookOver'
      BY <2>1 DEF TookOver, Committed, OldRevisions
    <2>4. Backed'
      BY <2>1 DEF Backed
    <2> QED
      BY <2>2, <2>3, <2>4
  <1>2. CASE MarkBuilding(h)
    <2>1. /\ pc[h] = "status" /\ left' = [left EXCEPT ![h] = @ - 1]
          /\ UNCHANGED << row, revs, nextRev, cr, own, off, lost, op, list >>
      BY <1>2 DEF MarkBuilding, At, db, kube, hist
    <2>2. /\ pc'[h] \in { "get", "commit" }
          /\ \A k \in Requests \ { h } : pc'[k] = pc[k]
      BY <1>2, DeploymentAssumption DEF MarkBuilding, Spawn, At
    <2>3. own[h] # 0
      BY <2>1 DEF Phases, Inserted
    <2>4. NoneRecords' /\ Committed'
      BY <2>1, <2>2, <2>3 DEF NoneRecords, Committed, OldRevisions, AfterList, Inserted
    <2>5. HasWritten(h) /\ \A k \in Requests \ { h } : HasWritten(k)' => HasWritten(k)
      BY <2>1, <2>2 DEF HasWritten
    <2>6. TookOver'
      BY <2>1, <2>5 DEF TookOver
    <2>7. Backed'
      BY <2>1 DEF Backed, Active
    <2> QED
      BY <2>4, <2>6, <2>7
  <1> QED
    BY <1>1, <1>2

LEMMA BackedRollback ==
  ASSUME BackedInv, LocksInv', NEW h \in Requests, Rollback(h) \/ StatusFails(h)
  PROVE  BackedInv'
  <1> USE DEF BackedInv, LocksInv, SupersedesInv, TypeOK, Procs
  <1>1. /\ own' = [own EXCEPT ![h] = 0] /\ off' = [off EXCEPT ![h] = {}]
        /\ lost' = IF cr # 0 /\ cr = own[h] THEN lost \cup { cr } ELSE lost
        /\ UNCHANGED << row, revs, nextRev, cr >>
        /\ op'[h] # "record"
        /\ \A k \in Requests \ { h } : op'[k] = op[k] /\ list'[k] = list[k] /\ left'[k] = left[k]
    BY DEF Rollback, StatusFails, EndTx, Leave, db, NoneRecords
  <1>2. /\ pc'[h] \notin TxPCs
        /\ \A k \in Requests \ { h } : pc'[k] = pc[k]
    <2>1. CASE Rollback(h)
      BY <2>1 DEF Rollback, Leave, Goto, TxPCs
    <2>2. CASE StatusFails(h)
      BY <2>2, DeploymentAssumption DEF StatusFails, Spawn, At, TxPCs
    <2> QED
      BY <2>1, <2>2
  <1>3. NoneRecords'
    BY <1>1, <1>2 DEF NoneRecords, TxPCs
  <1>4. Committed'
    <2>1. \A S \in SUBSET Rev : OldRevisions(S) => StillOld(S)
      BY <1>1, OldStay
    <2>2. \A k \in Requests \ { h } :
            StillOld(off'[k]) /\ (pc'[k] \in AfterList => StillOld(list'[k] \ { own'[k] }))
      BY <1>1, <1>2, <2>1 DEF Committed
    <2>3. StillOld(off'[h]) /\ pc'[h] \notin AfterList
      BY <1>1, <1>2 DEF StillOld, AfterList, Inserted, TxPCs
    <2> QED
      BY <2>2, <2>3 DEF Committed, OldRevisions, StillOld
  <1>5. TookOver'
    BY <1>1, <1>2 DEF TookOver, HasWritten, TxPCs
  <1>6. Backed'
    BY <1>1 DEF Backed, Active
  <1> QED
    BY <1>3, <1>4, <1>5, <1>6

(* The step the invariant is for: what the transaction makes inactive has  *)
(* lost the CR, so if the CR's owner was active it still is.               *)
LEMMA BackedCommit ==
  ASSUME BackedInv, LocksInv', NEW h \in Requests, Commit(h)
  PROVE  BackedInv'
  <1> USE DEF BackedInv, LocksInv, SupersedesInv, TypeOK, Procs
  <1>1. /\ pc[h] = "commit" /\ pc' = [pc EXCEPT ![h] = "idle"]
        /\ op' = [op EXCEPT ![h] = "sync"] /\ list' = [list EXCEPT ![h] = {}]
        /\ left' = [left EXCEPT ![h] = 0]
        /\ own' = [own EXCEPT ![h] = 0] /\ off' = [off EXCEPT ![h] = {}]
        /\ UNCHANGED << nextRev, cr, lost >>
    BY DEF Commit, EndTx, Leave, At, Goto
  <1>2. revs' = [r \in Rev |-> IF r = own[h] THEN "active"
                               ELSE IF r \in off[h] /\ revs[r] # "free" THEN "inactive"
                               ELSE revs[r]]
    BY DEF Commit
  <1>3. NoneRecords'
    BY <1>1 DEF NoneRecords
  <1>4. Committed'
    <2>1. \A S \in SUBSET Rev : OldRevisions(S) => StillOld(S)
      BY <1>1, OldStay
    <2>2. \A k \in Requests \ { h } :
            StillOld(off'[k]) /\ (pc'[k] \in AfterList => StillOld(list'[k] \ { own'[k] }))
      BY <1>1, <2>1 DEF Committed
    <2>3. StillOld(off'[h]) /\ pc'[h] \notin AfterList
      BY <1>1 DEF StillOld, AfterList, Inserted
    <2> QED
      BY <2>2, <2>3 DEF Committed, OldRevisions, StillOld
  <1>5. TookOver'
    BY <1>1 DEF TookOver, HasWritten
  <1>6. Backed'
    <2> SUFFICES ASSUME row' # "deleted", cr # 0
                 PROVE  cr \in Active' \cup lost \/ \E k \in Requests : own'[k] = cr
      BY <1>1 DEF Backed
    <2>1. row # "deleted"
      BY DEF Commit, RowLocks
    <2>2. cr \notin off[h] /\ cr \in Rev
      BY <1>1, DeploymentAssumption DEF TookOver, HasWritten, Rev
    <2>3. cr \in Active \/ cr = own[h] => cr \in Active'
      BY <1>2, <2>2 DEF Active
    <2> QED
      BY <1>1, <2>1, <2>3 DEF Backed
  <1> QED
    BY <1>3, <1>4, <1>5, <1>6

(* The CR is deleted, the deployment with its revisions, or the server     *)
(* dies.                                                                   *)
LEMMA BackedEnd ==
  ASSUME BackedInv, LocksInv', Crash \/ \E h \in Requests : Delete(h) \/ DeleteCR(h)
  PROVE  BackedInv'
  <1> USE DEF BackedInv, LocksInv, SupersedesInv, TypeOK, Procs
  <1>1. CASE Crash
    <2>1. /\ pc' = [p \in Procs |-> "idle"] /\ op' = [p \in Procs |-> "sync"]
          /\ own' = [k \in Requests |-> 0] /\ off' = [k \in Requests |-> {}]
          /\ lost' = lost \cup ({ own[k] : k \in Requests } \cap ({ cr } \ { 0 }))
          /\ UNCHANGED << row, revs, cr >>
      BY <1>1 DEF Crash, db
    <2>2. NoneRecords' /\ Committed' /\ TookOver'
      BY <2>1 DEF NoneRecords, Committed, OldRevisions, TookOver, AfterList, Inserted
    <2>3. Backed'
      BY <2>1 DEF Backed, Active
    <2> QED
      BY <2>2, <2>3
  <1>2. ASSUME NEW h \in Requests, Delete(h) PROVE BackedInv'
    <2>1. /\ pc[h] = "del" /\ pc' = [pc EXCEPT ![h] = "idle"]
          /\ op' = [op EXCEPT ![h] = "sync"] /\ list' = [list EXCEPT ![h] = {}]
          /\ left' = [left EXCEPT ![h] = 0]
          /\ row' = "deleted"
          /\ UNCHANGED << nextRev, own, off, cr >>
      BY <1>2 DEF Delete, Leave, At, Goto, tx, kube
    <2>2. NoneRecords' /\ Committed'
      BY <2>1 DEF NoneRecords, Committed, OldRevisions, AfterList, Inserted
    <2>3. TookOver' /\ Backed'
      BY <2>1 DEF TookOver, HasWritten, Backed
    <2> QED
      BY <2>2, <2>3
  <1>3. ASSUME NEW h \in Requests, DeleteCR(h) PROVE BackedInv'
    <2>1. /\ pc[h] = "termcr" /\ pc' = [pc EXCEPT ![h] = "mark"] /\ cr' = 0
          /\ UNCHANGED << nextRev, own, off, op, list, left >>
      BY <1>3 DEF DeleteCR, At, Goto, db, work, tx
    <2>2. NoneRecords' /\ Committed'
      BY <2>1 DEF NoneRecords, Committed, OldRevisions, AfterList, Inserted
    <2>3. TookOver' /\ Backed'
      BY <2>1, RevPositive DEF TookOver, Backed
    <2> QED
      BY <2>2, <2>3
  <1> QED
    BY <1>1, <1>2, <1>3

LEMMA BackedOutside ==
  ASSUME EveryUpdateDeploys, BackedInv, LocksInv',
         \/ \E h \in Requests :
              \/ \E o \in Ops : Arrive(h, o)
              \/ GiveUp(h) \/ (EndStep(h) /\ ~Delete(h) /\ ~DeleteCR(h))
         \/ \E p \in Procs : SyncStep(p) \/ SyncFails(p) \/ (p \in Syncers /\ CronSync(p))
         \/ ClusterStep \/ UNCHANGED vars
  PROVE  BackedInv'
  <1> USE DEF BackedInv, LocksInv, SupersedesInv, TypeOK, Procs
  <1>0. Exists => row # "deleted"
    BY DEF Exists, DeploymentStatuses
  <1>1. ASSUME NEW h \in Requests, NEW o \in Ops, Arrive(h, o) PROVE BackedInv'
    <2>1. /\ op' = [op EXCEPT ![h] = o] /\ o # "record"
          /\ UNCHANGED << row, revs, nextRev, cr, own, off, lost, list, left >>
      BY <1>1 DEF Arrive, db, kube, tx, hist, EveryUpdateDeploys
    <2>2. PICK l \in { "begin", "term", "del", "mark" } : pc' = [pc EXCEPT ![h] = l]
      BY <1>1, DeploymentAssumption DEF Arrive, AllOps, Goto
    <2>3. pc[h] = "idle"
      BY <1>1 DEF Arrive, At
    <2>4. NoneRecords' /\ Committed'
      BY <2>1, <2>2, <2>3 DEF NoneRecords, Committed, OldRevisions, AfterList, Inserted
    <2>5. TookOver' /\ Backed'
      BY <2>1, <2>2 DEF TookOver, HasWritten, Backed, Active
    <2> QED
      BY <2>4, <2>5
  <1>2. ASSUME NEW h \in Requests, GiveUp(h) \/ (EndStep(h) /\ ~Delete(h) /\ ~DeleteCR(h))
        PROVE  BackedInv'
    <2>1. /\ UNCHANGED << revs, nextRev, cr, own, off, lost >>
          /\ row' = row \/ Exists
          /\ pc[h] \notin TxPCs /\ pc'[h] \notin TxPCs /\ op'[h] \in { op[h], "sync" }
          /\ \A k \in Requests \ { h } :
               pc'[k] = pc[k] /\ op'[k] = op[k] /\ list'[k] = list[k] /\ left'[k] = left[k]
      BY <1>2 DEF GiveUp, EndStep, MarkTerminating, ListNewest, TerminateFails, DeleteRefused,
                  Leave, At, Goto, db, kube, tx, work, hist, TxPCs
    <2> QED
      BY <1>0, <2>1, BackedKept DEF NoneRecords
  <1>3. ASSUME NEW p \in Procs, SyncStep(p) \/ SyncFails(p) \/ (p \in Syncers /\ CronSync(p))
        PROVE  BackedInv'
    <2>1. /\ UNCHANGED << revs, nextRev, cr, own, off, lost >>
          /\ row' = row \/ Exists
          /\ pc[p] \notin TxPCs /\ pc'[p] \notin TxPCs /\ op'[p] \in { op[p], "sync" }
          /\ \A k \in Requests \ { p } :
               pc'[k] = pc[k] /\ op'[k] = op[k] /\ list'[k] = list[k] /\ left'[k] = left[k]
      BY <1>3 DEF SyncStep, MarkSyncing, ReadKube, StoreStatus, SyncFails, CronSync,
                  Leave, At, Goto, db, kube, tx, work, hist, TxPCs, SyncPCs
    <2> QED
      BY <1>0, <2>1, BackedKept DEF NoneRecords
  <1>4. CASE ClusterStep \/ UNCHANGED vars
    <2>1. UNCHANGED << row, revs, nextRev, cr, own, off, lost, pc, op, list, left >>
      BY <1>4 DEF ClusterStep, PodsChange, BuildersChange, ControllerTouchesCR,
                  vars, db, kube, tx, work, hist
    <2> QED
      BY <2>1, BackedKept DEF NoneRecords
  <1> QED
    BY <1>1, <1>2, <1>3, <1>4

(* When every update names a target and is deployed, the CR in the cluster *)
(* belongs to an active revision or to one whose transaction is still      *)
(* open, for any number of concurrent requests and whatever fails; the     *)
(* exceptions are revisions that were rolled back after Deploy had written *)
(* the CR.                                                                 *)
THEOREM CRIsBacked ==
  ASSUME EveryUpdateDeploys
  PROVE  Spec => []CRBacked
  <1>1. LocksInv /\ Init => BackedInv
    BY EveryUpdateDeploys, BackedInit DEF BackedInv
  <1>2. ASSUME BackedInv, LocksInv', [Next]_vars PROVE BackedInv'
    BY <1>2, EveryUpdateDeploys, BackedBefore, BackedWrite, BackedRollback, BackedCommit,
       BackedEnd, BackedOutside
    DEF Next, TxStep, TxFault, NameTaken, InsertFails, WriteConflict, DeadlockVictim,
        EndStep, Over, Procs
  <1>3. BackedInv => CRBacked
    BY DEF BackedInv, Backed, CRBacked, Exists, DeploymentStatuses
  <1> QED
    BY <1>1, <1>2, <1>3, LocksInvariant, PTL DEF Spec
=============================================================================

-------------------------- MODULE DeploymentProofs --------------------------
(***************************************************************************)
(* Theorems about Deployment, for any number of requests, goroutines,      *)
(* revisions and targets.                                                  *)
(***************************************************************************)
EXTENDS DeploymentInvariants, TLAPS

LEMMA StatusTypes ==
  ASSUME NEW d \in DeploymentStatuses, NEW b \in SUBSET PodStatuses,
         NEW ps \in SUBSET PodStatuses
  PROVE  StatusesFromK8s(d, b, ps) \subseteq DeploymentStatuses
  BY DEF StatusesFromK8s, StatusOfPods, BuilderVerdict, Decisive, DeploymentStatuses

LEMMA TypeInit == Init => TypeOK
  BY DeploymentAssumption
  DEF Init, TypeOK, Rev, Procs, RequestPCs, DeploymentStatuses, PodStatuses, AllOps

LEMMA TypeTx ==
  ASSUME TypeOK, NEW h \in Requests, TxStep(h) \/ TxFault(h)
  PROVE  TypeOK'
  <1> USE DeploymentAssumption DEF TypeOK, Rev, Procs, db, kube, tx, work, hist, At, Goto
  <1>r. ASSUME Rollback(h) PROVE TypeOK'
    BY <1>r DEF Rollback, EndTx, Leave, RequestPCs, TxPCs, DeploymentStatuses, AllOps
  <1>1. CASE CreateRow(h)
    BY <1>1 DEF CreateRow, RequestPCs, TxPCs, DeploymentStatuses, Active
  <1>0. CASE NameTaken(h)
    BY <1>0, <1>r DEF NameTaken
  <1>2. CASE Describe(h)
    BY <1>2 DEF Describe, RequestPCs, TxPCs, Active, Exists
  <1>3. CASE ListActive(h)
    BY <1>3 DEF ListActive, RequestPCs, TxPCs, Active, Visible
  <1>4. CASE InsertRevision(h)
    BY <1>4 DEF InsertRevision, RequestPCs, TxPCs
  <1>5. CASE InsertFails(h)
    BY <1>5, <1>r DEF InsertFails
  <1>6. CASE Relist(h)
    BY <1>6 DEF Relist, RequestPCs, TxPCs, Active, Visible
  <1>7. CASE Deactivate(h)
    BY <1>7 DEF Deactivate, ToDeactivate
  <1>8. CASE Deactivated(h)
    <2>a. \/ pc' = [pc EXCEPT ![h] = "commit"] /\ left' = left
          \/ /\ pc' = [pc EXCEPT ![h] = "get"] /\ Targets # 0
             /\ left' = [left EXCEPT ![h] = Targets]
      BY <1>8 DEF Deactivated
    <2>0. pc' \in [Procs -> RequestPCs]
      BY <2>a DEF RequestPCs, TxPCs
    <2>b. left' = left \/ left' = [left EXCEPT ![h] = Targets]
      BY <2>a
    <2>1. left' \in [Procs -> 0 .. Targets]
      <3>1. left \in [Procs -> 0 .. Targets] /\ h \in Procs /\ Targets \in 0 .. Targets
        OBVIOUS
      <3> HIDE DEF TypeOK, Rev, Procs
      <3> QED
        BY <2>b, <3>1
    <2>2. \A k \in Requests : pc'[k] \in { "get", "write", "status" } => left'[k] # 0
      BY <2>a
    <2> QED
      BY <1>8, <2>0, <2>1, <2>2 DEF Deactivated
  <1>9. CASE GetCR(h)
    BY <1>9 DEF GetCR, RequestPCs, TxPCs
  <1>10. CASE WriteCR(h)
    BY <1>10 DEF WriteCR, RequestPCs, TxPCs, Outdated
  <1>11. CASE WriteConflict(h)
    BY <1>11, <1>r DEF WriteConflict
  <1>12. CASE MarkBuilding(h)
    <2>0. left[h] # 0 /\ left' = [left EXCEPT ![h] = @ - 1]
      BY <1>12 DEF MarkBuilding
    <2>1. left' \in [Procs -> 0 .. Targets]
      BY <2>0
    <2>2. pc' \in [Procs -> RequestPCs] /\ mem' \in [Procs -> DeploymentStatuses]
      BY <1>12 DEF MarkBuilding, Spawn, RequestPCs, TxPCs, SyncPCs, DeploymentStatuses
    <2>3. \A k \in Requests : pc'[k] \in { "get", "write", "status" } => left'[k] # 0
      BY <1>12 DEF MarkBuilding, Spawn
    <2> QED
      BY <1>12, <2>1, <2>2, <2>3 DEF MarkBuilding, DeploymentStatuses
  <1>13. CASE Commit(h)
    BY <1>13 DEF Commit, EndTx, Leave, RequestPCs, DeploymentStatuses, AllOps
  <1>14. CASE DeadlockVictim(h)
    BY <1>14, <1>r DEF DeadlockVictim
  <1>16. CASE StatusFails(h)
    <2>1. pc' \in [Procs -> RequestPCs] /\ mem' \in [Procs -> DeploymentStatuses]
      BY <1>16 DEF StatusFails, Spawn, RequestPCs, SyncPCs, DeploymentStatuses
    <2>2. \A k \in Requests : pc'[k] \in { "get", "write", "status" } => left'[k] # 0
      BY <1>16 DEF StatusFails, Spawn
    <2>3. lost' \in SUBSET Rev
      BY <1>16 DEF StatusFails
    <2>4. /\ UNCHANGED << db, cr, pods, builders, op, calc, list, left, superseded >>
          /\ EndTx(h)
      BY <1>16 DEF StatusFails
    <2> QED
      BY <2>1, <2>2, <2>3, <2>4 DEF EndTx
  <1>17. CASE GiveUp(h)
    BY <1>17 DEF GiveUp, Leave, RequestPCs, DeploymentStatuses, AllOps
  <1>15. CASE TxFault(h)
    BY <1>15, <1>r DEF TxFault
  <1> QED
    BY <1>0, <1>1, <1>2, <1>3, <1>4, <1>5, <1>6, <1>7, <1>8, <1>9, <1>10, <1>11,
       <1>12, <1>13, <1>14, <1>15, <1>16, <1>17 DEF TxStep

LEMMA TypeEnd ==
  ASSUME TypeOK, NEW h \in Requests, EndStep(h)
  PROVE  TypeOK'
  <1> USE DeploymentAssumption DEF TypeOK, Rev, Procs, db, kube, tx, work, hist, At, Goto
  <1>1. CASE MarkTerminating(h)
    BY <1>1 DEF MarkTerminating, RequestPCs, DeploymentStatuses
  <1>2. CASE ListNewest(h)
    BY <1>2 DEF ListNewest, RequestPCs, SyncPCs
  <1>3. CASE DeleteCR(h)
    BY <1>3 DEF DeleteCR, RequestPCs, SyncPCs, Outdated
  <1>4. CASE TerminateFails(h)
    BY <1>4 DEF TerminateFails, Leave, RequestPCs, DeploymentStatuses, AllOps
  <1>5. CASE Delete(h)
    BY <1>5 DEF Delete, Leave, RequestPCs, DeploymentStatuses, AllOps
  <1>6. CASE DeleteRefused(h)
    BY <1>6 DEF DeleteRefused, Leave, RequestPCs, DeploymentStatuses, AllOps
  <1> QED
    BY <1>1, <1>2, <1>3, <1>4, <1>5, <1>6 DEF EndStep

LEMMA TypeSync ==
  ASSUME TypeOK, NEW p \in Procs,
         SyncStep(p) \/ SyncFails(p) \/ (p \in Syncers /\ CronSync(p))
  PROVE  TypeOK'
  <1> USE DeploymentAssumption DEF TypeOK, Rev, Procs, db, kube, tx, work, hist, At, Goto
  <1>1. CASE MarkSyncing(p)
    BY <1>1 DEF MarkSyncing, RequestPCs, SyncPCs
  <1>2. CASE ReadKube(p)
    <2>1. StatusesFromK8s(mem[p], builders, pods) \subseteq DeploymentStatuses
      BY StatusTypes
    <2> QED
      BY <1>2, <2>1 DEF ReadKube, RequestPCs, SyncPCs
  <1>3. CASE StoreStatus(p)
    BY <1>3 DEF StoreStatus, Leave, RequestPCs, DeploymentStatuses, AllOps
  <1>4. CASE SyncFails(p)
    BY <1>4 DEF SyncFails, Leave, RequestPCs, DeploymentStatuses, AllOps
  <1>5. CASE p \in Syncers /\ CronSync(p)
    BY <1>5 DEF CronSync, Exists, RequestPCs, SyncPCs
  <1> QED
    BY <1>1, <1>2, <1>3, <1>4, <1>5 DEF SyncStep

LEMMA TypeArrive ==
  ASSUME TypeOK, NEW h \in Requests, NEW o \in Ops, Arrive(h, o)
  PROVE  TypeOK'
  <1> USE DeploymentAssumption DEF TypeOK, Rev, Procs, db, kube, tx, work, hist, At, Goto
  <1>1. o \in AllOps
    OBVIOUS
  <1>2. op' \in [Procs -> AllOps] /\ mem' \in [Procs -> DeploymentStatuses]
    BY <1>1 DEF Arrive, Exists, DeploymentStatuses
  <1>3. PICK l \in { "begin", "term", "del", "mark" } : pc' = [pc EXCEPT ![h] = l]
    BY <1>1 DEF Arrive, AllOps
  <1>4. pc' \in [Procs -> RequestPCs]
    BY <1>3 DEF RequestPCs, TxPCs, SyncPCs
  <1> QED
    BY <1>2, <1>3, <1>4 DEF Arrive

LEMMA TypeRest ==
  ASSUME TypeOK, ClusterStep \/ Crash
  PROVE  TypeOK'
  <1> USE DeploymentAssumption DEF TypeOK, Rev, Procs, db, kube, tx, work, hist
  <1>1. CASE ClusterStep
    <2>1. pods' \in SUBSET PodStatuses /\ builders' \in SUBSET PodStatuses
      BY <1>1 DEF ClusterStep, PodsChange, BuildersChange, ControllerTouchesCR
    <2>2. saw' \in [Requests -> { "nothing", "none", "current", "stale" }]
      BY <1>1 DEF ClusterStep, PodsChange, BuildersChange, ControllerTouchesCR, Outdated
    <2>3. UNCHANGED << db, cr, pc, work, tx, hist >>
      BY <1>1 DEF ClusterStep, PodsChange, BuildersChange, ControllerTouchesCR
    <2> QED
      BY <2>1, <2>2, <2>3
  <1>2. CASE Crash
    <2>1. lost' \subseteq lost \cup { cr }  /\ lost' \subseteq lost \cup (Nat \ { 0 })
      BY <1>2 DEF Crash
    <2>2. lost' \in SUBSET Rev
      BY <2>1
    <2>3. pc' = [p \in Procs |-> "idle"]
      BY <1>2 DEF Crash
    <2> QED
      BY <1>2, <2>2, <2>3 DEF Crash, RequestPCs, DeploymentStatuses, AllOps
  <1> QED
    BY <1>1, <1>2

(* Every variable has its type, whatever the number of requests, syncing   *)
(* goroutines, revisions and targets, and a request that deploys has a     *)
(* target left to deploy.                                                  *)
THEOREM TypeCorrect == Spec => []TypeOK
  <1>1. TypeOK /\ UNCHANGED vars => TypeOK'
    BY DEF TypeOK, vars, db, kube, work, tx, hist
  <1>2. ASSUME TypeOK, Next PROVE TypeOK'
    BY <1>1, <1>2, TypeTx, TypeEnd, TypeSync, TypeArrive, TypeRest DEF Next, Over, Procs
  <1> QED
    BY <1>1, <1>2, TypeInit, PTL DEF Spec

-----------------------------------------------------------------------------
(* Steps that leave the revisions and what requests know of them alone.    *)
Remains(h) ==
  \/ pc'[h] = pc[h] /\ list'[h] = list[h]
  \/ pc[h] \notin TxPCs /\ pc'[h] \notin Underway
  \/ /\ pc[h] \in { "get", "write", "status" } /\ list'[h] = list[h]
     /\ pc'[h] \in { "get", "write", "status", "commit" }

LEMMA RevPositive == Rev \subseteq Nat \ { 0 }
  BY DeploymentAssumption DEF Rev

LEMMA Frame ==
  ASSUME SupersedesInv, TypeOK', UNCHANGED << revs, nextRev, own, off, seen, superseded >>,
         \A h \in Requests : Remains(h)
  PROVE  SupersedesInv'
  <1> USE DEF SupersedesInv
  <1>1. Phases'
    BY DEF Phases, Remains, Inserted, Deactivates, TxPCs, Underway
  <1>2. Numbers'
    BY DEF Numbers
  <1>3. Histories'
    BY DEF Histories, OldRevisions
  <1>4. Covered'
    BY DEF Covered, Remains, AfterList, Inserted, TxPCs, Underway, Phases
  <1>5. Supersedes'
    BY DEF Supersedes
  <1> QED
    BY <1>1, <1>2, <1>3, <1>4, <1>5

LEMMA SupersedesInit == Init => SupersedesInv
  <1> SUFFICES ASSUME Init PROVE SupersedesInv
    OBVIOUS
  <1>1. TypeOK
    BY TypeInit
  <1>2. Phases /\ Covered
    BY DEF Init, Phases, Covered, AfterList, Inserted, Deactivates, Procs
  <1>3. Numbers /\ Histories /\ Supersedes
    BY DEF Init, Numbers, Histories, OldRevisions, Supersedes
  <1> QED
    BY <1>1, <1>2, <1>3 DEF SupersedesInv

LEMMA SupersedesRollback ==
  ASSUME SupersedesInv, TypeOK', NEW h \in Requests, Rollback(h) \/ StatusFails(h)
  PROVE  SupersedesInv'
  <1> USE DEF SupersedesInv, TypeOK, Procs
  <1>0. /\ own' = [own EXCEPT ![h] = 0] /\ off' = [off EXCEPT ![h] = {}]
        /\ seen' = [seen EXCEPT ![h] = {}]
        /\ UNCHANGED << revs, nextRev, superseded >>
    BY DEF Rollback, StatusFails, EndTx, db
  <1>1. /\ pc'[h] \notin TxPCs
        /\ \A k \in Requests \ { h } : pc'[k] = pc[k] /\ list'[k] = list[k]
    <2>1. CASE Rollback(h)
      BY <2>1 DEF Rollback, Leave, Goto, TxPCs
    <2>2. CASE StatusFails(h)
      BY <2>2, DeploymentAssumption DEF StatusFails, Spawn, TxPCs
    <2> QED
      BY <2>1, <2>2
  <1>2. Phases'
    BY <1>0, <1>1 DEF Phases, Inserted, Deactivates, TxPCs
  <1>3. Numbers'
    BY <1>0, DeploymentAssumption DEF Numbers
  <1>4. Histories'
    <2>1. /\ \A k \in Requests : own'[k] = own[k] \/ own'[k] = 0
          /\ \A k \in Requests : seen'[k] \subseteq seen[k]
      BY <1>0
    <2>2. \A k \in Requests, r \in Rev : seen[k] \subseteq Rev /\ superseded[r] \subseteq Rev
      OBVIOUS
    <2> QED
      BY <1>0, <2>1, <2>2, RevPositive DEF Histories, OldRevisions
  <1>5. Covered'
    BY <1>0, <1>1 DEF Covered, AfterList, Inserted, TxPCs
  <1>6. Supersedes'
    BY <1>0 DEF Supersedes
  <1> QED
    BY <1>2, <1>3, <1>4, <1>5, <1>6

(* A transaction begins: what is active is history to it.                  *)
LEMMA SupersedesBegin ==
  ASSUME SupersedesInv, TypeOK', NEW h \in Requests, CreateRow(h) \/ Describe(h)
  PROVE  SupersedesInv'
  <1> USE DEF SupersedesInv, TypeOK, Procs
  <1>1. /\ At(h, "begin") /\ pc' = [pc EXCEPT ![h] = "list"]
        /\ seen' = [seen EXCEPT ![h] = Active]
        /\ UNCHANGED << revs, nextRev, own, off, superseded, list >>
    BY DEF CreateRow, Describe, Goto, db, work, hist
  <1>2. Phases'
    BY <1>1 DEF Phases, At, Inserted, Deactivates
  <1>3. Numbers'
    BY <1>1 DEF Numbers
  <1>4. OldRevisions(Active)
    <2> SUFFICES ASSUME NEW q \in Active, NEW k \in Requests
                 PROVE  q < nextRev /\ own[k] # q
      BY DEF OldRevisions, Active, Numbers
    <2>1. q \in Rev /\ revs[q] = "active" /\ q # 0
      BY RevPositive DEF Active
    <2> QED
      BY <2>1 DEF Numbers
  <1>5. Histories'
    BY <1>1, <1>4 DEF Histories, OldRevisions
  <1>6. Covered'
    BY <1>1 DEF Covered, AfterList, Inserted, At
  <1>7. Supersedes'
    BY <1>1 DEF Supersedes
  <1> QED
    BY <1>2, <1>3, <1>5, <1>6, <1>7

(* A request lists the active revisions, at first or once more.            *)
LEMMA SupersedesList ==
  ASSUME SupersedesInv, TypeOK', NEW h \in Requests, ListActive(h) \/ Relist(h)
  PROVE  SupersedesInv'
  <1> USE DEF SupersedesInv, TypeOK, Procs
  <1>1. /\ \/ pc[h] = "list" /\ pc' = [pc EXCEPT ![h] = "insert"]
           \/ pc[h] = "list" /\ pc' = [pc EXCEPT ![h] = "commit"]
           \/ pc[h] = "relist" /\ pc' = [pc EXCEPT ![h] = "deactivate"]
        /\ list' = [list EXCEPT ![h] = Visible(h)]
        /\ UNCHANGED << revs, nextRev, own, off, seen, superseded >>
    BY DEF ListActive, Relist, At, Goto, db, tx, hist
  <1>2. Phases'
    BY <1>1 DEF Phases, Inserted, Deactivates
  <1>3. Numbers'
    BY <1>1 DEF Numbers
  <1>4. Histories'
    BY <1>1 DEF Histories, OldRevisions
  <1>5. off[h] = {} /\ (pc[h] = "list" => own[h] = 0)
    BY <1>1 DEF Phases, Inserted, Deactivates
  <1>6. \A q \in seen[h] : revs[q] = "active" => q \in Visible(h)
    BY <1>5 DEF Visible, Active
  <1>7. Covered'
    BY <1>1, <1>5, <1>6 DEF Covered, AfterList, Inserted
  <1>8. Supersedes'
    BY <1>1 DEF Supersedes
  <1> QED
    BY <1>2, <1>3, <1>4, <1>7, <1>8

LEMMA SupersedesInsert ==
  ASSUME SupersedesInv, TypeOK', NEW h \in Requests, InsertRevision(h)
  PROVE  SupersedesInv'
  <1> USE DEF SupersedesInv, TypeOK, Procs
  <1>1. /\ pc[h] = "insert" /\ nextRev \in Rev
        /\ own' = [own EXCEPT ![h] = nextRev] /\ nextRev' = nextRev + 1
        /\ \/ pc' = [pc EXCEPT ![h] = "deactivate"]
           \/ pc' = [pc EXCEPT ![h] = "relist"]
        /\ UNCHANGED << revs, list, off, seen, superseded >>
    BY DEF InsertRevision, At, Goto, work, hist
  <1>2. nextRev \in Nat /\ nextRev # 0
    BY <1>1, RevPositive
  <1>3. own[h] = 0
    BY <1>1 DEF Phases, Inserted
  <1>4. Phases'
    BY <1>1, <1>2 DEF Phases, Inserted, Deactivates
  <1>5. Numbers'
    <2>1. revs[nextRev] = "free"
      BY <1>1, <1>2 DEF Numbers
    <2>2. \A r \in Rev : revs[r] # "free" => r < nextRev + 1
      BY RevPositive, <1>2 DEF Numbers
    <2>3. \A k \in Requests : own[k] \in Nat /\ own[k] < nextRev
      BY DeploymentAssumption DEF Numbers
    <2> QED
      BY <1>1, <1>2, <2>1, <2>2, <2>3 DEF Numbers
  <1>6. \A S \in SUBSET Rev : OldRevisions(S) => OldRevisions(S)'
    BY <1>1, <1>2, RevPositive DEF OldRevisions
  <1>7. Histories'
    BY <1>1, <1>6 DEF Histories
  <1>8. Covered'
    BY <1>1 DEF Covered, AfterList, Inserted
  <1>9. Supersedes'
    BY <1>1 DEF Supersedes
  <1> QED
    BY <1>4, <1>5, <1>7, <1>8, <1>9

LEMMA SupersedesDeactivate ==
  ASSUME SupersedesInv, TypeOK', NEW h \in Requests, Deactivate(h) \/ Deactivated(h)
  PROVE  SupersedesInv'
  <1> USE DEF SupersedesInv, TypeOK, Procs
  <1>1. CASE Deactivate(h)
    <2>1. PICK r \in Rev : off' = [off EXCEPT ![h] = @ \cup { r }]
      BY <1>1 DEF Deactivate, ToDeactivate
    <2>2. pc[h] = "deactivate" /\ UNCHANGED << revs, nextRev, pc, own, list, seen, superseded >>
      BY <1>1 DEF Deactivate, At, db, work, hist
    <2>3. Phases'
      BY <2>1, <2>2 DEF Phases, Inserted, Deactivates
    <2>4. Numbers' /\ Histories' /\ Supersedes'
      BY <2>2 DEF Numbers, Histories, OldRevisions, Supersedes
    <2>5. Covered'
      BY <2>1, <2>2 DEF Covered, AfterList
    <2> QED
      BY <2>3, <2>4, <2>5
  <1>2. CASE Deactivated(h)
    <2>1. /\ pc[h] = "deactivate" /\ list[h] \subseteq { own[h] } \cup off[h]
          /\ UNCHANGED << revs, nextRev, own, list, off, seen, superseded >>
      BY <1>2 DEF Deactivated, ToDeactivate, At, db, tx, hist
    <2>2. pc' = [pc EXCEPT ![h] = "commit"] \/ pc' = [pc EXCEPT ![h] = "get"]
      BY <1>2 DEF Deactivated, Goto
    <2>3. Phases'
      BY <2>1, <2>2 DEF Phases, Inserted, Deactivates
    <2>4. Numbers' /\ Histories' /\ Supersedes'
      BY <2>1 DEF Numbers, Histories, OldRevisions, Supersedes
    <2>5. Covered'
      BY <2>1, <2>2 DEF Covered, AfterList, Inserted
    <2> QED
      BY <2>3, <2>4, <2>5
  <1> QED
    BY <1>1, <1>2

(* The step the invariant is for: what the transaction had seen active is  *)
(* in its list, and all of the list but its own revision becomes inactive. *)
LEMMA SupersedesCommit ==
  ASSUME SupersedesInv, TypeOK', NEW h \in Requests, Commit(h)
  PROVE  SupersedesInv'
  <1> USE DEF SupersedesInv, TypeOK, Procs
  <1>1. /\ pc[h] = "commit" /\ pc' = [pc EXCEPT ![h] = "idle"]
        /\ own' = [own EXCEPT ![h] = 0] /\ off' = [off EXCEPT ![h] = {}]
        /\ list' = [list EXCEPT ![h] = {}] /\ seen' = [seen EXCEPT ![h] = {}]
        /\ nextRev' = nextRev
    BY DEF Commit, EndTx, Leave, At, Goto
  <1>2. revs' = [r \in Rev |-> IF r = own[h] THEN "active"
                               ELSE IF r \in off[h] /\ revs[r] # "free" THEN "inactive"
                               ELSE revs[r]]
    BY DEF Commit
  <1>3. superseded' = [r \in Rev |-> IF r = own[h] THEN seen[h] ELSE superseded[r]]
    BY DEF Commit
  <1>4. \A q \in Rev : revs'[q] = "active" => q = own[h] \/ (revs[q] = "active" /\ q \notin off[h])
    BY <1>2
  <1>5. Phases'
    BY <1>1 DEF Phases, Inserted, Deactivates
  <1>6. \A k \in Requests : own'[k] # 0 => k # h /\ own'[k] = own[k] /\ own[k] \in Rev
    BY <1>1, DeploymentAssumption DEF Rev
  <1>7. Numbers'
    <2>1. \A r \in Rev : revs'[r] # "free" => r < nextRev
      BY <1>2 DEF Numbers
    <2>2. \A k \in Requests : own'[k] # 0 => revs'[own'[k]] = "free"
      BY <1>2, <1>6 DEF Numbers
    <2> QED
      BY <1>1, <2>1, <2>2, <1>6 DEF Numbers
  <1>8. Histories'
    <2>1. \A S \in SUBSET Rev : OldRevisions(S) => OldRevisions(S)'
      BY <1>1, <1>6, RevPositive DEF OldRevisions
    <2>2. \A k \in Requests : OldRevisions(seen[k])'
      BY <1>1, <2>1 DEF Histories, OldRevisions
    <2>3. \A r \in Rev : OldRevisions(superseded'[r])
      BY <1>3 DEF Histories, OldRevisions
    <2> QED
      BY <2>1, <2>2, <2>3 DEF Histories
  <1>9. Covered'
    <2> SUFFICES ASSUME NEW k \in Requests, NEW q \in seen[k], k # h, revs'[q] = "active"
                 PROVE  revs[q] = "active"
      BY <1>1 DEF Covered, AfterList, Inserted
    <2>1. q \in Rev /\ q # own[h]
      BY DEF Histories, OldRevisions
    <2> QED
      BY <1>4, <2>1
  <1>10. Supersedes'
    <2> SUFFICES ASSUME NEW r \in Rev, NEW q \in superseded'[r] PROVE revs'[q] # "active"
      BY DEF Supersedes
    <2>1. CASE r = own[h]
      <3>1. q \in seen[h] /\ q \in Rev /\ q # own[h]
        BY <1>3, <2>1 DEF Histories, OldRevisions
      <3>2. own[h] # 0
        BY <2>1, RevPositive
      <3>3. revs[q] = "active" => q \in off[h]
        BY <1>1, <3>1, <3>2 DEF Covered, AfterList
      <3> QED
        BY <1>4, <3>1, <3>3
    <2>2. CASE r # own[h]
      <3>1. q \in superseded[r] /\ q \in Rev /\ q # own[h]
        BY <1>3, <2>2 DEF Histories, OldRevisions
      <3> QED
        BY <1>4, <3>1 DEF Supersedes
    <2> QED
      BY <2>1, <2>2
  <1> QED
    BY <1>5, <1>7, <1>8, <1>9, <1>10

(* The deployment is deleted with its revisions, or the server dies.       *)
LEMMA SupersedesEnd ==
  ASSUME SupersedesInv, TypeOK', Crash \/ \E h \in Requests : Delete(h)
  PROVE  SupersedesInv'
  <1> USE DEF SupersedesInv, TypeOK, Procs
  <1>1. CASE Crash
    <2>1. /\ pc' = [p \in Procs |-> "idle"] /\ off' = [h \in Requests |-> {}]
          /\ own' = [h \in Requests |-> 0] /\ seen' = [h \in Requests |-> {}]
          /\ UNCHANGED << revs, nextRev, superseded >>
      BY <1>1 DEF Crash, db
    <2>2. Phases' /\ Covered'
      BY <2>1 DEF Phases, Covered, Inserted, Deactivates, AfterList
    <2>3. Numbers' /\ Supersedes'
      <3>1. nextRev > 0
        OBVIOUS
      <3> QED
        BY <2>1, <3>1 DEF Numbers, Supersedes
    <2>4. Histories'
      BY <2>1, RevPositive DEF Histories, OldRevisions
    <2> QED
      BY <2>2, <2>3, <2>4
  <1>2. ASSUME NEW h \in Requests, Delete(h) PROVE SupersedesInv'
    <2>1. /\ pc[h] = "del" /\ pc' = [pc EXCEPT ![h] = "idle"]
          /\ list' = [list EXCEPT ![h] = {}] /\ revs' = [r \in Rev |-> "free"]
          /\ \A k \in Requests : own[k] = 0
          /\ UNCHANGED << nextRev, own, off, seen, superseded >>
      BY <1>2 DEF Delete, Leave, At, Goto, tx, hist
    <2>2. Phases' /\ Covered'
      BY <2>1 DEF Phases, Covered, Inserted, Deactivates, AfterList
    <2>3. Numbers' /\ Supersedes'
      BY <2>1 DEF Numbers, Supersedes
    <2>4. Histories'
      BY <2>1 DEF Histories, OldRevisions
    <2> QED
      BY <2>2, <2>3, <2>4
  <1> QED
    BY <1>1, <1>2

LEMMA SupersedesTx ==
  ASSUME SupersedesInv, TypeOK', NEW h \in Requests, TxStep(h) \/ TxFault(h)
  PROVE  SupersedesInv'
  <1> USE DEF Remains, SupersedesInv, TypeOK, Procs, At, Goto
  <1>1. CASE GetCR(h) \/ WriteCR(h)
    BY <1>1, Frame DEF GetCR, WriteCR, db, work, tx, hist
  <1>2. CASE MarkBuilding(h)
    <2>1. UNCHANGED << revs, nextRev, own, off, seen, superseded, list >>
      BY <1>2 DEF MarkBuilding, db, hist
    <2>2. \A k \in Requests \ { h } : pc'[k] = pc[k]
      BY <1>2, DeploymentAssumption DEF MarkBuilding, Spawn
    <2>3. pc[h] = "status" /\ pc'[h] \in { "get", "commit" }
      BY <1>2, DeploymentAssumption DEF MarkBuilding, Spawn
    <2> QED
      BY <2>1, <2>2, <2>3, Frame
  <1>3. CASE Rollback(h) \/ StatusFails(h)
    BY <1>3, SupersedesRollback
  <1>4. CASE GiveUp(h)
    BY <1>4, Frame DEF GiveUp, Leave, db, tx, hist, TxPCs, Underway
  <1> QED
    BY <1>1, <1>2, <1>3, <1>4, SupersedesBegin, SupersedesList, SupersedesInsert,
       SupersedesDeactivate, SupersedesCommit
    DEF TxStep, NameTaken, InsertFails, WriteConflict, DeadlockVictim, TxFault

(* Requests outside transactions, syncing goroutines and the cluster.      *)
LEMMA SupersedesOutside ==
  ASSUME SupersedesInv, TypeOK',
         \/ \E h \in Requests : (\E o \in Ops : Arrive(h, o)) \/ (EndStep(h) /\ ~Delete(h))
         \/ \E p \in Procs : SyncStep(p) \/ SyncFails(p) \/ (p \in Syncers /\ CronSync(p))
         \/ ClusterStep
  PROVE  SupersedesInv'
  <1> USE DEF Remains, SupersedesInv, TypeOK, At, Goto
  <1>1. ASSUME NEW h \in Requests, NEW o \in Ops, Arrive(h, o) PROVE SupersedesInv'
    <2>1. /\ pc[h] = "idle"
          /\ UNCHANGED << revs, nextRev, own, off, seen, superseded, list >>
      BY <1>1 DEF Arrive, db, tx, hist
    <2>2. PICK l \in { "begin", "term", "del", "mark" } : pc' = [pc EXCEPT ![h] = l]
      BY <1>1, DeploymentAssumption DEF Arrive, AllOps
    <2> QED
      BY <2>1, <2>2, Frame DEF Procs, TxPCs, Underway
  <1>2. ASSUME NEW h \in Requests, EndStep(h), ~Delete(h) PROVE SupersedesInv'
    <2>1. /\ UNCHANGED << revs, nextRev, own, off, seen, superseded >>
          /\ \A k \in Requests \ { h } : pc'[k] = pc[k] /\ list'[k] = list[k]
          /\ pc[h] \notin TxPCs /\ pc'[h] \notin TxPCs
      BY <1>2 DEF EndStep, MarkTerminating, ListNewest, DeleteCR, TerminateFails, DeleteRefused,
                  Leave, db, tx, hist, work, Procs, TxPCs
    <2> QED
      BY <2>1, Frame DEF Underway
  <1>3. ASSUME NEW p \in Procs, SyncStep(p) \/ SyncFails(p) \/ (p \in Syncers /\ CronSync(p))
        PROVE  SupersedesInv'
    <2>1. /\ UNCHANGED << revs, nextRev, own, off, seen, superseded >>
          /\ \A k \in Requests \ { p } : pc'[k] = pc[k] /\ list'[k] = list[k]
          /\ pc[p] \notin TxPCs /\ pc'[p] \notin TxPCs
      BY <1>3 DEF SyncStep, MarkSyncing, ReadKube, StoreStatus, SyncFails, CronSync,
                  Leave, db, tx, hist, work, Procs, TxPCs, SyncPCs
    <2> QED
      BY <2>1, Frame DEF Underway
  <1>4. CASE ClusterStep
    BY <1>4, Frame DEF ClusterStep, PodsChange, BuildersChange, ControllerTouchesCR,
                       db, tx, hist, work
  <1> QED
    BY <1>1, <1>2, <1>3, <1>4

(* The reason is an inductive invariant.                                   *)
THEOREM SupersedesInvariant == Spec => []SupersedesInv
  <1>1. SupersedesInv /\ UNCHANGED vars => SupersedesInv'
    <2> SUFFICES ASSUME SupersedesInv, UNCHANGED vars PROVE SupersedesInv'
      OBVIOUS
    <2>1. TypeOK'
      BY DEF SupersedesInv, TypeOK, vars, db, kube, work, tx, hist
    <2> QED
      BY <2>1, Frame DEF Remains, vars, db, kube, work, tx, hist
  <1>2. ASSUME SupersedesInv, TypeOK', Next PROVE SupersedesInv'
    BY <1>1, <1>2, SupersedesTx, SupersedesOutside, SupersedesEnd
    DEF Next, Over, EndStep, Procs
  <1> QED
    BY <1>1, <1>2, SupersedesInit, TypeCorrect, PTL DEF Spec

(* An update supersedes every revision that was active when its            *)
(* transaction began, for any number of concurrent requests and whatever   *)
(* fails: none of them is active once it has committed, or later.          *)
THEOREM UpdatesSupersede == Spec => []Supersedes
  <1>1. SupersedesInv => Supersedes
    BY DEF SupersedesInv
  <1> QED
    BY <1>1, SupersedesInvariant, PTL
=============================================================================

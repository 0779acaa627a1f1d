------------------------ MODULE DeploymentOneActive -------------------------
(***************************************************************************)
(* Theorems about Deployment when requests come one at a time: at most one *)
(* revision is active, as it is when every update locks the deployment row *)
(* first.  And about Leftovers: what deletions leave in the cluster.       *)
(***************************************************************************)
EXTENDS DeploymentRows, Leftovers

(* Steps that touch neither locks nor revisions.                           *)
Keeps(h) == KeepsPhase(h) /\ (pc[h] = "idle" => pc'[h] = "idle")

LEMMA KeepsExclusive ==
  ASSUME ExclusiveInv, LocksInv', UNCHANGED << revs, own, wrote, locked, seen >>,
         row' = row \/ (Exists /\ Exists'), \A h \in Requests : Keeps(h)
  PROVE  ExclusiveInv'
  <1> USE DEF ExclusiveInv, LocksInv
  <1>0. Exists => row # "deleted" /\ row # "unborn"
    BY DEF Exists, DeploymentStatuses
  <1>a. Exists' => row' # "deleted" /\ row' # "unborn"
    BY DEF Exists, DeploymentStatuses
  <1>1. Exclusive'
    BY <1>0, <1>a DEF Exclusive, Keeps, KeepsPhase, Underway
  <1>2. Fresh' /\ AtMostOneActive'
    BY DEF Fresh, Keeps, KeepsPhase, Active, AtMostOneActive, Underway
  <1> QED
    BY <1>1, <1>2

LEMMA ExclusiveInit == Init => ExclusiveInv
  <1> SUFFICES ASSUME Init PROVE ExclusiveInv
    OBVIOUS
  <1>1. LocksInv
    BY SupersedesInit, LocksInit DEF LocksInv
  <1>2. Exclusive /\ Fresh
    BY DEF Init, Exclusive, Fresh, Underway, TxPCs, Procs
  <1>3. AtMostOneActive
    BY DEF Init, AtMostOneActive, Active
  <1> QED
    BY <1>1, <1>2, <1>3 DEF ExclusiveInv

(* A request arrives; one at a time if requests do.                        *)
LEMMA ExclusiveArrive ==
  ASSUME ExclusiveInv, LocksInv', NEW h \in Requests, NEW o \in Ops, Arrive(h, o)
  PROVE  ExclusiveInv'
  <1> USE DEF ExclusiveInv, LocksInv, SupersedesInv, TypeOK, Procs
  <1>1. /\ pc[h] = "idle" /\ op' = [op EXCEPT ![h] = o]
        /\ o # "create" => row # "unborn"
        /\ Serial => \A k \in Requests : pc[k] = "idle"
        /\ UNCHANGED << row, revs, own, wrote, locked, seen >>
    BY DEF Arrive, At, Exists, DeploymentStatuses, db, tx
  <1>2. PICK l \in { "begin", "term", "del", "mark" } :
          /\ pc' = [pc EXCEPT ![h] = l]
          /\ l = "begin" => o \in { "create", "update", "record" }
    BY DeploymentAssumption DEF Arrive, AllOps, Goto
  <1>3. Exclusive' /\ Fresh' /\ AtMostOneActive'
    BY <1>1, <1>2 DEF Exclusive, Fresh, AtMostOneActive, Active, Underway, TxPCs
  <1> QED
    BY <1>3

(* A transaction begins, under the lock of the deployment row unless       *)
(* requests come one at a time.                                            *)
LEMMA ExclusiveBegin ==
  ASSUME OneAtATime, ExclusiveInv, LocksInv', NEW h \in Requests,
         CreateRow(h) \/ Describe(h)
  PROVE  ExclusiveInv'
  <1> USE DEF ExclusiveInv, LocksInv, SupersedesInv, TypeOK, Procs
  <1>1. /\ pc[h] = "begin" /\ pc' = [pc EXCEPT ![h] = "list"]
        /\ seen' = [seen EXCEPT ![h] = Active]
        /\ UNCHANGED << row, revs, own, op >>
    BY DEF CreateRow, Describe, At, Goto, db, work
  <1>2. /\ ~locked[h]
        /\ row # "deleted" => row = "unborn" \/ Exists
    BY <1>1 DEF RowLocks, Underway, Exists
  <1>3. PICK b \in BOOLEAN : locked' = [locked EXCEPT ![h] = b]
    BY DEF CreateRow, Describe, Exists
  <1>4. /\ b => row # "deleted" /\ \A k \in Requests \ { h } : ~locked[k]
        /\ op[h] = "create" => b
        /\ ~Serial /\ ~b => row = "deleted"
    <2>1. CASE CreateRow(h)
      BY <2>1, <1>3 DEF CreateRow
    <2>2. CASE Describe(h)
      <3>1. PICK d \in Describes : (d => RowFree(h)) /\ b = (d /\ Exists)
        BY <2>2, <1>3 DEF Describe
      <3>2. row # "unborn" /\ op[h] # "create"
        BY <2>2, <1>1 DEF Describe, RowLocks, TxPCs
      <3>3. ~Serial => d
        BY DEF OneAtATime
      <3> QED
        BY <1>2, <3>1, <3>2, <3>3 DEF RowFree, Exists, DeploymentStatuses
    <2> QED
      BY <2>1, <2>2
  <1>5. Exclusive'
    BY <1>1, <1>2, <1>3, <1>4 DEF Exclusive, Underway, Phases, Inserted
  <1>6. Fresh' /\ AtMostOneActive'
    BY <1>1, <1>3 DEF Fresh, AtMostOneActive, Active, Underway
  <1> QED
    BY <1>5, <1>6

LEMMA ExclusiveInsert ==
  ASSUME OneAtATime, ExclusiveInv, LocksInv', NEW h \in Requests, InsertRevision(h)
  PROVE  ExclusiveInv'
  <1> USE DEF ExclusiveInv, LocksInv, SupersedesInv, TypeOK, Procs
  <1>1. /\ pc[h] = "insert" /\ own' = [own EXCEPT ![h] = nextRev]
        /\ Exists \/ op[h] = "create"
        /\ \/ pc' = [pc EXCEPT ![h] = "deactivate"]
           \/ pc' = [pc EXCEPT ![h] = "relist"]
        /\ UNCHANGED << row, revs, op, wrote, locked, seen >>
    BY DEF InsertRevision, At, Goto, work
  <1>2. row # "deleted"
    BY <1>1 DEF RowLocks, Underway, TxPCs, Exists, DeploymentStatuses
  <1>3. Exclusive'
    BY <1>1, <1>2 DEF Exclusive, Underway, TxPCs
  <1>4. Fresh' /\ AtMostOneActive'
    BY <1>1 DEF Fresh, AtMostOneActive, Active, Underway, TxPCs
  <1> QED
    BY <1>3, <1>4

LEMMA ExclusiveMark ==
  ASSUME OneAtATime, ExclusiveInv, LocksInv', NEW h \in Requests, MarkBuilding(h)
  PROVE  ExclusiveInv'
  <1> USE DEF ExclusiveInv, LocksInv, SupersedesInv, TypeOK, Procs
  <1>1. /\ pc[h] = "status" /\ locked' = [locked EXCEPT ![h] = TRUE]
        /\ wrote' = [wrote EXCEPT ![h] = "image-building"]
        /\ UNCHANGED << row, revs, op, own, seen >>
    BY DEF MarkBuilding, At, db
  <1>2. /\ pc'[h] \in { "get", "commit" }
        /\ \A k \in Requests \ { h } : pc'[k] = pc[k]
    BY <1>1, DeploymentAssumption DEF MarkBuilding, Spawn, At
  <1>3. own[h] # 0 /\ row # "deleted"
    BY <1>1 DEF Phases, Inserted, RowLocks
  <1>4. ~Serial => locked[h]
    BY <1>3 DEF Exclusive
  <1>5. Exclusive'
    <2>1. \A k \in Requests : pc'[k] # "idle" => pc[k] # "idle"
      BY <1>1, <1>2
    <2>2. ~Serial => locked' = locked
      BY <1>1, <1>4
    <2> QED
      BY <1>1, <1>2, <2>1, <2>2 DEF Exclusive, Underway, TxPCs
  <1>6. Fresh'
    BY <1>1, <1>2, <1>4 DEF Fresh, Active, Underway, TxPCs
  <1>7. AtMostOneActive'
    BY <1>1 DEF AtMostOneActive, Active
  <1> QED
    BY <1>5, <1>6, <1>7

LEMMA ExclusiveRollback ==
  ASSUME ExclusiveInv, LocksInv', NEW h \in Requests, Rollback(h) \/ StatusFails(h)
  PROVE  ExclusiveInv'
  <1> USE DEF ExclusiveInv, LocksInv, SupersedesInv, TypeOK, Procs
  <1>1. /\ own' = [own EXCEPT ![h] = 0] /\ wrote' = [wrote EXCEPT ![h] = "nothing"]
        /\ locked' = [locked EXCEPT ![h] = FALSE] /\ seen' = [seen EXCEPT ![h] = {}]
        /\ UNCHANGED << row, revs >>
        /\ \A k \in Requests \ { h } : op'[k] = op[k]
    BY DEF Rollback, StatusFails, EndTx, Leave, db
  <1>2. /\ pc'[h] \notin TxPCs /\ (pc'[h] = "idle" \/ pc[h] # "idle")
        /\ \A k \in Requests \ { h } : pc'[k] = pc[k]
    <2>1. CASE Rollback(h)
      BY <2>1 DEF Rollback, Leave, Goto, TxPCs
    <2>2. CASE StatusFails(h)
      BY <2>2, DeploymentAssumption DEF StatusFails, Spawn, At, TxPCs
    <2> QED
      BY <2>1, <2>2
  <1>3. Exclusive'
    <2>1. CASE Serial
      <3>1. \A k \in Requests : pc'[k] # "idle" => pc[k] # "idle"
        BY <1>2
      <3> QED
        BY <2>1, <3>1 DEF Exclusive
    <2>2. CASE ~Serial
      BY <2>2, <1>1, <1>2 DEF Exclusive, Underway, TxPCs
    <2> QED
      BY <2>1, <2>2
  <1>4. Fresh' /\ AtMostOneActive'
    BY <1>1, <1>2 DEF Fresh, AtMostOneActive, Active, Underway, TxPCs
  <1> QED
    BY <1>3, <1>4

(* The step that matters: everything active was seen, so it was listed and *)
(* made inactive, and the transaction's own revision is alone.             *)
LEMMA ExclusiveCommit ==
  ASSUME OneAtATime, ExclusiveInv, LocksInv', NEW h \in Requests, Commit(h)
  PROVE  ExclusiveInv'
  <1> USE DEF ExclusiveInv, LocksInv, SupersedesInv, TypeOK, Procs
  <1>1. /\ pc[h] = "commit" /\ pc' = [pc EXCEPT ![h] = "idle"]
        /\ op' = [op EXCEPT ![h] = "sync"]
        /\ own' = [own EXCEPT ![h] = 0] /\ wrote' = [wrote EXCEPT ![h] = "nothing"]
        /\ locked' = [locked EXCEPT ![h] = FALSE] /\ seen' = [seen EXCEPT ![h] = {}]
        /\ row' = IF wrote[h] = "nothing" THEN row ELSE wrote[h]
    BY DEF Commit, EndTx, Leave, At, Goto
  <1>2. revs' = [r \in Rev |-> IF r = own[h] THEN "active"
                               ELSE IF r \in off[h] /\ revs[r] # "free" THEN "inactive"
                               ELSE revs[r]]
    BY DEF Commit
  <1>3. row' = row \/ (row # "deleted" /\ row' # "deleted" /\ row' # "unborn")
    BY <1>1 DEF RowLocks, DeploymentStatuses
  <1>4. own[h] # 0 => Active \subseteq { own[h] } \cup off[h]
    <2> SUFFICES ASSUME own[h] # 0, NEW q \in Active PROVE q \in { own[h] } \cup off[h]
      OBVIOUS
    <2>1. q \in seen[h]
      BY <1>1 DEF Fresh, Exclusive, Underway, TxPCs
    <2> QED
      BY <1>1, <2>1 DEF Covered, AfterList, Active
  <1>5. \A q \in Active' : q = own[h] \/ (q \in Active /\ q \notin off[h])
    BY <1>2 DEF Active
  <1>6. own[h] # 0 => Active' \subseteq { own[h] }
    BY <1>4, <1>5
  <1>7. own[h] = 0 => Active' \subseteq Active
    BY <1>5, RevPositive DEF Active
  <1>8. Exclusive'
    BY <1>1, <1>3 DEF Exclusive, Underway, TxPCs
  <1>9. Fresh'
    <2> SUFFICES ASSUME NEW k \in Requests, k # h, pc[k] \in Underway, Serial \/ locked[k]
                 PROVE  Active' \subseteq seen[k]
      BY <1>1 DEF Fresh, Underway, TxPCs
    <2>1. own[h] = 0
      <3>1. CASE Serial
        BY <1>1, <3>1 DEF Exclusive, Underway, TxPCs
      <3>2. CASE ~Serial
        BY <3>2 DEF Exclusive
      <3> QED
        BY <3>1, <3>2
    <2> QED
      BY <1>7, <2>1 DEF Fresh
  <1>10. AtMostOneActive'
    BY <1>6, <1>7 DEF AtMostOneActive
  <1> QED
    BY <1>8, <1>9, <1>10

LEMMA ExclusiveEnd ==
  ASSUME ExclusiveInv, LocksInv', Crash \/ \E h \in Requests : Delete(h)
  PROVE  ExclusiveInv'
  <1> USE DEF ExclusiveInv, LocksInv, SupersedesInv, TypeOK, Procs
  <1>1. CASE Crash
    <2>1. /\ pc' = [p \in Procs |-> "idle"] /\ own' = [h \in Requests |-> 0]
          /\ wrote' = [h \in Requests |-> "nothing"]
          /\ locked' = [h \in Requests |-> FALSE]
          /\ UNCHANGED << row, revs >>
      BY <1>1 DEF Crash, db
    <2>2. Exclusive' /\ Fresh'
      BY <2>1 DEF Exclusive, Fresh, Underway, TxPCs
    <2>3. AtMostOneActive'
      BY <2>1 DEF AtMostOneActive, Active
    <2> QED
      BY <2>2, <2>3
  <1>2. ASSUME NEW h \in Requests, Delete(h) PROVE ExclusiveInv'
    <2>1. /\ pc[h] = "del" /\ pc' = [pc EXCEPT ![h] = "idle"]
          /\ op' = [op EXCEPT ![h] = "sync"]
          /\ row' = "deleted" /\ revs' = [r \in Rev |-> "free"]
          /\ \A k \in Requests : own[k] = 0 /\ ~locked[k]
          /\ UNCHANGED << own, wrote, locked, seen >>
      BY <1>2 DEF Delete, Leave, At, Goto, tx
    <2>2. \A k \in Requests : pc[k] \in Underway => op[k] # "create"
      BY <2>1 DEF RowLocks
    <2>3. Exclusive'
      BY <2>1, <2>2 DEF Exclusive, Underway, TxPCs
    <2>4. Fresh' /\ AtMostOneActive'
      BY <2>1 DEF Fresh, AtMostOneActive, Active
    <2> QED
      BY <2>3, <2>4
  <1> QED
    BY <1>1, <1>2

LEMMA ExclusiveTx ==
  ASSUME OneAtATime, ExclusiveInv, LocksInv', NEW h \in Requests,
         TxStep(h) \/ TxFault(h)
  PROVE  ExclusiveInv'
  <1>1. CASE \/ ListActive(h) \/ Relist(h) \/ Deactivate(h) \/ Deactivated(h)
             \/ GetCR(h) \/ WriteCR(h)
    <2>1. /\ UNCHANGED << row, revs, op, own, wrote, locked, seen >>
          /\ pc[h] \in Underway
          /\ pc' = pc \/ \E l \in Underway : pc' = [pc EXCEPT ![h] = l]
      BY <1>1 DEF ListActive, Relist, Deactivate, Deactivated, GetCR, WriteCR, At, Goto,
                  db, tx, work, Underway, TxPCs
    <2>2. \A k \in Requests : Keeps(k)
      BY <2>1 DEF Keeps, KeepsPhase, ExclusiveInv, LocksInv, SupersedesInv, TypeOK, Procs, Underway, TxPCs
    <2> QED
      BY <2>1, <2>2, KeepsExclusive
  <1>2. CASE Rollback(h) \/ StatusFails(h)
    BY <1>2, ExclusiveRollback
  <1>3. CASE GiveUp(h)
    BY <1>3, KeepsExclusive
    DEF GiveUp, Leave, At, Goto, Keeps, KeepsPhase, db, tx, ExclusiveInv, LocksInv, SupersedesInv, TypeOK, Procs, TxPCs
  <1> QED
    BY <1>1, <1>2, <1>3, ExclusiveBegin, ExclusiveInsert, ExclusiveMark, ExclusiveCommit
    DEF TxStep, NameTaken, InsertFails, WriteConflict, DeadlockVictim, TxFault

LEMMA ExclusiveOutside ==
  ASSUME ExclusiveInv, LocksInv',
         \/ \E h \in Requests : EndStep(h) /\ ~Delete(h)
         \/ \E p \in Procs : SyncStep(p) \/ SyncFails(p) \/ (p \in Syncers /\ CronSync(p))
         \/ ClusterStep
  PROVE  ExclusiveInv'
  <1> USE DEF ExclusiveInv, LocksInv, SupersedesInv, TypeOK
  <1>1. ASSUME NEW h \in Requests, EndStep(h), ~Delete(h) PROVE ExclusiveInv'
    <2>1. /\ UNCHANGED << revs, own, wrote, locked, seen >>
          /\ row' = row \/ (Exists /\ row' = "terminating")
          /\ \A k \in Requests \ { h } : pc'[k] = pc[k] /\ op'[k] = op[k]
          /\ pc[h] \notin TxPCs /\ pc'[h] \notin TxPCs /\ pc[h] # "idle"
      BY <1>1 DEF EndStep, MarkTerminating, ListNewest, DeleteCR, TerminateFails, DeleteRefused,
                  Leave, At, Goto, db, tx, work, Procs, TxPCs
    <2>2. row' = row \/ (Exists /\ Exists')
      BY <2>1 DEF Exists, DeploymentStatuses
    <2> QED
      BY <2>1, <2>2, KeepsExclusive DEF Keeps, KeepsPhase
  <1>2. ASSUME NEW p \in Procs, SyncStep(p) \/ SyncFails(p) \/ (p \in Syncers /\ CronSync(p))
        PROVE  ExclusiveInv'
    <2>1. /\ UNCHANGED << revs, own, wrote, locked, seen >>
          /\ row' = row \/ (Exists /\ row' = calc[p])
          /\ \A k \in Requests \ { p } : pc'[k] = pc[k] /\ op'[k] = op[k]
          /\ pc[p] \notin TxPCs /\ pc'[p] \notin TxPCs
          /\ p \in Requests => pc[p] # "idle"
      BY <1>2, DeploymentAssumption
      DEF SyncStep, MarkSyncing, ReadKube, StoreStatus, SyncFails, CronSync,
          Leave, At, Goto, db, tx, work, Procs, TxPCs, SyncPCs
    <2>2. row' = row \/ (Exists /\ Exists')
      BY <2>1 DEF Exists
    <2> QED
      BY <2>1, <2>2, KeepsExclusive DEF Keeps, KeepsPhase
  <1>3. CASE ClusterStep
    BY <1>3, KeepsExclusive
    DEF Keeps, KeepsPhase, ClusterStep, PodsChange, BuildersChange, ControllerTouchesCR, db, tx, work
  <1> QED
    BY <1>1, <1>2, <1>3

(* When requests come one at a time, or every update carries a description *)
(* and so starts by locking the deployment row, at most one revision of    *)
(* the deployment is active, whatever fails.                               *)
THEOREM OneActive ==
  ASSUME OneAtATime
  PROVE  Spec => []AtMostOneActive
  <1>1. ExclusiveInv /\ LocksInv' /\ UNCHANGED vars => ExclusiveInv'
    BY KeepsExclusive DEF Keeps, KeepsPhase, vars, db, kube, work, tx, hist
  <1>2. ASSUME ExclusiveInv, LocksInv', Next PROVE ExclusiveInv'
    BY <1>1, <1>2, OneAtATime, ExclusiveTx, ExclusiveOutside, ExclusiveArrive, ExclusiveEnd
    DEF Next, Over, EndStep, Procs
  <1>3. ExclusiveInv => AtMostOneActive
    BY DEF ExclusiveInv
  <1> QED
    BY <1>1, <1>2, <1>3, ExclusiveInit, LocksInvariant, PTL DEF Spec

-----------------------------------------------------------------------------
(* A sync does not end what has not ended.                                 *)
LEMMA StatusEnds ==
  ASSUME NEW d, NEW b, NEW ps, NEW s \in StatusesFromK8s(d, b, ps), s \in Ended
  PROVE  d \in Ended
  BY DEF StatusesFromK8s, StatusOfPods, BuilderVerdict, Ended

LEMMA LeftoverInitially == Init => LeftoverInv
  BY DEF Init, LeftoverInv, EndsWithoutCR, Traced, Deploying, NothingLeftBehind, Ended, Procs

LEMMA NoteKeeps == ASSUME Note PROVE slipped \subseteq slipped'
  BY DEF Note

(* Steps that take nobody out of a termination, or out of a transaction    *)
(* that has written the CR, and let nobody store a new status.             *)
Continues(h) ==
  /\ pc[h] \in Terminating => pc'[h] \in Terminating
  /\ own[h] # 0 /\ own[h] = cr => wrote'[h] = wrote[h] /\ (pc[h] = "status" => pc'[h] = "status")
  /\ wrote'[h] \in { wrote[h], "non-deployed" }

StoresNothingNew(p) == pc'[p] = "store" => pc[p] = "store" /\ UNCHANGED << mem[p], calc[p] >>

LEMMA LeftoverKept ==
  ASSUME LocksInv, LeftoverInv, Note, UNCHANGED << row, revs, nextRev, cr, own, lost >>,
         \A h \in Requests : Continues(h), \A p \in Procs : StoresNothingNew(p)
  PROVE  LeftoverInv'
  <1>1. slipped \subseteq slipped'
    BY NoteKeeps
  <1>2. EndsWithoutCR' /\ NothingLeftBehind' /\ Traced'
    BY <1>1 DEF LeftoverInv, EndsWithoutCR, NothingLeftBehind, Traced, Continues
  <1>3. Deploying'
    BY DEF LeftoverInv, Deploying, Continues, StoresNothingNew
  <1> QED
    BY <1>2, <1>3 DEF LeftoverInv

(* A transaction before it commits.                                        *)
LEMMA LeftoverTx ==
  ASSUME LocksInv, LocksInv', LeftoverInv, Note, NEW h \in Requests,
         \/ CreateRow(h) \/ Describe(h) \/ ListActive(h) \/ InsertRevision(h) \/ Relist(h)
         \/ Deactivate(h) \/ Deactivated(h) \/ GetCR(h) \/ WriteCR(h) \/ MarkBuilding(h)
  PROVE  LeftoverInv'
  <1> USE DEF LocksInv, SupersedesInv, TypeOK, Procs
  <1>0. slipped \subseteq slipped' /\ cr \in 0 .. MaxRev /\ nextRev \in 1 .. MaxRev + 1 /\ MaxRev \in Nat
    BY NoteKeeps, DeploymentAssumption
  <1>1. CASE \/ CreateRow(h) \/ Describe(h) \/ ListActive(h) \/ Relist(h)
             \/ Deactivate(h) \/ Deactivated(h) \/ GetCR(h)
    <2>1. /\ UNCHANGED << row, revs, nextRev, cr, own, lost, mem, calc >>
          /\ pc[h] \in { "begin", "list", "relist", "deactivate", "get" }
          /\ pc' = pc \/ \E l \in { "list", "insert", "commit", "deactivate", "get", "write" } :
                           pc' = [pc EXCEPT ![h] = l]
          /\ wrote' = wrote \/ (pc[h] = "begin" /\ wrote' = [wrote EXCEPT ![h] = "non-deployed"])
      BY <1>1 DEF CreateRow, Describe, ListActive, Relist, Deactivate, Deactivated, GetCR,
                  At, Goto, db, kube, work, tx, hist
    <2>2. pc[h] = "begin" => own[h] = 0
      BY DEF Phases, Inserted
    <2>3. \A k \in Requests : Continues(k)
      BY <2>1, <2>2 DEF Continues, Terminating
    <2>4. \A p \in Procs : StoresNothingNew(p)
      BY <2>1 DEF StoresNothingNew
    <2> QED
      BY <2>1, <2>3, <2>4, LeftoverKept
  <1>2. CASE InsertRevision(h)
    <2>1. /\ UNCHANGED << row, revs, cr, lost, mem, calc, wrote >>
          /\ pc[h] = "insert" /\ own' = [own EXCEPT ![h] = nextRev] /\ nextRev' = nextRev + 1
          /\ \E l \in { "deactivate", "relist" } : pc' = [pc EXCEPT ![h] = l]
      BY <1>2 DEF InsertRevision, At, Goto, kube, work, hist
    <2>2. own[h] = 0 /\ own'[h] # cr
      BY <1>0, <2>1 DEF Phases, Inserted, LeftoverInv, Traced
    <2>3. EndsWithoutCR' /\ NothingLeftBehind'
      BY <1>0, <2>1, <2>2 DEF LeftoverInv, EndsWithoutCR, NothingLeftBehind, Terminating
    <2>4. Traced'
      BY <1>0, <2>1, <2>2 DEF LeftoverInv, Traced
    <2>5. Deploying'
      BY <2>1, <2>2 DEF LeftoverInv, Deploying
    <2> QED
      BY <2>3, <2>4, <2>5 DEF LeftoverInv
  <1>3. CASE WriteCR(h)
    <2>1. /\ UNCHANGED << row, revs, nextRev, lost, mem, calc, own, wrote >>
          /\ pc[h] = "write" /\ pc' = [pc EXCEPT ![h] = "status"] /\ cr' = own[h]
      BY <1>3 DEF WriteCR, At, Goto, db, work, tx, hist
    <2>2. /\ own[h] # 0 /\ own[h] < nextRev /\ row # "deleted"
          /\ \A k \in Requests \ { h } : own[k] # own[h]
      BY <2>1 DEF Phases, Inserted, Numbers, RowLocks
    <2>3. EndsWithoutCR' /\ NothingLeftBehind'
      BY <2>1, <2>2 DEF EndsWithoutCR, NothingLeftBehind
    <2>4. Traced'
      BY <2>1, <2>2 DEF Traced
    <2>5. Deploying'
      BY <2>1, <2>2 DEF LeftoverInv, Deploying
    <2> QED
      BY <2>3, <2>4, <2>5 DEF LeftoverInv
  <1>4. CASE MarkBuilding(h)
    <2>1. /\ UNCHANGED << row, revs, nextRev, cr, lost, calc, own >>
          /\ pc[h] = "status" /\ wrote' = [wrote EXCEPT ![h] = "image-building"]
      BY <1>4 DEF MarkBuilding, At, db, kube, hist
    <2>2. /\ \A k \in Requests \ { h } : pc'[k] = pc[k]
          /\ \A p \in Procs : pc'[p] = "store" => pc[p] = "store" /\ mem'[p] = mem[p]
      <3> DEFINE here == [pc EXCEPT ![h] = IF left[h] > 1 THEN "get" ELSE "commit"]
      <3>1. Spawn(here)
        BY <1>4 DEF MarkBuilding
      <3>2. CASE \E s \in Syncers : At(s, "idle")
        <4>1. PICK s \in Syncers : /\ pc' = [here EXCEPT ![s] = "mark"]
                                  /\ mem' = [mem EXCEPT ![s] = "image-building"]
          BY <3>1, <3>2 DEF Spawn
        <4>2. s \notin Requests
          BY DeploymentAssumption
        <4> QED
          BY <4>1, <4>2
      <3>3. CASE ~\E s \in Syncers : At(s, "idle")
        <4>1. pc' = here /\ UNCHANGED mem
          BY <3>1, <3>3 DEF Spawn
        <4> QED
          BY <4>1
      <3> QED
        BY <3>2, <3>3
    <2>3. EndsWithoutCR' /\ NothingLeftBehind'
      BY <1>0, <2>1, <2>2 DEF LeftoverInv, EndsWithoutCR, NothingLeftBehind, Terminating
    <2>4. Traced'
      BY <2>1 DEF LeftoverInv, Traced
    <2>5. Deploying'
      BY <2>1, <2>2 DEF LeftoverInv, Deploying
    <2> QED
      BY <2>3, <2>4, <2>5 DEF LeftoverInv
  <1> QED
    BY <1>1, <1>2, <1>3, <1>4

(* A transaction ends: with its row, or with its CR among the lost ones.   *)
LEMMA LeftoverTxEnds ==
  ASSUME LocksInv, LocksInv', LeftoverInv, Note, NEW h \in Requests,
         Commit(h) \/ (Rollback(h) /\ pc[h] \in TxPCs) \/ StatusFails(h) \/ Crash
  PROVE  LeftoverInv'
  <1> USE DEF LocksInv, SupersedesInv, TypeOK, Procs
  <1>0. slipped \subseteq slipped'
    BY NoteKeeps
  <1>1. CASE Commit(h)
    <2>1. /\ pc[h] = "commit" /\ pc' = [pc EXCEPT ![h] = "idle"]
          /\ own' = [own EXCEPT ![h] = 0] /\ wrote' = [wrote EXCEPT ![h] = "nothing"]
          /\ mem' = [mem EXCEPT ![h] = "unknown"] /\ calc' = [calc EXCEPT ![h] = "unknown"]
          /\ UNCHANGED << nextRev, cr, lost >>
          /\ row' = IF wrote[h] = "nothing" THEN row ELSE wrote[h]
          /\ revs' = [r \in Rev |-> IF r = own[h] THEN "active"
                                    ELSE IF r \in off[h] /\ revs[r] # "free" THEN "inactive"
                                    ELSE revs[r]]
      BY <1>1 DEF Commit, EndTx, Leave, At, Goto
    <2>2. row' \in Ended => row' = row /\ (own[h] = 0 \/ own[h] # cr)
      BY <2>1 DEF LeftoverInv, Deploying, Ended
    <2>3. row' = "deleted" => row = "deleted"
      BY <2>1 DEF LeftoverInv, Deploying
    <2>4. EndsWithoutCR' /\ NothingLeftBehind'
      BY <1>0, <2>1, <2>2, <2>3 DEF LeftoverInv, EndsWithoutCR, NothingLeftBehind, Terminating
    <2>5. Traced'
      <3>1. cr # 0 => cr \in Rev
        BY DeploymentAssumption DEF Rev
      <3>2. row' # "deleted" => row # "deleted" \/ wrote[h] # "nothing"
        BY <2>1
      <3>3. wrote[h] # "nothing" => row # "deleted"
        BY DEF RowLocks
      <3> QED
        BY <2>1, <3>1, <3>2, <3>3 DEF LeftoverInv, Traced
    <2>6. Deploying'
      BY <2>1 DEF LeftoverInv, Deploying
    <2> QED
      BY <2>4, <2>5, <2>6 DEF LeftoverInv
  <1>2. CASE (Rollback(h) /\ pc[h] \in TxPCs) \/ StatusFails(h)
    <2>1. /\ own' = [own EXCEPT ![h] = 0] /\ wrote' = [wrote EXCEPT ![h] = "nothing"]
          /\ lost' = IF cr # 0 /\ cr = own[h] THEN lost \cup { cr } ELSE lost
          /\ UNCHANGED << row, revs, nextRev, cr >>
          /\ pc[h] \in TxPCs
      BY <1>2 DEF Rollback, StatusFails, EndTx, At, TxPCs, db
    <2>2. /\ \A k \in Requests \ { h } : pc'[k] = pc[k]
          /\ \A p \in Procs :
               pc'[p] = "store" => pc[p] = "store" /\ mem'[p] = mem[p] /\ calc'[p] = calc[p]
      <3>1. CASE Rollback(h)
        BY <3>1 DEF Rollback, Leave, Goto
      <3>2. CASE StatusFails(h)
        BY <3>2, DeploymentAssumption DEF StatusFails, Spawn, At
      <3> QED
        BY <1>2, <3>1, <3>2
    <2>3. EndsWithoutCR' /\ NothingLeftBehind'
      BY <1>0, <2>1, <2>2 DEF LeftoverInv, EndsWithoutCR, NothingLeftBehind, Terminating, TxPCs
    <2>4. Traced' /\ Deploying'
      BY <2>1, <2>2 DEF LeftoverInv, Traced, Deploying
    <2> QED
      BY <2>3, <2>4 DEF LeftoverInv
  <1>3. CASE Crash
    <2>1. /\ pc' = [p \in Procs |-> "idle"] /\ own' = [k \in Requests |-> 0]
          /\ wrote' = [k \in Requests |-> "nothing"]
          /\ lost' = lost \cup ({ own[k] : k \in Requests } \cap ({ cr } \ { 0 }))
          /\ UNCHANGED << row, revs, nextRev, cr >>
      BY <1>3 DEF Crash, db
    <2>2. (\E k \in Requests : pc[k] \in Terminating) /\ cr # 0 => cr \in slipped'
      BY <2>1 DEF Note, Slip, BreaksOff
    <2>3. EndsWithoutCR' /\ NothingLeftBehind'
      BY <1>0, <2>1, <2>2 DEF LeftoverInv, EndsWithoutCR, NothingLeftBehind
    <2>4. Traced' /\ Deploying'
      BY <2>1 DEF LeftoverInv, Traced, Deploying
    <2> QED
      BY <2>3, <2>4 DEF LeftoverInv
  <1> QED
    BY <1>1, <1>2, <1>3

(* Terminate and Delete.                                                   *)
LEMMA LeftoverEnd ==
  ASSUME LocksInv, LocksInv', SomeActiveInv, LeftoverInv, Note, NEW h \in Requests,
         EndStep(h) \/ GiveUp(h)
  PROVE  LeftoverInv'
  <1> USE DEF LocksInv, SupersedesInv, TypeOK, Procs
  <1>0. slipped \subseteq slipped'
    BY NoteKeeps
  <1>1. /\ UNCHANGED << nextRev, own, wrote, lost >>
        /\ \A p \in Procs \ { h } : pc'[p] = pc[p] /\ mem'[p] = mem[p] /\ calc'[p] = calc[p]
        /\ pc[h] # "status" /\ pc'[h] # "store"
    BY DEF EndStep, MarkTerminating, ListNewest, DeleteCR, TerminateFails, Delete,
           DeleteRefused, GiveUp, Leave, At, Goto, db, kube, work, tx, hist
  <1>2. Deploying' \/ cr' # cr
    BY <1>1 DEF LeftoverInv, Deploying
  <1>3. CASE MarkTerminating(h)
    <2>1. /\ pc[h] = "term" /\ pc' = [pc EXCEPT ![h] = "termlist"]
          /\ row' = row \/ (Exists /\ row' = "terminating")
          /\ UNCHANGED << revs, cr >>
      BY <1>3 DEF MarkTerminating, At, Goto, kube
    <2>2. row' = "deleted" <=> row = "deleted"
      BY <2>1 DEF Exists, DeploymentStatuses
    <2>3. EndsWithoutCR' /\ NothingLeftBehind'
      BY <1>0, <1>1, <2>1, <2>2 DEF LeftoverInv, EndsWithoutCR, NothingLeftBehind, Terminating
    <2>4. Traced'
      BY <1>1, <2>1, <2>2 DEF LeftoverInv, Traced
    <2> QED
      BY <1>2, <2>1, <2>3, <2>4 DEF LeftoverInv
  <1>4. CASE ListNewest(h)
    <2>1. /\ pc[h] = "termlist"
          /\ pc' = [pc EXCEPT ![h] = IF Active = {} THEN "mark" ELSE "termcr"]
          /\ UNCHANGED << row, revs, cr >>
      BY <1>4 DEF ListNewest, At, Goto, db, kube
    <2>2. Active = {} /\ row # "deleted" /\ cr # 0 =>
            cr \in lost \/ \E k \in Requests : own[k] = cr
      <3>1. cr # 0 => cr \in Rev
        BY DeploymentAssumption DEF Rev
      <3> QED
        BY <3>1 DEF SomeActiveInv, OneRemains, LeftoverInv, Traced
    <2>3. EndsWithoutCR'
      BY <1>0, <1>1, <2>1, <2>2 DEF LeftoverInv, EndsWithoutCR, Terminating, Ended
    <2>4. NothingLeftBehind' /\ Traced'
      BY <1>0, <1>1, <2>1 DEF LeftoverInv, NothingLeftBehind, Traced
    <2> QED
      BY <1>2, <2>1, <2>3, <2>4 DEF LeftoverInv
  <1>5. CASE DeleteCR(h)
    <2>1. cr' = 0 /\ nextRev' > 0
      BY <1>1, <1>5, DeploymentAssumption DEF DeleteCR
    <2>2. Deploying'
      BY <1>1, <2>1 DEF LeftoverInv, Deploying
    <2> QED
      BY <2>1, <2>2 DEF LeftoverInv, EndsWithoutCR, NothingLeftBehind, Traced
  <1>6. CASE TerminateFails(h)
    <2>1. /\ pc[h] = "termcr" /\ pc' = [pc EXCEPT ![h] = "idle"]
          /\ UNCHANGED << row, revs, cr >>
      BY <1>6 DEF TerminateFails, At, Leave, Goto, db, kube
    <2>2. cr # 0 => cr \in slipped'
      BY <2>1 DEF Note, Slip, BreaksOff, Terminating
    <2>3. EndsWithoutCR' /\ NothingLeftBehind' /\ Traced'
      BY <1>0, <1>1, <2>1, <2>2 DEF LeftoverInv, EndsWithoutCR, NothingLeftBehind, Traced
    <2> QED
      BY <1>2, <2>1, <2>3 DEF LeftoverInv
  <1>7. CASE Delete(h)
    <2>1. /\ pc[h] = "del" /\ pc' = [pc EXCEPT ![h] = "idle"] /\ cr' = cr
          /\ row' = "deleted" /\ mem[h] \in Ended
          /\ \A k \in Requests : own[k] = 0
      BY <1>7 DEF Delete, At, Leave, Goto, kube, Ended
    <2>2. cr # 0 => cr \in lost \cup slipped'
      <3>1. CASE row = "deleted"
        BY <1>0, <3>1 DEF LeftoverInv, NothingLeftBehind
      <3>2. CASE row # "deleted" /\ (mem[h] # row \/ \E k \in Requests : pc[k] \in Terminating)
        BY <2>1, <3>2 DEF Note, Slip, Overtakes
      <3>3. CASE mem[h] = row /\ \A k \in Requests : pc[k] \notin Terminating
        BY <1>0, <2>1, <3>3 DEF LeftoverInv, EndsWithoutCR
      <3> QED
        BY <3>1, <3>2, <3>3
    <2>3. EndsWithoutCR' /\ NothingLeftBehind' /\ Traced'
      BY <1>1, <2>1, <2>2 DEF LeftoverInv, EndsWithoutCR, NothingLeftBehind, Traced, Ended
    <2> QED
      BY <1>2, <2>1, <2>3 DEF LeftoverInv
  <1>8. CASE DeleteRefused(h) \/ GiveUp(h)
    <2>1. UNCHANGED << row, revs, cr >> /\ pc[h] \notin Terminating
      BY <1>8 DEF DeleteRefused, GiveUp, At, db, kube, Terminating
    <2>2. \A k \in Requests : Continues(k)
      BY <1>1, <2>1 DEF Continues
    <2>3. \A p \in Procs : StoresNothingNew(p)
      BY <1>1 DEF StoresNothingNew
    <2> QED
      BY <1>1, <2>1, <2>2, <2>3, LeftoverKept
  <1> QED
    BY <1>3, <1>4, <1>5, <1>6, <1>7, <1>8 DEF EndStep

(* Syncs: an end that one stores is that of its copy of the row.           *)
LEMMA LeftoverSync ==
  ASSUME LocksInv, LocksInv', LeftoverInv, Note, NEW p \in Procs,
         SyncStep(p) \/ SyncFails(p) \/ (p \in Syncers /\ CronSync(p))
  PROVE  LeftoverInv'
  <1> USE DEF LocksInv, SupersedesInv, TypeOK, Procs
  <1>0. slipped \subseteq slipped'
    BY NoteKeeps
  <1>1. /\ UNCHANGED << revs, nextRev, cr, own, wrote, lost >>
        /\ \A q \in Procs \ { p } : pc'[q] = pc[q] /\ mem'[q] = mem[q] /\ calc'[q] = calc[q]
        /\ pc[p] \notin Terminating \cup { "status" }
    BY DEF SyncStep, MarkSyncing, ReadKube, StoreStatus, SyncFails, CronSync, At, Leave, Goto,
           db, kube, work, tx, hist, SyncPCs, Terminating
  <1>2. CASE MarkSyncing(p) \/ SyncFails(p) \/ CronSync(p)
    <2>1. row' = row /\ pc'[p] # "store"
      BY <1>2 DEF MarkSyncing, SyncFails, CronSync, Leave, Goto, db
    <2> QED
      BY <1>1, <2>1, LeftoverKept DEF Continues, StoresNothingNew
  <1>3. CASE ReadKube(p)
    <2>1. PICK s \in StatusesFromK8s(mem[p], builders, pods) : calc' = [calc EXCEPT ![p] = s]
      BY <1>3 DEF ReadKube
    <2>2. UNCHANGED << row, mem >>
      BY <1>3 DEF ReadKube, db
    <2>3. calc'[p] \in Ended => mem[p] \in Ended
      BY <2>1, StatusEnds
    <2>4. Deploying'
      BY <1>1, <2>2, <2>3 DEF LeftoverInv, Deploying
    <2>5. EndsWithoutCR' /\ NothingLeftBehind' /\ Traced'
      BY <1>0, <1>1, <2>2 DEF LeftoverInv, EndsWithoutCR, NothingLeftBehind, Traced
    <2> QED
      BY <2>4, <2>5 DEF LeftoverInv
  <1>4. CASE StoreStatus(p)
    <2>1. /\ pc[p] = "store" /\ pc'[p] = "idle"
          /\ row' = IF Exists THEN calc[p] ELSE row
      BY <1>4 DEF StoreStatus, At, Leave, Goto
    <2>2. row \notin Ended /\ row' \in Ended /\ cr # 0 => cr \in slipped'
      BY <2>1 DEF LeftoverInv, Deploying, Note, Slip, EndsAgain
    <2>3. row' = "deleted" <=> row = "deleted"
      BY <2>1 DEF Exists, DeploymentStatuses
    <2>4. EndsWithoutCR' /\ NothingLeftBehind'
      BY <1>0, <1>1, <2>1, <2>2, <2>3 DEF LeftoverInv, EndsWithoutCR, NothingLeftBehind
    <2>5. Traced' /\ Deploying'
      BY <1>1, <2>1, <2>3 DEF LeftoverInv, Traced, Deploying
    <2> QED
      BY <2>4, <2>5 DEF LeftoverInv
  <1> QED
    BY <1>2, <1>3, <1>4 DEF SyncStep

(* What no request and no sync does.                                       *)
LEMMA LeftoverOutside ==
  ASSUME LocksInv, LeftoverInv, Note,
         \/ \E h \in Requests : \E o \in Ops : Arrive(h, o)
         \/ ClusterStep \/ UNCHANGED vars
  PROVE  LeftoverInv'
  <1> USE DEF LocksInv, SupersedesInv, TypeOK, Procs
  <1>1. ASSUME NEW h \in Requests, NEW o \in Ops, Arrive(h, o) PROVE LeftoverInv'
    <2>1. /\ UNCHANGED << row, revs, nextRev, cr, own, wrote, lost, calc >>
          /\ pc[h] = "idle" /\ \A p \in Procs \ { h } : mem'[p] = mem[p]
      BY <1>1 DEF Arrive, At, db, kube, tx, hist
    <2>2. PICK l \in { "begin", "term", "del", "mark" } : pc' = [pc EXCEPT ![h] = l]
      BY <1>1, DeploymentAssumption DEF Arrive, AllOps, Goto
    <2>3. \A k \in Requests : Continues(k)
      BY <2>1, <2>2 DEF Continues, Terminating
    <2>4. \A p \in Procs : StoresNothingNew(p)
      BY <2>1, <2>2 DEF StoresNothingNew
    <2> QED
      BY <2>1, <2>3, <2>4, LeftoverKept
  <1>2. CASE ClusterStep \/ UNCHANGED vars
    <2>1. UNCHANGED << row, revs, nextRev, cr, own, lost, pc, wrote, mem, calc >>
      BY <1>2 DEF ClusterStep, PodsChange, BuildersChange, ControllerTouchesCR,
                  vars, db, kube, tx, work, hist
    <2> QED
      BY <2>1, LeftoverKept DEF Continues, StoresNothingNew
  <1> QED
    BY <1>1, <1>2

(* For any number of requests, goroutines, targets and revisions, and      *)
(* whatever fails: a deployment that is deleted leaves no CR behind, but   *)
(* after one of the slips or from a transaction that was rolled back.  One *)
(* that has ended has none, but for one that is accounted for, about to be *)
(* deleted by a termination, or written by a transaction that commits      *)
(* another status (Terminate, Delete, SyncStatus, Deploy).                 *)
THEOREM DeletedIsGone == LeftoverSpec => []NothingLeftBehind
  <1>1. LeftoverInit => LeftoverInv
    BY LeftoverInitially DEF LeftoverInit
  <1>2. ASSUME LocksInv, LocksInv', SomeActiveInv, LeftoverInv, [LeftoverNext]_LeftoverVars
        PROVE  LeftoverInv'
    <2>1. CASE LeftoverNext
      <3>1. Note /\ Next
        BY <2>1 DEF LeftoverNext
      <3>2. ASSUME NEW h \in Requests, TxStep(h) \/ TxFault(h) PROVE LeftoverInv'
        <4>1. CASE NameTaken(h) \/ InsertFails(h) \/ WriteConflict(h) \/ DeadlockVictim(h)
                   \/ TxFault(h)
          <5>1. Rollback(h) /\ pc[h] \in TxPCs
            BY <4>1 DEF NameTaken, InsertFails, WriteConflict, DeadlockVictim, TxFault, At, TxPCs
          <5> QED
            BY <1>2, <3>1, <5>1, LeftoverTxEnds
        <4>2. CASE Commit(h) \/ StatusFails(h)
          BY <1>2, <3>1, <4>2, LeftoverTxEnds
        <4>3. CASE GiveUp(h)
          BY <1>2, <3>1, <4>3, LeftoverEnd
        <4> QED
          BY <1>2, <3>1, <3>2, <4>1, <4>2, <4>3, LeftoverTx DEF TxStep
      <3>3. CASE Crash
        <4>1. CASE Requests = {}
          <5>1. /\ pc' = [p \in Procs |-> "idle"] /\ UNCHANGED << row, revs, nextRev, cr >>
                /\ lost \subseteq lost' /\ slipped \subseteq slipped'
            BY <3>1, <3>3, NoteKeeps DEF Crash, db
          <5> QED
            BY <1>2, <4>1, <5>1
            DEF LeftoverInv, EndsWithoutCR, NothingLeftBehind, Traced, Deploying
        <4>2. CASE Requests # {}
          BY <1>2, <3>1, <3>3, <4>2, LeftoverTxEnds
        <4> QED
          BY <4>1, <4>2
      <3>4. CASE Over
        BY <1>2, <3>1, <3>4, LeftoverOutside DEF Over
      <3> QED
        BY <1>2, <3>1, <3>2, <3>3, <3>4, LeftoverEnd, LeftoverSync, LeftoverOutside
        DEF Next, Procs
    <2>2. CASE UNCHANGED LeftoverVars
      BY <1>2, <2>2 DEF LeftoverVars, vars, db, kube, work, tx, hist, LeftoverInv,
                        EndsWithoutCR, NothingLeftBehind, Traced, Deploying
    <2> QED
      BY <1>2, <2>1, <2>2
  <1>3. LeftoverInit => Init
    BY DEF LeftoverInit
  <1>4. [LeftoverNext]_LeftoverVars => [Next]_vars
    BY DEF LeftoverNext, LeftoverVars
  <1>5. LeftoverInv => NothingLeftBehind
    BY DEF LeftoverInv
  <1> QED
    BY <1>1, <1>2, <1>3, <1>4, <1>5, LocksInvariant, SomeActiveInvariant, PTL
    DEF Spec, LeftoverSpec
=============================================================================

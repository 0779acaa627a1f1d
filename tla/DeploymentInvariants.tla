------------------------ MODULE DeploymentInvariants ------------------------
(***************************************************************************)
(* Inductive invariants of Deployment: why an update supersedes what was   *)
(* active before it, and why requests that come one at a time, or lock the *)
(* deployment row first, leave one revision active.                        *)
(***************************************************************************)
EXTENDS Deployment

Inserted    == { "relist", "deactivate", "get", "write", "status" }
AfterList   == { "insert", "commit" } \cup Inserted
Deactivates == { "deactivate", "get", "write", "status", "commit" }
Underway    == TxPCs \ { "begin" }

(* Only the transaction of a request that has inserted its revision owns   *)
(* one, and only that of a request that has come to the old revisions has  *)
(* made some inactive.                                                     *)
Phases ==
  \A h \in Requests :
    /\ pc[h] \in Inserted => own[h] # 0
    /\ own[h] # 0 => pc[h] \in Inserted \cup { "commit" }
    /\ off[h] # {} => pc[h] \in Deactivates

(* Revision numbers are fresh: no two open transactions own the same one,  *)
(* and nobody has seen one that is not committed.                          *)
Numbers ==
  /\ \A r \in Rev : revs[r] # "free" => r < nextRev
  /\ \A h \in Requests :
       /\ own[h] < nextRev
       /\ own[h] # 0 => revs[own[h]] = "free"
       /\ \A k \in Requests \ { h } : own[h] # 0 => own[h] # own[k]

OldRevisions(S) ==
  \A q \in S : q < nextRev /\ \A k \in Requests : own[k] # q

Histories ==
  /\ \A h \in Requests : OldRevisions(seen[h])
  /\ \A r \in Rev : OldRevisions(superseded[r])

(* A request has listed what it saw and what is still active, and once it  *)
(* is done with the old revisions it has made everything it listed         *)
(* inactive.                                                               *)
Covered ==
  \A h \in Requests :
    /\ pc[h] \in AfterList => \A q \in seen[h] : revs[q] = "active" => q \in list[h]
    /\ own[h] # 0 /\ pc[h] \in { "get", "write", "status", "commit" } =>
         list[h] \subseteq { own[h] } \cup off[h]

SupersedesInv == TypeOK /\ Phases /\ Numbers /\ Histories /\ Covered /\ Supersedes

-----------------------------------------------------------------------------
(* Updates cannot run side by side.                                        *)
OneAtATime == Serial \/ Describes \subseteq { TRUE }

(* The deployment row is locked by the transaction that wrote it, deleted  *)
(* once and for all, and unborn only for its creators.                     *)
RowLocks ==
  /\ \A h \in Requests :
       /\ locked[h] => pc[h] \in Underway /\ row # "deleted"
       /\ wrote[h] # "nothing" => locked[h]
       /\ own[h] # 0 => row # "deleted"
       /\ pc[h] \in TxPCs => op[h] \in { "create", "update", "record" }
       /\ pc[h] \in TxPCs /\ row = "unborn" => op[h] = "create"
       /\ pc[h] \in Underway /\ op[h] = "create" => locked[h]

LocksInv == SupersedesInv /\ RowLocks

Exclusive ==
  /\ Serial => \A h, k \in Requests : pc[h] # "idle" /\ pc[k] # "idle" => h = k
  /\ ~Serial => \A h \in Requests :
       /\ \A k \in Requests : locked[h] /\ locked[k] => h = k
       /\ pc[h] \in Underway /\ ~locked[h] => row = "deleted"
       /\ own[h] # 0 => locked[h]

(* What is active was active when the exclusive transaction began.         *)
Fresh ==
  \A h \in Requests :
    pc[h] \in Underway /\ (Serial \/ locked[h]) => Active \subseteq seen[h]

ExclusiveInv == LocksInv /\ Exclusive /\ Fresh /\ AtMostOneActive

-----------------------------------------------------------------------------
(* Revisions are made inactive only by a transaction that has inserted one *)
(* of its own, so when it commits there is an active one.                  *)
Replaces == \A h \in Requests : off[h] # {} => own[h] # 0

OneRemains == Active = {} => \A r \in Rev : revs[r] = "free"

SomeActiveInv == SupersedesInv /\ Replaces /\ OneRemains

(* Every request that inserts a revision goes on to write the CR for it.   *)
EveryUpdateDeploys == Targets # 0 /\ "record" \notin Ops

NoneRecords ==
  \A h \in Requests : op[h] # "record" /\ (pc[h] = "commit" => own[h] # 0)

(* The revisions that a transaction takes for old ones are committed: no   *)
(* open transaction owns one, so none is going to write the CR for it.     *)
Committed ==
  \A h \in Requests :
    OldRevisions(off[h]) /\ (pc[h] \in AfterList => OldRevisions(list[h] \ { own[h] }))

(* The transaction has written the CR at least once.                       *)
HasWritten(h) ==
  \/ pc[h] \in { "status", "commit" }
  \/ pc[h] \in { "get", "write" } /\ left[h] < Targets

(* What it makes inactive has lost the CR by then, and for good.           *)
TookOver == \A h \in Requests : HasWritten(h) => cr \notin off[h]

Backed ==
  row # "deleted" /\ cr # 0 =>
    cr \in Active \cup lost \/ \E h \in Requests : own[h] = cr

BackedInv == LocksInv /\ NoneRecords /\ Committed /\ TookOver /\ Backed

(* A sync that started from "terminated" stores that or what the image     *)
(* builder pods say.                                                       *)
StaysTerminated ==
  \A p \in Procs :
    pc[p] = "store" /\ mem[p] = "terminated" =>
      calc[p] \in { "terminated", "image-building", "image-build-failed" }
=============================================================================

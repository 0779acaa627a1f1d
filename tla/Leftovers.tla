------------------------------ MODULE Leftovers -------------------------------
(***************************************************************************)
(* Which custom resources outlive their deployment.  Delete takes only the *)
(* rows away: it counts on Terminate to have deleted the CR before.        *)
(* Deployment with one history variable, which collects the CRs that one   *)
(* of three slips has left without anybody to delete them.                 *)
(***************************************************************************)
EXTENDS DeploymentInvariants

VARIABLE slipped  \* history: CRs there when one of the slips happened

Ended       == { "terminating", "terminated" }
Terminating == { "termlist", "termcr" }

(* A termination that has marked the row ends before it has deleted the CR *)
(* (Terminate returns the error, or the server dies).                      *)
BreaksOff(h) == pc[h] \in Terminating /\ pc'[h] = "idle"

(* A sync that started from a deployment that had ended stores so over the *)
(* status of one that has been deployed again meanwhile (SyncStatus).      *)
EndsAgain(p) ==
  /\ pc[p] = "store" /\ pc'[p] # "store" /\ mem[p] \in Ended
  /\ row \notin Ended /\ row' \in Ended

(* A deletion goes by a copy of the row that is not the row any more, or   *)
(* comes in the middle of a termination, which then finds no revision.     *)
Overtakes(h) ==
  /\ pc[h] = "del" /\ row' = "deleted" /\ row # "deleted"
  /\ mem[h] # row \/ \E k \in Requests : pc[k] \in Terminating

Slip ==
  \/ \E h \in Requests : BreaksOff(h) \/ Overtakes(h)
  \/ \E p \in Procs : EndsAgain(p)

Note == slipped' = slipped \cup (IF Slip THEN { cr } \ { 0 } ELSE {})

LeftoverVars == << vars, slipped >>
LeftoverInit == Init /\ slipped = {}
LeftoverNext == Next /\ Note
LeftoverSpec == LeftoverInit /\ [][LeftoverNext]_LeftoverVars

-----------------------------------------------------------------------------
(* Whatever requests, syncs and failures there are, a deleted deployment   *)
(* leaves its CR behind only after one of the slips, or if that CR was     *)
(* written by a transaction that was rolled back (Terminate, Delete).      *)
NothingLeftBehind == row = "deleted" /\ cr # 0 => cr \in lost \cup slipped

(* A deployment that has ended has no CR, but for one that is accounted    *)
(* for, about to be deleted, or just written by an open transaction.       *)
EndsWithoutCR ==
  row \in Ended /\ cr # 0 =>
    \/ cr \in lost \cup slipped
    \/ \E h \in Requests : pc[h] \in Terminating \/ own[h] = cr

(* The CR is that of a revision, of an open transaction or lost.           *)
Traced ==
  /\ cr < nextRev
  /\ row # "deleted" /\ cr # 0 =>
       \/ cr \in lost \/ revs[cr] # "free"
       \/ \E h \in Requests : own[h] = cr

(* A transaction that has written the CR commits "image-building", and a   *)
(* sync ends only what has ended in its copy of the row.                   *)
Deploying ==
  /\ \A h \in Requests :
       /\ wrote[h] \in { "nothing", "non-deployed", "image-building" }
       /\ own[h] # 0 /\ own[h] = cr => pc[h] = "status" \/ wrote[h] = "image-building"
  /\ \A p \in Procs : pc[p] = "store" /\ calc[p] \in Ended => mem[p] \in Ended

LeftoverInv == EndsWithoutCR /\ Traced /\ Deploying /\ NothingLeftBehind
=============================================================================

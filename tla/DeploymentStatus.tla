-------------------------- MODULE DeploymentStatus --------------------------
(***************************************************************************)
(* How the api-server turns what it sees in Kubernetes into the status of  *)
(* a deployment: deploymentService.getStatusFromK8s.                       *)
(*                                                                         *)
(* The functions are pure; the components that call them extend this       *)
(* module.  A list of pods counts only through the statuses that occur in  *)
(* it, so it is a set of statuses here.  The lister returns pods in no     *)
(* particular order (they come out of an index map), so where the code     *)
(* stops at the first decisive pod the result is any of them.              *)
(***************************************************************************)

DeploymentStatuses ==
  { "unknown", "non-deployed", "failed", "unhealthy", "deploying", "running",
    "terminating", "terminated", "image-building", "image-build-failed" }

PodStatuses ==
  { "Pending", "Running", "Succeeded", "Failed", "Unknown", "Terminating" }

-----------------------------------------------------------------------------
(* What an image builder pod decides; a pod that succeeded decides nothing. *)
BuilderVerdict(b) ==
  IF b \in { "Pending", "Running" } THEN "image-building" ELSE "image-build-failed"

Decisive(builders) == builders \ { "Succeeded" }

(* Mutant: a terminated deployment with pods is judged by its pods.        *)
StatusOfPodsAlone(d, pods) ==
  IF pods = {} THEN
       IF d \in { "terminating", "terminated" } THEN "terminated"
       ELSE IF d = "deploying" THEN "deploying"
       ELSE "non-deployed"
  ELSE IF d = "terminating" THEN
       IF "Running" \in pods THEN "terminating" ELSE "terminated"
  ELSE IF "Pending" \in pods THEN "deploying"
  ELSE IF "Running" \in pods THEN
       IF "Failed" \in pods THEN "unhealthy" ELSE "running"
  ELSE "failed"

(* The status of a deployment whose image is built, given its status d as  *)
(* it stands in the caller's memory.                                       *)
StatusOfPods(d, pods) ==
  IF pods = {} THEN
       IF d \in { "terminating", "terminated" } THEN "terminated"
       ELSE IF d = "deploying" THEN "deploying"
       ELSE "non-deployed"
  ELSE IF d = "terminated" THEN "terminated"
  ELSE IF d = "terminating" THEN
       IF "Running" \in pods THEN "terminating" ELSE "terminated"
  ELSE IF "Pending" \in pods THEN "deploying"
  ELSE IF "Running" \in pods THEN
       IF "Failed" \in pods THEN "unhealthy" ELSE "running"
  ELSE "failed"

(* The statuses getStatusFromK8s may return when it returns no error.      *)
StatusesFromK8s(d, builders, pods) ==
  IF Decisive(builders) = {} THEN { StatusOfPods(d, pods) }
  ELSE { BuilderVerdict(b) : b \in Decisive(builders) }
=============================================================================

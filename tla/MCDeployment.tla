---------------------------- MODULE MCDeployment ----------------------------
(* Deployment on small instances; the .cfg files choose among these.       *)
EXTENDS DeploymentInvariants, TLC

CONSTANTS h1, h2, s1

TwoRequests == { h1, h2 }
OneSyncer == { s1 }
NoSyncer == {}

EveryOp == AllOps
NoRecord == AllOps \ { "record" }
NoSync == AllOps \ { "sync" }
UpdateOps == { "create", "update", "delete", "terminate" }

Sometimes == BOOLEAN
Always == { TRUE }
Never == { FALSE }

NoPods == { {} }
SomePods == { {}, { "Running" } }
MorePods == { {}, { "Pending" }, { "Running", "Failed" }, { "Failed" } }
BuilderOnOff == { {}, { "Running" } }
BuilderOutcomes == { {}, { "Running" }, { "Succeeded" }, { "Failed", "Succeeded" } }

Sym == Permutations(TwoRequests)
=============================================================================

SPECIFICATION Spec
CONSTANTS
  Parts = {"list", "mixed", "pods", "long log", "two logs", "shell", "events"}
  Pages = {"BentoList", "BentoRepositoryListCard", "DeploymentLayout"}
  Uids = {"b1", "d1"}
  TypeOf <- TypeOfName
  MaxRuns = 2
  MaxSockets = 3
  MaxVersion = 2
  MaxQueries = 2
  Containers <- TwoContainers
  MaxLogRuns = 2
  MaxLogSockets = 2
  MaxLines = 2
  MaxChoices = 1
  Viewers = {"p", "q"}
  MaxConns = 2
  Views = {"none", "a", "b"}
  NoPods = "none"
  MaxChanges = 3
  Shells = {"a", "b"}
  Files = {"f", "g"}
  MaxUploads = 2
  MaxReruns = 1
  MaxOutputs = 2
  MaxEvents = 3
  MaxEvConns = 2
  MaxTurns = 2
INVARIANTS TypeOK ShowsCurrent Orphans UpToDate NoGap Heeded TypedHere PanicsExplained ShownIsStored EventsShown
CHECK_DEADLOCK FALSE

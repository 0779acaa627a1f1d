SPECIFICATION FairSpec
CONSTANTS
  Parts = {"list", "pods", "long log"}
  Pages = {"BentoList"}
  Uids = {"b1", "d1"}
  TypeOf <- TypeOfName
  MaxRuns = 2
  MaxSockets = 3
  MaxVersion = 1
  MaxQueries = 1
  Containers <- TwoContainers
  MaxLogRuns = 2
  MaxLogSockets = 2
  MaxLines = 1
  MaxChoices = 1
  Viewers = {"p", "q"}
  MaxConns = 2
  Views = {"none", "a"}
  NoPods = "none"
  MaxChanges = 0
  Shells = {"a"}
  Files = {"f"}
  MaxUploads = 0
  MaxReruns = 0
  MaxOutputs = 0
  MaxEvents = 0
  MaxEvConns = 1
  MaxTurns = 1
PROPERTIES ListReconnects PodsManaged PodsLoad LogStreams
CHECK_DEADLOCK FALSE

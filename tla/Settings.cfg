SPECIFICATION SettingsSpec
CONSTANTS
  h1 = h1
  h2 = h2
  s1 = s1
  Requests <- TwoRequests
  Syncers <- OneSyncer
  MaxRev = 3
  Targets = 1
  Ops <- EveryOp
  Describes <- Sometimes
  Serial = TRUE
  Faults = TRUE
  PodViews <- SomePods
  BuilderViews <- NoPods
SYMMETRY Sym
INVARIANTS AtMostOneActive NothingLeftBehind

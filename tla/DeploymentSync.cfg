SPECIFICATION Spec
CONSTANTS
  h1 = h1
  h2 = h2
  s1 = s1
  Requests <- TwoRequests
  Syncers <- OneSyncer
  MaxRev = 1
  Targets = 1
  Ops <- EveryOp
  Describes <- Sometimes
  Serial = TRUE
  Faults = TRUE
  PodViews <- MorePods
  BuilderViews <- BuilderOutcomes
SYMMETRY Sym
PROPERTY NoRevival

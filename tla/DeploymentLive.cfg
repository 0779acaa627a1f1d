SPECIFICATION FairSpec
CONSTANTS
  h1 = h1
  h2 = h2
  s1 = s1
  Requests <- TwoRequests
  Syncers <- OneSyncer
  MaxRev = 1
  Targets = 1
  Ops <- UpdateOps
  Describes <- Sometimes
  Serial = TRUE
  Faults = FALSE
  PodViews <- SomePods
  BuilderViews <- BuilderOnOff
PROPERTY TerminatingEnds
PROPERTY StatusConverges

SPECIFICATION Spec
CONSTANTS
  h1 = h1
  h2 = h2
  s1 = s1
  Requests <- TwoRequests
  Syncers <- NoSyncer
  MaxRev = 2
  Targets = 1
  Ops <- NoRecord
  Describes <- Sometimes
  Serial = FALSE
  Faults = FALSE
  PodViews <- NoPods
  BuilderViews <- NoPods
PROPERTY DeleteOnlyTerminated

SPECIFICATION Spec
CONSTANTS
  h1 = h1
  h2 = h2
  s1 = s1
  Requests <- TwoRequests
  Syncers <- NoSyncer
  MaxRev = 4
  Targets = 2
  Ops <- NoSync
  Describes <- Sometimes
  Serial = FALSE
  Faults = TRUE
  PodViews <- NoPods
  BuilderViews <- NoPods
SYMMETRY Sym
INVARIANT TypeOK
INVARIANT Supersedes
INVARIANT SomeActive

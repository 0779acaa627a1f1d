SPECIFICATION Spec
CONSTANTS
  Kinds <- EveryKind
  Faults = FALSE
  Panics <- NoKind
INVARIANT FailureRecorded

SPECIFICATION Spec
CONSTANTS
  Kinds <- EveryKind
  Faults = FALSE
  Panics <- EveryKind
INVARIANT PanicRollsBack

SPECIFICATION RequestsSpec
CONSTANTS
  Kinds <- EveryKind
  Faults = TRUE
  Panics <- OneWriteEach
  Pushers = {c1, c2}
  MaxPushes = 2
INVARIANTS TypesOK NothingOpen Honest ClaimsStored Settled
PROPERTY Atomic

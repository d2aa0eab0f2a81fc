CONSTANTS
  a = a
  b = b
  Request = {r1}
  Worker = {w1, w2}
  Op = {a, b}
  NoOp = none
  Asks <- OneForced
  LEASE = 1
  ENVELOPE = 0
  TIMEOUT = 1
SPECIFICATION FairSpec
INVARIANTS SingleFlight RunnerOwnsRecord
PROPERTIES OutcomeOfItsOwner ImplementsLifecycle LeaseFrees

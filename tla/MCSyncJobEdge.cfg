CONSTANTS
  a = a
  b = b
  Request = {r1}
  Worker = {w1, w2}
  Op = {a, b}
  NoOp = none
  Asks <- OneForced
  LEASE = 2
  ENVELOPE = 1
  TIMEOUT = 1
SPECIFICATION Spec
INVARIANTS StartsRunOnce
SYMMETRY Symmetry

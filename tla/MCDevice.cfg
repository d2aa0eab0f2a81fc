CONSTANTS
  OFFSET = 1
  WINDOW = 0
  SKEW = 0
  Account = {a1, a2}
  NoAccount = NoAccount
  Store <- Two
  Slot <- BothSlots
  Planned <- OneCallSlot
  Worker = {w1, w2}
  NoReportYet = NoReportYet
  NoWork = NoWork
  NoDoc = NoDoc
  Fixes = {"no_campus", "fora"}
  Capacity = 2
  MAXTIME = 3
  Disturbances = 1
SPECIFICATION Spec
INVARIANTS AcknowledgedWasSent NothingOpenSent OneActivePlan ServerAgrees
PROPERTY SettledStands
SYMMETRY Symmetry

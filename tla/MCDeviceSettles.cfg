CONSTANTS
  OFFSET = 1
  WINDOW = 0
  SKEW = 0
  Account = {a1}
  NoAccount = NoAccount
  Store <- One
  Slot <- OneCallSlot
  Planned <- OneCallSlot
  Worker = {w1}
  NoReportYet = NoReportYet
  NoWork = NoWork
  NoDoc = NoDoc
  Fixes = {"no_campus"}
  Capacity = 3
  MAXTIME = 3
  Disturbances = 2
SPECIFICATION FairSpec
PROPERTY EventuallySettled

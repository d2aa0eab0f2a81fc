CONSTANTS
  OFFSET = 1
  WINDOW = 0
  SKEW = 0
  NoDoc = NoDoc
  e1 = e1
  d1 = d1
  d2 = d2
  v1 = v1
  h1 = h1
  Editor = {e1}
  Delivery = {d1, d2}
  Saver = {v1}
  Holiday = {h1}
  Meeting = {m1}
  MAXTIME = 2
  INFLIGHT = 2
  Day <- TwoDays
  Config <- TwoConfigs
  Change <- EditPayloads
  Evidence <- Payloads
  Saved <- NoneOrLong
SPECIFICATION MCSpec
SYMMETRY Symmetry
INVARIANTS ScheduleComplete AbsenceHasEvidence RefusalHasCause
PROPERTIES LossHasCause CheckpointFillsBlank

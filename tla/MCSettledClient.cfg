SPECIFICATION Spec
CONSTANTS
  NoSequence = 9
  HistoryLimit = 2
  LastSnapshot = 3
  LastCatchup = 0
  me = me
  foe = foe
  NetId = {me, foe}
  Owner = me
  Field = {state}
  Value = {0, 1}
  DefaultValue = 0
  state = state
  Absent = Absent
  Removed = Removed
INVARIANTS SettledClientShowsFrame

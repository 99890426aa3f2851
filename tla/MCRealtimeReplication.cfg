SPECIFICATION Spec
CONSTANTS
  NoSequence = 11
  HistoryLimit = 2
  LastSnapshot = 5
  LastCatchup = 2
  me = me
  foe = foe
  NetId = {me, foe}
  Owner = me
  Field = {state}
  Value = {0, 1}
  DefaultValue = 0
  state = state
  Absent = Absent
  Removed = Removed
CONSTRAINTS LongSessionIsPlain FewCatchups
INVARIANTS TypeOK DeltaUsesAppliedBaseline BaselineReconstructed LinkedClientMatches
PROPERTIES AcksMoveForward SnapshotShowsFrame

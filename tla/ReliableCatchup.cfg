SPECIFICATION CatchupSpec
CONSTANTS
  NoSequence = 9
  HistoryLimit = 2
  LastTick = 3
  LastKill = 2
  KillHistory = 1
  Cooldown = 1
  CheckpointAfter = 1
  LastCatchup = 2
  NetId = {me, foe}
  Owner = me
  Field = {state}
  Value = {0}
  DefaultValue = 0
  Absent = Absent
  Removed = Removed
INVARIANTS ReplicaFollowsSession KillsInOrder
PROPERTIES OmissionReconciled KillsAreTold
CHECK_DEADLOCK FALSE

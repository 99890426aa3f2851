SPECIFICATION Spec
CONSTANTS
  TickModulus = 8
  SlotCount = 4
  HistoryTicks = 2
  NoTick = NoTick
  attack = attack
  heavy = heavy
  dodge = dodge
  Attack = attack
  Heavy = heavy
  OtherButton = {}
  Gesture = {{}, {attack}, {attack, heavy}}
  NoSample = NoSample
  Redundancy = 2
  MaxAcks = 2
  PublishEvery = 3
  FirstTick = 6
  LastInput = 3
INVARIANTS AckedInputIsTaken ReleasedHoldIsForgotten
PROPERTIES PressesActOnce

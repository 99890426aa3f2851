SPECIFICATION BrowserSpec
CONSTRAINT FewRequests
CONSTANTS
  \* RenderClock
  Behind = 1
  MaxAdvance = 3
  MaxFrameStep = 3
  Rate = 29
  Fraction = 20
  Stall = 4
  LongestFrame = 5
  Furthest = 11
  \* InputWindowTrace and InputConnection
  TickModulus = 8
  SlotCount = 4
  HistoryTicks = 2
  NoTick = NoTick
  LastTick = 20
  attack = attack
  heavy = heavy
  dodge = dodge
  Attack = attack
  Heavy = heavy
  OtherButton = {}
  Gesture = {{}}
  NoSample = NoSample
  Redundancy = 2
  MaxAcks = 2
  PublishEvery = 3
  FirstTick = 6
  LastInput = 3
INVARIANTS
  OnePressOneStrike
PROPERTIES
  LoopServes
  PaintCatchesUp
  ImplementsLedger
  EveryInputAnswered
CHECK_DEADLOCK FALSE

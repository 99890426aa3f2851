SPECIFICATION BrowserSpec
CONSTRAINTS TwoFollowed HudIsSmall
CONSTANTS
  \* Prediction
  LastSent = 3
  LastPublish = 3
  MaxHistory = 2
  \* StaminaDenial
  PressCost <- PressCosts
  MostStamina = 2
  ActionSteps = 2
  LongestGap = 1
  \* ThreatCue
  Rival = {1, 2, 3}
  Nearness = {1, 2}
  \* FocusHud
  HudRival = {1, 2}
  Reach = 1
  Farthest = 2
  \* MatchHud
  Player = {1, 2}
  KillTarget = 2
  FeedLength = 2
  LastKill = 4
  \* GameAudio
  Samples = 3
  Workers = {1, 2}
  Tracks = 2
  \* SnapshotWire
  Sent <- MCSent
  Longest = 2
  \* Transport
  LastPayload = 4
  Frames <- MCFrames
  \* SparringAi
  Fighter <- MCFighter
  Duration <- SparDuration
  FeintWindow <- MCFeintWindow
  BufferWindow = 2
  ParryWindow = 1
  Cost <- MCCost
  StaminaMax = 4
  StaminaDelay = 1
  GuardMax = 1
  HpMax = 1
  DashCooldown = 4
  Reserve <- MCReserve
  Pause <- MCPause
  BlockTime = 2
  \* Flights
  MostTries = 2
  MostLag = 3
INVARIANTS
  NoInputForgotten
  DenialIsTrue
  CueShowsThreats
  HudIsCurrent
  FeedAndLockAreTrue
  SoundIsAskedFor
  WireIsExact
  AcceptedIsTrue
PROPERTIES
  TransportDelivers
  PartnerActs
CHECK_DEADLOCK FALSE

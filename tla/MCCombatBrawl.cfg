SPECIFICATION FairSpec
CONSTANTS
  FighterCount = 2
  Fighter <- MCFighter
  Duration <- BrawlDuration
  FeintWindow <- MCFeintWindow
  BufferWindow = 0
  ParryWindow = 1
  Cost <- FreeCost
  StaminaMax = 0
  StaminaDelay = 0
  GuardMax = 2
  HpMax = 2
  DashCooldown = 0
  InputOf <- BrawlInput
  Damage <- MCDamage
  GuardDamage <- MCGuardDamage
  GuardBreakStun <- MCGuardBreakStun
  ParryStun = 1
  RollKnockdown = 5
  KickKnockdown = 2
  GuardDelay = 0
  RespawnDelay = 1
  ResetDelay = 2
  KillTarget = 2
  DodgeWindow = 1
INVARIANTS
  WinnerHasTheKills
PROPERTIES
  GameGoesOn

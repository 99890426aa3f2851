SPECIFICATION Spec
CONSTANTS
  FighterCount = 1
  Fighter <- MCFighter
  Duration <- ControlDuration
  FeintWindow <- MCFeintWindow
  BufferWindow = 2
  ParryWindow = 1
  Cost <- MCCost
  StaminaMax = 4
  StaminaDelay = 1
  GuardMax = 1
  HpMax = 1
  DashCooldown = 4
  InputOf <- ControlInput
  Damage <- MCDamage
  GuardDamage <- MCGuardDamage
  GuardBreakStun <- MCGuardBreakStun
  ParryStun = 1
  RollKnockdown = 1
  KickKnockdown = 1
  GuardDelay = 1
  RespawnDelay = 1
  ResetDelay = 1
  KillTarget = 1
  DodgeWindow = 1
INVARIANTS
  FighterInv
PROPERTIES
  PracticeActsAlike
  DeniedPressIsLost
  EarlyReleaseIsNoHeavy

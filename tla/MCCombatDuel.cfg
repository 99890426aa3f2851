SPECIFICATION FeedbackSpec
CONSTANTS
  Own = 1
  LongestGap = 3
  FighterCount = 2
  Fighter <- MCFighter
  Duration <- DuelDuration
  FeintWindow <- MCFeintWindow
  BufferWindow = 0
  ParryWindow = 1
  Cost <- FreeCost
  StaminaMax = 0
  StaminaDelay = 0
  GuardMax = 2
  HpMax = 2
  DashCooldown = 0
  InputOf <- DuelInput
  Damage <- MCDamage
  GuardDamage <- MCGuardDamage
  GuardBreakStun <- MCGuardBreakStun
  ParryStun = 1
  RollKnockdown = 5
  KickKnockdown = 2
  GuardDelay = 4
  RespawnDelay = 3
  ResetDelay = 1
  KillTarget = 1
  DodgeWindow = 1
INVARIANTS
  FighterInv
  GuardStaysBroken
  FeedbackIsTrue
PROPERTIES
  PracticeFightsAlike
  KnockdownNotRefreshed
  MeetsOnce

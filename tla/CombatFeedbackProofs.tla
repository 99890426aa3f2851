------------------------ MODULE CombatFeedbackProofs ------------------------
(***************************************************************************)
(* What the page tells of a duel is true (FeedbackIsTrue), for every       *)
(* duration, cost, damage and gap between snapshots that GapAssumption     *)
(* allows; for more than two fighters so is all that names no opponent by  *)
(* inference.                                                              *)
(*                                                                         *)
(* A death, a hit or a block follows from what the health and the guard    *)
(* have lost since the last snapshot.  A dodge is the absence of a deed:   *)
(* had the strike met its target, the target would show it, or the strike  *)
(* could not have come so far, for it would have begun within the gap.     *)
(***************************************************************************)
EXTENDS CombatFeedback, CombatProofs

\* The windup of a light or heavy blow and of its recovery.
WindupOf ==
  [AttackActive |-> "AttackWindup", AttackRecovery |-> "AttackWindup",
   HeavyAttackActive |-> "HeavyAttackWindup", HeavyAttackRecovery |-> "HeavyAttackWindup"]

\* The ticks since the strike of a fighter began, at least.
StrikeAge(f) ==
  IF IsWindup(f.action) THEN f.elapsed
  ELSE IF IsActive(f.action) THEN Duration[WindupOf[f.action]]
  ELSE IF IsRecovery(f.action) THEN Duration[WindupOf[f.action]] + 1
  ELSE 0

\* The ticks that a guard has been up.
GuardAge(f) == IF f.action = "Block" THEN f.elapsed ELSE 0

\* A strike is wound up for its whole time, and the dead are those without health.
Steady(f) ==
  /\ IsWindup(f.action) => f.duration = Duration[f.action]
  /\ (f.hp = 0) <=> (f.action = "Dead")
-----------------------------------------------------------------------------
(***************************************************************************)
(* One tick of one fighter.                                                *)
(***************************************************************************)

Fields(f) == {"action", "elapsed", "duration", "hp"} \subseteq DOMAIN f

SameMove(f, g) ==
  g.action = f.action /\ g.elapsed = f.elapsed /\ g.duration = f.duration /\ g.hp = f.hp

\* What differs in none of the fields that matter here.
Aside(f, g) == Fields(g) /\ SameMove(f, g)

\* What a press may open.
Opening == Windup \cup {"Idle", "Block", "Dodge", "Dash", "Jump", "FeintRecovery"}

Opens(g) ==
  /\ g.action \in Opening /\ g.elapsed = 0
  /\ IsWindup(g.action) => g.duration = Duration[g.action]

\* A press leaves what a fighter does as it is, or opens something else.
OnRequest(f, g) == SameMove(f, g) \/ (Opens(g) /\ g.hp = f.hp)

\* The fields that do not matter here.
LEMMA AsideIs ==
  ASSUME NEW f, Fields(f), NEW x
  PROVE  /\ Aside(f, f) /\ Aside(f, Spend(f, x))
         /\ Aside(f, [f EXCEPT !.hits = x]) /\ Aside(f, [f EXCEPT !.rolled = x])
         /\ Aside(f, [f EXCEPT !.buffered = x]) /\ Aside(f, [f EXCEPT !.charging = x])
         /\ Aside(f, [f EXCEPT !.dashWait = x]) /\ Aside(f, [f EXCEPT !.down = x])
         /\ Aside(f, [f EXCEPT !.stamina = x])
  BY DEF Aside, SameMove, Fields, Spend

\* What is asked of a fighter that differs in nothing that matters.
LEMMA AskedLater ==
  ASSUME NEW f, NEW g, NEW h, Aside(f, g), OnRequest(g, h)
  PROVE  OnRequest(f, h)
  BY DEF Aside, SameMove, OnRequest

\* An action that starts is open.
LEMMA StartOpens ==
  ASSUME NEW f, Fields(f), NEW a \in Opening
  PROVE  /\ Opens(Start(f, a)) /\ Start(f, a).hp = f.hp
         /\ ~IsWindup(a) => Opens(SetAction(f, a, 0)) /\ SetAction(f, a, 0).hp = f.hp
  BY DEF Start, SetAction, Fields, Opens

\* Everything that a press may start.
LEMMA DeedOpens ==
  ASSUME NEW f, Fields(f)
  PROVE  /\ \A g \in {Rest(f), RaiseGuard(f), BeginDodge(f)} : Opens(g) /\ g.hp = f.hp
         /\ \A a \in Windup : Opens(BeginSwing(f, a)) /\ BeginSwing(f, a).hp = f.hp
         /\ \A a \in {"Dash", "Jump", "FeintRecovery"} :
              Opens(Start(f, a)) /\ Start(f, a).hp = f.hp
<1>1. Windup \cup {"Idle", "Block", "Dodge", "Dash", "Jump", "FeintRecovery"} \subseteq Opening
  BY DEF Opening
<1>2. Opens(Rest(f)) /\ Rest(f).hp = f.hp
  BY <1>1, StartOpens DEF Rest, IsWindup
<1>3. Opens(RaiseGuard(f)) /\ RaiseGuard(f).hp = f.hp
  BY <1>1, StartOpens DEF RaiseGuard, IsWindup
<1>4. Aside(f, [f EXCEPT !.hits = {}]) /\ Aside(f, [f EXCEPT !.rolled = {}])
  BY AsideIs
<1>5. ASSUME NEW a \in Windup PROVE Opens(BeginSwing(f, a)) /\ BeginSwing(f, a).hp = f.hp
  BY <1>1, <1>4, StartOpens DEF BeginSwing, Aside, SameMove
<1>6. Opens(BeginDodge(f)) /\ BeginDodge(f).hp = f.hp
  BY <1>1, <1>4, StartOpens DEF BeginDodge, Aside, SameMove
<1>7. ASSUME NEW a \in {"Dash", "Jump", "FeintRecovery"}
      PROVE  Opens(Start(f, a)) /\ Start(f, a).hp = f.hp
  BY <1>1, StartOpens
<1> QED
  BY <1>2, <1>3, <1>5, <1>6, <1>7

\* Paid or not.
LEMMA DeedAsked ==
  ASSUME NEW f, Fields(f)
  PROVE  /\ OnRequest(f, f) /\ OnRequest(f, Rest(f)) /\ OnRequest(f, RaiseGuard(f))
         /\ \A a \in Windup : OnRequest(f, BeginSwing(f, a))
         /\ \A n : /\ \A a \in Windup : OnRequest(f, BeginSwing(Spend(f, n), a))
                   /\ OnRequest(f, BeginDodge(Spend(f, n)))
                   /\ \A a \in {"Dash", "Jump", "FeintRecovery"} :
                        OnRequest(f, Start(Spend(f, n), a))
<1>1. \A n : Aside(f, Spend(f, n)) /\ Fields(Spend(f, n))
  BY AsideIs DEF Aside
<1>2. OnRequest(f, f)
  BY DEF OnRequest, SameMove
<1>3. \A n : /\ \A a \in Windup : OnRequest(Spend(f, n), BeginSwing(Spend(f, n), a))
             /\ OnRequest(Spend(f, n), BeginDodge(Spend(f, n)))
             /\ \A a \in {"Dash", "Jump", "FeintRecovery"} :
                  OnRequest(Spend(f, n), Start(Spend(f, n), a))
  BY <1>1, DeedOpens DEF OnRequest
<1> QED
  BY <1>1, <1>2, <1>3, DeedOpens, AskedLater DEF OnRequest

\* The end of a light recovery opens something.
LEMMA FinishOpens ==
  ASSUME NEW f, Fields(f)
  PROVE  Opens(FinishLightRecovery(f)) /\ FinishLightRecovery(f).hp = f.hp
<1>1. \A n : Fields(Spend(f, n)) /\ Spend(f, n).hp = f.hp
  BY DEF Spend, Fields
<1>2. \A n : /\ \A a \in Windup : /\ Opens(BeginSwing(Spend(f, n), a))
                                  /\ BeginSwing(Spend(f, n), a).hp = f.hp
             /\ Opens(BeginDodge(Spend(f, n))) /\ BeginDodge(Spend(f, n)).hp = f.hp
             /\ Opens(Start(Spend(f, n), "Jump")) /\ Start(Spend(f, n), "Jump").hp = f.hp
  BY <1>1, DeedOpens
<1> QED
  BY <1>2, DeedOpens, WindupKinds DEF FinishLightRecovery

\* Whatever is pressed.
LEMMA RequestAsked ==
  ASSUME NEW f, Fields(f), NEW input, NEW edges
  PROVE  OnRequest(f, BeginRequestedAction(f, input, edges))
<1> DEFINE g == [f EXCEPT !.charging = FALSE]
<1>1. OnRequest(f, BufferPress(f, edges))
  <2>1. \A x : OnRequest(f, [f EXCEPT !.buffered = x]) /\ OnRequest(f, f)
    BY AsideIs DEF OnRequest, Aside
  <2> QED
    BY <2>1 DEF BufferPress
<1>2. OnRequest(f, Start([Spend(f, Cost["feint"]) EXCEPT !.hits = {}], "FeintRecovery"))
  <2>1. Aside(f, Spend(f, Cost["feint"])) /\ Fields(Spend(f, Cost["feint"]))
    BY AsideIs DEF Aside
  <2>2. /\ Aside(Spend(f, Cost["feint"]), [Spend(f, Cost["feint"]) EXCEPT !.hits = {}])
        /\ Fields([Spend(f, Cost["feint"]) EXCEPT !.hits = {}])
    BY <2>1, AsideIs DEF Aside
  <2>3. OnRequest([Spend(f, Cost["feint"]) EXCEPT !.hits = {}],
              Start([Spend(f, Cost["feint"]) EXCEPT !.hits = {}], "FeintRecovery"))
    BY <2>2, DeedOpens DEF OnRequest
  <2> QED
    BY <2>1, <2>2, <2>3, AskedLater
<1>3. OnRequest(f, ReleaseCharge(f, input))
  <2>1. Aside(f, g) /\ Fields(g) /\ OnRequest(f, f)
    BY AsideIs DEF Aside, OnRequest
  <2> HIDE DEF g
  <2>2. OnRequest(g, ReleaseLight(g, input)) /\ OnRequest(g, Rest(g)) /\ OnRequest(g, g)
    BY <2>1, DeedAsked, WindupKinds DEF ReleaseLight
  <2>3. OnRequest(f, ReleaseLight(g, input)) /\ OnRequest(f, Rest(g)) /\ OnRequest(f, g)
    BY <2>1, <2>2, AskedLater
  <2> QED
    BY <2>1, <2>3 DEF ReleaseCharge, g
<1>4. OnRequest(f, ActFromIdle(f, input, edges))
  <2> DEFINE dash  == [Spend(f, Cost["dash"]) EXCEPT !.dashWait = DashCooldown]
             swing1 == BeginSwing(f, "HeavyAttackWindup")
             heavy == [swing1 EXCEPT !.charging = TRUE]
  <2>1. OnRequest(f, Start(dash, "Dash"))
    <3>1. Aside(f, Spend(f, Cost["dash"])) /\ Fields(Spend(f, Cost["dash"]))
      BY AsideIs DEF Aside
    <3>2. Aside(Spend(f, Cost["dash"]), dash) /\ Fields(dash)
      BY <3>1, AsideIs DEF Aside
    <3> HIDE DEF dash
    <3>3. OnRequest(dash, Start(dash, "Dash"))
      BY <3>2, DeedOpens DEF OnRequest
    <3> QED
      BY <3>1, <3>2, <3>3, AskedLater
  <2>2. OnRequest(f, heavy)
    <3>1. Opens(swing1) /\ swing1.hp = f.hp
      BY DeedOpens, WindupKinds
    <3>2. Fields(swing1)
      BY DEF Fields, BeginSwing, Start, SetAction
    <3> HIDE DEF swing1
    <3>3. Aside(swing1, heavy)
      BY <3>2, AsideIs
    <3> HIDE DEF heavy
    <3> QED
      BY <3>1, <3>3 DEF OnRequest, Aside, SameMove, Opens
  <2> HIDE DEF dash, heavy
  <2> QED
    BY <2>1, <2>2, DeedAsked, WindupKinds DEF ActFromIdle, dash, heavy
<1>5. OnRequest(f, ActFromBlock(f, input, edges))
  BY DeedAsked DEF ActFromBlock
<1> QED
  BY <1>1, <1>2, <1>3, <1>4, <1>5, DeedAsked, WindupKinds DEF BeginRequestedAction

\* How long the two strikes are wound up.
LEMMA WindupTicks ==
  /\ Duration["AttackWindup"] \in Nat /\ Duration["HeavyAttackWindup"] \in Nat
  /\ Duration["AttackWindup"] > 1 /\ Duration["HeavyAttackWindup"] > 1
  BY FighterAssumption DEF Timed, Windup

\* The ages by action.
LEMMA Ages ==
  ASSUME NEW f
  PROVE  /\ f.action \in {"AttackWindup", "HeavyAttackWindup"} => StrikeAge(f) = f.elapsed
         /\ f.action = "AttackActive" => StrikeAge(f) = Duration["AttackWindup"]
         /\ f.action = "HeavyAttackActive" => StrikeAge(f) = Duration["HeavyAttackWindup"]
         /\ f.action = "AttackRecovery" => StrikeAge(f) = Duration["AttackWindup"] + 1
         /\ f.action = "HeavyAttackRecovery" => StrikeAge(f) = Duration["HeavyAttackWindup"] + 1
         /\ f.action \notin {"AttackWindup", "HeavyAttackWindup", "AttackActive",
                             "HeavyAttackActive", "AttackRecovery", "HeavyAttackRecovery"}
              => StrikeAge(f) = 0
         /\ f.action = "Block" => GuardAge(f) = f.elapsed
         /\ f.action # "Block" => GuardAge(f) = 0
  BY DEF StrikeAge, GuardAge, WindupOf, IsWindup, IsActive, IsRecovery

\* They are numbers.
LEMMA AgesCount ==
  ASSUME NEW f, f.elapsed \in Nat
  PROVE  StrikeAge(f) \in Nat /\ GuardAge(f) \in Nat
  BY WindupTicks DEF StrikeAge, GuardAge, WindupOf, IsWindup, IsActive, IsRecovery

\* A fighter as it is now is no more than a tick older than it was.
NoOlder(f, g) == StrikeAge(g) <= StrikeAge(f) + 1 /\ GuardAge(g) <= GuardAge(f) + 1

WoundUp(g) == IsWindup(g.action) => g.duration = Duration[g.action]

\* What opens is not older than its first tick.
LEMMA OpensYoung ==
  ASSUME NEW f, f.elapsed \in Nat, NEW g, Opens(g)
  PROVE  NoOlder(f, g) /\ WoundUp(g) /\ StrikeAge(g) = 0 /\ GuardAge(g) = 0
<1>1. StrikeAge(g) = 0 /\ GuardAge(g) = 0
  BY DEF Opens, Opening, Windup, StrikeAge, GuardAge, IsWindup, IsActive, IsRecovery
<1> QED
  BY <1>1, AgesCount DEF NoOlder, WoundUp, Opens

\* Time passes for what a fighter does: the strike and the guard age by a tick at most.
LEMMA GrowthAges ==
  ASSUME NEW f, Typed(f), WoundUp(f), f.action # "Dead", NEW input,
         f.charging => f.elapsed <= Duration["HeavyAttackWindup"]
  PROVE  LET g == AdvanceAction(f, input)
         IN NoOlder(f, g) /\ WoundUp(g) /\ g.hp = f.hp /\ g.action # "Dead"
<1> DEFINE older == [f EXCEPT !.elapsed = @ + 1]
           age   == [f EXCEPT !.elapsed = BlockAge(@ + 1)]
<1>1. /\ f.elapsed \in Nat /\ Fields(f) /\ Fields(older)
      /\ older.action = f.action /\ older.elapsed = f.elapsed + 1 /\ older.hp = f.hp
      /\ older.duration = f.duration
      /\ age.action = f.action /\ age.elapsed = BlockAge(f.elapsed + 1) /\ age.hp = f.hp
      /\ age.duration = f.duration
  BY DEF Typed, Fields
<1>2. StrikeAge(f) \in Nat /\ GuardAge(f) \in Nat
  BY <1>1, AgesCount
<1> HIDE DEF older, age
<1>3. NoOlder(f, f)
  BY <1>2 DEF NoOlder
<1>4. NoOlder(f, older) /\ WoundUp(older)
  BY <1>1, <1>2, Ages DEF NoOlder, WoundUp, StrikeAge, GuardAge
<1>5. f.action = "Block" => NoOlder(f, age) /\ WoundUp(age)
  <2>1. BlockAge(f.elapsed + 1) <= f.elapsed + 1
    BY <1>1, FighterAssumption DEF BlockAge
  <2> QED
    BY <1>1, <1>2, <2>1 DEF NoOlder, WoundUp, StrikeAge, GuardAge, IsWindup, IsActive, IsRecovery
<1>6. /\ Opens(Rest(f)) /\ Rest(f).hp = f.hp
      /\ Opens(Rest(older)) /\ Rest(older).hp = f.hp
      /\ Opens(FinishLightRecovery(older)) /\ FinishLightRecovery(older).hp = f.hp
  BY <1>1, DeedOpens, FinishOpens
<1>7. \A g : Opens(g) => NoOlder(f, g) /\ WoundUp(g) /\ g.action # "Dead"
  <2> TAKE g
  <2>1. Opens(g) => g.action # "Dead"
    BY DEF Opens, Opening, Windup
  <2> QED
    BY <1>1, <2>1, OpensYoung
<1>8. ASSUME ~(older.elapsed < f.duration), f.action \in DOMAIN Follow, f.action # "AttackRecovery"
      PROVE  LET g == Start(older, Follow[f.action])
             IN NoOlder(f, g) /\ WoundUp(g) /\ g.hp = f.hp /\ g.action # "Dead"
  <2> DEFINE g == Start(older, Follow[f.action])
  <2> SUFFICES NoOlder(f, g) /\ WoundUp(g) /\ g.hp = f.hp /\ g.action # "Dead"
    OBVIOUS
  <2>1. g.action = Follow[f.action] /\ g.hp = f.hp /\ g.elapsed = 0
    BY <1>1 DEF Start, SetAction, Fields
  <2> HIDE DEF g
  <2>2. CASE f.action \in {"AttackWindup", "HeavyAttackWindup"}
    <3>1. Duration[f.action] <= f.elapsed + 1 /\ StrikeAge(f) = f.elapsed
      <4>1. f.duration = Duration[f.action] /\ Duration[f.action] \in Nat
        BY <2>2, WindupTicks DEF WoundUp, IsWindup
      <4> QED
        BY <1>1, <1>8, <2>2, <4>1, Ages
    <3>2. \/ f.action = "AttackWindup" /\ g.action = "AttackActive"
          \/ f.action = "HeavyAttackWindup" /\ g.action = "HeavyAttackActive"
      BY <2>1, <2>2 DEF Follow
    <3>3. StrikeAge(g) = Duration[f.action] /\ GuardAge(g) = 0
      BY <3>2, Ages
    <3> QED
      BY <1>2, <2>1, <3>1, <3>2, <3>3 DEF NoOlder, WoundUp, IsWindup
  <2>3. CASE f.action \in {"AttackActive", "HeavyAttackActive"}
    <3>1. \/ f.action = "AttackActive" /\ g.action = "AttackRecovery"
          \/ f.action = "HeavyAttackActive" /\ g.action = "HeavyAttackRecovery"
      BY <2>1, <2>3 DEF Follow
    <3>2. StrikeAge(g) = StrikeAge(f) + 1 /\ GuardAge(g) = 0
      BY <3>1, Ages
    <3> QED
      BY <1>2, <2>1, <3>1, <3>2 DEF NoOlder, WoundUp, IsWindup
  <2>4. CASE f.action \notin {"AttackWindup", "HeavyAttackWindup", "AttackActive",
                              "HeavyAttackActive"}
    <3>1. g.action \in {"RunningAttackActive", "RunningAttackRecovery", "KickActive",
                        "KickRecovery", "JumpAttackActive", "JumpAttackRecovery",
                        "DodgeRecovery"}
      BY <1>8, <2>1, <2>4 DEF Follow
    <3>2. StrikeAge(g) = 0 /\ GuardAge(g) = 0
      BY <3>1 DEF StrikeAge, GuardAge, IsWindup, IsActive, IsRecovery
    <3> QED
      BY <1>2, <2>1, <3>1, <3>2 DEF NoOlder, WoundUp, IsWindup
  <2> QED
    BY <2>2, <2>3, <2>4
<1>9. ASSUME ~(older.elapsed < f.duration)
      PROVE  LET g == Complete(older)
             IN NoOlder(f, g) /\ WoundUp(g) /\ g.hp = f.hp /\ g.action # "Dead"
  BY <1>1, <1>6, <1>7, <1>8, <1>9 DEF Complete
<1> QED
  BY <1>1, <1>3, <1>4, <1>5, <1>6, <1>7, <1>9 DEF AdvanceAction, older, age

\* What a tick makes of a living fighter, as far as a page can tell.
Lived(f, g) ==
  /\ NoOlder(f, g) /\ Steady(g)
  /\ g.hp = f.hp /\ g.guardWait = f.guardWait
  /\ \/ g.guard = f.guard
     \/ g.guard = f.guard + 1 /\ f.guardWait = 0 /\ GuardAge(g) = 0
  /\ g.action # "Dead"
  /\ g.action \in {"Stunned", "Knockdown"} => f.action = g.action

LEMMA LivingTickLives ==
  ASSUME NEW f, Good(f), Steady(f), f.action # "Dead", NEW input
  PROVE  Lived(f, LivingTick(f, input))
<1> DEFINE begun == BeginRequestedAction(f, input, (input \cap Pressed) \ f.down)
           aged  == AdvanceAction(begun, input)
           moved == UpdateStamina(aged, input)
           held  == [moved EXCEPT !.down = input \cap Pressed]
           g     == RegenerateGuard(held)
<1>1. Typed(f) /\ Fields(f) /\ f.elapsed \in Nat /\ Sound(f)
  BY Parameters DEF Good, Typed, Fields, Sound
<1>2. OnRequest(f, begun) /\ Good(begun) /\ Begun(f, begun)
  BY <1>1, RequestAsked, RequestGood, RequestBegins
<1>3. Good(aged)
  BY <1>2, AdvanceGood
<1> HIDE DEF begun
<1>4. /\ Typed(begun) /\ WoundUp(begun) /\ begun.action # "Dead" /\ begun.hp = f.hp
      /\ begun.charging => begun.elapsed <= Duration["HeavyAttackWindup"]
  BY <1>2 DEF Good, HoldWaits, OnRequest, SameMove, Opens, Opening, Windup, WoundUp, Steady
<1>5. /\ NoOlder(begun, aged) /\ WoundUp(aged) /\ aged.hp = begun.hp /\ aged.action # "Dead"
  BY <1>4, GrowthAges
<1>6. NoOlder(f, aged)
  <2>1. CASE SameMove(f, begun)
    <3>1. StrikeAge(begun) = StrikeAge(f) /\ GuardAge(begun) = GuardAge(f)
      BY <2>1 DEF SameMove, StrikeAge, GuardAge
    <3> QED
      BY <1>5, <3>1 DEF NoOlder
  <2>2. CASE Opens(begun)
    <3>1. StrikeAge(begun) = 0 /\ GuardAge(begun) = 0
      BY <1>1, <2>2, OpensYoung
    <3>2. StrikeAge(f) \in Nat /\ GuardAge(f) \in Nat
      BY <1>1, AgesCount
    <3>3. StrikeAge(aged) \in Nat /\ GuardAge(aged) \in Nat
      BY <1>3, AgesCount DEF Good, Typed
    <3> QED
      BY <1>5, <3>1, <3>2, <3>3 DEF NoOlder
  <2> QED
    BY <1>2, <2>1, <2>2 DEF OnRequest
<1> HIDE DEF aged
<1>7. /\ SameMove(aged, moved) /\ DOMAIN moved = DOMAIN aged
      /\ moved.guard = aged.guard /\ moved.guardWait = aged.guardWait
  BY <1>3 DEF UpdateStamina, Spend, SameMove, Good, Typed
<1> HIDE DEF moved
<1>8. /\ SameMove(aged, held) /\ DOMAIN held = DOMAIN aged
      /\ held.guard = aged.guard /\ held.guardWait = aged.guardWait
  BY <1>3, <1>7 DEF SameMove, Good, Typed
<1> HIDE DEF held
<1>9. /\ SameMove(aged, g) /\ g.guardWait = aged.guardWait
      /\ g.guard = aged.guard
         \/ (g.guard = aged.guard + 1 /\ aged.guardWait = 0 /\ aged.action # "Block")
  BY <1>3, <1>8 DEF RegenerateGuard, SameMove, Good, Typed
<1>10. LivingTick(f, input) = g
  BY DEF LivingTick, g, held, moved, aged, begun
<1> HIDE DEF g
<1>11. Alike(f, aged)
  BY <1>1, <1>2, AdvanceTurns DEF aged
<1>12. Turned(f, g)
  BY <1>1, <1>10, LivingTickTurns
<1>13. NoOlder(f, g) /\ g.hp = f.hp /\ g.action # "Dead" /\ WoundUp(g)
       /\ (aged.action # "Block" => GuardAge(g) = 0)
  BY <1>4, <1>5, <1>6, <1>9 DEF SameMove, NoOlder, StrikeAge, GuardAge, WoundUp
<1>14. g.action \in {"Stunned", "Knockdown"} => f.action = g.action
  BY <1>12, Kinds DEF Turned
<1> QED
  BY <1>9, <1>10, <1>11, <1>13, <1>14 DEF Lived, Steady, WoundUp, Alike

\* Time passes for everyone.
LEMMA ElapseIs ==
  ASSUME NEW f, Typed(f)
  PROVE  /\ SameMove(f, Elapse(f)) /\ Elapse(f).guard = f.guard
         /\ Elapse(f).guardWait >= f.guardWait - 1
         /\ Elapse(f).respawnWait >= f.respawnWait - 1
  BY DEF Elapse, OneLess, SameMove, Typed

\* Who is new, or comes back, is at rest and whole.
Whole(f) == f.action = "Idle" /\ f.hp = HpMax /\ f.guard = GuardMax

LEMMA RespawnWhole ==
  ASSUME NEW f, Typed(f)
  PROVE  Whole(Respawn(f)) /\ Whole(ResetFighter(f)) /\ Whole(NewFighter)
         /\ Respawn(f).guardWait = f.guardWait
  BY DEF Whole, Respawn, ResetFighter, Rest, SetAction, NewFighter, Typed

\* The whole are in no strike, behind no guard, and alive.
LEMMA WholeIs ==
  ASSUME NEW f, Whole(f)
  PROVE  StrikeAge(f) = 0 /\ GuardAge(f) = 0 /\ Steady(f)
  BY FighterAssumption
  DEF Whole, StrikeAge, GuardAge, Steady, IsWindup, IsActive, IsRecovery
-----------------------------------------------------------------------------
(***************************************************************************)
(* The inductive invariant.                                                *)
(***************************************************************************)

\* A fighter whose strike, if it is in one, began within the gap: it was in none, at
\* rest or stunned, after the last snapshot.
Late(i) == StrikeAge(fighter[i]) + Ahead(i) < gap

AllLate == \A i \in Fighter : Late(i)

DeedsKnown ==
  \A e \in deeds :
    e.by \in Fighter /\ e.to \in Fighter /\ e.by # e.to /\ e = Deed(e.what, e.by, e.to)

\* The gap is bounded, and a step that began counts in it.
GapKnown == gap \in Nat /\ gap <= LongestGap /\ (phase # "between" => gap >= 1)

\* Who is not in the world is as new.
AbsentWhole == \A i \in Fighter \ present : Whole(fighter[i])

\* What was seen of who was in the world.
SeenKnown ==
  \A i \in Fighter :
    /\ seen[i].hp \in 0 .. HpMax /\ seen[i].guard \in 0 .. GuardMax
    /\ seen[i] = Unseen \/ i \in present \cup gone

\* What a fighter lost, or fell into, since it was seen is the deed of another.
Explained(i) ==
  LET f == fighter[i]
      s == seen[i]
  IN /\ f.hp < s.hp => Done({"hit", "kill"}, i)
     /\ f.guard < s.guard => Done({"block", "break"}, i)
     /\ f.guard = 0 /\ s.guard > 0 => Done({"break"}, i)
     /\ f.action = "Dead" /\ s.action # "Dead" => Done({"kill"}, i)
     /\ f.action = "Stunned" /\ s.action # "Stunned" =>
          IF i \in broken THEN Done({"break", "emptyBreak"}, i)
          ELSE \E e \in deeds : e.what = "parried" /\ e.by = i
     /\ f.action = "Knockdown" /\ s.action # "Knockdown" => Done({"shove", "roll"}, i)

\* Who was seen alive does not come back from the dead within the gap.
Fell(i) ==
  fighter[i].action = "Dead" =>
    seen[i].hp = 0 \/ fighter[i].respawnWait + gap > RespawnDelay

SeenAlive(i) == i \in present /\ seen[i].hp > 0

\* Nor does its health, unless the match began anew.
Healed(i) == SeenAlive(i) => fighter[i].hp <= seen[i].hp \/ AllLate

\* A guard that came back was not up since the last snapshot.
Rested(i) ==
  SeenAlive(i) /\ fighter[i].guard > seen[i].guard =>
    AllLate \/ GuardAge(fighter[i]) + Ahead(i) < gap

\* Who struck in the last tick of the longest gap has not recovered in it.
JustNow(i) ==
  /\ gap = LongestGap /\ phase \in {"attack", "between"}
  /\ ~IsRecovery(fighter[i].action)

\* A deed is to be seen of its target, or its strike cannot be over.
Shows(e) ==
  SeenAlive(e.to) =>
    /\ e.what \in {"hit", "kill"} => fighter[e.to].hp < seen[e.to].hp \/ Late(e.by)
    /\ e.what \in {"block", "break"} =>
         /\ fighter[e.to].guard < seen[e.to].guard \/ Late(e.by) \/ JustNow(e.by)
         /\ fighter[e.to].guardWait + gap > GuardDelay \/ AllLate
    /\ e.what = "parried" => Late(e.by)

\* Who strikes does not recover, and is not dead.
Swings(f) == ~IsRecovery(f.action) /\ f.action # "Dead"

Swinging == phase = "attack" /\ swing \in Active => Swings(fighter[turn])

\* A strike that waits for its outcome: its target is as it was last seen, and alive.
Waiting ==
  pending # NoDodge =>
    /\ {"attacker", "defender", "hp", "guard", "activeSeen"} \subseteq DOMAIN pending
    /\ pending.defender \in Fighter
    /\ pending.hp = seen[pending.defender].hp /\ pending.hp > 0
    /\ pending.guard = seen[pending.defender].guard

FighterKnown(i) == Steady(fighter[i]) /\ Explained(i) /\ Fell(i) /\ Healed(i) /\ Rested(i)

PageInv ==
  /\ DeedsKnown /\ GapKnown /\ AbsentWhole /\ SeenKnown /\ Swinging /\ Waiting
  /\ \A i \in Fighter : FighterKnown(i)
  /\ \A e \in deeds : Shows(e)

\* What the proof knows of the world besides.
World == Shape /\ ScoreInv /\ MeetInv /\ GuardInv /\ WorldTyped /\ AllGood(fighter)

\* The constants that bound what is seen.
LEMMA Bounds ==
  /\ HpMax \in Nat /\ HpMax > 0 /\ GuardMax \in Nat /\ LongestGap \in Nat
  /\ RespawnDelay \in Nat /\ GuardDelay \in Nat /\ ParryWindow \in Nat
  BY FighterAssumption, CombatAssumption, FeedbackAssumption

\* The fields of a fighter that are compared.
LEMMA FighterIs ==
  ASSUME AllGood(fighter), NEW i \in Fighter
  PROVE  /\ fighter[i].hp \in Nat /\ fighter[i].hp <= HpMax
         /\ fighter[i].guard \in Nat /\ fighter[i].guard <= GuardMax
         /\ fighter[i].guardWait \in Nat /\ fighter[i].respawnWait \in Nat
         /\ fighter[i].elapsed \in Nat
         /\ StrikeAge(fighter[i]) \in Nat /\ GuardAge(fighter[i]) \in Nat
         /\ Typed(fighter[i]) /\ Good(fighter[i]) /\ Ahead(i) \in {0, 1}
<1>1. Good(fighter[i]) /\ Typed(fighter[i])
  BY DEF AllGood, Good
<1> QED
  BY <1>1, AgesCount, Parameters DEF Typed, Ahead

\* A new world has nothing to tell.
LEMMA PageInit ==
  ASSUME FeedbackInit
  PROVE  PageInv
<1>1. \A i \in Fighter : fighter[i] = NewFighter /\ Whole(fighter[i]) /\ seen[i] = Unseen
  BY NewFighterGood, RespawnWhole DEF FeedbackInit, Init, Good
<1>2. \A i \in Fighter : FighterKnown(i)
  <2> TAKE i \in Fighter
  <2>1. Whole(fighter[i]) /\ Steady(fighter[i])
    BY <1>1, WholeIs
  <2>2. seen[i].hp = 0 /\ seen[i].guard = 0
    BY <1>1 DEF Unseen
  <2>3. Explained(i)
    BY <2>1, <2>2, Bounds DEF Explained, Whole
  <2> QED
    BY <2>1, <2>2, <2>3 DEF FighterKnown, Whole, Fell, Healed, Rested, SeenAlive
<1> QED
  BY <1>1, <1>2, Bounds, FeedbackAssumption
  DEF FeedbackInit, Init, PageInv, DeedsKnown, GapKnown, AbsentWhole, SeenKnown, Swinging,
      Waiting, Unseen
-----------------------------------------------------------------------------
(***************************************************************************)
(* Steps in which nobody does anything to another.                         *)
(***************************************************************************)

\* Nothing happens to a fighter but time.
Spared(i) ==
  LET f == fighter[i]
      g == fighter'[i]
  IN /\ SameMove(f, g) /\ g.guard = f.guard
     /\ g.guardWait + gap' >= f.guardWait + gap
     /\ g.respawnWait + gap' >= f.respawnWait + gap
     /\ gap - Ahead(i) <= gap' - Ahead(i)'

\* It has its tick.
Acts(i) ==
  /\ fighter[i].action # "Dead" /\ Lived(fighter[i], fighter'[i])
  /\ Ahead(i) = 1 /\ Ahead(i)' = 0 /\ gap' = gap /\ phase = "act"

\* It leaves, comes back when its time has come, or everyone starts anew.
Renews(i) ==
  /\ Whole(fighter'[i])
  /\ \/ i \notin present' /\ gap' = gap /\ Ahead(i)' = 0
     \/ fighter[i].action = "Dead" /\ fighter[i].respawnWait = 0
        /\ fighter'[i].guardWait = fighter[i].guardWait
        /\ gap' = gap /\ Ahead(i)' = 0 /\ gap >= 1
     \/ AllLate'

Quiet ==
  /\ \A i \in Fighter : Spared(i) \/ Acts(i) \/ Renews(i)
  /\ UNCHANGED <<seen, pending, deeds>>
  /\ gap' \in {gap, gap + 1} /\ gap' <= LongestGap
  /\ \A i \in Fighter : fighter[i].action = "Stunned" /\ fighter'[i].action = "Stunned"
                          => (i \in broken' <=> i \in broken)
  /\ \A i \in Fighter : i \in present' /\ i \notin present => i \notin gone
  /\ present \cup gone \subseteq present' \cup gone'
  /\ phase' = "act" => phase \in {"between", "act"}
  /\ gap' = gap /\ phase \in {"attack", "between"} => phase' \in {"attack", "between"}

\* Who was late stays late.
LEMMA QuietLate ==
  ASSUME World, PageInv, Quiet, AllGood(fighter'), NEW i \in Fighter, Late(i)
  PROVE  Late(i)'
<1>1. /\ StrikeAge(fighter[i]) \in Nat /\ Ahead(i) \in {0, 1} /\ gap \in Nat
      /\ gap' \in {gap, gap + 1}
  BY FighterIs DEF World, PageInv, GapKnown, Quiet
<1>2. StrikeAge(fighter[i]) + Ahead(i) < gap
  BY DEF Late
<1>3. Ahead(i)' \in {0, 1}
  BY DEF Ahead
<1>4. CASE Spared(i)
  <2>1. StrikeAge(fighter'[i]) = StrikeAge(fighter[i])
    BY <1>4 DEF Spared, SameMove, StrikeAge
  <2> QED
    BY <1>1, <1>2, <1>3, <1>4, <2>1 DEF Spared, Late
<1>5. CASE Acts(i)
  <2>1. fighter'[i].elapsed \in Nat
    BY DEF AllGood, Good, Typed
  <2>2. StrikeAge(fighter'[i]) \in Nat
    BY <2>1, AgesCount
  <2>3. StrikeAge(fighter'[i]) <= StrikeAge(fighter[i]) + 1
    BY <1>5 DEF Acts, Lived, NoOlder
  <2> QED
    BY <1>1, <1>2, <1>5, <2>2, <2>3 DEF Acts, Late
<1>6. CASE Renews(i)
  <2>1. StrikeAge(fighter'[i]) = 0
    BY <1>6, WholeIs DEF Renews
  <2>2. CASE Ahead(i)' = 0 /\ gap' = gap
    BY <1>1, <1>2, <2>1, <2>2 DEF Late
  <2>3. CASE AllLate'
    BY <2>3 DEF AllLate
  <2>4. (Ahead(i)' = 0 /\ gap' = gap) \/ AllLate'
    BY <1>6 DEF Renews
  <2> QED
    BY <2>2, <2>3, <2>4
<1> QED
  BY <1>4, <1>5, <1>6 DEF Quiet

\* What is known of a fighter is known after a tick of nobody's doing.
LEMMA QuietFighter ==
  ASSUME World, PageInv, Quiet, AllGood(fighter'), NEW i \in Fighter
  PROVE  FighterKnown(i)'
<1> DEFINE f == fighter[i]
           g == fighter'[i]
           s == seen[i]
<1>1. /\ f.hp \in Nat /\ f.guard \in Nat /\ f.guardWait \in Nat /\ f.respawnWait \in Nat
      /\ Ahead(i) \in {0, 1} /\ gap \in Nat /\ gap' \in {gap, gap + 1} /\ gap' <= LongestGap
      /\ f.hp <= HpMax /\ f.guard <= GuardMax /\ GuardAge(f) \in Nat
  BY FighterIs DEF World, PageInv, GapKnown, Quiet
<1>2. /\ g.hp \in Nat /\ g.guard \in Nat /\ g.guardWait \in Nat /\ g.respawnWait \in Nat
      /\ GuardAge(g) \in Nat /\ Ahead(i)' \in {0, 1}
  <2>1. Good(g) /\ Typed(g)
    BY DEF AllGood, Good
  <2> QED
    BY <2>1, AgesCount, Parameters DEF Typed, Ahead
<1>3. s.hp \in Nat /\ s.guard \in Nat /\ s.hp <= HpMax /\ s.guard <= GuardMax
  BY Bounds DEF PageInv, SeenKnown
<1>4. UNCHANGED <<seen, deeds>> /\ (AllLate => AllLate')
  BY QuietLate DEF Quiet, AllLate
<1>5. Steady(f) /\ Explained(i) /\ Fell(i) /\ Healed(i) /\ Rested(i)
  BY DEF PageInv, FighterKnown
<1>6. SeenAlive(i)' => SeenAlive(i)
  <2>1. i \in present' /\ i \notin present => s.hp = 0
    BY DEF Quiet, PageInv, SeenKnown, Unseen
  <2> QED
    BY <1>3, <1>4, <2>1 DEF SeenAlive
<1>7. Whole(g) => Steady(g) /\ GuardAge(g) = 0 /\ StrikeAge(g) = 0
  BY WholeIs
<1>8. CASE Spared(i)
  <2>1. SameMove(f, g) /\ g.guard = f.guard /\ GuardAge(g) = GuardAge(f) /\ Steady(g)
    BY <1>5, <1>8 DEF Spared, SameMove, GuardAge, Steady
  <2>2. Explained(i)'
    BY <1>4, <1>5, <2>1 DEF Explained, SameMove, Done, Quiet
  <2>3. Fell(i)'
    BY <1>1, <1>2, <1>4, <1>5, <1>8, <2>1, Bounds DEF Fell, SameMove, Spared
  <2>4. Healed(i)'
    BY <1>4, <1>5, <1>6, <2>1 DEF Healed, SameMove
  <2>5. Rested(i)'
    BY <1>1, <1>2, <1>4, <1>5, <1>6, <1>8, <2>1 DEF Rested, Spared
  <2> QED
    BY <2>1, <2>2, <2>3, <2>4, <2>5 DEF FighterKnown
<1>9. CASE Acts(i)
  <2>1. /\ Steady(g) /\ g.hp = f.hp /\ g.action # "Dead" /\ GuardAge(g) <= GuardAge(f) + 1
        /\ g.guard = f.guard \/ (g.guard = f.guard + 1 /\ GuardAge(g) = 0)
        /\ g.action \in {"Stunned", "Knockdown"} => f.action = g.action
    BY <1>9 DEF Acts, Lived, NoOlder
  <2>2. Explained(i)'
    <3>1. f.action = "Stunned" /\ g.action = "Stunned" => (i \in broken' <=> i \in broken)
      BY DEF Quiet
    <3>2. f.guard < s.guard \/ ~(g.guard < s.guard)
      BY <1>1, <1>2, <1>3, <2>1
    <3>3. g.guard = 0 => f.guard = 0
      BY <1>1, <2>1
    <3> HIDE DEF f, g, s
    <3> QED
      BY <1>4, <1>5, <2>1, <3>1, <3>2, <3>3 DEF Explained, Done, f, g, s
  <2>3. Fell(i)'
    BY <2>1 DEF Fell
  <2>4. Healed(i)'
    BY <1>4, <1>5, <1>6, <2>1 DEF Healed
  <2>5. Rested(i)'
    <3>1. gap' = gap /\ gap >= 1 /\ Ahead(i) = 1 /\ Ahead(i)' = 0
      BY <1>9 DEF Acts, PageInv, GapKnown
    <3> QED
      BY <1>1, <1>2, <1>4, <1>5, <1>6, <2>1, <3>1 DEF Rested
  <2> QED
    BY <2>1, <2>2, <2>3, <2>4, <2>5 DEF FighterKnown
<1>10. CASE Renews(i)
  <2>1. Whole(g)
    BY <1>10 DEF Renews
  <2>2. Explained(i)'
    BY <1>3, <1>4, <2>1, Bounds DEF Explained, Whole
  <2>3. Fell(i)'
    BY <2>1 DEF Fell, Whole
  <2>4. SeenAlive(i)' => AllLate'
    <3>1. ASSUME SeenAlive(i)' PROVE ~(f.action = "Dead" /\ f.respawnWait = 0)
      BY <1>1, <1>3, <1>5, <1>6, <3>1, Bounds, GapAssumption DEF Fell, SeenAlive, PageInv, GapKnown
    <3> QED
      BY <1>10, <3>1 DEF Renews, SeenAlive
  <2>5. Healed(i)' /\ Rested(i)'
    BY <2>4 DEF Healed, Rested
  <2> QED
    BY <1>7, <2>1, <2>2, <2>3, <2>5 DEF FighterKnown
<1> QED
  BY <1>8, <1>9, <1>10 DEF Quiet

\* What a deed shows is still to be seen.
LEMMA QuietDeed ==
  ASSUME World, PageInv, Quiet, AllGood(fighter'), NEW e \in deeds
  PROVE  Shows(e)'
<1> DEFINE i == e.to
           f == fighter[i]
           g == fighter'[i]
           s == seen[i]
<1> SUFFICES ASSUME SeenAlive(i)' PROVE Shows(e)'
  BY DEF Shows
<1>1. i \in Fighter /\ e.by \in Fighter /\ Shows(e)
  BY DEF PageInv, DeedsKnown
<1>2. /\ f.hp \in Nat /\ f.guard \in Nat /\ f.guardWait \in Nat /\ f.respawnWait \in Nat
      /\ gap \in Nat /\ gap' \in {gap, gap + 1} /\ gap' <= LongestGap
  BY <1>1, FighterIs DEF World, PageInv, GapKnown, Quiet
<1>3. g.hp \in Nat /\ g.guard \in Nat /\ g.guardWait \in Nat
  BY <1>1, Parameters DEF AllGood, Good, Typed
<1>4. UNCHANGED <<seen, deeds>> /\ s.hp \in Nat /\ s.guard \in Nat
  BY <1>1, Bounds DEF Quiet, PageInv, SeenKnown
<1>5. /\ Late(e.by) => Late(e.by)'
      /\ AllLate => AllLate'
      /\ AllLate' => Late(e.by)'
  <2>1. \A j \in Fighter : Late(j) => Late(j)'
    BY QuietLate
  <2>2. (Late(e.by) => Late(e.by)') /\ (AllLate => AllLate')
    BY <1>1, <2>1 DEF AllLate
  <2>3. AllLate' => Late(e.by)'
    BY <1>1 DEF AllLate
  <2> QED
    BY <1>1, <2>1, <2>2, <2>3 DEF AllLate
<1>6. SeenAlive(i)
  <2>1. i \in present' /\ i \notin present => s.hp = 0
    BY <1>1 DEF Quiet, PageInv, SeenKnown, Unseen
  <2> QED
    BY <1>4, <2>1 DEF SeenAlive
<1>7. JustNow(e.by) => JustNow(e.by)'
  <2> SUFFICES ASSUME JustNow(e.by) PROVE JustNow(e.by)'
    OBVIOUS
  <2>1. gap' = gap /\ phase' \in {"attack", "between"} /\ phase # "act" /\ gap = LongestGap
    BY <1>2, Bounds DEF JustNow, Quiet
  <2>2. ~IsRecovery(fighter'[e.by].action)
    BY <1>1, <2>1 DEF JustNow, Quiet, Acts, Spared, Renews, SameMove, Whole, IsRecovery
  <2> QED
    BY <2>1, <2>2 DEF JustNow
<1> HIDE DEF i, f, g, s
<1>8. CASE AllLate'
  <2>1. Late(e.by)'
    BY <1>5, <1>8
  <2> QED
    BY <1>8, <2>1 DEF Shows
<1>9. /\ e.what \in {"hit", "kill"} => f.hp < s.hp \/ Late(e.by)
      /\ e.what \in {"block", "break"} =>
           /\ f.guard < s.guard \/ Late(e.by) \/ JustNow(e.by)
           /\ f.guardWait + gap > GuardDelay \/ AllLate
      /\ e.what = "parried" => Late(e.by)
  BY <1>1, <1>6 DEF Shows, f, s, i
<1>10. ASSUME g.hp = f.hp, g.guard = f.guard \/ (e.what \in {"block", "break"} => AllLate'),
              g.guardWait + gap' >= f.guardWait + gap
       PROVE  Shows(e)'
  <2>1. e.what \in {"hit", "kill"} => g.hp < s.hp \/ Late(e.by)'
    BY <1>5, <1>9, <1>10
  <2>2. e.what \in {"block", "break"} => g.guard < s.guard \/ Late(e.by)' \/ JustNow(e.by)'
    BY <1>5, <1>7, <1>9, <1>10
  <2>3. e.what \in {"block", "break"} => g.guardWait + gap' > GuardDelay \/ AllLate'
    BY <1>2, <1>3, <1>5, <1>9, <1>10, Bounds
  <2>4. e.what = "parried" => Late(e.by)'
    BY <1>5, <1>9
  <2> QED
    BY <1>4, <2>1, <2>2, <2>3, <2>4 DEF Shows, g, s, i
<1>11. CASE Spared(i)
  BY <1>10, <1>11 DEF Spared, SameMove, f, g
<1>12. CASE Acts(i)
  <2>1. /\ g.hp = f.hp /\ g.guardWait = f.guardWait /\ gap' = gap
        /\ g.guard = f.guard \/ f.guardWait = 0
    BY <1>12 DEF Acts, Lived, f, g
  <2>2. g.guard = f.guard \/ (e.what \in {"block", "break"} => AllLate')
    BY <1>2, <1>5, <1>9, <2>1, Bounds, GapAssumption
  <2> QED
    BY <1>2, <1>3, <1>10, <2>1, <2>2
<1>13. CASE Renews(i)
  <2>1. i \in present' /\ Fell(i) /\ s.hp > 0
    BY <1>1, <1>4, <1>6 DEF SeenAlive, PageInv, FighterKnown, s
  <2>2. ~(f.action = "Dead" /\ f.respawnWait = 0)
    BY <1>2, <2>1, <1>4, Bounds, GapAssumption DEF Fell, f, s, PageInv, GapKnown
  <2> QED
    BY <1>8, <1>13, <2>1, <2>2 DEF Renews, f
<1> QED
  BY <1>1, <1>11, <1>12, <1>13 DEF Quiet

\* Whatever nobody does to another leaves what is known of the page.
LEMMA QuietNext ==
  ASSUME World, PageInv, Quiet, AllGood(fighter'), GapKnown', AbsentWhole', Swinging'
  PROVE  PageInv'
<1>1. DeedsKnown' /\ SeenKnown' /\ Waiting'
  BY DEF PageInv, DeedsKnown, SeenKnown, Waiting, Quiet
<1>2. \A i \in Fighter : FighterKnown(i)'
  BY QuietFighter
<1>3. \A e \in deeds' : Shows(e)'
  BY QuietDeed DEF Quiet
<1> QED
  BY <1>1, <1>2, <1>3 DEF PageInv

\* Who strikes is never seen to recover in its row, whatever it meets.
LEMMA SwingingNext ==
  ASSUME World, Swinging, [Next]_vars
  PROVE  Swinging'
<1> USE DEF World
<1>0. "Idle" \notin Active
  BY DEF Active
<1>1. CASE UNCHANGED <<phase, turn, swing, fighter>>
  BY <1>1 DEF Swinging
<1>2. CASE phase' # "attack" \/ swing' = "Idle"
  BY <1>0, <1>2 DEF Swinging
<1>3. CASE RollPast \/ RollInto
  BY <1>0, <1>3 DEF RollPast, RollInto, NextTarget, NextRow, Swinging
<1>4. Striking => Swings(fighter[turn])
  <2>1. \A a \in Active : ~IsRecovery(a) /\ a # "Dead"
    BY DEF Active, IsRecovery
  <2> QED
    BY <2>1 DEF Striking, Profile, Swinging, Shape, Swings
<1>5. CASE Miss
  <2>1. Onward /\ Striking /\ UNCHANGED fighter
    BY <1>5, NextVictimFacts DEF Miss, worldVars
  <2> QED
    BY <1>4, <2>1 DEF Onward, Swinging
<1>6. CASE Blow
  <2>1. Onward /\ Striking /\ fighter'[turn].action \in {fighter[turn].action, "Stunned"}
    BY <1>6 DEF Blow, Attacker
  <2> QED
    BY <1>4, <2>1 DEF Onward, Swinging, Swings, IsRecovery
<1>7. \/ UNCHANGED <<phase, turn, swing, fighter>>
      \/ phase' # "attack" \/ swing' = "Idle"
      \/ RollPast \/ RollInto \/ Miss \/ Blow
  <2>1. \A j \in Fighter : AddPlayer(j) \/ RemovePlayer(j) => phase' = "between"
    BY DEF AddPlayer, RemovePlayer, cursorVars
  <2>2. BeginStep \/ StepOver => phase' # "attack"
    BY DEF BeginStep, StepOver, cursorVars
  <2>3. SkipAbsent \/ ActDead \/ (\E input : ActLiving(input)) \/ SkipRoller \/ SkipAttacker
        => swing' = "Idle"
    BY DEF SkipAbsent, ActDead, ActLiving, SkipRoller, SkipAttacker, NextRow
  <2> QED
    BY <2>1, <2>2, <2>3, Steps, AttackIsStruck DEF vars, cursorVars, worldVars
<1> QED
  BY <1>1, <1>2, <1>3, <1>5, <1>6, <1>7

\* A step that leaves the fighters, after which nobody owes more than before.
LEMMA UntouchedSpared ==
  ASSUME World, PageInv, gap' = gap, NEW i \in Fighter, fighter'[i] = fighter[i],
         Ahead(i)' <= Ahead(i)
  PROVE  Spared(i)
  BY FighterIs DEF World, PageInv, GapKnown, Spared, SameMove, Ahead

\* A swing that is evaded, or a kick of who lies already, takes nothing.
LEMMA MarkedSpared ==
  ASSUME World, PageInv, Meet, fighter' = Marked, gap' = gap, phase' # "act",
         NEW i \in Fighter
  PROVE  Spared(i)
<1>1. /\ SameMove(fighter[i], Marked[i]) /\ Marked[i].guard = fighter[i].guard
      /\ Marked[i].guardWait = fighter[i].guardWait
      /\ Marked[i].respawnWait = fighter[i].respawnWait
  <2>1. Typed(fighter[i])
    BY FighterIs DEF World
  <2>2. Marked[i] = fighter[i] \/ Marked[i] = [fighter[i] EXCEPT !.hits = @ \cup {other}]
    BY DEF Marked, World, AllGood
  <2> QED
    BY <2>1, <2>2 DEF SameMove, Typed
<1>2. Ahead(i) = 0 /\ Ahead(i)' = 0
  BY DEF Ahead, Meet, Striking
<1> QED
  BY <1>1, <1>2, FighterIs DEF Spared, World, PageInv, GapKnown

\* The loop over the fighters: everyone acts in turn, or comes back.
LEMMA ActQuiet ==
  ASSUME World, PageInv, ActStep, Unnoted
  PROVE  Quiet /\ GapKnown' /\ AbsentWhole'
<1> USE DEF World
<1>0. Fighter \subseteq Int /\ turn \in Fighter /\ phase = "act" /\ NextRow /\ gap \in Nat
      /\ gap >= 1 /\ gap <= LongestGap
      /\ UNCHANGED <<seen, pending, deeds, present, gone>> /\ gap' = gap
  BY CombatAssumption DEF ActStep, SkipAbsent, ActDead, ActLiving, worldVars, Shape, Unnoted,
     PageInv, GapKnown
<1> PICK t \in Fighter : t = turn
  BY <1>0
<1>1. phase' \in {"act", "roll"} /\ Ahead(t) = 1 /\ Ahead(t)' = 0
  <2>1. /\ phase' = "act" => turn' = turn + 1
        /\ phase' \in {"act", "roll"}
    BY <1>0, NextRowFacts
  <2> QED
    BY <1>0, <2>1 DEF Ahead
<1>2. \A i \in Fighter : i # t => Ahead(i)' = Ahead(i)
  BY <1>0, OwesTheSame
<1>3. \A i \in Fighter : i # t => fighter'[i] = fighter[i]
  BY DEF ActStep, SkipAbsent, ActDead, ActLiving, worldVars, AllGood
<1>4. \A i \in Fighter : i # t => Spared(i)
  <2> SUFFICES ASSUME NEW i \in Fighter, i # t PROVE Spared(i)
    OBVIOUS
  <2>1. Ahead(i)' = Ahead(i) /\ Ahead(i) \in {0, 1} /\ fighter'[i] = fighter[i]
    BY <1>2, <1>3, FighterIs
  <2>2. Ahead(i)' <= Ahead(i)
    BY <2>1
  <2> QED
    BY <1>0, <2>1, <2>2, UntouchedSpared
<1>5. CASE SkipAbsent
  <2>1. Spared(t)
    BY <1>0, <1>1, <1>5, UntouchedSpared DEF SkipAbsent, worldVars
  <2>2. UNCHANGED <<fighter, broken>>
    BY <1>5 DEF SkipAbsent, worldVars, historyVars
  <2> QED
    BY <1>0, <1>1, <1>4, <2>1, <2>2 DEF Quiet, GapKnown, PageInv, AbsentWhole
<1>6. CASE ActDead
  <2>1. /\ fighter[t].action = "Dead" /\ t \in present /\ UNCHANGED broken
        /\ IF fighter[t].respawnWait = 0 THEN fighter'[t] = Respawn(fighter[t])
           ELSE fighter'[t] = fighter[t]
    BY <1>0, <1>6 DEF ActDead, historyVars, AllGood
  <2>2. Spared(t) \/ Renews(t)
    <3>1. CASE fighter[t].respawnWait = 0
      BY <1>0, <1>1, <2>1, <3>1, FighterIs, RespawnWhole DEF Renews
    <3>2. CASE fighter[t].respawnWait # 0
      BY <1>0, <1>1, <2>1, <3>2, UntouchedSpared
    <3> QED
      BY <3>1, <3>2
  <2> QED
    BY <1>0, <1>1, <1>3, <1>4, <2>1, <2>2 DEF Quiet, GapKnown, PageInv, AbsentWhole
<1>7. ASSUME NEW input, ActLiving(input)
      PROVE  Quiet /\ GapKnown' /\ AbsentWhole'
  <2>1. /\ fighter[t].action # "Dead" /\ t \in present
        /\ fighter'[t] = LivingTick(fighter[t], input)
        /\ broken' = IF fighter'[t].action = "Stunned" THEN broken ELSE broken \ {t}
    BY <1>0, <1>7 DEF ActLiving, AllGood
  <2>2. Acts(t)
    <3>1. Good(fighter[t]) /\ Steady(fighter[t])
      BY <1>0 DEF AllGood, PageInv, FighterKnown
    <3> QED
      BY <1>0, <1>1, <2>1, <3>1, LivingTickLives DEF Acts
  <2> QED
    BY <1>0, <1>1, <1>3, <1>4, <2>1, <2>2 DEF Quiet, GapKnown, PageInv, AbsentWhole
<1> QED
  BY <1>5, <1>6, <1>7 DEF ActStep

\* A pair that comes to nothing.
LEMMA PairQuiet ==
  ASSUME World, PageInv, Unnoted,
         SkipRoller \/ RollPast \/ SkipAttacker \/ Miss \/ KickGrounded \/ Evade
  PROVE  Quiet /\ GapKnown' /\ AbsentWhole'
<1> USE DEF World
<1>0. gap' = gap /\ gap \in Nat /\ gap <= LongestGap /\ UNCHANGED <<seen, pending, deeds>>
  BY DEF Unnoted, PageInv, GapKnown
<1>1. /\ phase \in {"roll", "attack"} /\ phase' \in {"roll", "attack", "between"}
      /\ phase = "attack" => phase' # "roll"
  BY NextRowFacts, NextTargetFacts, NextVictimFacts
  DEF SkipRoller, RollPast, SkipAttacker, Miss, KickGrounded, Evade, Meet, Striking, Onward
<1>2. gap >= 1
  BY <1>1 DEF PageInv, GapKnown
<1>3. /\ UNCHANGED <<present, gone, broken>>
      /\ UNCHANGED fighter \/ (Meet /\ fighter' = Marked)
  BY DEF SkipRoller, RollPast, SkipAttacker, Miss, KickGrounded, Evade, Evaded, Meet,
     worldVars, historyVars
<1>4. \A i \in Fighter : Spared(i)
  <2> TAKE i \in Fighter
  <2>1. Ahead(i)' = 0 /\ Ahead(i) = 0
    BY <1>1 DEF Ahead
  <2> QED
    BY <1>0, <1>1, <1>3, <2>1, UntouchedSpared, MarkedSpared
<1>5. AbsentWhole'
  <2> SUFFICES ASSUME NEW i \in Fighter \ present PROVE Whole(fighter'[i])
    BY <1>3 DEF AbsentWhole
  <2>1. SameMove(fighter[i], fighter'[i]) /\ fighter'[i].guard = fighter[i].guard
    BY <1>4 DEF Spared
  <2> QED
    BY <2>1 DEF PageInv, AbsentWhole, Whole, SameMove
<1> QED
  BY <1>0, <1>1, <1>2, <1>3, <1>4, <1>5 DEF Quiet, GapKnown

\* Time passes: everyone has a tick before it, or the match begins anew.
LEMMA TimeQuiet ==
  ASSUME World, PageInv, TimePasses
  PROVE  Quiet /\ GapKnown' /\ AbsentWhole'
<1> USE DEF World
<1>0. /\ gap \in Nat /\ gap' = gap + 1 /\ gap' <= LongestGap /\ LongestGap \in Nat
      /\ UNCHANGED <<seen, pending, deeds>> /\ phase = "between"
  BY Bounds DEF TimePasses, PageInv, GapKnown, BeginStep, StepOver
<1>1. /\ UNCHANGED <<present, gone>> /\ phase' \in {"act", "between"}
  BY <1>0 DEF TimePasses, BeginStep, StepOver, cursorVars
<1>2. ASSUME NEW i \in Fighter, fighter'[i] = Elapse(fighter[i]) PROVE Spared(i)
  <2>1. SameMove(fighter[i], fighter'[i]) /\ fighter'[i].guard = fighter[i].guard
    BY <1>2, FighterIs, ElapseIs
  <2>2. /\ fighter'[i].guardWait >= fighter[i].guardWait - 1
        /\ fighter'[i].respawnWait >= fighter[i].respawnWait - 1
        /\ fighter[i].guardWait \in Nat /\ fighter[i].respawnWait \in Nat
    BY <1>2, FighterIs, ElapseIs
  <2>3. fighter'[i].guardWait \in Nat /\ fighter'[i].respawnWait \in Nat
    <3>1. Typed(Elapse(fighter[i]))
      BY FighterIs, ElapseGood DEF Good
    <3> QED
      BY <1>2, <3>1 DEF Typed
  <2>4. Ahead(i) = 0 /\ Ahead(i)' \in {0, 1}
    BY <1>0 DEF Ahead
  <2> QED
    BY <1>0, <2>1, <2>2, <2>3, <2>4 DEF Spared
<1>3. CASE /\ fighter' = [i \in Fighter |-> Elapse(fighter[i])] /\ UNCHANGED broken
  <2>1. \A i \in Fighter : fighter'[i] = Elapse(fighter[i])
    BY <1>3
  <2>2. \A i \in Fighter : Spared(i)
    BY <1>2, <2>1
  <2>3. AbsentWhole'
    BY <1>1, <2>2 DEF AbsentWhole, PageInv, Whole, Spared, SameMove
  <2> QED
    BY <1>0, <1>1, <1>3, <2>2, <2>3 DEF Quiet, GapKnown
<1>4. CASE StepOver /\ ~(resetWait > 1)
  <2>1. /\ fighter' = [i \in Fighter |->
             IF i \in present THEN ResetFighter(Elapse(fighter[i])) ELSE fighter[i]]
        /\ phase' = "between"
    BY <1>0, <1>4 DEF StepOver, cursorVars
  <2>2. \A i \in Fighter : Whole(fighter'[i])
    <3> TAKE i \in Fighter
    <3>1. Typed(Elapse(fighter[i]))
      BY FighterIs, ElapseGood DEF Good
    <3>2. i \in present => fighter'[i] = ResetFighter(Elapse(fighter[i]))
      BY <2>1
    <3>3. i \notin present => fighter'[i] = fighter[i]
      BY <2>1
    <3> QED
      BY <3>1, <3>2, <3>3, RespawnWhole DEF PageInv, AbsentWhole
  <2>3. AllLate'
    <3> SUFFICES ASSUME NEW i \in Fighter PROVE Late(i)'
      BY DEF AllLate
    <3>1. StrikeAge(fighter'[i]) = 0 /\ Ahead(i)' = 0
      BY <2>1, <2>2, WholeIs DEF Ahead
    <3> QED
      BY <1>0, <3>1 DEF Late
  <2>4. \A i \in Fighter : Renews(i)
    BY <2>2, <2>3 DEF Renews
  <2>5. AbsentWhole'
    BY <2>2 DEF AbsentWhole
  <2>6. \A i \in Fighter : fighter'[i].action # "Stunned"
    BY <2>2 DEF Whole
  <2> QED
    BY <1>0, <1>1, <2>1, <2>4, <2>5, <2>6 DEF Quiet, GapKnown
<1> QED
  BY <1>3, <1>4 DEF TimePasses, BeginStep, StepOver, historyVars

\* A fighter joins as new, or leaves.
LEMMA JoinQuiet ==
  ASSUME World, PageInv, NEW j \in Fighter, AddPlayer(j) \/ RemovePlayer(j), Unnoted
  PROVE  Quiet /\ GapKnown' /\ AbsentWhole'
<1> USE DEF World
<1>0. /\ gap \in Nat /\ gap' = gap /\ gap <= LongestGap
      /\ UNCHANGED <<seen, pending, deeds>> /\ phase = "between" /\ phase' = "between"
  BY DEF Unnoted, PageInv, GapKnown, AddPlayer, RemovePlayer, cursorVars
<1>1. \A i \in Fighter : Ahead(i) = 0 /\ Ahead(i)' = 0
  BY <1>0 DEF Ahead
<1>2. CASE AddPlayer(j)
  <2>1. /\ UNCHANGED <<fighter, broken, gone>> /\ present' = present \cup {j} /\ j \notin gone
    BY <1>2 DEF AddPlayer, historyVars
  <2>2. \A i \in Fighter : Spared(i)
    BY <1>0, <1>1, <2>1, UntouchedSpared
  <2> QED
    BY <1>0, <2>1, <2>2 DEF Quiet, GapKnown, AbsentWhole, PageInv
<1>3. CASE RemovePlayer(j)
  <2>1. /\ \A i \in Fighter : i # j => fighter'[i] = fighter[i]
        /\ fighter'[j] = NewFighter /\ present' = present \ {j} /\ gone' = gone \cup {j}
        /\ broken' = broken \ {j}
    BY <1>3 DEF RemovePlayer, AllGood
  <2>2. \A i \in Fighter : i # j => Spared(i)
    BY <1>0, <1>1, <2>1, UntouchedSpared
  <2>3. Whole(fighter'[j])
    BY <2>1, NewFighterGood, RespawnWhole DEF Good
  <2>4. Renews(j)
    BY <1>0, <1>1, <2>1, <2>3 DEF Renews
  <2>5. fighter'[j].action # "Stunned"
    BY <2>3 DEF Whole
  <2> QED
    BY <1>0, <2>1, <2>2, <2>3, <2>4, <2>5 DEF Quiet, GapKnown, AbsentWhole, PageInv
<1> QED
  BY <1>2, <1>3
-----------------------------------------------------------------------------
(***************************************************************************)
(* Steps in which one fighter does something to another.                   *)
(***************************************************************************)

SameWaits(f, g) ==
  g.guard = f.guard /\ g.guardWait = f.guardWait /\ g.respawnWait = f.respawnWait

\* A guard that took a blow waits for its delay, and was up past its parry.
Taken(f, g) ==
  f.action = "Block" /\ f.elapsed > ParryWindow /\ g.guardWait >= GuardDelay /\ g.hp = f.hp

\* What a deed makes of its target.
Bears(what, f, g) ==
  \/ what = "parried" /\ SameMove(f, g) /\ f.action = "Block"
     /\ g.guard = f.guard /\ g.guardWait = GuardDelay
  \/ what = "block" /\ SameMove(f, g) /\ Taken(f, g) /\ 0 < g.guard /\ g.guard < f.guard
  \/ what = "break" /\ Taken(f, g) /\ g.action = "Stunned" /\ g.guard = 0 /\ f.guard > 0
  \/ what = "emptyBreak" /\ Taken(f, g) /\ g.action = "Stunned" /\ g.guard = 0 /\ f.guard = 0
  \/ what = "hit" /\ SameWaits(f, g) /\ g.hp < f.hp /\ g.hp > 0
     /\ g.action = f.action /\ g.elapsed = f.elapsed /\ g.duration = f.duration
  \/ what = "kill" /\ g.action = "Dead" /\ g.hp = 0 /\ f.hp > 0
     /\ g.guard = f.guard /\ g.guardWait = f.guardWait /\ g.respawnWait = RespawnDelay
  \/ what = "shove" /\ SameWaits(f, g) /\ g.action = "Knockdown" /\ g.hp = f.hp
  \/ what = "roll" /\ SameWaits(f, g) /\ g.hp = f.hp
     /\ (SameMove(f, g) \/ g.action = "Knockdown")

\* What it makes of the one who does it: only a parry stuns.
Deals(what, f, g) ==
  /\ SameWaits(f, g)
  /\ IF what = "parried" THEN g.action = "Stunned" /\ g.hp = f.hp ELSE SameMove(f, g)

\* Whom a broken guard keeps stunned.
Breaks(what, by, to, g) ==
  /\ what \in {"break", "emptyBreak"} => broken' = broken \cup {to}
  /\ what = "parried" => by \notin broken'
  /\ what \notin {"break", "emptyBreak"} =>
       broken' = broken \/ (broken' = broken \ {to} /\ g.action # "Stunned")

Did(what, by, to) ==
  /\ by \in present /\ to \in present /\ by # to
  /\ deeds' = deeds \cup {Deed(what, by, to)}
  /\ UNCHANGED <<seen, pending, gap, present, gone>>
  /\ \A i \in Fighter \ {by, to} : fighter'[i] = fighter[i]
  /\ fighter[to].action # "Dead" /\ fighter[by].action # "Dead"
  /\ Bears(what, fighter[to], fighter'[to])
  /\ Deals(what, fighter[by], fighter'[by])
  /\ Breaks(what, by, to, fighter'[to])
  /\ phase' # "act"
  /\ \/ what = "roll" /\ phase = "roll"
     \/ phase = "attack" /\ phase' \in {"attack", "between"} /\ Swings(fighter[by])

\* A blow marks its target and goes on.
LEMMA MeetDid ==
  ASSUME World, PageInv, Meet, Onward
  PROVE  /\ turn \in present /\ other \in present /\ turn # other
         /\ UNCHANGED <<present, gone>>
         /\ fighter[other].action # "Dead"
         /\ phase' # "act" /\ phase = "attack" /\ phase' \in {"attack", "between"}
         /\ Swings(fighter[turn])
         /\ DOMAIN Marked = Fighter
         /\ Marked[other] = fighter[other]
         /\ \A i \in Fighter \ {turn} : Marked[i] = fighter[i]
         /\ SameWaits(fighter[turn], Marked[turn]) /\ SameMove(fighter[turn], Marked[turn])
         /\ Typed(Marked[turn]) /\ Typed(fighter[other]) /\ Profile \in Active
         /\ other \in Fighter /\ turn \in Fighter /\ turn \notin broken
         /\ (fighter[other].hp = 0) <=> (fighter[other].action = "Dead")
<1> USE DEF World
<1>1. /\ turn \in present /\ other \in present /\ turn # other /\ UNCHANGED <<present, gone>>
      /\ fighter[other].action # "Dead" /\ phase = "attack" /\ Profile \in Active
      /\ other \in Fighter /\ turn \in Fighter /\ Striking /\ CanMeet
  BY DEF Meet, Striking, CanMeet, Shape
<1>2. Swings(fighter[turn])
  <2>1. \A a \in Active : ~IsRecovery(a) /\ a # "Dead"
    BY DEF Active, IsRecovery
  <2> QED
    BY <1>1, <2>1 DEF Profile, PageInv, Swinging, Shape, Swings
<1>3. /\ DOMAIN Marked = Fighter /\ \A i \in Fighter \ {turn} : Marked[i] = fighter[i]
      /\ Marked[turn] = [fighter[turn] EXCEPT !.hits = @ \cup {other}]
  BY <1>1, MarkedFacts
<1>4. Typed(fighter[turn]) /\ Typed(fighter[other])
  BY <1>1, FighterIs
<1>5. /\ SameWaits(fighter[turn], Marked[turn]) /\ SameMove(fighter[turn], Marked[turn])
  BY <1>3, <1>4 DEF SameWaits, SameMove, Typed
<1>6. Typed(Marked[turn])
  BY <1>1, MarkedGood DEF AllGood, Good
<1>7. turn \notin broken
  BY <1>1, StrikerIsNotBroken
<1> QED
  BY <1>1, <1>2, <1>3, <1>4, <1>5, <1>6, <1>7 DEF Onward, PageInv, FighterKnown, Steady

\* The two of a pair change, and nobody else.
LEMMA PairChange ==
  ASSUME World, PageInv, Meet, Onward, NEW what, NEW g, NEW h,
         fighter' = [Marked EXCEPT ![turn] = g, ![other] = h],
         Note(what), Bears(what, fighter[other], h), Deals(what, Marked[turn], g),
         Breaks(what, turn, other, h), what # "roll"
  PROVE  Did(what, turn, other)
<1>1. /\ fighter'[turn] = g /\ fighter'[other] = h
      /\ \A i \in Fighter \ {turn, other} : fighter'[i] = fighter[i]
  BY MeetDid
<1>2. Deals(what, fighter[turn], g)
  BY MeetDid DEF Deals, SameWaits, SameMove
<1> HIDE DEF Bears, Deals, Breaks
<1> QED
  BY <1>1, <1>2, MeetDid DEF Did, Note, Swings

\* The one who is marked only.
LEMMA MarkDeals ==
  ASSUME NEW what, what # "parried", NEW f
  PROVE  Deals(what, f, f)
  BY DEF Deals, SameWaits, SameMove

\* A parry stuns the attacker and costs the target nothing.
LEMMA ParryDid ==
  ASSUME World, PageInv, Parry, Note("parried")
  PROVE  Did("parried", turn, other)
<1> DEFINE f == Marked[turn]
           g == SetAction(f, "Stunned", ParryStun)
           h == [fighter[other] EXCEPT !.guardWait = GuardDelay]
<1>1. Meet /\ Onward /\ fighter[other].action = "Block" /\ UNCHANGED broken
  BY NextVictimFacts DEF Parry, Blocked, Meet, World
<1>2. /\ Typed(f) /\ Typed(fighter[other]) /\ turn \notin broken
      /\ turn # other /\ Marked[other] = fighter[other] /\ DOMAIN Marked = Fighter
      /\ turn \in Fighter /\ other \in Fighter
  BY <1>1, MeetDid
<1>3. fighter' = [Marked EXCEPT ![turn] = g, ![other] = h]
  BY <1>2 DEF Parry
<1>4. Bears("parried", fighter[other], h)
  BY <1>1, <1>2 DEF Bears, SameMove, Typed
<1>5. Deals("parried", f, g)
  BY <1>2 DEF Deals, SameWaits, SetAction, Typed
<1>6. Breaks("parried", turn, other, h)
  BY <1>1, <1>2 DEF Breaks
<1> HIDE DEF f, g, h
<1> QED
  BY <1>1, <1>3, <1>4, <1>5, <1>6, PairChange DEF f

\* A blow that changes its target only.
LEMMA TargetChange ==
  ASSUME World, PageInv, Meet, Onward, NEW what, NEW h,
         fighter' = [Marked EXCEPT ![other] = h],
         Note(what), Bears(what, fighter[other], h), Breaks(what, turn, other, h),
         what \notin {"roll", "parried"}
  PROVE  Did(what, turn, other)
<1>1. turn # other /\ DOMAIN Marked = Fighter /\ turn \in Fighter /\ other \in Fighter
      /\ fighter' = [Marked EXCEPT ![turn] = Marked[turn], ![other] = h]
  BY MeetDid
<1>2. Deals(what, Marked[turn], Marked[turn])
  BY MarkDeals
<1> QED
  BY <1>1, <1>2, PairChange

\* A block that holds.
LEMMA BlockDid ==
  ASSUME World, PageInv, BlockHit, Note("block")
  PROVE  Did("block", turn, other)
<1> DEFINE h == [fighter[other] EXCEPT !.guard = GuardLeft, !.guardWait = GuardDelay]
<1>1. /\ Meet /\ Onward /\ fighter[other].action = "Block" /\ UNCHANGED broken
      /\ fighter[other].elapsed > ParryWindow /\ GuardLeft > 0
  BY NextVictimFacts DEF BlockHit, Blocked, Meet, World
<1>2. Typed(fighter[other]) /\ Marked[other] = fighter[other] /\ DOMAIN Marked = Fighter
      /\ other \in Fighter /\ Profile \in Active
  BY <1>1, MeetDid
<1>3. fighter' = [Marked EXCEPT ![other] = h]
  BY <1>2 DEF BlockHit
<1>4. GuardLeft < fighter[other].guard
  <2>1. GuardDamage[Profile] \in Nat /\ GuardDamage[Profile] > 0
    BY <1>2, CombatAssumption, GapAssumption
  <2>2. fighter[other].guard \in Nat
    BY <1>2, Parameters DEF Typed
  <2> QED
    BY <1>1, <2>1, <2>2 DEF GuardLeft
<1>5. h.guard = GuardLeft /\ h.guardWait = GuardDelay /\ SameMove(fighter[other], h)
  BY <1>2 DEF SameMove, Typed
<1> HIDE DEF h
<1>6. Bears("block", fighter[other], h)
  BY <1>1, <1>4, <1>5, Bounds DEF Bears, Taken, SameMove
<1>7. Breaks("block", turn, other, h)
  BY <1>1 DEF Breaks
<1> QED
  BY <1>1, <1>3, <1>6, <1>7, TargetChange

\* A guard that has nothing left to break.
BreakOf(f) == IF f.guard = 0 THEN "emptyBreak" ELSE "break"

\* A block that breaks.
LEMMA BreakDid ==
  ASSUME World, PageInv, GuardBreak, NEW what, what = BreakOf(fighter[other]), Note(what)
  PROVE  Did(what, turn, other)
<1> DEFINE e == [fighter[other] EXCEPT !.guard = GuardLeft, !.guardWait = GuardBreakWait]
           h == SetAction(e, "Stunned", GuardBreakStun[Profile])
<1>1. /\ Meet /\ Onward /\ fighter[other].action = "Block" /\ broken' = broken \cup {other}
      /\ fighter[other].elapsed > ParryWindow
  BY NextVictimFacts DEF GuardBreak, Blocked, Meet, World
<1>2. Typed(fighter[other]) /\ Marked[other] = fighter[other] /\ DOMAIN Marked = Fighter
      /\ other \in Fighter /\ Profile \in Active
  BY <1>1, MeetDid
<1>3. fighter' = [Marked EXCEPT ![other] = h]
  BY <1>2 DEF GuardBreak
<1>4. /\ GuardLeft = 0 /\ GuardBreakWait >= GuardDelay /\ fighter[other].guard \in Nat
  <2>1. GuardBreakStun[Profile] \in Nat
    BY <1>2, CombatAssumption
  <2>2. fighter[other].guard \in Nat
    BY <1>2, Parameters DEF Typed
  <2>3. GuardBreakWait >= GuardDelay
    BY <2>1, Bounds DEF GuardBreakWait
  <2>4. GuardLeft = 0
    <3>1. GuardDamage[Profile] \in Nat /\ GuardLeft <= 0
      BY <1>2, CombatAssumption DEF GuardBreak
    <3> QED
      BY <2>2, <3>1 DEF GuardLeft
  <2> QED
    BY <2>2, <2>3, <2>4
<1>5. /\ h.guard = GuardLeft /\ h.guardWait = GuardBreakWait /\ h.action = "Stunned"
      /\ h.hp = fighter[other].hp
  BY <1>2 DEF SetAction, Typed
<1> HIDE DEF h
<1>6. Bears(what, fighter[other], h)
  <2>1. Taken(fighter[other], h) /\ h.action = "Stunned" /\ h.guard = 0
    BY <1>1, <1>4, <1>5 DEF Taken
  <2>2. CASE fighter[other].guard = 0
    BY <2>1, <2>2 DEF Bears, BreakOf
  <2>3. CASE fighter[other].guard > 0
    BY <1>4, <2>1, <2>3 DEF Bears, BreakOf
  <2> QED
    BY <1>4, <2>2, <2>3
<1>7. what \in {"break", "emptyBreak"}
  BY DEF BreakOf
<1>8. Breaks(what, turn, other, h)
  BY <1>1, <1>7 DEF Breaks
<1> QED
  BY <1>1, <1>3, <1>6, <1>7, <1>8, TargetChange

\* A kick that fells.
LEMMA KickDid ==
  ASSUME World, PageInv, KickDown, Note("shove")
  PROVE  Did("shove", turn, other)
<1> DEFINE h == SetAction(fighter[other], "Knockdown", KickKnockdown)
<1>1. /\ Meet /\ Onward /\ broken' = broken \ {other}
  BY NextVictimFacts DEF KickDown, Land, Meet, World
<1>2. Typed(fighter[other]) /\ Marked[other] = fighter[other] /\ DOMAIN Marked = Fighter
      /\ other \in Fighter
  BY <1>1, MeetDid
<1>3. fighter' = [Marked EXCEPT ![other] = h]
  BY <1>2 DEF KickDown
<1>4. SameWaits(fighter[other], h) /\ h.action = "Knockdown" /\ h.hp = fighter[other].hp
  BY <1>2 DEF SameWaits, SetAction, Typed
<1> HIDE DEF h
<1>5. Bears("shove", fighter[other], h) /\ Breaks("shove", turn, other, h)
  BY <1>1, <1>4 DEF Bears, Breaks
<1> QED
  BY <1>1, <1>3, <1>5, TargetChange

\* A blow that wounds.
LEMMA HitDid ==
  ASSUME World, PageInv, Hit, Note("hit")
  PROVE  Did("hit", turn, other)
<1> DEFINE h == [fighter[other] EXCEPT !.hp = @ - Damage[Profile]]
<1>1. /\ Meet /\ Onward /\ UNCHANGED broken /\ Profile # "KickActive"
      /\ fighter[other].hp > Damage[Profile]
  BY NextVictimFacts DEF Hit, Land, Meet, World
<1>2. Typed(fighter[other]) /\ Marked[other] = fighter[other] /\ DOMAIN Marked = Fighter
      /\ other \in Fighter /\ Profile \in Active
  BY <1>1, MeetDid
<1>3. fighter' = [Marked EXCEPT ![other] = h]
  BY <1>2 DEF Hit
<1>4. Damage[Profile] \in Nat /\ Damage[Profile] > 0 /\ fighter[other].hp \in Nat
  BY <1>1, <1>2, CombatAssumption, GapAssumption, Parameters DEF Typed
<1>5. /\ SameWaits(fighter[other], h) /\ h.hp = fighter[other].hp - Damage[Profile]
      /\ h.action = fighter[other].action /\ h.elapsed = fighter[other].elapsed
      /\ h.duration = fighter[other].duration
  BY <1>2 DEF SameWaits, Typed
<1> HIDE DEF h
<1>6. Bears("hit", fighter[other], h) /\ Breaks("hit", turn, other, h)
  BY <1>1, <1>4, <1>5 DEF Bears, Breaks
<1> QED
  BY <1>1, <1>3, <1>6, TargetChange

\* A blow that kills.
LEMMA KillDid ==
  ASSUME World, PageInv, Kill, Note("kill")
  PROVE  Did("kill", turn, other)
<1> DEFINE g == [Marked[turn] EXCEPT !.kills = @ + 1]
           h == Die(fighter[other])
<1>1. /\ Meet /\ Onward /\ broken' = broken \ {other}
  <2>1. Blow /\ Meet /\ broken' = broken \ {other}
    BY KillStruck DEF Kill, Land, World
  <2> QED
    BY <2>1 DEF Blow
<1>2. /\ Typed(fighter[other]) /\ Typed(Marked[turn]) /\ turn # other
      /\ Marked[other] = fighter[other] /\ DOMAIN Marked = Fighter
      /\ turn \in Fighter /\ other \in Fighter
      /\ fighter[other].hp # 0
  BY <1>1, MeetDid
<1>3. fighter' = [Marked EXCEPT ![turn] = g, ![other] = h]
  BY <1>2 DEF Kill
<1>4. /\ h.action = "Dead" /\ h.hp = 0 /\ h.guard = fighter[other].guard
      /\ h.guardWait = fighter[other].guardWait /\ h.respawnWait = RespawnDelay
  BY <1>2 DEF Die, Typed
<1>5. Deals("kill", Marked[turn], g)
  BY <1>2 DEF Deals, SameWaits, SameMove, Typed
<1>6. fighter[other].hp > 0
  BY <1>2, Parameters DEF Typed
<1> HIDE DEF g, h
<1>7. Bears("kill", fighter[other], h) /\ Breaks("kill", turn, other, h)
  BY <1>1, <1>4, <1>6 DEF Bears, Breaks
<1> QED
  BY <1>1, <1>3, <1>5, <1>7, PairChange

\* A roll into another.
LEMMA RollDid ==
  ASSUME World, PageInv, RollInto, Note("roll")
  PROVE  Did("roll", turn, other)
<1> DEFINE g == [fighter[turn] EXCEPT !.rolled = @ \cup {other}]
           h == SetAction(fighter[other], "Knockdown", RollKnockdown)
<1>1. /\ phase = "roll" /\ phase' # "act" /\ turn # other /\ turn \in present
      /\ other \in present /\ turn \in Fighter /\ other \in Fighter
      /\ fighter[other].action # "Dead" /\ fighter[turn].action # "Dead"
      /\ UNCHANGED <<present, gone>>
  BY RollCatches DEF RollInto, Caught, CanTouch, Rolling, World, Shape
<1>2. Typed(fighter[turn]) /\ Typed(fighter[other]) /\ DOMAIN fighter = Fighter
  BY <1>1, FighterIs DEF World, Shape
<1>3. /\ fighter'[turn] = g /\ \A i \in Fighter \ {turn, other} : fighter'[i] = fighter[i]
      /\ \/ fighter'[other] = fighter[other] /\ broken' = broken
         \/ fighter'[other] = h /\ broken' = broken \ {other}
  BY <1>1, <1>2 DEF RollInto, RollOverGrounded, KnockDownByRoll
<1>4. Deals("roll", fighter[turn], g)
  BY <1>2 DEF Deals, SameWaits, SameMove, Typed
<1>5. SameWaits(fighter[other], h) /\ h.action = "Knockdown" /\ h.hp = fighter[other].hp
  BY <1>2 DEF SameWaits, SetAction, Typed
<1> HIDE DEF g, h
<1>6. Bears("roll", fighter[other], fighter'[other])
  BY <1>3, <1>5 DEF Bears, SameWaits, SameMove
<1>7. Breaks("roll", turn, other, fighter'[other])
  BY <1>3, <1>5 DEF Breaks
<1> HIDE DEF Bears, Deals, Breaks
<1> QED
  BY <1>1, <1>3, <1>4, <1>6, <1>7 DEF Did, Note

\* What is noted in the world is a deed of the two.
LEMMA DealtDid ==
  ASSUME World, PageInv, Dealt
  PROVE  turn \in Fighter /\ other \in Fighter /\ \E what : Did(what, turn, other)
<1>1. turn \in Fighter /\ other \in Fighter
  BY DEF World, Shape
<1>2. CASE Parry /\ Note("parried")
  BY <1>1, <1>2, ParryDid
<1>3. CASE BlockHit /\ Note("block")
  BY <1>1, <1>3, BlockDid
<1>4. CASE GuardBreak /\ Note(IF fighter[other].guard = 0 THEN "emptyBreak" ELSE "break")
  BY <1>1, <1>4, BreakDid DEF BreakOf
<1>5. CASE Hit /\ Note("hit")
  BY <1>1, <1>5, HitDid
<1>6. CASE Kill /\ Note("kill")
  BY <1>1, <1>6, KillDid
<1>7. CASE KickDown /\ Note("shove")
  BY <1>1, <1>7, KickDid
<1>8. CASE RollInto /\ Note("roll")
  BY <1>1, <1>8, RollDid
<1> QED
  BY <1>2, <1>3, <1>4, <1>5, <1>6, <1>7, <1>8 DEF Dealt

\* What a deed does to any fighter: at the most it ends what the fighter does, and takes
\* health or guard from it.
Endures(f, g) ==
  /\ \/ g.action = f.action /\ g.elapsed = f.elapsed /\ g.duration = f.duration
     \/ g.action \in {"Stunned", "Knockdown", "Dead"} /\ f.action # "Dead"
  /\ g.hp <= f.hp /\ g.guard <= f.guard
  /\ g.guardWait = f.guardWait \/ g.guardWait >= GuardDelay
  /\ g.action = "Dead" =>
       g.respawnWait = IF f.action = "Dead" THEN f.respawnWait ELSE RespawnDelay
  /\ (g.hp = 0) <=> (g.action = "Dead")

\* The numbers of a fighter that a deed changes.
Counts(f) ==
  /\ f.hp \in Nat /\ f.guard \in Nat /\ f.guardWait \in Nat /\ f.respawnWait \in Nat

\* So it is with the one it is done to.
LEMMA BearsEndures ==
  ASSUME NEW f, NEW g, NEW what, Bears(what, f, g), Counts(f), Counts(g),
         f.hp # 0, f.action # "Dead"
  PROVE  Endures(f, g)
<1> USE DEF Counts
<1>0. GuardDelay \in Nat /\ GuardDelay >= GuardDelay
  BY Bounds
<1>1. CASE what = "parried"
  BY <1>0, <1>1 DEF Bears, Taken, SameWaits, SameMove, Endures
<1>2. CASE what = "block"
  BY <1>0, <1>2 DEF Bears, Taken, SameWaits, SameMove, Endures
<1>3. CASE what = "break"
  BY <1>0, <1>3 DEF Bears, Taken, SameWaits, SameMove, Endures
<1>4. CASE what = "emptyBreak"
  BY <1>0, <1>4 DEF Bears, Taken, SameWaits, SameMove, Endures
<1>5. CASE what = "hit"
  BY <1>0, <1>5 DEF Bears, Taken, SameWaits, SameMove, Endures
<1>6. CASE what = "kill"
  BY <1>0, <1>6 DEF Bears, Taken, SameWaits, SameMove, Endures
<1>7. CASE what = "shove"
  BY <1>0, <1>7 DEF Bears, Taken, SameWaits, SameMove, Endures
<1>8. CASE what = "roll"
  BY <1>0, <1>8 DEF Bears, Taken, SameWaits, SameMove, Endures
<1> QED
  BY <1>1, <1>2, <1>3, <1>4, <1>5, <1>6, <1>7, <1>8 DEF Bears

\* And with the one who does it.
LEMMA DealsEndures ==
  ASSUME NEW f, NEW g, NEW what, Deals(what, f, g), Counts(f), Counts(g),
         f.hp # 0, f.action # "Dead"
  PROVE  Endures(f, g)
<1> USE DEF Counts
<1>1. CASE what = "parried"
  BY <1>1 DEF Deals, SameWaits, Endures
<1>2. CASE what # "parried"
  BY <1>2 DEF Deals, SameWaits, SameMove, Endures
<1> QED
  BY <1>1, <1>2

\* And with the rest.
LEMMA DidEndures ==
  ASSUME World, PageInv, AllGood(fighter'), NEW a \in Fighter, NEW b \in Fighter,
         NEW what, Did(what, a, b), NEW i \in Fighter
  PROVE  Endures(fighter[i], fighter'[i])
<1>1. Counts(fighter[i]) /\ ((fighter[i].hp = 0) <=> (fighter[i].action = "Dead"))
  BY FighterIs DEF World, PageInv, FighterKnown, Steady, Counts
<1>2. Counts(fighter'[i])
  BY Parameters DEF AllGood, Good, Typed, Counts
<1>3. CASE i \notin {a, b}
  <2>1. fighter'[i] = fighter[i]
    BY <1>3 DEF Did
  <2> QED
    BY <1>1, <2>1 DEF Endures, Counts
<1>4. CASE i = a
  <2>1. Deals(what, fighter[i], fighter'[i]) /\ fighter[i].action # "Dead"
    BY <1>4 DEF Did
  <2> QED
    BY <1>1, <1>2, <2>1, DealsEndures
<1>5. CASE i = b
  <2>1. Bears(what, fighter[i], fighter'[i]) /\ fighter[i].action # "Dead"
    BY <1>5 DEF Did
  <2> QED
    BY <1>1, <1>2, <2>1, BearsEndures
<1> QED
  BY <1>3, <1>4, <1>5

\* A deed hurries nobody: no strike and no guard is older, and who was late stays late.
LEMMA DidMild ==
  ASSUME World, PageInv, AllGood(fighter'), NEW a \in Fighter, NEW b \in Fighter,
         NEW what, Did(what, a, b), NEW i \in Fighter
  PROVE  /\ Ahead(i) = 0 /\ Ahead(i)' = 0 /\ gap' = gap /\ gap \in Nat /\ gap >= 1
         /\ StrikeAge(fighter'[i]) \in {0, StrikeAge(fighter[i])}
         /\ GuardAge(fighter'[i]) \in {0, GuardAge(fighter[i])}
         /\ Late(i) => Late(i)'
         /\ JustNow(i) => JustNow(i)'
<1>1. /\ Endures(fighter[i], fighter'[i]) /\ phase \notin {"act", "between"} /\ phase' # "act" /\ gap' = gap
      /\ phase = "attack" => phase' \in {"attack", "between"}
  BY DidEndures DEF Did
<1>2. Ahead(i) = 0 /\ Ahead(i)' = 0 /\ gap \in Nat /\ gap >= 1
  BY <1>1 DEF Ahead, PageInv, GapKnown
<1>3. StrikeAge(fighter'[i]) \in {0, StrikeAge(fighter[i])}
  BY <1>1 DEF Endures, StrikeAge, IsWindup, IsActive, IsRecovery
<1>4. GuardAge(fighter'[i]) \in {0, GuardAge(fighter[i])}
  BY <1>1 DEF Endures, GuardAge
<1>5. StrikeAge(fighter[i]) \in Nat
  BY FighterIs DEF World
<1>6. Late(i) => Late(i)'
  BY <1>1, <1>2, <1>3, <1>5 DEF Late
<1>7. JustNow(i) => JustNow(i)'
  BY <1>1, <1>2 DEF JustNow, Endures, IsRecovery
<1> QED
  BY <1>1, <1>2, <1>3, <1>4, <1>6, <1>7

\* What a fighter lost in a deed, or fell into, is explained by it.
LEMMA DidExplained ==
  ASSUME World, PageInv, AllGood(fighter'), NEW a \in Fighter, NEW b \in Fighter,
         NEW what, Did(what, a, b), NEW i \in Fighter
  PROVE  Explained(i)'
<1> DEFINE f == fighter[i]
           g == fighter'[i]
           s == seen[i]
<1>1. /\ f.hp \in Nat /\ f.guard \in Nat /\ g.hp \in Nat /\ g.guard \in Nat
      /\ s.hp \in Nat /\ s.guard \in Nat /\ g.guard <= f.guard /\ g.hp <= f.hp
      /\ Endures(f, g) /\ seen' = seen /\ Explained(i)
  <2>1. Counts(f) /\ Counts(g)
    BY FighterIs, Parameters DEF World, AllGood, Good, Typed, Counts
  <2>2. s.hp \in Nat /\ s.guard \in Nat
    BY Bounds DEF PageInv, SeenKnown
  <2>3. Endures(f, g) /\ Explained(i) /\ seen' = seen
    BY DidEndures DEF PageInv, FighterKnown, Did
  <2> QED
    BY <2>1, <2>2, <2>3 DEF Counts, Endures
<1>2. \A kinds : Done(kinds, i) => Done(kinds, i)'
  BY DEF Done, Did
<1>3. ASSUME NEW kinds, what \in kinds, i = b PROVE Done(kinds, i)'
  <2>1. Deed(what, a, b) \in deeds' /\ Deed(what, a, b).what = what /\ Deed(what, a, b).to = b
    BY DEF Did, Deed
  <2> QED
    BY <1>3, <2>1 DEF Done
<1>4. \/ i \notin {a, b} /\ g = f
      \/ i = a /\ i # b /\ Deals(what, f, g)
      \/ i = b /\ i # a /\ Bears(what, f, g)
  BY DEF Did
<1>5. Breaks(what, a, b, fighter'[b])
  BY DEF Did
<1> HIDE DEF f, g, s
<1>6. g.hp < s.hp => Done({"hit", "kill"}, i)'
  <2>1. CASE f.hp < s.hp
    BY <1>1, <1>2, <2>1 DEF Explained, f, s
  <2>2. CASE g.hp < f.hp
    <3>1. i = b /\ what \in {"hit", "kill"}
      BY <1>1, <1>4, <2>2 DEF Deals, Bears, Taken, SameMove
    <3> QED
      BY <1>3, <3>1
  <2> QED
    BY <1>1, <2>1, <2>2
<1>7. g.guard < s.guard => Done({"block", "break"}, i)'
  <2>1. CASE f.guard < s.guard
    BY <1>1, <1>2, <2>1 DEF Explained, f, s
  <2>2. CASE g.guard < f.guard
    <3>1. i = b /\ what \in {"block", "break"}
      BY <1>1, <1>4, <2>2 DEF Deals, Bears, Taken, SameWaits
    <3> QED
      BY <1>3, <3>1
  <2> QED
    BY <1>1, <2>1, <2>2
<1>8. g.guard = 0 /\ s.guard > 0 => Done({"break"}, i)'
  <2>1. CASE f.guard = 0
    BY <1>1, <1>2, <2>1 DEF Explained, f, s
  <2>2. CASE g.guard = 0 /\ f.guard > 0
    <3>1. i = b /\ what = "break"
      BY <1>1, <1>4, <2>2 DEF Deals, Bears, Taken, SameWaits
    <3> QED
      BY <1>3, <3>1
  <2> QED
    BY <1>1, <2>1, <2>2
<1>9. g.action = "Dead" /\ s.action # "Dead" => Done({"kill"}, i)'
  <2>1. CASE f.action = "Dead"
    BY <1>1, <1>2, <2>1 DEF Explained, f, s
  <2>2. CASE g.action = "Dead" /\ f.action # "Dead"
    <3>1. i = b /\ what = "kill"
      BY <1>4, <2>2 DEF Deals, Bears, Taken, SameMove
    <3> QED
      BY <1>3, <3>1
  <2> QED
    BY <2>1, <2>2
<1>10. g.action = "Knockdown" /\ s.action # "Knockdown" => Done({"shove", "roll"}, i)'
  <2>1. CASE f.action = "Knockdown"
    BY <1>1, <1>2, <2>1 DEF Explained, f, s
  <2>2. CASE g.action = "Knockdown" /\ f.action # "Knockdown"
    <3>1. i = b /\ what \in {"shove", "roll"}
      BY <1>4, <2>2 DEF Deals, Bears, Taken, SameMove
    <3> QED
      BY <1>3, <3>1
  <2> QED
    BY <2>1, <2>2
<1>11. g.action = "Stunned" /\ s.action # "Stunned" =>
         IF i \in broken' THEN Done({"break", "emptyBreak"}, i)'
         ELSE \E e \in deeds' : e.what = "parried" /\ e.by = i
  <2>1. CASE i = b /\ what \in {"break", "emptyBreak"}
    BY <1>3, <1>5, <2>1 DEF Breaks
  <2>2. CASE i = a /\ what = "parried"
    <3>1. /\ Deed("parried", a, b) \in deeds' /\ Deed("parried", a, b).what = "parried"
          /\ Deed("parried", a, b).by = a
      BY <2>2 DEF Did, Deed
    <3>2. i \notin broken'
      BY <1>5, <2>2 DEF Breaks
    <3> QED
      BY <2>2, <3>1, <3>2
  <2>3. CASE ~(i = b /\ what \in {"break", "emptyBreak"}) /\ ~(i = a /\ what = "parried")
    <3> SUFFICES ASSUME g.action = "Stunned", s.action # "Stunned"
                 PROVE  IF i \in broken' THEN Done({"break", "emptyBreak"}, i)'
                        ELSE \E e \in deeds' : e.what = "parried" /\ e.by = i
      OBVIOUS
    <3>1. f.action = "Stunned"
      BY <1>4, <2>3 DEF Deals, Bears, Taken, SameMove
    <3>2. i \in broken' <=> i \in broken
      <4>1. CASE what \in {"break", "emptyBreak"}
        BY <1>5, <2>3, <4>1 DEF Breaks
      <4>2. CASE broken' = broken
        BY <4>2
      <4>3. CASE broken' = broken \ {b} /\ fighter'[b].action # "Stunned"
        BY <4>3 DEF g
      <4> QED
        BY <1>5, <4>1, <4>2, <4>3 DEF Breaks
    <3>3. IF i \in broken THEN Done({"break", "emptyBreak"}, i)
          ELSE \E e \in deeds : e.what = "parried" /\ e.by = i
      BY <1>1, <3>1 DEF Explained, f, s
    <3> QED
      BY <1>2, <3>2, <3>3 DEF Did
  <2> QED
    BY <2>1, <2>2, <2>3
<1> QED
  BY <1>1, <1>6, <1>7, <1>8, <1>9, <1>10, <1>11 DEF Explained, f, g, s

\* What is known of a fighter is known after a deed.
LEMMA DidFighter ==
  ASSUME World, PageInv, AllGood(fighter'), NEW a \in Fighter, NEW b \in Fighter,
         NEW what, Did(what, a, b), NEW i \in Fighter
  PROVE  FighterKnown(i)'
<1> DEFINE f == fighter[i]
           g == fighter'[i]
           s == seen[i]
<1>1. Counts(f) /\ Counts(g) /\ s.hp \in Nat /\ s.guard \in Nat
  BY FighterIs, Parameters, Bounds
  DEF World, AllGood, Good, Typed, Counts, PageInv, SeenKnown
<1>2. /\ Endures(f, g) /\ UNCHANGED <<seen, present>>
      /\ Steady(f) /\ Fell(i) /\ Healed(i) /\ Rested(i) /\ SeenAlive(i)' = SeenAlive(i)
  BY DidEndures DEF PageInv, FighterKnown, Did, SeenAlive
<1>3. AllLate => AllLate'
  BY DidMild DEF AllLate
<1>4. /\ Ahead(i) = 0 /\ Ahead(i)' = 0 /\ gap' = gap /\ gap \in Nat /\ gap >= 1
      /\ GuardAge(g) \in {0, GuardAge(f)} /\ GuardAge(f) \in Nat
  BY DidMild, FighterIs DEF World
<1>5. Steady(g)
  BY <1>2 DEF Endures, Steady, IsWindup
<1>6. Fell(i)'
  BY <1>1, <1>2, <1>4, Bounds DEF Endures, Fell, Counts
<1>7. Healed(i)'
  BY <1>1, <1>2, <1>3 DEF Endures, Healed, Counts
<1>8. Rested(i)'
  <2>1. g.guard > s.guard => f.guard > s.guard
    BY <1>1, <1>2 DEF Endures, Counts
  <2>2. GuardAge(f) + 0 < gap => GuardAge(g) + 0 < gap
    BY <1>4
  <2> QED
    BY <1>2, <1>3, <1>4, <2>1, <2>2 DEF Rested
<1> QED
  BY <1>5, <1>6, <1>7, <1>8, DidExplained DEF FighterKnown

\* What the deeds before it show is still to be seen.
LEMMA DidOlder ==
  ASSUME World, PageInv, AllGood(fighter'), NEW a \in Fighter, NEW b \in Fighter,
         NEW what, Did(what, a, b), NEW e \in deeds
  PROVE  Shows(e)'
<1> DEFINE f == fighter[e.to]
           g == fighter'[e.to]
           s == seen[e.to]
<1>1. e.to \in Fighter /\ e.by \in Fighter /\ Shows(e)
  BY DEF PageInv, DeedsKnown
<1>2. /\ Counts(f) /\ Counts(g) /\ s.hp \in Nat /\ s.guard \in Nat
      /\ Endures(f, g) /\ UNCHANGED <<seen, present>> /\ SeenAlive(e.to)' = SeenAlive(e.to)
  <2>1. Counts(f) /\ s.hp \in Nat /\ s.guard \in Nat
    BY <1>1, FighterIs, Bounds DEF World, Counts, PageInv, SeenKnown
  <2>2. Counts(g)
    BY <1>1, Parameters DEF AllGood, Good, Typed, Counts
  <2>3. Endures(f, g)
    BY <1>1, DidEndures
  <2> QED
    BY <2>1, <2>2, <2>3 DEF Did, SeenAlive
<1>3. (AllLate => AllLate') /\ (Late(e.by) => Late(e.by)') /\ (JustNow(e.by) => JustNow(e.by)')
  BY <1>1, DidMild DEF AllLate
<1>4. gap' = gap /\ gap \in Nat /\ gap >= 1
  BY DidMild
<1> SUFFICES ASSUME SeenAlive(e.to) PROVE Shows(e)'
  BY <1>2 DEF Shows
<1>5. e.what \in {"hit", "kill"} => g.hp < s.hp \/ Late(e.by)'
  BY <1>1, <1>2, <1>3 DEF Shows, Endures, Counts
<1>6. e.what \in {"block", "break"} => g.guard < s.guard \/ Late(e.by)' \/ JustNow(e.by)'
  BY <1>1, <1>2, <1>3 DEF Shows, Endures, Counts
<1>7. e.what \in {"block", "break"} => g.guardWait + gap' > GuardDelay \/ AllLate'
  BY <1>1, <1>2, <1>3, <1>4, Bounds DEF Shows, Endures, Counts
<1>8. e.what = "parried" => Late(e.by)'
  BY <1>1, <1>3 DEF Shows
<1> QED
  BY <1>2, <1>5, <1>6, <1>7, <1>8 DEF Shows

\* What it shows itself is to be seen, or its strike cannot be over.
LEMMA DidShows ==
  ASSUME World, PageInv, AllGood(fighter'), NEW a \in Fighter, NEW b \in Fighter,
         NEW what, Did(what, a, b)
  PROVE  Shows(Deed(what, a, b))'
<1> DEFINE f == fighter[b]
           g == fighter'[b]
           s == seen[b]
<1>1. /\ Counts(f) /\ Counts(g) /\ s.hp \in Nat /\ s.guard \in Nat
      /\ UNCHANGED <<seen, present>> /\ SeenAlive(b)' = SeenAlive(b)
      /\ Healed(b) /\ Rested(b) /\ f.elapsed \in Nat
      /\ Bears(what, f, g) /\ Deals(what, fighter[a], fighter'[a])
  <2>1. Good(f) /\ Good(g)
    BY DEF World, AllGood
  <2>2. \A h : Good(h) => Counts(h) /\ h.elapsed \in Nat
    BY Parameters DEF Good, Typed, Counts
  <2>3. s.hp \in Nat /\ s.guard \in Nat /\ Healed(b) /\ Rested(b)
    BY FighterIs, Parameters, Bounds DEF PageInv, SeenKnown, FighterKnown
  <2>4. UNCHANGED <<seen, present>> /\ Bears(what, f, g) /\ Deals(what, fighter[a], fighter'[a])
    BY DEF Did
  <2>5. SeenAlive(b)' = SeenAlive(b)
    BY <2>4 DEF SeenAlive
  <2> QED
    BY <2>1, <2>2, <2>3, <2>4, <2>5
<1>2. (AllLate => AllLate') /\ (AllLate => Late(a)')
  BY DidMild DEF AllLate
<1>3. gap' = gap /\ gap \in Nat /\ gap >= 1 /\ Ahead(a)' = 0 /\ Ahead(b) = 0
  BY DidMild
<1>4. gap <= LongestGap /\ LongestGap <= ParryWindow + 2
  BY GapAssumption DEF PageInv, GapKnown
<1>5. Deed(what, a, b).what = what /\ Deed(what, a, b).by = a /\ Deed(what, a, b).to = b
  BY DEF Deed
<1>6. what # "roll" => phase' \in {"attack", "between"} /\ Swings(fighter[a])
  BY DEF Did
<1> HIDE DEF f, g, s
<1>7. what \in {"hit", "kill"} /\ SeenAlive(b) => g.hp < s.hp \/ Late(a)'
  <2> SUFFICES ASSUME what \in {"hit", "kill"}, SeenAlive(b) PROVE g.hp < s.hp \/ Late(a)'
    OBVIOUS
  <2>1. g.hp < f.hp
    BY <1>1 DEF Bears, Counts
  <2>2. f.hp <= s.hp \/ AllLate
    BY <1>1 DEF Healed, f, s
  <2> QED
    BY <1>1, <1>2, <2>1, <2>2 DEF Counts
<1>8. what \in {"block", "break"} /\ SeenAlive(b) =>
        g.guard < s.guard \/ Late(a)' \/ JustNow(a)'
  <2> SUFFICES ASSUME what \in {"block", "break"}, SeenAlive(b)
               PROVE  g.guard < s.guard \/ Late(a)' \/ JustNow(a)'
    OBVIOUS
  <2>1. g.guard < f.guard /\ f.action = "Block" /\ f.elapsed > ParryWindow
    BY <1>1 DEF Bears, Taken, Counts
  <2>2. CASE f.guard > s.guard /\ ~AllLate
    <3>1. f.elapsed < gap
      BY <1>1, <1>3, <2>1, <2>2 DEF Rested, GuardAge, f, s
    <3>2. gap = LongestGap
      BY <1>1, <1>3, <1>4, <2>1, <3>1, Bounds
    <3>3. fighter'[a].action = fighter[a].action
      BY <1>1 DEF Deals, SameMove
    <3> QED
      BY <1>3, <1>6, <3>2, <3>3 DEF JustNow, Swings
  <2>3. CASE f.guard <= s.guard
    BY <1>1, <2>1, <2>3 DEF Counts
  <2> QED
    BY <1>1, <1>2, <2>2, <2>3 DEF Counts
<1>9. what \in {"block", "break"} => g.guardWait + gap' > GuardDelay
  <2>1. what \in {"block", "break"} => g.guardWait >= GuardDelay
    BY <1>1 DEF Bears, Taken
  <2> QED
    BY <1>1, <1>3, <2>1, Bounds DEF Counts
<1>10. what = "parried" => Late(a)'
  <2>1. what = "parried" => StrikeAge(fighter'[a]) = 0
    BY <1>1 DEF Deals, StrikeAge, IsWindup, IsActive, IsRecovery
  <2> QED
    BY <1>3, <2>1 DEF Late
<1> QED
  BY <1>1, <1>5, <1>7, <1>8, <1>9, <1>10 DEF Shows, g, s

\* Whatever one does to another leaves what is known of the page.
LEMMA DidNext ==
  ASSUME World, PageInv, AllGood(fighter'), Swinging', NEW a \in Fighter, NEW b \in Fighter,
         NEW what, Did(what, a, b)
  PROVE  PageInv'
<1>1. /\ deeds' = deeds \cup {Deed(what, a, b)} /\ a # b /\ a \in present /\ b \in present
      /\ UNCHANGED <<seen, pending, gap, present, gone>> /\ phase # "between"
      /\ \A i \in Fighter \ {a, b} : fighter'[i] = fighter[i]
  BY DEF Did
<1>2. DeedsKnown'
  BY <1>1 DEF PageInv, DeedsKnown, Deed
<1>3. GapKnown' /\ SeenKnown' /\ Waiting' /\ AbsentWhole'
  BY <1>1 DEF PageInv, GapKnown, SeenKnown, Waiting, AbsentWhole
<1>4. \A i \in Fighter : FighterKnown(i)'
  BY DidFighter
<1>5. \A e \in deeds' : Shows(e)'
  <2>1. \A e \in deeds : Shows(e)'
    BY DidOlder
  <2> QED
    BY <1>1, <2>1, DidShows
<1> QED
  BY <1>2, <1>3, <1>4, <1>5 DEF PageInv
-----------------------------------------------------------------------------
(***************************************************************************)
(* A snapshot comes.                                                       *)
(***************************************************************************)

\* A strike that waits for its outcome is against who was seen in a roll, or has not
\* changed since.
LEMMA WaitingNext ==
  ASSUME World, PageInv, NEW now \in BOOLEAN, NEW before \in BOOLEAN, Observe(now, before)
  PROVE  Waiting'
<1>1. /\ seen' = [i \in Fighter |-> Glance(i)] /\ pending' = NextDodge(now, before)
      /\ present \subseteq Fighter
  BY DEF Observe, World, Shape
<1>2. ASSUME NEW by, NEW to, MayDodge(by, to, now, before), pending' = NewDodge(by, to)
      PROVE  Waiting'
  <2>1. to \in present /\ fighter[to].action = "Dodge"
    BY <1>2 DEF MayDodge, Glance, Unseen
  <2>2. to \in Fighter /\ fighter[to].hp > 0
    <3>1. to \in Fighter /\ fighter[to].hp \in Nat /\ Steady(fighter[to])
      BY <1>1, <2>1, FighterIs DEF World, PageInv, FighterKnown
    <3> QED
      BY <2>1, <3>1 DEF Steady
  <2>3. seen'[to] = Glance(to) /\ Glance(to).hp = fighter[to].hp
    BY <1>1, <2>1, <2>2 DEF Glance
  <2> QED
    BY <1>2, <2>2, <2>3 DEF Waiting, NewDodge
<1>3. CASE pending' = StillPending(pending)
  <2> SUFFICES ASSUME pending' # NoDodge PROVE Waiting'
    BY DEF Waiting
  <2>1. Dodges(pending) /\ Stable(pending)
    BY <1>3 DEF StillPending
  <2>2. /\ {"attacker", "defender", "hp", "guard", "activeSeen"} \subseteq DOMAIN pending
        /\ pending.defender \in Fighter /\ pending.hp > 0
    BY <2>1 DEF PageInv, Waiting, Dodges
  <2>3. seen'[pending.defender].hp = pending.hp /\ seen'[pending.defender].guard = pending.guard
    BY <1>1, <2>1, <2>2 DEF Stable
  <2>4. pending' = pending \/ pending' = [pending EXCEPT !.activeSeen = TRUE]
    BY <1>3 DEF StillPending
  <2>5. /\ DOMAIN pending' = DOMAIN pending /\ pending'.defender = pending.defender
        /\ pending'.hp = pending.hp /\ pending'.guard = pending.guard
    BY <2>2, <2>4
  <2> QED
    BY <2>2, <2>3, <2>5 DEF Waiting
<1>4. CASE pending' = NoDodge
  BY <1>4 DEF Waiting
<1>5. \/ pending' = NoDodge \/ pending' = StillPending(pending)
      \/ \E by, to : MayDodge(by, to, now, before) /\ pending' = NewDodge(by, to)
  BY <1>1 DEF NextDodge
<1> QED
  BY <1>2, <1>3, <1>4, <1>5

\* There is nothing left to tell after it.
LEMMA ObserveNext ==
  ASSUME World, PageInv, NEW now \in BOOLEAN, NEW before \in BOOLEAN, Observe(now, before)
  PROVE  PageInv'
<1>1. /\ seen' = [i \in Fighter |-> Glance(i)] /\ gap' = 0 /\ deeds' = {}
      /\ phase = "between" /\ phase' = "between"
      /\ UNCHANGED <<fighter, present, gone, turn, swing, broken>>
  BY DEF Observe, vars, worldVars, cursorVars, historyVars
<1>2. DeedsKnown' /\ GapKnown' /\ AbsentWhole' /\ Swinging' /\ \A e \in deeds' : Shows(e)'
  BY <1>1, Bounds DEF PageInv, DeedsKnown, GapKnown, AbsentWhole, Swinging
<1>3. ASSUME NEW i \in Fighter
      PROVE  /\ seen'[i].hp \in 0 .. HpMax /\ seen'[i].guard \in 0 .. GuardMax
             /\ seen'[i] = Unseen \/ i \in present \cup gone
             /\ FighterKnown(i)'
  <2> DEFINE f == fighter[i]
             s == Glance(i)
  <2>0. /\ seen'[i] = s /\ fighter'[i] = f
        /\ f.hp \in Nat /\ f.hp <= HpMax /\ f.guard \in Nat /\ f.guard <= GuardMax
        /\ Steady(f)
    BY <1>1, FighterIs DEF World, PageInv, FighterKnown
  <2>1. CASE i \in present
    <3>1. s.action = f.action /\ s.hp = f.hp /\ s.guard = f.guard
      BY <2>1 DEF Glance
    <3> HIDE DEF f, s
    <3>2. Explained(i)'
      BY <2>0, <3>1 DEF Explained
    <3>3. Fell(i)' /\ Healed(i)' /\ Rested(i)' /\ Steady(fighter'[i])
      BY <2>0, <3>1 DEF Fell, Healed, Rested, Steady, SeenAlive
    <3> QED
      BY <2>0, <2>1, <3>1, <3>2, <3>3, Bounds DEF FighterKnown
  <2>2. CASE i \notin present
    <3>1. s = Unseen /\ Whole(f)
      BY <2>2 DEF Glance, PageInv, AbsentWhole
    <3>2. s.hp = 0 /\ s.guard = 0 /\ f.action = "Idle" /\ f.hp = HpMax /\ f.guard = GuardMax
      BY <3>1 DEF Unseen, Whole
    <3>3. ~SeenAlive(i)'
      BY <1>1, <2>2 DEF SeenAlive
    <3> HIDE DEF f, s
    <3>4. Explained(i)'
      BY <2>0, <3>2, Bounds DEF Explained
    <3>5. Fell(i)' /\ Healed(i)' /\ Rested(i)' /\ Steady(fighter'[i])
      BY <2>0, <3>2, <3>3 DEF Fell, Healed, Rested
    <3> QED
      BY <2>0, <3>1, <3>2, <3>4, <3>5, Bounds DEF FighterKnown
  <2> QED
    BY <2>1, <2>2
<1>4. SeenKnown'
  BY <1>1, <1>3 DEF SeenKnown
<1> QED
  BY <1>2, <1>3, <1>4, WaitingNext DEF PageInv
-----------------------------------------------------------------------------
(***************************************************************************)
(* All steps.                                                              *)
(***************************************************************************)

\* The world that the page looks at is the server's.
LEMMA PageStepsTheWorld ==
  ASSUME [FeedbackNext]_feedbackVars
  PROVE  [Next]_vars
<1>1. CASE Dealt
  BY <1>1 DEF Dealt, Next, WorldStep, RollStep, AttackStep
<1>2. CASE NothingDealt
  BY <1>2 DEF NothingDealt, Next, WorldStep, RollStep, AttackStep
<1>3. CASE TimePasses
  BY <1>3 DEF TimePasses, Next, WorldStep
<1>4. CASE JoinOrLeave
  BY <1>4 DEF JoinOrLeave, Next
<1>5. CASE \E now, before \in BOOLEAN : Observe(now, before)
  BY <1>5 DEF Observe
<1>6. CASE UNCHANGED feedbackVars
  BY <1>6 DEF feedbackVars
<1> QED
  BY <1>1, <1>2, <1>3, <1>4, <1>5, <1>6 DEF FeedbackNext

\* What the proof knows of the world is true of a new one.
LEMMA RulesInit ==
  ASSUME Init
  PROVE  World
  BY ShapeInit, ScoreInit, MeetInit, GuardInit, GoodInit DEF World

\* And stays true.
LEMMA RulesNext ==
  ASSUME World, [Next]_vars
  PROVE  World'
<1>1. AllGood(fighter')
  BY FightersNext DEF World
<1>2. AllGood(fighter)'
  BY <1>1
<1> QED
  BY <1>2, ShapeNext, ScoreNext, MeetNext, GuardNext, WorldNext DEF World

\* What is known of the page stays true, whatever happens.
LEMMA PageNext ==
  ASSUME World, PageInv, [FeedbackNext]_feedbackVars
  PROVE  PageInv'
<1>1. AllGood(fighter') /\ Swinging' /\ [Next]_vars
  BY PageStepsTheWorld, FightersNext, SwingingNext DEF World, PageInv
<1>2. ASSUME Quiet, GapKnown', AbsentWhole' PROVE PageInv'
  BY <1>1, <1>2, QuietNext
<1>3. CASE Dealt
  <2>1. PICK a \in Fighter, b \in Fighter : a = turn /\ b = other
    BY <1>3, DealtDid
  <2>2. PICK what : Did(what, a, b)
    BY <1>3, <2>1, DealtDid
  <2> QED
    BY <1>1, <2>2, DidNext
<1>4. CASE NothingDealt
  BY <1>2, <1>4, ActQuiet, PairQuiet DEF NothingDealt
<1>5. CASE TimePasses
  BY <1>2, <1>5, TimeQuiet
<1>6. CASE JoinOrLeave
  BY <1>2, <1>6, JoinQuiet DEF JoinOrLeave
<1>7. CASE \E now, before \in BOOLEAN : Observe(now, before)
  BY <1>7, ObserveNext
<1>8. CASE UNCHANGED feedbackVars
  <2>1. /\ UNCHANGED <<fighter, present, gone, broken, phase, turn, seen, pending, gap, deeds>>
        /\ gap \in Nat /\ gap <= LongestGap
    BY <1>8 DEF feedbackVars, vars, worldVars, cursorVars, historyVars, PageInv, GapKnown
  <2>2. \A i \in Fighter : Spared(i)
    <3> TAKE i \in Fighter
    <3>1. Ahead(i)' <= Ahead(i)
      BY <2>1 DEF Ahead
    <3> QED
      BY <2>1, <3>1, UntouchedSpared
  <2>3. GapKnown' /\ AbsentWhole'
    BY <2>1 DEF PageInv, GapKnown, AbsentWhole
  <2>4. Quiet
    BY <2>1, <2>2 DEF Quiet
  <2> QED
    BY <1>2, <2>3, <2>4
<1> QED
  BY <1>3, <1>4, <1>5, <1>6, <1>7, <1>8 DEF FeedbackNext

\* What is known of the page is known at every moment, with any number of fighters.
LEMMA PageInvariant == FeedbackSpec => [](World /\ PageInv)
<1>1. FeedbackInit => World /\ PageInv
  BY RulesInit, PageInit DEF FeedbackInit
<1>2. World /\ PageInv /\ [FeedbackNext]_feedbackVars => World' /\ PageInv'
  BY PageStepsTheWorld, RulesNext, PageNext
<1> QED
  BY <1>1, <1>2, PTL DEF FeedbackSpec
-----------------------------------------------------------------------------
(***************************************************************************)
(* What the page tells.                                                    *)
(***************************************************************************)

\* What is told of one fighter alone did happen to it.
LEMMA EntityHappened ==
  ASSUME World, PageInv, NEW i \in Watched, NEW e \in EntityEvents(i)
  PROVE  e.kind \notin {"parry", "shove", "rollOver"} /\ Happened(e)
<1> DEFINE f == fighter[i]
           s == seen[i]
<1>1. /\ Glance(i).action = f.action /\ Glance(i).hp = f.hp /\ Glance(i).guard = f.guard
      /\ Explained(i)
  BY DEF Watched, Glance, World, Shape, PageInv, FighterKnown
<1>2. \A kind : /\ Someone(kind, i).kind = kind /\ Someone(kind, i).of = i
                /\ Someone(kind, i).by = NoFighter
  BY DEF Someone, Event
<1>3. \/ e = Someone("death", i) /\ f.action = "Dead" /\ s.action # "Dead"
      \/ e = Someone("respawn", i)
      \/ e = Someone("guardBreak", i) /\ f.guard = 0 /\ s.guard > 0
      \/ e = Someone("block", i) /\ f.guard < s.guard
      \/ e = Someone("hit", i) /\ f.hp < s.hp
      \/ e = Someone("stun", i) /\ f.action = "Stunned" /\ s.action # "Stunned"
  BY <1>1 DEF EntityEvents, Became
<1>4. CASE e = Someone("death", i) /\ f.action = "Dead" /\ s.action # "Dead"
  BY <1>1, <1>2, <1>4 DEF Explained, Happened
<1>5. CASE e = Someone("respawn", i)
  BY <1>2, <1>5 DEF Happened
<1>6. CASE e = Someone("guardBreak", i) /\ f.guard = 0 /\ s.guard > 0
  BY <1>1, <1>2, <1>6 DEF Explained, Happened
<1>7. CASE e = Someone("block", i) /\ f.guard < s.guard
  BY <1>1, <1>2, <1>7 DEF Explained, Happened
<1>8. CASE e = Someone("hit", i) /\ f.hp < s.hp
  BY <1>1, <1>2, <1>8 DEF Explained, Happened
<1>9. CASE e = Someone("stun", i) /\ f.action = "Stunned" /\ s.action # "Stunned"
  BY <1>1, <1>2, <1>9 DEF Explained, Happened
<1> QED
  BY <1>3, <1>4, <1>5, <1>6, <1>7, <1>8, <1>9

\* Who is seen stunned with guard left was parried.
LEMMA ParryHappened ==
  ASSUME World, PageInv, NEW by, NEW of \in Watched, NEW e \in ParryEvents(by, of)
  PROVE  /\ e = Event("parry", by, of)
         /\ \E d \in deeds : d.what = "parried" /\ d.by = of
<1>1. /\ of \in Fighter /\ e = Event("parry", by, of) /\ fighter[of].guard > 0
      /\ fighter[of].action = "Stunned" /\ seen[of].action # "Stunned" /\ Explained(of)
  BY DEF ParryEvents, Became, Watched, Glance, World, Shape, PageInv, FighterKnown
<1>2. of \notin broken
  BY <1>1 DEF World, GuardInv, Down
<1> QED
  BY <1>1, <1>2 DEF Explained

\* Who is seen knocked down was kicked or rolled over.
LEMMA ImpactHappened ==
  ASSUME World, PageInv, NEW by, NEW of \in Watched, NEW e \in ImpactEvents(by, of)
  PROVE  /\ e \in {Event("shove", by, of), Event("rollOver", by, of)}
         /\ \E d \in deeds : d.what \in {"shove", "roll"} /\ d.to = of
<1>1. /\ of \in Fighter /\ e \in {Event("shove", by, of), Event("rollOver", by, of)}
      /\ fighter[of].action = "Knockdown" /\ seen[of].action # "Knockdown" /\ Explained(of)
  BY DEF ImpactEvents, Became, Watched, Glance, World, Shape, PageInv, FighterKnown
<1> QED
  BY <1>1 DEF Explained, Done

\* A strike that is over had its windup and its blow: it began before the gap.
LEMMA RecoveryIsOld ==
  ASSUME World, PageInv, phase = "between", NEW i \in Fighter, IsRecovery(fighter[i].action)
  PROVE  ~Late(i) /\ ~JustNow(i)
<1>1. /\ gap \in Nat /\ gap <= LongestGap /\ LongestGap \in Nat /\ Ahead(i) = 0
  BY Bounds DEF PageInv, GapKnown, Ahead
<1>2. /\ StrikeAge(fighter[i]) \in Nat /\ StrikeAge(fighter[i]) >= LongestGap
  <2>1. StrikeAge(fighter[i]) = Duration[WindupOf[fighter[i].action]] + 1
    BY DEF StrikeAge, IsWindup, IsActive, IsRecovery
  <2>2. WindupOf[fighter[i].action] \in {"AttackWindup", "HeavyAttackWindup"}
    BY DEF WindupOf, IsRecovery
  <2>3. StrikeAge(fighter[i]) \in Nat
    BY FighterIs DEF World
  <2> QED
    BY <2>1, <2>2, <2>3, GapAssumption
<1> QED
  BY <1>1, <1>2 DEF Late, JustNow

\* Who is told to have dodged a strike took nothing from it.
LEMMA DodgeHappened ==
  ASSUME World, PageInv, phase = "between", NEW e \in DodgeEvents(pending)
  PROVE  e.kind = "dodge" /\ Happened(e)
<1> DEFINE p == pending
           a == p.attacker
           b == p.defender
<1>1. /\ p # NoDodge /\ e = Event("dodge", b, a) /\ IsRecovery(Glance(a).action)
      /\ Glance(b).hp = p.hp /\ Glance(b).guard = p.guard
  BY DEF DodgeEvents, Dodges, Stable, Outcome
<1>2. b \in Fighter /\ p.hp = seen[b].hp /\ p.hp > 0 /\ p.guard = seen[b].guard
  BY <1>1 DEF PageInv, Waiting
<1>3. /\ e.kind = "dodge" /\ e.by = b /\ e.of = a
  BY <1>1 DEF Event
<1>4. a \in Fighter /\ IsRecovery(fighter[a].action)
  BY <1>1 DEF Glance, Unseen, IsRecovery, World, Shape
<1>5. b \in present /\ fighter[b].hp = p.hp /\ fighter[b].guard = p.guard
  <2>1. b \in present
    BY <1>1, <1>2 DEF Glance, Unseen
  <2> QED
    BY <1>1, <2>1 DEF Glance
<1>6. SeenAlive(b)
  BY <1>2, <1>5 DEF SeenAlive
<1> HIDE DEF a, b
<1>7. ASSUME NEW d \in deeds, d.by = a, d.to = b,
             d.what \in {"hit", "kill", "block", "break", "parried"}
      PROVE  FALSE
  <2>1. Shows(d) /\ ~Late(a) /\ ~JustNow(a)
    BY <1>4, RecoveryIsOld DEF PageInv
  <2>2. fighter[b].hp \in Nat /\ fighter[b].guard \in Nat
    BY <1>2, FighterIs DEF World
  <2> QED
    BY <1>2, <1>5, <1>6, <1>7, <2>1, <2>2 DEF Shows
<1> QED
  BY <1>3, <1>7 DEF Happened

\* Whose deed it was is open where the page takes it from who stood by.
HappenedInCrowd(e) ==
  CASE e.kind = "parry" -> \E d \in deeds : d.what = "parried" /\ d.by = e.of
    [] e.kind \in {"shove", "rollOver"} -> Done({"shove", "roll"}, e.of)
    [] OTHER -> Happened(e)

\* Everything that two snapshots suggest, told or not, did happen; to whom it is
\* attributed aside (collectEntityEvents, collectDodgeEvents).
CrowdIsTrue == phase = "between" => \A e \in Candidates : HappenedInCrowd(e)

\* The opponent is another one.
LEMMA OpponentIs ==
  ASSUME Opponent \in Watched, World
  PROVE  Opponent \in Fighter /\ Opponent # Own
<1>1. NoFighter \notin Fighter /\ Watched \subseteq Fighter
  <2>1. NoFighter \notin Fighter
    BY CombatAssumption DEF NoFighter
  <2>2. Watched \subseteq Fighter
    BY DEF Watched, World, Shape
  <2> QED
    BY <2>1, <2>2
<1>2. Cardinality(Peers) = 1 /\ Opponent = CHOOSE i \in Peers : TRUE
  BY <1>1 DEF Opponent
<1>3. Peers # {}
  BY <1>2, FS_EmptySet
<1>4. Opponent \in Peers
  BY <1>2, <1>3
<1> QED
  BY <1>1, <1>4 DEF Peers

\* What a candidate may be.
LEMMA CandidateIs ==
  ASSUME World, NEW e \in Candidates
  PROVE  \/ \E i \in Watched : e \in EntityEvents(i)
         \/ \E by, of \in Watched : by # of /\ e \in ParryEvents(by, of)
         \/ \E by, of \in Watched : by # of /\ e \in ImpactEvents(by, of)
         \/ e \in DodgeEvents(pending)
<1>1. \/ e \in UNION {EntityEvents(i) : i \in Watched}
      \/ /\ Own \in Watched
         /\ e \in UNION {ParryEvents(Own, i) \cup ParryEvents(i, Own) : i \in Watched \ {Own}}
      \/ /\ Own \in Watched /\ Opponent \in Watched
         /\ e \in ImpactEvents(Own, Opponent) \cup ImpactEvents(Opponent, Own)
      \/ e \in DodgeEvents(pending)
  <2> DEFINE alone == UNION {EntityEvents(i) : i \in Watched}
             parries ==
               UNION {ParryEvents(Own, i) \cup ParryEvents(i, Own) : i \in Watched \ {Own}}
             impacts == ImpactEvents(Own, Opponent) \cup ImpactEvents(Opponent, Own)
             dodges == DodgeEvents(pending)
  <2>1. Candidates =
          alone
          \cup (IF Own \notin Watched THEN {}
                ELSE parries \cup (IF Opponent \notin Watched THEN {} ELSE impacts))
          \cup (IF Own \in present /\ Opponent # NoFighter THEN dodges ELSE {})
    BY DEF Candidates
  <2> HIDE DEF alone, parries, impacts, dodges
  <2>2. \/ e \in alone
        \/ Own \in Watched /\ e \in parries
        \/ Own \in Watched /\ Opponent \in Watched /\ e \in impacts
        \/ e \in dodges
    <3>1. CASE Own \in Watched /\ Opponent \in Watched
      BY <2>1, <3>1
    <3>2. CASE Own \in Watched /\ Opponent \notin Watched
      BY <2>1, <3>2
    <3>3. CASE Own \notin Watched
      BY <2>1, <3>3
    <3> QED
      BY <3>1, <3>2, <3>3
  <2> QED
    BY <2>2 DEF alone, parries, impacts, dodges
<1>2. CASE e \in UNION {EntityEvents(i) : i \in Watched}
  BY <1>2
<1>3. CASE /\ Own \in Watched
           /\ e \in UNION {ParryEvents(Own, i) \cup ParryEvents(i, Own) : i \in Watched \ {Own}}
  <2>1. PICK i \in Watched \ {Own} : e \in ParryEvents(Own, i) \/ e \in ParryEvents(i, Own)
    BY <1>3
  <2>2. \E by, of \in Watched : by # of /\ e \in ParryEvents(by, of)
    BY <1>3, <2>1
  <2> QED
    BY <2>2
<1>4. CASE /\ Own \in Watched /\ Opponent \in Watched
           /\ e \in ImpactEvents(Own, Opponent) \cup ImpactEvents(Opponent, Own)
  BY <1>4, OpponentIs
<1>5. CASE e \in DodgeEvents(pending)
  BY <1>5
<1> QED
  BY <1>1, <1>2, <1>3, <1>4, <1>5

\* All of them happened.
LEMMA CandidatesHappened ==
  ASSUME World, PageInv, phase = "between", NEW e \in Candidates
  PROVE  HappenedInCrowd(e)
<1>1. ASSUME NEW i \in Watched, e \in EntityEvents(i) PROVE HappenedInCrowd(e)
  <2>1. e.kind \notin {"parry", "shove", "rollOver"} /\ Happened(e)
    BY <1>1, EntityHappened
  <2> QED
    BY <2>1 DEF HappenedInCrowd
<1>2. ASSUME NEW by \in Watched, NEW of \in Watched, e \in ParryEvents(by, of)
      PROVE  HappenedInCrowd(e)
  <2>1. e = Event("parry", by, of) /\ \E d \in deeds : d.what = "parried" /\ d.by = of
    BY <1>2, ParryHappened
  <2>2. e.kind = "parry" /\ e.of = of
    BY <2>1 DEF Event
  <2> QED
    BY <2>1, <2>2 DEF HappenedInCrowd
<1>3. ASSUME NEW by \in Watched, NEW of \in Watched, e \in ImpactEvents(by, of)
      PROVE  HappenedInCrowd(e)
  <2>1. /\ e \in {Event("shove", by, of), Event("rollOver", by, of)}
        /\ \E d \in deeds : d.what \in {"shove", "roll"} /\ d.to = of
    BY <1>3, ImpactHappened
  <2>2. e.kind \in {"shove", "rollOver"} /\ e.of = of
    BY <2>1 DEF Event
  <2> QED
    BY <2>1, <2>2 DEF HappenedInCrowd, Done
<1>4. CASE e \in DodgeEvents(pending)
  BY <1>4, DodgeHappened DEF HappenedInCrowd
<1> QED
  BY <1>1, <1>2, <1>3, <1>4, CandidateIs

\* In a duel there is only one other to have done it.
LEMMA DuelHappened ==
  ASSUME FighterCount = 2, World, PageInv, phase = "between", NEW e \in Candidates
  PROVE  Happened(e)
<1>0. /\ \A i, j, k \in Fighter : i # j /\ k # i => k = j
      /\ Watched \subseteq Fighter /\ DeedsKnown
  <2>1. \A i, j, k \in Fighter : i # j /\ k # i => k = j
    BY CombatAssumption
  <2>2. Watched \subseteq Fighter
    BY DEF Watched, World, Shape
  <2> QED
    BY <2>1, <2>2 DEF PageInv
<1>1. ASSUME NEW i \in Watched, e \in EntityEvents(i) PROVE Happened(e)
  BY <1>1, EntityHappened
<1>2. ASSUME NEW by \in Watched, NEW of \in Watched, by # of, e \in ParryEvents(by, of)
      PROVE  Happened(e)
  <2>1. e = Event("parry", by, of) /\ \E d \in deeds : d.what = "parried" /\ d.by = of
    BY <1>2, ParryHappened
  <2>2. PICK d \in deeds : d.what = "parried" /\ d.by = of
    BY <2>1
  <2>3. d.to = by /\ d = Deed(d.what, d.by, d.to)
    BY <1>0, <1>2, <2>2 DEF DeedsKnown
  <2>4. Deed("parried", of, by) \in deeds
    BY <2>2, <2>3
  <2>5. e.kind = "parry" /\ e.by = by /\ e.of = of
    BY <2>1 DEF Event
  <2> QED
    BY <2>4, <2>5 DEF Happened
<1>3. ASSUME NEW by \in Watched, NEW of \in Watched, by # of, e \in ImpactEvents(by, of)
      PROVE  Happened(e)
  <2>1. /\ e \in {Event("shove", by, of), Event("rollOver", by, of)}
        /\ \E d \in deeds : d.what \in {"shove", "roll"} /\ d.to = of
    BY <1>3, ImpactHappened
  <2>2. PICK d \in deeds : d.what \in {"shove", "roll"} /\ d.to = of
    BY <2>1
  <2>3. d.by = by
    BY <1>0, <1>3, <2>2 DEF DeedsKnown
  <2>4. e.kind \in {"shove", "rollOver"} /\ e.by = by /\ e.of = of
    BY <2>1 DEF Event
  <2> QED
    BY <2>2, <2>3, <2>4 DEF Happened
<1>4. CASE e \in DodgeEvents(pending)
  BY <1>4, DodgeHappened
<1> QED
  BY <1>1, <1>2, <1>3, <1>4, CandidateIs

\* Whatever two snapshots suggest of any number of fighters did happen in between, however
\* many snapshots were lost and whoever joined or left: each death, hit, block, broken
\* guard, stun and dodge as it is told, each parry, shove and roll-over up to whose
\* it was (collectEntityEvents, collectParryEvents, collectControlImpactEvents).
THEOREM WhatIsToldHappened == FeedbackSpec => []CrowdIsTrue
<1>1. World /\ PageInv => CrowdIsTrue
  BY CandidatesHappened DEF CrowdIsTrue
<1> QED
  BY <1>1, PageInvariant, PTL

\* In a duel the page tells a player nothing of the fight that was not done, by whom and to
\* whom it says (createCombatReadabilityTracker).
THEOREM WhatIsToldIsTrue ==
  ASSUME FighterCount = 2
  PROVE  FeedbackSpec => []FeedbackIsTrue
<1>1. World /\ PageInv => FeedbackIsTrue
  BY DuelHappened DEF FeedbackIsTrue, Told
<1> QED
  BY <1>1, PageInvariant, PTL
=============================================================================

-------------------------- MODULE FighterActions --------------------------
(***************************************************************************)
(* What one fighter does in one tick of the authoritative simulation: the  *)
(* timed actions, the buffer of a light recovery, the charge of a heavy    *)
(* attack, and the stamina that pays for all of it.                        *)
(*                                                                         *)
(* Time is counted in ticks.  A deadline of the program is kept as the     *)
(* ticks that are left until it.  The three light attacks, which differ    *)
(* only in the lane they sweep, are one; positions and facings are left    *)
(* to the module that lets fighters meet.                                  *)
(***************************************************************************)
EXTENDS Integers

CONSTANTS
  Fighter,       \* the net ids, in the order of the fighter vector
  Duration,      \* the ticks of each timed action
  FeintWindow,   \* the ticks of a light or heavy windup that a feint may cancel
  BufferWindow,  \* the last ticks of a light recovery, which remember a press
  ParryWindow,   \* the first ticks of a block, which parry
  Cost,          \* the stamina that an action takes
  StaminaMax, StaminaDelay, GuardMax, HpMax, DashCooldown

Pressed == {"attack", "heavy", "block", "dodge", "kick", "jump", "dash"}

\* The input of a tick: the buttons that are down.  "run" and "move" are held only;
\* a move is one past the half of the stick, where the thresholds of the code agree.
Button == Pressed \cup {"run", "move"}

Windup == {"AttackWindup", "RunningAttackWindup", "HeavyAttackWindup", "KickWindup",
           "JumpAttackWindup"}

Active == {"AttackActive", "RunningAttackActive", "HeavyAttackActive", "KickActive",
           "JumpAttackActive"}

Recovery == {"AttackRecovery", "RunningAttackRecovery", "HeavyAttackRecovery",
             "KickRecovery", "JumpAttackRecovery", "DodgeRecovery", "FeintRecovery"}

Timed == Windup \cup Active \cup Recovery \cup {"Dodge", "Dash", "Jump"}

Action == Timed \cup {"Idle", "Block", "Stunned", "Knockdown", "Dead"}

Buffer == {"attack", "block", "dodge", "kick", "jump", "jumpAttack"}

ASSUME FighterAssumption ==
  /\ Duration \in [Timed -> Nat \ {0}]
  /\ \A a \in Windup : Duration[a] > 1   \* no windup begins and ends in one tick
  /\ FeintWindow \in [{"AttackWindup", "HeavyAttackWindup"} -> Nat]
  /\ BufferWindow \in Nat /\ ParryWindow \in Nat
  /\ Cost \in [{"dodge", "dash", "kick", "jump", "jumpAttack", "feint", "running"} -> Nat]
  /\ StaminaMax \in Nat /\ StaminaDelay \in Nat /\ GuardMax \in Nat
  /\ HpMax \in Nat \ {0} /\ DashCooldown \in Nat

FighterState ==
  [action : Action, elapsed : Nat, duration : Nat, charging : BOOLEAN,
   down : SUBSET Pressed, buffered : SUBSET Buffer,
   hits : SUBSET Fighter, rolled : SUBSET Fighter,
   hp : 0 .. HpMax, guard : 0 .. GuardMax, stamina : 0 .. StaminaMax,
   guardWait : Nat, staminaWait : Nat, dashWait : Nat, respawnWait : Nat, kills : Nat]

NewFighter ==
  [action |-> "Idle", elapsed |-> 0, duration |-> 0, charging |-> FALSE,
   down |-> {}, buffered |-> {}, hits |-> {}, rolled |-> {},
   hp |-> HpMax, guard |-> GuardMax, stamina |-> StaminaMax,
   guardWait |-> 0, staminaWait |-> 0, dashWait |-> 0, respawnWait |-> 0, kills |-> 0]
-----------------------------------------------------------------------------
\* set_action that leaves the buffer of a recovery to whoever comes next.
SetActionKeepingBuffer(f, action, duration) ==
  [f EXCEPT !.action = action, !.elapsed = 0, !.duration = duration,
            !.charging = @ /\ action = "HeavyAttackWindup"]

\* set_action: every action but a light recovery forgets the buffer, and every
\* action but a heavy windup the charge.
SetAction(f, action, duration) ==
  [f EXCEPT !.action = action, !.elapsed = 0, !.duration = duration,
            !.charging = @ /\ action = "HeavyAttackWindup",
            !.buffered = IF action = "AttackRecovery" THEN @ ELSE {}]

Start(f, action) == SetAction(f, action, Duration[action])

Rest(f) == SetAction(f, "Idle", 0)

RaiseGuard(f) == SetAction(f, "Block", 0)

\* A windup that keeps the targets of the swing before.
BeginSwingStale(f, windup) == Start(f, windup)

\* begin_light_attack, begin_kick, begin_jump_attack: a new swing may hit everyone.
BeginSwing(f, windup) == Start([f EXCEPT !.hits = {}], windup)

BeginDodge(f) == Start([f EXCEPT !.rolled = {}], "Dodge")

CanSpend(f, amount) == f.stamina >= amount

\* spend_stamina, of an amount that the fighter has.
Spend(f, amount) ==
  [f EXCEPT !.stamina = @ - amount, !.staminaWait = StaminaDelay]

JumpAttackCost == Cost["jump"] + Cost["jumpAttack"]

\* The stamina that a buffered press will take.
BufferCost(press) ==
  IF press \in {"dodge", "kick", "jump"} THEN Cost[press]
  ELSE IF press = "jumpAttack" THEN JumpAttackCost ELSE 0

\* finish_light_recovery: the buffered press acts, if it can be paid.
FinishLightRecovery(f) ==
  LET has(press) == press \in f.buffered
      pay(press, g) == IF CanSpend(f, BufferCost(press)) THEN g ELSE Rest(f)
      paid(press) == Spend(f, BufferCost(press))
  IN IF has("kick")            THEN pay("kick", BeginSwing(paid("kick"), "KickWindup"))
     ELSE IF has("jumpAttack") THEN pay("jumpAttack",
                                        BeginSwing(paid("jumpAttack"), "JumpAttackWindup"))
     ELSE IF has("jump")       THEN pay("jump", Start(paid("jump"), "Jump"))
     ELSE IF has("dodge")      THEN pay("dodge", BeginDodge(paid("dodge")))
     ELSE IF has("block")      THEN RaiseGuard(f)
     ELSE IF has("attack")     THEN BeginSwing(f, "AttackWindup")
     ELSE Rest(f)

\* A chord whose kick, when it is denied, leaves the light press to act.
ChordLeakingKick(edges, press) == press # "kick" /\ {press, "attack"} \subseteq edges

\* A light press that goes with a press that outranks it.
Chord(edges, press) == {press, "attack"} \subseteq edges

\* A press of a late recovery replaces what the buffer held.  A light press that
\* goes with a press the fighter cannot pay is lost with it, and an earlier one
\* stays.
BufferPress(f, edges) ==
  LET hold(press) == [f EXCEPT !.buffered = {press}]
      able(press) == CanSpend(f, BufferCost(press))
  IN IF f.duration - f.elapsed > BufferWindow          THEN f
     ELSE IF "block" \in edges                         THEN hold("block")
     ELSE IF "dodge" \in edges /\ able("dodge")        THEN hold("dodge")
     ELSE IF Chord(edges, "dodge")                     THEN f
     ELSE IF Chord(edges, "jump") /\ able("jumpAttack") THEN hold("jumpAttack")
     ELSE IF Chord(edges, "jump") /\ ~able("jump")     THEN f
     ELSE IF "jump" \in edges /\ able("jump")          THEN hold("jump")
     ELSE IF "kick" \in edges /\ able("kick")          THEN hold("kick")
     ELSE IF Chord(edges, "kick")                      THEN f
     ELSE IF "attack" \in edges                        THEN hold("attack")
     ELSE f
-----------------------------------------------------------------------------
Running(input) == {"run", "move"} \subseteq input

CanFeint(f, input) ==
  /\ f.action \in {"AttackWindup", "HeavyAttackWindup"}
  /\ FeintWindow[f.action] > 0 /\ f.elapsed <= FeintWindow[f.action]
  /\ "block" \in input
  /\ CanSpend(f, Cost["feint"])

\* The attack that the release of a charge turns into.
ReleaseLight(f, input) ==
  IF "jump" \in input /\ CanSpend(f, JumpAttackCost)
  THEN BeginSwing(Spend(f, JumpAttackCost), "JumpAttackWindup")
  ELSE IF ~Running(input) THEN BeginSwing(f, "AttackWindup")
  ELSE IF CanSpend(f, Cost["running"])
  THEN BeginSwing(Spend(f, Cost["running"]), "RunningAttackWindup")
  ELSE Rest(f)

\* A charge whose release as a heavy attack waits for the rest of the windup.
ReleaseChargeWaiting(f, input) ==
  LET g == [f EXCEPT !.charging = FALSE]
  IN IF {"attack", "heavy"} \subseteq input THEN f
     ELSE IF "heavy" \in input              THEN g
     ELSE IF "attack" \in input             THEN ReleaseLight(g, input)
     ELSE Rest(g)

\* The hold of a charge: still down, released when ready, released early, or lost.
ReleaseCharge(f, input) ==
  LET g == [f EXCEPT !.charging = FALSE]
  IN IF {"attack", "heavy"} \subseteq input THEN f
     ELSE IF "heavy" \in input /\ f.elapsed >= Duration["HeavyAttackWindup"]
       THEN g
     ELSE IF {"attack", "heavy"} \cap input # {} THEN ReleaseLight(g, input)
     ELSE Rest(g)

\* From rest: a press that outranks a light attack takes it along, paid or not.
ActFromIdle(f, input, edges) ==
  LET light  == "attack" \in edges
      able(a) == a \in edges /\ CanSpend(f, Cost[a])
  IN IF Chord(edges, "block")                           THEN RaiseGuard(f)
     ELSE IF able("dodge")                              THEN BeginDodge(Spend(f, Cost["dodge"]))
     ELSE IF Chord(edges, "dodge")                      THEN f
     ELSE IF able("dash") /\ f.dashWait = 0 /\ "move" \in input
       THEN Start([Spend(f, Cost["dash"]) EXCEPT !.dashWait = DashCooldown], "Dash")
     ELSE IF able("kick")             THEN BeginSwing(Spend(f, Cost["kick"]), "KickWindup")
     ELSE IF Chord(edges, "kick")                       THEN f
     ELSE IF Chord(edges, "jump") /\ CanSpend(f, JumpAttackCost)
       THEN BeginSwing(Spend(f, JumpAttackCost), "JumpAttackWindup")
     ELSE IF able("jump")                               THEN Start(Spend(f, Cost["jump"]), "Jump")
     ELSE IF Chord(edges, "jump")                       THEN f
     ELSE IF light /\ "heavy" \in input
       THEN [BeginSwing(f, "HeavyAttackWindup") EXCEPT !.charging = TRUE]
     ELSE IF light /\ Running(input)
       THEN IF CanSpend(f, Cost["running"])
            THEN BeginSwing(Spend(f, Cost["running"]), "RunningAttackWindup") ELSE f
     ELSE IF "heavy" \in edges                          THEN BeginSwing(f, "HeavyAttackWindup")
     ELSE IF light                                      THEN BeginSwing(f, "AttackWindup")
     ELSE IF "block" \in input                          THEN RaiseGuard(f)
     ELSE f

\* Behind a guard only a roll may start.
ActFromBlock(f, input, edges) ==
  IF "dodge" \in edges /\ CanSpend(f, Cost["dodge"]) THEN BeginDodge(Spend(f, Cost["dodge"]))
  ELSE IF Chord(edges, "dodge") \/ "block" \in input THEN f
  ELSE Rest(f)

\* begin_requested_action.
BeginRequestedAction(f, input, edges) ==
  IF f.action = "AttackRecovery" /\ edges \cap {"attack", "block", "dodge", "kick", "jump"} # {}
  THEN BufferPress(f, edges)
  ELSE IF CanFeint(f, input)
  THEN Start([Spend(f, Cost["feint"]) EXCEPT !.hits = {}], "FeintRecovery")
  ELSE IF f.charging THEN ReleaseCharge(f, input)
  ELSE IF f.action = "Jump" /\ "attack" \in edges /\ CanSpend(f, Cost["jumpAttack"])
  THEN BeginSwing(Spend(f, Cost["jumpAttack"]), "JumpAttackWindup")
  ELSE IF "heavy" \in edges /\ f.action \in {"AttackWindup", "RunningAttackWindup"}
          /\ f.elapsed < Duration[f.action]
  THEN BeginSwing(f, "HeavyAttackWindup")
  ELSE IF f.action = "Idle"  THEN ActFromIdle(f, input, edges)
  ELSE IF f.action = "Block" THEN ActFromBlock(f, input, edges)
  ELSE f
-----------------------------------------------------------------------------
\* What an action that has run its time turns into.
Follow ==
  [AttackWindup |-> "AttackActive", AttackActive |-> "AttackRecovery",
   RunningAttackWindup |-> "RunningAttackActive",
   RunningAttackActive |-> "RunningAttackRecovery",
   HeavyAttackWindup |-> "HeavyAttackActive", HeavyAttackActive |-> "HeavyAttackRecovery",
   KickWindup |-> "KickActive", KickActive |-> "KickRecovery",
   JumpAttackWindup |-> "JumpAttackActive", JumpAttackActive |-> "JumpAttackRecovery",
   Dodge |-> "DodgeRecovery"]

Complete(f) ==
  IF f.action = "AttackRecovery" THEN FinishLightRecovery(f)
  ELSE IF f.action \in DOMAIN Follow THEN Start(f, Follow[f.action])
  ELSE Rest(f)

\* The age of a block is told apart only as far as its parry window reaches.
BlockAge(n) == IF n > ParryWindow THEN ParryWindow + 1 ELSE n

\* advance_action: a charge waits at its full windup, a block ends with the button,
\* and everything else when its time is over.
AdvanceAction(f, input) ==
  LET older == [f EXCEPT !.elapsed = @ + 1]
  IN IF f.action \in {"Idle", "Dead"} THEN f
     ELSE IF f.charging /\ f.action = "HeavyAttackWindup"
     THEN IF f.elapsed < Duration["HeavyAttackWindup"] THEN older ELSE f
     ELSE IF f.action = "Block"
     THEN IF "block" \in input THEN [f EXCEPT !.elapsed = BlockAge(@ + 1)] ELSE Rest(f)
     ELSE IF older.elapsed < f.duration THEN older
     ELSE Complete(older)

\* update_stamina: a sprint takes a unit a tick, and rest gives one back.
UpdateStamina(f, input) ==
  IF f.action = "Idle" /\ Running(input) /\ f.stamina > 0
  THEN Spend(f, 1)
  ELSE IF f.staminaWait = 0 /\ f.stamina < StaminaMax THEN [f EXCEPT !.stamina = @ + 1]
  ELSE f

RegenerateGuard(f) ==
  IF f.action # "Block" /\ f.guardWait = 0 /\ f.guard < GuardMax
  THEN [f EXCEPT !.guard = @ + 1] ELSE f

\* The tick of a living fighter.
LivingTick(f, input) ==
  LET edges == (input \cap Pressed) \ f.down
      begun == BeginRequestedAction(f, input, edges)
      moved == UpdateStamina(AdvanceAction(begun, input), input)
  IN RegenerateGuard([moved EXCEPT !.down = input \cap Pressed])

OneLess(n) == IF n = 0 THEN 0 ELSE n - 1

\* A clock that stands still for the dead.
ElapseForTheLiving(f) ==
  IF f.action = "Dead" THEN f
  ELSE [f EXCEPT !.guardWait = OneLess(@), !.staminaWait = OneLess(@), !.dashWait = OneLess(@)]

\* A tick brings every deadline nearer.
Elapse(f) ==
  [f EXCEPT !.guardWait = OneLess(@), !.staminaWait = OneLess(@),
            !.dashWait = OneLess(@), !.respawnWait = OneLess(@)]

\* respawn_fighter: what is not named here, the dash and the guard deadline and the
\* kills, outlives a death.
Respawn(f) ==
  Rest([f EXCEPT !.hp = HpMax, !.guard = GuardMax, !.stamina = StaminaMax,
                 !.respawnWait = 0, !.hits = {}, !.rolled = {}, !.staminaWait = 0,
                 !.down = {}, !.buffered = {}])
=============================================================================

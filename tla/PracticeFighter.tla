------------------------- MODULE PracticeFighter -------------------------
(***************************************************************************)
(* What one fighter does in one step of the offline practice, which runs   *)
(* its own copy of the rules, src/combat/model.mjs, in the browser.  The   *)
(* actions and the presses are those of FighterActions, whose constants    *)
(* also stand for the object COMBAT; every operator here is translated     *)
(* from the browser's code, so that the two copies can be compared.        *)
(***************************************************************************)
EXTENDS FighterActions

\* setAction: a light recovery keeps the buffer, a heavy windup the charge.
Enter(p, action, duration) ==
  [p EXCEPT !.action = action, !.elapsed = 0, !.duration = duration,
            !.charging = IF action = "HeavyAttackWindup" THEN @ ELSE FALSE,
            !.buffered = IF action = "AttackRecovery" THEN @ ELSE {}]

Perform(p, action) == Enter(p, action, Duration[action])

StandBy(p) == Enter(p, "Idle", 0)

\* beginLightAttack, beginKick, beginJumpAttack and their like.
Swing(p, windup) == Perform([p EXCEPT !.buffered = {}, !.hits = {}], windup)

\* beginDodge.
RollAway(p) == Perform([p EXCEPT !.buffered = {}, !.rolled = {}], "Dodge")

HoldGuard(p) == Enter([p EXCEPT !.buffered = {}], "Block", 0)

Affords(p, amount) == p.stamina >= amount

\* spendStamina, once it is known to return true.
Pay(p, amount) == [p EXCEPT !.stamina = @ - amount, !.staminaWait = StaminaDelay]

\* The order in which finishLightRecovery looks for a remembered press.
Rank == [kick |-> 1, jumpAttack |-> 2, jump |-> 3, dodge |-> 4, block |-> 5, attack |-> 6]

Price == [kick |-> Cost["kick"], jumpAttack |-> Cost["jump"] + Cost["jumpAttack"],
          jump |-> Cost["jump"], dodge |-> Cost["dodge"], block |-> 0, attack |-> 0]

\* The action of a press that has been paid.
Serve(p, press) ==
  CASE press = "kick"       -> Swing(p, "KickWindup")
    [] press = "jumpAttack" -> Swing(p, "JumpAttackWindup")
    [] press = "jump"       -> Perform(p, "Jump")
    [] press = "dodge"      -> RollAway(p)
    [] press = "block"      -> HoldGuard(p)
    [] press = "attack"     -> Swing(p, "AttackWindup")

\* A remembered press that nothing is taken for.
ServeForFree(p, press) == Serve(p, press)

PayAndServe(p, press) ==
  IF press \in {"block", "attack"} THEN Serve(p, press)
  ELSE IF Affords(p, Price[press]) THEN Serve(Pay(p, Price[press]), press)
  ELSE StandBy(p)

\* finishLightRecovery.
LeaveRecovery(p) ==
  IF p.buffered = {} THEN StandBy(p)
  ELSE PayAndServe(p, CHOOSE press \in p.buffered :
                        \A other \in p.buffered : Rank[press] <= Rank[other])

\* The presses of a light recovery, the first of which that applies decides what the
\* buffer holds: nobody (the buffer stays), or one press.
Remember(p, pressed) ==
  LET late(button) == button \in pressed /\ p.duration - p.elapsed <= BufferWindow
      with == "attack" \in pressed
      able(press) == Affords(p, Price[press])
      hold(press) == [p EXCEPT !.buffered = {press}]
  IN IF late("block") THEN hold("block")
     ELSE IF late("dodge") /\ (able("dodge") \/ with)
       THEN IF able("dodge") THEN hold("dodge") ELSE p
     ELSE IF late("jump") /\ with /\ able("jumpAttack") THEN hold("jumpAttack")
     ELSE IF late("jump") /\ with /\ ~able("jump")      THEN p
     ELSE IF late("jump") /\ able("jump")               THEN hold("jump")
     ELSE IF late("kick") /\ (able("kick") \/ with)
       THEN IF able("kick") THEN hold("kick") ELSE p
     ELSE IF late("attack") THEN hold("attack")
     ELSE p
-----------------------------------------------------------------------------
Sprinting(input) == "run" \in input /\ "move" \in input

\* The window in which a block cancels a windup; none for the other actions.
FeintTime(p) ==
  IF p.action \in {"AttackWindup", "HeavyAttackWindup"} THEN FeintWindow[p.action] ELSE 0

RunningStrike(p) == Swing(Pay(p, Cost["running"]), "RunningAttackWindup")

\* A charge whose hold is over.  A heavy release keeps the windup, which goes on to
\* its end, whatever is left of it.
EndCharge(p, input) ==
  LET q == [p EXCEPT !.charging = FALSE]
  IN IF "heavy" \in input THEN q
     ELSE IF "attack" \notin input THEN StandBy(q)
     ELSE IF "jump" \in input /\ Affords(q, Price["jumpAttack"])
       THEN Swing(Pay(q, Price["jumpAttack"]), "JumpAttackWindup")
     ELSE IF ~Sprinting(input) THEN Swing(q, "AttackWindup")
     ELSE IF Affords(q, Cost["running"]) THEN RunningStrike(q)
     ELSE StandBy(q)

\* From rest or from behind a guard, in the order of the code.  What a press with the
\* light attack cannot pay, it takes along.
ChooseAction(p, input, pressed) ==
  LET idle == p.action = "Idle"
      with == "attack" \in pressed
      fresh(button) == button \in pressed /\ idle
      pays(button) == fresh(button) /\ Affords(p, Cost[button])
  IN IF fresh("block") /\ with THEN HoldGuard(p)
     ELSE IF "dodge" \in pressed /\ Affords(p, Cost["dodge"])
       THEN RollAway(Pay(p, Cost["dodge"]))
     ELSE IF "dodge" \in pressed /\ with THEN p
     ELSE IF fresh("dash") /\ p.dashWait = 0 /\ "move" \in input /\ Affords(p, Cost["dash"])
       THEN Perform([Pay(p, Cost["dash"]) EXCEPT !.dashWait = DashCooldown], "Dash")
     ELSE IF pays("kick") THEN Swing(Pay(p, Cost["kick"]), "KickWindup")
     ELSE IF fresh("kick") /\ with THEN p
     ELSE IF fresh("jump") /\ with /\ Affords(p, Price["jumpAttack"])
       THEN Swing(Pay(p, Price["jumpAttack"]), "JumpAttackWindup")
     ELSE IF pays("jump") THEN Perform(Pay(p, Cost["jump"]), "Jump")
     ELSE IF fresh("jump") /\ with THEN p
     ELSE IF idle /\ with /\ "heavy" \in input
       THEN [Swing(p, "HeavyAttackWindup") EXCEPT !.charging = TRUE]
     ELSE IF idle /\ with /\ Sprinting(input)
       THEN IF Affords(p, Cost["running"]) THEN RunningStrike(p) ELSE p
     ELSE IF fresh("heavy") THEN Swing(p, "HeavyAttackWindup")
     ELSE IF idle /\ with   THEN Swing(p, "AttackWindup")
     ELSE IF "block" \in input THEN IF idle THEN HoldGuard(p) ELSE p
     ELSE IF idle THEN p ELSE StandBy(p)

\* beginRequestedAction.
Request(p, input, pressed) ==
  IF p.action = "AttackRecovery" /\ pressed \cap {"attack", "block", "dodge", "kick", "jump"} # {}
  THEN Remember(p, pressed)
  ELSE IF FeintTime(p) > 0 /\ "block" \in input /\ p.elapsed <= FeintTime(p)
          /\ Affords(p, Cost["feint"])
  THEN Perform([Pay(p, Cost["feint"]) EXCEPT !.hits = {}], "FeintRecovery")
  ELSE IF p.charging
  THEN IF {"attack", "heavy"} \subseteq input THEN p ELSE EndCharge(p, input)
  ELSE IF p.action = "Jump" /\ "attack" \in pressed /\ Affords(p, Cost["jumpAttack"])
  THEN Swing(Pay(p, Cost["jumpAttack"]), "JumpAttackWindup")
  ELSE IF "heavy" \in pressed /\ p.action \in {"AttackWindup", "RunningAttackWindup"}
          /\ p.elapsed < Duration[p.action]
  THEN Swing(p, "HeavyAttackWindup")
  ELSE IF p.action \in {"Idle", "Block"} THEN ChooseAction(p, input, pressed)
  ELSE p
-----------------------------------------------------------------------------
\* The switch at the end of advanceAction.
Finish(p) ==
  CASE p.action = "AttackRecovery" -> LeaveRecovery(p)
    [] p.action \in DOMAIN Follow  -> Perform(p, Follow[p.action])
    [] OTHER                       -> StandBy(p)

\* advanceAction.  How long a block has been up matters as far as its parry reaches.
Grow(p, input) ==
  LET q == [p EXCEPT !.elapsed = @ + 1]
      full == Duration["HeavyAttackWindup"]
  IN CASE p.action \in {"Idle", "Dead"} -> p
       [] p.action = "HeavyAttackWindup" /\ p.charging ->
            [q EXCEPT !.elapsed = IF @ > full THEN full ELSE @]
       [] p.action = "Block" ->
            IF "block" \notin input THEN StandBy(p)
            ELSE [q EXCEPT !.elapsed = IF @ > ParryWindow THEN ParryWindow + 1 ELSE @]
       [] OTHER -> IF q.elapsed < q.duration THEN q ELSE Finish(q)

\* updateStamina.
Breathe(p, input) ==
  IF Sprinting(input) /\ p.action = "Idle" /\ p.stamina > 0 THEN Pay(p, 1)
  ELSE [p EXCEPT !.stamina = IF p.staminaWait = 0 /\ @ < StaminaMax THEN @ + 1 ELSE @]

Recover(p) ==
  [p EXCEPT !.guard = IF p.action # "Block" /\ p.guardWait = 0 /\ @ < GuardMax
                      THEN @ + 1 ELSE @]

\* stepWorld, for one fighter that lives.
PracticeTick(p, input) ==
  LET pressed == {b \in input \cap Pressed : b \notin p.down}
      q == Breathe(Grow(Request(p, input, pressed), input), input)
  IN Recover([q EXCEPT !.down = input \cap Pressed])

\* The clock of the practice, as the steps that are left to each deadline.
Wait(p) ==
  LET less(n) == IF n > 0 THEN n - 1 ELSE 0
  IN [p EXCEPT !.guardWait = less(@), !.staminaWait = less(@), !.dashWait = less(@),
               !.respawnWait = less(@)]

\* respawnFighter.
ComeBack(p) ==
  StandBy([p EXCEPT !.hp = HpMax, !.guard = GuardMax, !.stamina = StaminaMax,
                    !.respawnWait = 0, !.hits = {}, !.rolled = {}, !.staminaWait = 0,
                    !.down = {}, !.buffered = {}])
=============================================================================

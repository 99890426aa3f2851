--------------------------- MODULE PracticeParity ---------------------------
(***************************************************************************)
(* The offline practice promises the fights of the server, from a second   *)
(* implementation of the rules, src/combat/model.mjs.  Here every step of  *)
(* the authoritative world is compared with what the practice makes of the *)
(* same fighters: the same buttons, and the same rolls and blows reaching  *)
(* and facing.  Two differences are known and left out by name: the early  *)
(* release of a charge as a heavy attack, which the practice lets ripen,   *)
(* and the longer stun of a guard that a heavy attack breaks.  The match,  *)
(* and so the count of the kills, is the server's alone.                   *)
(***************************************************************************)
EXTENDS Combat, PracticeFighter

\* COMBAT.block.guardBreakStunMs: one stun for every blow, as that of a light attack.
BreakStun == GuardBreakStun["AttackActive"]

\* The targets that resolveRollCollisions and resolveAttacks do not pass over.
MayTouch ==
  turn # other /\ fighter[turn].action = "Dodge" /\ fighter[other].action # "Dead"
  /\ other \notin fighter[turn].rolled

MayStrike ==
  turn # other /\ Profile \in Active /\ fighter[other].action # "Dead"
  /\ other \notin fighter[turn].hits

\* resolveRollCollisions, of a roller that touches its target.
Touched ==
  LET spent == [fighter EXCEPT ![turn].rolled = @ \cup {other}]
  IN IF fighter[other].action = "Knockdown" THEN spent
     ELSE [spent EXCEPT ![other] = Enter(@, "Knockdown", RollKnockdown)]

\* A blow on a guard that faces it: a parry, or a guard that holds or breaks.
Guarded(ps) ==
  LET p == ps[other]
      loss == GuardDamage[Profile]
      left == IF p.guard > loss THEN p.guard - loss ELSE 0
      late == IF BreakStun > GuardDelay THEN BreakStun ELSE GuardDelay
  IN IF p.elapsed <= ParryWindow
     THEN [ps EXCEPT ![other].guardWait = GuardDelay, ![turn] = Enter(@, "Stunned", ParryStun)]
     ELSE IF left > 0
     THEN [ps EXCEPT ![other] = [p EXCEPT !.guardWait = GuardDelay, !.guard = left]]
     ELSE [ps EXCEPT ![other] =
             Enter([p EXCEPT !.guardWait = late, !.guard = 0], "Stunned", BreakStun)]

\* A blow that lands.  Death does not go through setAction.
Wounded(p, damage) ==
  IF p.hp > damage THEN [p EXCEPT !.hp = @ - damage]
  ELSE [p EXCEPT !.hp = 0, !.action = "Dead", !.elapsed = 0, !.duration = 0,
                 !.buffered = @ \ {"attack"}, !.respawnWait = RespawnDelay]

\* isInvulnerable.
Rolls(p) == p.action = "Dodge" /\ p.elapsed <= DodgeWindow

\* A kick that shoves a fighter on the ground down again.
SafeInRoll == Rolls(fighter[other])

\* What a blow meets without effect: a roll, and, for a kick, a fighter on the ground.
Safe ==
  Rolls(fighter[other]) \/ (Profile = "KickActive" /\ fighter[other].action = "Knockdown")

\* resolveAttacks, of an attacker that reaches its target.
Struck(faced) ==
  LET marked == [fighter EXCEPT ![turn].hits = @ \cup {other}]
  IN IF Safe THEN marked
     ELSE IF fighter[other].action = "Block" /\ faced THEN Guarded(marked)
     ELSE IF Profile = "KickActive"
     THEN [marked EXCEPT ![other] = Enter(@, "Knockdown", KickKnockdown)]
     ELSE [marked EXCEPT ![other] = Wounded(@, Damage[Profile])]

\* The release of a charge as a heavy attack before its time, and not cut by a feint.
EarlyHeavyRelease(p, input) ==
  /\ p.charging
  /\ {"attack", "heavy"} \cap input = {"heavy"}
  /\ ~(FeintTime(p) > 0 /\ "block" \in input /\ p.elapsed <= FeintTime(p)
       /\ Affords(p, Cost["feint"]))
  /\ p.elapsed < Duration["HeavyAttackWindup"]
-----------------------------------------------------------------------------
\* The inputs that can have led to the buttons that are now down.
Given ==
  InputOf[turn] \cap {fighter'[turn].down \cup held : held \in SUBSET {"run", "move"}}

\* Given the same buttons, a player of the practice is in the same action, for the
\* same time, with the same stamina, charge and memory of a press as on the server:
\* what is learned in the practice is what the server does (stepWorld and
\* step_by_into).
PracticeActsAlike ==
  [][/\ BeginStep => fighter' = [i \in Fighter |-> Wait(fighter[i])]
     /\ ActDead /\ fighter[turn].respawnWait = 0 =>
          fighter' = [fighter EXCEPT ![turn] = ComeBack(@)]
     /\ \A input \in Given :
          ActLiving(input) /\ ~EarlyHeavyRelease(fighter[turn], input) =>
            fighter' = [fighter EXCEPT ![turn] = PracticeTick(@, input)]]_vars

Uncounted(fighters) == [i \in Fighter |-> [fighters[i] EXCEPT !.kills = 0]]

\* Whatever a roll or a blow does to anyone on the server, it does to the same two
\* fighters in the practice: who falls, whose guard holds, who is stunned or dies, and
\* whom the same swing can still meet (resolveRollCollisions, resolveAttacks).
PracticeFightsAlike ==
  [][/\ phase = "roll" /\ fighter' # fighter => MayTouch /\ fighter' = Touched
     /\ phase = "attack" /\ fighter' # fighter =>
          /\ MayStrike
          /\ \E faced \in BOOLEAN :
               \/ Uncounted(fighter') = Uncounted(Struck(faced))
               \/ GuardBreak /\ GuardBreakStun[Profile] # BreakStun]_vars
=============================================================================

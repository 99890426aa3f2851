---------------------------- MODULE MCCombatDuel ----------------------------
(* A duel and what its page tells of it: one fighter attacks, kicks and rolls, *)
(* the other blocks and rolls.                                                 *)
EXTENDS CombatFeedback, PracticeParity, MCActions

MCFighter == 1 .. FighterCount

FreeCost == [a \in DOMAIN MCCost |-> 0]

MCDamage == [a \in Active |-> IF a = "KickActive" THEN 0
                              ELSE IF a = "HeavyAttackActive" THEN 2 ELSE 1]

MCGuardDamage == [a \in Active |-> 1]

MCGuardBreakStun == [a \in Active |-> IF a = "HeavyAttackActive" THEN 6 ELSE 5]

\* A swing that can meet its target twice, and a roll that can roll on.
DuelDuration == Lasting([AttackActive |-> 2, Dodge |-> 3])

DuelInput ==
  [i \in MCFighter |-> IF i = 1 THEN {{}, {"attack"}, {"kick"}, {"dodge"}}
                       ELSE {{}, {"block"}, {"dodge"}}]
=============================================================================

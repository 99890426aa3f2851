------------------------------ MODULE MCCombat ------------------------------
(* Small worlds of Combat: one fighter with all of its buttons, and a match   *)
(* of two.  Costs, durations and damages keep the order of those of           *)
(* simulation.rs, not their size.                                             *)
EXTENDS PracticeParity, MCActions

MCFighter == 1 .. FighterCount

FreeCost == [a \in DOMAIN MCCost |-> 0]

MCDamage == [a \in Active |-> IF a = "KickActive" THEN 0
                              ELSE IF a = "HeavyAttackActive" THEN 2 ELSE 1]

\* As in simulation.rs, a kick takes less of a guard than a light attack.
MCGuardDamage == [a \in Active |-> IF a = "KickActive" THEN 1 ELSE 2]

MCGuardBreakStun == [a \in Active |-> IF a = "HeavyAttackActive" THEN 3 ELSE 2]

\* Every combination of up to three presses or of two in a sprint.
ControlInput ==
  [i \in MCFighter |-> {b \in SUBSET Button :
     Cardinality(b \ {"run", "move"}) <= 2 \/ Cardinality(b) <= 3}]

\* One that kicks and rolls as well, and one that attacks and blocks.
BrawlInput == [i \in MCFighter |-> IF i = 1 THEN {{}, {"kick"}, {"dodge"}}
                                   ELSE {{}, {"attack"}, {"block"}}]

\* A roll that lasts long enough to meet somebody.
BrawlDuration == Lasting([Dodge |-> 2])
=============================================================================

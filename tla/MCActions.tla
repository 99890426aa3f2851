------------------------------ MODULE MCActions ------------------------------
(* Actions as short as they can be, at prices in the order of those of the code. *)
EXTENDS FighterActions

\* Everything is as short as it can be, but what a run is about.
Lasting(longer) ==
  [a \in Timed |-> IF a \in DOMAIN longer THEN longer[a] ELSE IF a \in Windup THEN 2 ELSE 1]

ControlDuration ==
  Lasting([HeavyAttackWindup |-> 3,
              AttackRecovery |-> 3, Jump |-> 2])

ShortDuration == Lasting(<<>>)

MCFeintWindow == [AttackWindup |-> 1, HeavyAttackWindup |-> 2]

MCCost == [dodge |-> 3, dash |-> 2, kick |-> 2, jump |-> 1, jumpAttack |-> 1, feint |-> 1,
           running |-> 1]
=============================================================================

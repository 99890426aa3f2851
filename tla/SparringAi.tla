---------------------------- MODULE SparringAi ----------------------------
(***************************************************************************)
(* The sparring partner of the offline practice: in every step it looks at *)
(* the player and at itself and presses buttons, under cooldowns of its    *)
(* own, for the same fighter that PracticeFighter gives a player.  Where   *)
(* the player stands, what the player does and how the clock falls on the  *)
(* partner's two rhythms is left open in every step.                       *)
(***************************************************************************)
EXTENDS PracticeFighter

CONSTANTS
  Reserve,     \* the stamina the partner wants before it presses
  Pause,       \* the steps until it acts again, per kind of act
  BlockTime    \* the steps it holds a guard

\* What the thresholds of the code keep: enough stamina for what is pressed, a pause in
\* which the buttons come up, and a roll and a jump that are there when they began.
ASSUME SparringAssumption ==
  /\ Duration["Dodge"] > 1 /\ Duration["Jump"] > 1
  /\ Reserve \in [{"dodge", "sprint", "any", "running", "kick", "jump"} -> Nat]
  /\ \A press \in {"dodge", "running", "kick"} : Reserve[press] >= Cost[press]
  /\ Reserve["jump"] >= Cost["jump"] + Cost["jumpAttack"]
  /\ Pause \in [{"guard", "dodge", "retreat", "punish", "running", "kick", "light",
                 "jump", "heavy"} -> Nat \ (0 .. 1)]
  /\ BlockTime \in Nat

VARIABLES
  partner,  \* the partner's fighter
  mind,     \* blockUntilMs and nextActionAtMs, as steps that are left, and jumpAttackArmed
  intent    \* the buttons of the last sample

sparringVars == <<partner, mind, intent>>

\* What the player is seen to do: THREAT_WINDUPS, PUNISHABLE_ACTIONS, and the rest.
Seen == {"threat", "open", "block", "dead", "other"}

\* The bands of distance that the code tells apart, by the bound they stay below.
Band == {44, 64, 66, 72, 76, 84, 118, 132, 185, 999}

Wary == [blockFor |-> 0, nextIn |-> 0, armed |-> FALSE]

SparringInit == partner = NewFighter /\ mind = Wary /\ intent = {}

\* A press whatever stamina is left.
Daring(press) == TRUE

Has(press) == partner.stamina >= Reserve[press]

Ready == mind.nextIn = 0

\* A decision: the buttons, and what it does to the cooldowns.
Only(input) == [input |-> input, mind |-> mind]
Then(input, act) == [input |-> input, mind |-> [mind EXCEPT !.nextIn = Pause[act]]]

\* An attack that is coming is blocked, rolled away from, or left behind.
Defend(read) ==
  IF read = 0
  THEN [input |-> {"block"},
        mind |-> [mind EXCEPT !.blockFor = BlockTime, !.nextIn = Pause["guard"]]]
  ELSE IF read = 1 /\ Has("dodge") THEN Then({"dodge"}, "dodge")
  ELSE Then({"move"}, "retreat")

\* In reach, and free to choose: by the rhythm of the clock.
Choose(cycle, band) ==
  CASE cycle = 0 -> Then({"attack", "move"}, "light")
    [] cycle = 1 /\ Has("kick") -> Then({"kick"}, "kick")
    [] cycle = 2 /\ Has("jump") /\ band <= 64 ->
         [input |-> {"jump"}, mind |-> [mind EXCEPT !.armed = TRUE, !.nextIn = Pause["jump"]]]
    [] OTHER -> Then({"heavy"}, "heavy")

\* sample, from rest or from behind the guard.
Approach(seen, band, read, cycle) ==
  IF mind.blockFor > 0 THEN Only({"block"})
  ELSE IF seen = "threat" /\ band <= 118 /\ Ready THEN Defend(read)
  ELSE IF band > 185 THEN Only({"move"} \cup IF Has("sprint") THEN {"run"} ELSE {})
  ELSE IF ~Has("any") THEN Only({"move"})
  ELSE IF seen = "open" /\ band <= 72 /\ Ready THEN Then({"attack"}, "punish")
  ELSE IF band \in {118, 132} /\ Has("running") /\ Ready
  THEN Then({"move", "run", "attack"}, "running")
  ELSE IF band > 76 THEN Only({"move"})
  ELSE IF ~Ready THEN Only(IF band = 44 THEN {"move"} ELSE {})
  ELSE IF seen = "block" /\ band <= 66 /\ Has("kick") THEN Then({"kick"}, "kick")
  ELSE Choose(cycle, band)

\* sample.
Sample(seen, band, read, cycle) ==
  IF partner.action = "Dead" \/ seen = "dead" THEN Only({})
  ELSE IF partner.action = "Jump" /\ mind.armed
  THEN [input |-> {"attack"}, mind |-> [mind EXCEPT !.armed = FALSE]]
  ELSE IF partner.action \notin {"Idle", "Block"} THEN Only({})
  ELSE Approach(seen, band, read, cycle)

Sooner(m) ==
  [m EXCEPT !.blockFor = IF @ > 0 THEN @ - 1 ELSE 0, !.nextIn = IF @ > 0 THEN @ - 1 ELSE 0]

\* botInput and the partner's part of stepWorld.
Spar ==
  \E seen \in Seen, band \in Band, read \in 0 .. 2, cycle \in 0 .. 3 :
    LET decision == Sample(seen, band, read, cycle)
        p == Wait(partner)
    IN /\ intent' = decision.input
       /\ mind' = Sooner(decision.mind)
       /\ partner' = IF p.action # "Dead" THEN PracticeTick(p, decision.input)
                     ELSE IF p.respawnWait = 0 THEN ComeBack(p) ELSE p

\* What the player's blows may do to it at the end of a step (resolveAttacks).
BeStruck ==
  /\ partner.action # "Dead"
  /\ \/ \E fall \in {"Stunned", "Knockdown"} : partner' = Enter(partner, fall, 2)
     \/ partner' = [partner EXCEPT !.action = "Dead", !.elapsed = 0, !.duration = 0,
                                   !.buffered = @ \ {"attack"}, !.respawnWait = 2]
  /\ UNCHANGED <<mind, intent>>

SparringSpec == SparringInit /\ [][Spar \/ BeStruck]_sparringVars
-----------------------------------------------------------------------------
\* The action that a press asks for.
Asked(input) ==
  CASE "dodge" \in input -> "Dodge"
    [] "kick" \in input  -> "KickWindup"
    [] "jump" \in input  -> "Jump"
    [] "heavy" \in input -> "HeavyAttackWindup"
    [] {"attack", "run"} \subseteq input -> "RunningAttackWindup"
    [] OTHER -> "AttackWindup"

Decides == intent' # {} /\ mind' # mind

\* The partner has no press that comes to nothing: from rest, what it presses it can
\* pay and has released before, and a jump that it began for the sake of the jump
\* attack, if nothing interrupts it, becomes one (createSparringAi, stepWorld).
PartnerPressesAct ==
  [][/\ partner.action = "Idle" /\ intent' \cap {"attack", "heavy", "dodge", "kick", "jump"} # {}
     /\ Decides
     => partner'.action = Asked(intent')]_sparringVars

PartnerJumpAttacks ==
  [][partner.action = "Jump" /\ mind.armed /\ ~mind'.armed
       => partner'.action = "JumpAttackWindup"]_sparringVars
\* What the partner of the practice starts, it can carry out (createSparringAi).
PartnerActs == PartnerPressesAct /\ PartnerJumpAttacks
=============================================================================

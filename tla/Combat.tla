------------------------------ MODULE Combat ------------------------------
(***************************************************************************)
(* The authoritative world: the fighters that joined, the tick that moves  *)
(* them, the blows they exchange, and the match they play.                 *)
(*                                                                         *)
(* One call of step_by_into is a loop over the fighters, then one over the *)
(* pairs of a roller and a target, then one over the pairs of an attacker  *)
(* and a target.  Each iteration is an action here, in the order of the    *)
(* loops, and the cursor keeps everything else out until the step is over, *)
(* as the write lock of the server does.  Where the fighters stand is left *)
(* open: any two may touch, be in reach and face each other.               *)
(***************************************************************************)
EXTENDS FighterActions, FiniteSets

CONSTANTS
  FighterCount,    \* bound: the net ids are 1 .. FighterCount
  InputOf,         \* the inputs that each fighter may send
  Damage,          \* the health that each active attack takes
  GuardDamage,     \* the guard that each active attack takes from a block
  GuardBreakStun,  \* the ticks of the stun when it breaks
  ParryStun, RollKnockdown, KickKnockdown, GuardDelay,
  RespawnDelay, ResetDelay, KillTarget,
  DodgeWindow      \* the first ticks of a roll, which nothing can hit

NoFighter == 0

ASSUME CombatAssumption ==
  /\ FighterCount \in Nat \ {0} /\ Fighter = 1 .. FighterCount
  /\ InputOf \in [Fighter -> SUBSET SUBSET Button]
  /\ \A i \in Fighter : InputOf[i] # {}
  /\ Damage \in [Active -> Nat]
  /\ GuardDamage \in [Active -> Nat]
  /\ GuardBreakStun \in [Active -> Nat \ {0}]
  /\ ParryStun \in Nat \ {0}
  /\ RollKnockdown \in Nat \ {0} /\ KickKnockdown \in Nat \ {0}
  /\ GuardDelay \in Nat /\ RespawnDelay \in Nat /\ ResetDelay \in Nat
  /\ KillTarget \in Nat \ {0} /\ DodgeWindow \in Nat

VARIABLES
  present,    \* the fighters in the world
  gone,       \* the fighters that left it: allocate_player_id uses no net id twice
  fighter,    \* their states
  winner,     \* winner, or NoFighter
  resetWait,  \* the ticks until reset_at_ms
  phase,      \* the loop that the step is in
  turn,       \* the fighter, roller or attacker of the iteration
  other,      \* the target of the iteration
  swing,      \* the action whose profile the attacker strikes with
  met,        \* history: the targets that the present swing has met
  touched,    \* history: the targets that the present roll has touched
  broken      \* history: the fighters stunned by a broken guard

worldVars   == <<present, gone, fighter, winner, resetWait>>
cursorVars  == <<phase, turn, other, swing>>
historyVars == <<met, touched, broken>>
vars == <<worldVars, cursorVars, historyVars>>

Phase == {"between", "act", "roll", "attack"}

TypeOK ==
  /\ present \in SUBSET Fighter /\ gone \in SUBSET Fighter
  /\ fighter \in [Fighter -> FighterState]
  /\ winner \in Fighter \cup {NoFighter}
  /\ resetWait \in Nat
  /\ phase \in Phase
  /\ turn \in Fighter /\ other \in Fighter
  /\ swing \in Active \cup {"Idle"}
  /\ met \in [Fighter -> SUBSET Fighter]
  /\ touched \in [Fighter -> SUBSET Fighter]
  /\ broken \in SUBSET Fighter

NoOne == [i \in Fighter |-> {}]

Init ==
  /\ present = {} /\ gone = {}
  /\ fighter = [i \in Fighter |-> NewFighter]
  /\ winner = NoFighter
  /\ resetWait = 0
  /\ phase = "between" /\ turn = 1 /\ other = 1 /\ swing = "Idle"
  /\ met = NoOne
  /\ touched = NoOne
  /\ broken = {}
-----------------------------------------------------------------------------
(***************************************************************************)
(* Joining and leaving, between two steps.                                 *)
(***************************************************************************)

\* add_player_at: not while the result of a match is shown.
AddPlayer(i) ==
  /\ phase = "between"
  /\ winner = NoFighter
  /\ i \notin present \cup gone
  /\ present' = present \cup {i}
  /\ UNCHANGED <<gone, fighter, winner, resetWait, cursorVars, historyVars>>

\* remove_player: the others keep what they remember of the fighter that left.
RemovePlayer(i) ==
  /\ phase = "between"
  /\ i \in present
  /\ present' = present \ {i}
  /\ gone' = gone \cup {i}
  /\ fighter' = [fighter EXCEPT ![i] = NewFighter]
  /\ met' = [met EXCEPT ![i] = {}]
  /\ touched' = [touched EXCEPT ![i] = {}]
  /\ broken' = broken \ {i}
  /\ UNCHANGED <<winner, resetWait, cursorVars>>
-----------------------------------------------------------------------------
(***************************************************************************)
(* The cursor of the step.                                                 *)
(***************************************************************************)

\* The first pair of the row of the next fighter, in the same loop or the next.
NextRow ==
  /\ other' = 1
  /\ swing' = "Idle"
  /\ IF turn < FighterCount
     THEN turn' = turn + 1 /\ UNCHANGED phase
     ELSE /\ turn' = 1
          /\ phase' = CASE phase = "act"    -> "roll"
                        [] phase = "roll"   -> "attack"
                        [] phase = "attack" -> "between"

NextTarget ==
  IF other < FighterCount
  THEN other' = other + 1 /\ UNCHANGED <<phase, turn, swing>>
  ELSE NextRow

EndStep == phase' = "between" /\ turn' = 1 /\ other' = 1 /\ swing' = "Idle"

\* step_by_into while the match is on: time passes for everyone.
BeginStep ==
  /\ phase = "between"
  /\ winner = NoFighter
  /\ phase' = "act" /\ turn' = 1 /\ other' = 1 /\ swing' = "Idle"
  /\ fighter' = [i \in Fighter |-> Elapse(fighter[i])]
  /\ UNCHANGED <<present, gone, winner, resetWait, historyVars>>

\* A rematch that leaves the score of the last match.
ResetFighterButScore(f) == Respawn([f EXCEPT !.guardWait = 0, !.staminaWait = 0])

\* reset_match.
ResetFighter(f) ==
  Respawn([f EXCEPT !.kills = 0, !.guardWait = 0, !.staminaWait = 0])

\* A clock that stands still.
ResetWaitStanding == resetWait

ResetWaitLater == resetWait - 1

\* step_by_into while the result is shown: time passes, until everyone starts anew.
StepOver ==
  /\ phase = "between"
  /\ winner # NoFighter
  /\ IF resetWait > 1
     THEN /\ resetWait' = ResetWaitLater
          /\ fighter' = [i \in Fighter |-> Elapse(fighter[i])]
          /\ UNCHANGED <<winner, historyVars>>
     ELSE /\ resetWait' = 0
          /\ winner' = NoFighter
          /\ fighter' = [i \in Fighter |->
               IF i \in present THEN ResetFighter(Elapse(fighter[i])) ELSE fighter[i]]
          /\ met' = NoOne /\ touched' = NoOne /\ broken' = {}
  /\ UNCHANGED <<present, gone, cursorVars>>
-----------------------------------------------------------------------------
(***************************************************************************)
(* The loop over the fighters.                                             *)
(***************************************************************************)

SkipAbsent ==
  /\ phase = "act"
  /\ turn \notin present
  /\ NextRow
  /\ UNCHANGED <<worldVars, historyVars>>

ActDead ==
  /\ phase = "act"
  /\ turn \in present /\ fighter[turn].action = "Dead"
  /\ fighter' = [fighter EXCEPT ![turn] = IF @.respawnWait = 0 THEN Respawn(@) ELSE @]
  /\ NextRow
  /\ UNCHANGED <<present, gone, winner, resetWait, historyVars>>

ActLiving(input) ==
  /\ phase = "act"
  /\ turn \in present /\ fighter[turn].action # "Dead"
  /\ fighter' = [fighter EXCEPT ![turn] = LivingTick(@, input)]
  /\ met' = IF fighter'[turn].action \in Windup THEN [met EXCEPT ![turn] = {}] ELSE met
  /\ touched' = IF fighter'[turn].action = "Dodge" /\ fighter[turn].action # "Dodge"
                THEN [touched EXCEPT ![turn] = {}] ELSE touched
  /\ broken' = IF fighter'[turn].action = "Stunned" THEN broken ELSE broken \ {turn}
  /\ NextRow
  /\ UNCHANGED <<present, gone, winner, resetWait>>
-----------------------------------------------------------------------------
(***************************************************************************)
(* resolve_roll_collisions.                                                *)
(***************************************************************************)

Rolling(i) == i \in present /\ fighter[i].action = "Dodge"

SkipRoller ==
  /\ phase = "roll"
  /\ ~Rolling(turn)
  /\ NextRow
  /\ UNCHANGED <<worldVars, historyVars>>

\* A target that a roll may touch.
CanTouch ==
  /\ other # turn /\ other \in present
  /\ fighter[other].action # "Dead"
  /\ other \notin fighter[turn].rolled

RollPast ==
  /\ phase = "roll"
  /\ Rolling(turn)
  /\ NextTarget
  /\ UNCHANGED <<worldVars, historyVars>>

KnockDownByRoll(target) ==
  fighter' = [fighter EXCEPT ![turn].rolled = @ \cup {target},
                             ![target] = SetAction(@, "Knockdown", RollKnockdown)]

\* Contact that spends a target only when it falls.
RollOverGroundedKeepingTarget(fallen) == UNCHANGED fighter

\* A fighter on the ground is touched, but its time there is not extended.
RollOverGrounded(fallen) ==
  fighter' = [fighter EXCEPT ![turn].rolled = @ \cup {fallen}]

RollInto ==
  /\ phase = "roll"
  /\ Rolling(turn)
  /\ CanTouch
  /\ touched' = [touched EXCEPT ![turn] = @ \cup {other}]
  /\ IF fighter[other].action = "Knockdown"
     THEN RollOverGrounded(other) /\ UNCHANGED broken
     ELSE KnockDownByRoll(other) /\ broken' = broken \ {other}
  /\ NextTarget
  /\ UNCHANGED <<present, gone, winner, resetWait, met>>
-----------------------------------------------------------------------------
(***************************************************************************)
(* resolve_attacks.                                                        *)
(***************************************************************************)

\* The profile is that of the action at the start of the attacker's row.
Profile == IF swing = "Idle" THEN fighter[turn].action ELSE swing

SkipAttacker ==
  /\ phase = "attack"
  /\ turn \notin present \/ Profile \notin Active
  /\ NextRow
  /\ UNCHANGED <<worldVars, historyVars>>

\* The row goes on with the profile it has, whatever became of the attacker.
NextVictim ==
  IF other < FighterCount
  THEN other' = other + 1 /\ swing' = Profile /\ UNCHANGED <<phase, turn>>
  ELSE NextRow

Striking == phase = "attack" /\ turn \in present /\ Profile \in Active

\* A target that a swing may meet.
CanMeet ==
  /\ other # turn /\ other \in present
  /\ fighter[other].action # "Dead"
  /\ other \notin fighter[turn].hits

Miss ==
  /\ Striking
  /\ NextVictim
  /\ UNCHANGED <<worldVars, historyVars>>

\* is_invulnerable.
Invulnerable(f) == f.action = "Dodge" /\ f.elapsed <= DodgeWindow

\* A kick finds its target on the ground already.
Grounded == Profile = "KickActive" /\ fighter[other].action = "Knockdown"

\* The swing has met its target, for good.
Marked == [fighter EXCEPT ![turn].hits = @ \cup {other}]

Meet ==
  /\ Striking
  /\ CanMeet
  /\ met' = [met EXCEPT ![turn] = @ \cup {other}]
  /\ UNCHANGED <<present, gone, touched>>

KickGrounded ==
  /\ Meet
  /\ Grounded
  /\ fighter' = Marked
  /\ NextVictim
  /\ UNCHANGED <<winner, resetWait, broken>>

\* An evaded swing that stays ready for the target that evaded it.
EvadedUnmarked == fighter

Evaded == Marked

Evade ==
  /\ Meet
  /\ Invulnerable(fighter[other])
  /\ fighter' = Evaded
  /\ NextVictim
  /\ UNCHANGED <<winner, resetWait, broken>>

\* is_blocking_attack, for a target that faces the attacker.
Blocked == Meet /\ fighter[other].action = "Block"

Parry ==
  /\ Blocked
  /\ fighter[other].elapsed <= ParryWindow
  /\ fighter' = [Marked EXCEPT ![other].guardWait = GuardDelay,
                               ![turn] = SetAction(@, "Stunned", ParryStun)]
  /\ NextVictim
  /\ UNCHANGED <<winner, resetWait, broken>>

\* The guard that the blow leaves.
GuardLeft ==
  IF fighter[other].guard > GuardDamage[Profile] THEN fighter[other].guard - GuardDamage[Profile] ELSE 0

BlockHit ==
  /\ Blocked
  /\ fighter[other].elapsed > ParryWindow
  /\ GuardLeft > 0
  /\ fighter' = [Marked EXCEPT ![other].guard = GuardLeft, ![other].guardWait = GuardDelay]
  /\ NextVictim
  /\ UNCHANGED <<winner, resetWait, broken>>

\* A broken guard that comes back after the delay of any block.
GuardBreakWaitOfBlock == GuardDelay

\* A broken guard comes back no sooner than its stun is over.
GuardBreakWait ==
  LET stun == GuardBreakStun[Profile] IN IF stun > GuardDelay THEN stun ELSE GuardDelay

GuardBreak ==
  /\ Blocked
  /\ fighter[other].elapsed > ParryWindow
  /\ GuardLeft <= 0
  /\ fighter' = [Marked EXCEPT ![other] =
       SetAction([@ EXCEPT !.guard = GuardLeft, !.guardWait = GuardBreakWait],
                 "Stunned", GuardBreakStun[Profile])]
  /\ broken' = broken \cup {other}
  /\ NextVictim
  /\ UNCHANGED <<winner, resetWait>>

\* A blow that lands: no roll and no guard that faces it.
Land == Meet /\ ~Grounded /\ ~Invulnerable(fighter[other])

KickDown ==
  /\ Land
  /\ Profile = "KickActive"
  /\ fighter' = [Marked EXCEPT ![other] = SetAction(@, "Knockdown", KickKnockdown)]
  /\ broken' = broken \ {other}
  /\ NextVictim
  /\ UNCHANGED <<winner, resetWait>>

Hit ==
  /\ Land
  /\ Profile # "KickActive"
  /\ fighter[other].hp > Damage[Profile]
  /\ fighter' = [Marked EXCEPT ![other].hp = @ - Damage[Profile]]
  /\ NextVictim
  /\ UNCHANGED <<winner, resetWait, broken>>

\* The kill that decides the match ends the step.
Decide(won) ==
  IF won THEN winner' = turn /\ resetWait' = ResetDelay /\ EndStep
  ELSE UNCHANGED <<winner, resetWait>> /\ NextVictim

\* Death does not go through set_action: of what it forgets, the dead lose the
\* light press that they had buffered, and only that.
Die(f) ==
  [f EXCEPT !.hp = 0, !.action = "Dead", !.elapsed = 0, !.duration = 0,
            !.buffered = @ \ {"attack"}, !.respawnWait = RespawnDelay]

Kill ==
  /\ Land
  /\ Profile # "KickActive"
  /\ fighter[other].hp <= Damage[Profile]
  /\ fighter' = [Marked EXCEPT ![turn].kills = @ + 1, ![other] = Die(@)]
  /\ broken' = broken \ {other}
  /\ Decide(fighter[turn].kills + 1 >= KillTarget)
-----------------------------------------------------------------------------
ActStep    == SkipAbsent \/ ActDead \/ \E input \in InputOf[turn] : ActLiving(input)
RollStep   == SkipRoller \/ RollPast \/ RollInto
AttackStep == \/ SkipAttacker \/ Miss \/ KickGrounded \/ Evade \/ Parry \/ BlockHit
              \/ GuardBreak \/ KickDown \/ Hit \/ Kill

WorldStep == BeginStep \/ StepOver \/ ActStep \/ RollStep \/ AttackStep

Next == WorldStep \/ \E i \in Fighter : AddPlayer(i) \/ RemovePlayer(i)

Spec == Init /\ [][Next]_vars

\* run_authoritative_clock: the world steps, whoever joins or leaves.
FairSpec == Spec /\ WF_vars(WorldStep)
-----------------------------------------------------------------------------
(***************************************************************************)
(* One fighter, at any moment of a step.                                   *)
(***************************************************************************)

\* A recovery remembers one press.
OneBufferedPress(f) == Cardinality(f.buffered) <= 1

\* A press waits only for the end of a light recovery; the dead may hold one that
\* respawn_fighter clears.
BufferWaits(f) == f.buffered # {} => f.action \in {"AttackRecovery", "Dead"}

\* A charge is held only in the windup of a heavy attack, or by the dead.
ChargeIsWindup(f) == f.charging => f.action \in {"HeavyAttackWindup", "Dead"}

\* A windup has met nobody: no target of an earlier swing is spared by this one.
WindupIsFresh(f) == f.action \in Windup => f.hits = {}

\* What a recovery remembers can still be paid when it ends, for nothing else takes
\* stamina from the fighter before.
BufferIsPaid(f) ==
  f.action = "AttackRecovery" =>
    \A press \in f.buffered : f.stamina >= BufferCost(press)

\* At any moment of a step, between any two blows of it, every fighter is consistent: what
\* it remembers, charges and has met belongs to what it does, and can be paid for
\* (set_action, clear_recovery_input_buffer, clear_light_attack_buffer).
FighterInv ==
  /\ TypeOK
  /\ \A i \in Fighter :
       /\ OneBufferedPress(fighter[i])
       /\ BufferWaits(fighter[i])
       /\ ChargeIsWindup(fighter[i])
       /\ WindupIsFresh(fighter[i])
       /\ BufferIsPaid(fighter[i])

(***************************************************************************)
(* The world.                                                              *)
(***************************************************************************)

\* A match is over when, and only when, one of the fighters has the kills of a
\* winner, and then it is the one that is announced: two blows that both kill in
\* the step that decides the match do not make two winners.
WinnerHasTheKills ==
  \A i \in present :
    /\ fighter[i].kills <= KillTarget
    /\ (fighter[i].kills = KillTarget) <=> (winner = i)

\* A guard that broke stays down for as long as the stun it cost.
GuardStaysBroken == \A i \in broken : fighter[i].guard = 0

TimeDown(f) == f.duration - f.elapsed

\* docs/R2_COMBAT_INPUTS_AND_AUTHORITY.md:34: neither a second roll nor a kick makes
\* a fighter that is down stay there for longer.
KnockdownNotRefreshed ==
  [][\A i \in Fighter :
       fighter[i].action = "Knockdown" /\ fighter'[i].action = "Knockdown"
       => TimeDown(fighter'[i]) <= TimeDown(fighter[i])]_vars

\* A roll does nothing more to a fighter that it has touched, whether it fell or
\* was on the ground: it cannot catch it again on the tick that it gets up.
RollTouchesOnce ==
  [][phase = "roll" /\ other \in touched[turn] => UNCHANGED fighter]_vars

\* One swing meets a target once, whatever came of it: a target that evaded the
\* first tick of a swing is not hit by the next one, nor does a block or a parry
\* count twice.
SwingMeetsOnce ==
  [][phase = "attack" /\ other \in met[turn] => UNCHANGED fighter]_vars

\* No single deed of a fighter falls on the same target twice (resolveRollCollisions
\* and resolveAttacks keep a mask each).
MeetsOnce == RollTouchesOnce /\ SwingMeetsOnce

\* The buttons that a fighter presses with a light attack and that outrank it.
Outranking == {"block", "dodge", "kick", "jump"}

Edges(i) == fighter'[i].down \ fighter[i].down

\* A press that goes with a press that outranks it is never a light attack of its
\* own: not from rest, and not as a memory of a light recovery, even when the other
\* one cannot be paid.
DeniedPressIsLost ==
  [][phase = "act" /\ "attack" \in Edges(turn) /\ Edges(turn) \cap Outranking # {} =>
       /\ fighter[turn].action = "Idle" =>
            fighter'[turn].action \notin {"AttackWindup", "RunningAttackWindup",
                                          "HeavyAttackWindup"}
       /\ fighter[turn].action = "AttackRecovery" /\ "attack" \in fighter'[turn].buffered =>
            "attack" \in fighter[turn].buffered]_vars

\* A charge that ends before its time is no heavy attack, whatever the client claims.
EarlyReleaseIsNoHeavy ==
  [][\A i \in Fighter :
       /\ fighter[i].charging /\ ~fighter'[i].charging
       /\ fighter[i].elapsed < Duration["HeavyAttackWindup"]
       => fighter'[i].action \notin {"HeavyAttackWindup", "HeavyAttackActive"}]_vars

\* server/tests/m4_authoritative.rs: death is temporary.
TheDeadReturn ==
  \A i \in Fighter :
    (i \in present /\ fighter[i].action = "Dead")
      ~> (i \notin present \/ fighter[i].action # "Dead")

\* A match that was won is followed by another.
MatchesFollow == (winner # NoFighter) ~> (winner = NoFighter)
\* However the fighters kill each other and whoever leaves, the game goes on.
GameGoesOn == TheDeadReturn /\ MatchesFollow
=============================================================================

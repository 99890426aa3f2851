--------------------------- MODULE CombatFeedback ---------------------------
(***************************************************************************)
(* What the page tells a player about the fight.  It sees the fighters     *)
(* only in the snapshots that reach it, some ticks apart and with any of   *)
(* them lost, and explains what changed between two of them: from the      *)
(* health, the guard and the actions at both ends it infers the deeds in   *)
(* between.  The deeds are kept here beside the world, to compare.  What   *)
(* the positions would say of who threatens whom is left open.             *)
(***************************************************************************)
EXTENDS Combat

CONSTANTS
  Own,         \* ownId
  LongestGap   \* bound: the ticks between two snapshots that arrive

ASSUME FeedbackAssumption == Own \in Fighter /\ LongestGap \in Nat

\* How long a gap can be for a dodge to be told from it: a strike does not go from its
\* first tick to its recovery in less, nor a guard from one that recovers to one that is
\* up, past its parry, and takes a blow; what was spent or killed does not come back
\* in less; and every blow takes something.
ASSUME GapAssumption ==
  /\ LongestGap <= Duration["AttackWindup"] + 1
  /\ LongestGap <= Duration["HeavyAttackWindup"] + 1
  /\ LongestGap <= ParryWindow + 2
  /\ LongestGap <= GuardDelay /\ LongestGap <= RespawnDelay
  /\ \A a \in Active \ {"KickActive"} : Damage[a] > 0
  /\ \A a \in Active : GuardDamage[a] > 0

VARIABLES
  seen,     \* previous: the fighters of the last snapshot, as they were
  pending,  \* pendingDodge
  gap,      \* the ticks since the last snapshot
  deeds     \* history: what was done since the last snapshot, by whom, to whom

feedbackVars == <<vars, seen, pending, gap, deeds>>

Unseen == [action |-> "Absent", hp |-> 0, guard |-> 0]

\* snapshot: of a fighter that is in the world.
Glance(i) ==
  IF i \notin present THEN Unseen
  ELSE [action |-> fighter[i].action, hp |-> fighter[i].hp, guard |-> fighter[i].guard]

NoDodge == [attacker |-> NoFighter]

FeedbackInit ==
  /\ Init
  /\ seen = [i \in Fighter |-> Unseen]
  /\ pending = NoDodge
  /\ gap = 0
  /\ deeds = {}

Deed(what, by, to) == [what |-> what, by |-> by, to |-> to]
-----------------------------------------------------------------------------
(***************************************************************************)
(* The events that a snapshot is explained by.                             *)
(***************************************************************************)

Event(kind, by, of) == [kind |-> kind, by |-> by, of |-> of]

\* Anyone may have done it.
Someone(kind, of) == Event(kind, NoFighter, of)

Became(i, action) == seen[i].action # action /\ Glance(i).action = action

Unhurt(i) == Glance(i).hp = seen[i].hp /\ Glance(i).guard = seen[i].guard

\* The fighters that both snapshots show, and the only opponent, if there is one.
Watched == {i \in present : seen[i] # Unseen}
Peers == present \ {Own}
Opponent == IF Cardinality(Peers) = 1 THEN CHOOSE i \in Peers : TRUE ELSE NoFighter

\* collectEntityEvents.
EntityEvents(i) ==
  LET before == seen[i]
      now == Glance(i)
      when(happened, kind) == IF happened THEN {Someone(kind, i)} ELSE {}
  IN IF Became(i, "Dead") THEN {Someone("death", i)}
     ELSE when(/\ before.action = "Dead" /\ now.action = "Idle"
               /\ now.hp = HpMax /\ now.guard = GuardMax, "respawn")
          \cup when(now.action = "Stunned" /\ now.guard = 0 /\ before.guard > 0, "guardBreak")
          \cup when(now.guard < before.guard /\ now.hp = before.hp, "block")
          \cup when(now.hp < before.hp, "hit")
          \cup when(Became(i, "Stunned"), "stun")

Kicks == {"KickWindup", "KickActive", "KickRecovery"}
RollActions == {"Dodge", "DodgeRecovery"}

WasOrIs(i, actions) == {seen[i].action, Glance(i).action} \cap actions # {}

\* collectControlImpactEvents: a knockdown, by what the other one was seen to do.
ImpactEvents(by, of) ==
  IF ~Became(of, "Knockdown") \/ ~Unhurt(of) THEN {}
  ELSE IF WasOrIs(by, Kicks) THEN {Event("shove", by, of)}
  ELSE IF WasOrIs(by, RollActions) THEN {Event("rollOver", by, of)}
  ELSE {}

\* collectParryEvents: a stun, of a fighter with guard left, that cost a blocker nothing.
ParryEvents(by, of) ==
  IF Became(of, "Stunned") /\ WasOrIs(by, {"Block"}) /\ Unhurt(by) /\ Glance(of).guard > 0
  THEN {Event("parry", by, of)} ELSE {}

\* isAttackWindup, isAttackActive, isAttackRecovery.
IsWindup(action)   == action \in {"AttackWindup", "HeavyAttackWindup"}
IsActive(action)   == action \in {"AttackActive", "HeavyAttackActive"}
IsRecovery(action) == action \in {"AttackRecovery", "HeavyAttackRecovery"}

Dodges(p) == p # NoDodge

\* An outcome that is judged by the guard alone.
StableGuard(p) ==
  /\ {p.attacker, p.defender} = {Own, Opponent}
  /\ Glance(p.defender).guard = p.guard

\* collectDodgeEvents, of the strike that waits for its outcome.
Stable(p) ==
  /\ {p.attacker, p.defender} = {Own, Opponent}
  /\ Glance(p.defender).hp = p.hp /\ Glance(p.defender).guard = p.guard

Outcome(p) == Glance(p.attacker).action

DodgeEvents(p) ==
  IF Dodges(p) /\ Stable(p) /\ IsRecovery(Outcome(p)) /\ p.activeSeen
  THEN {Event("dodge", p.defender, p.attacker)} ELSE {}

\* What is left of it.
StillPending(p) ==
  IF ~Dodges(p) \/ ~Stable(p) THEN NoDodge
  ELSE IF IsActive(Outcome(p)) THEN [p EXCEPT !.activeSeen = TRUE]
  ELSE IF IsWindup(Outcome(p)) THEN p ELSE NoDodge

Striker(action) == IsWindup(action) \/ IsActive(action)

\* A roll away from a strike, if it threatened: now, or when the roll began.
MayDodge(attacker, defender, now, before) ==
  /\ Glance(defender).action = "Dodge"
  /\ \/ now /\ Striker(Glance(attacker).action)
     \/ before /\ seen[defender].action # "Dodge" /\ seen[attacker] # Unseen
               /\ seen[defender] # Unseen /\ Striker(seen[attacker].action)

NewDodge(attacker, defender) ==
  [attacker |-> attacker, defender |-> defender,
   hp |-> Glance(defender).hp, guard |-> Glance(defender).guard,
   activeSeen |-> IsActive(Glance(attacker).action) \/ IsActive(seen[attacker].action)]

NextDodge(now, before) ==
  IF Own \notin present \/ Opponent = NoFighter THEN NoDodge
  ELSE IF MayDodge(Opponent, Own, now, before) THEN NewDodge(Opponent, Own)
  ELSE IF MayDodge(Own, Opponent, now, before) THEN NewDodge(Own, Opponent)
  ELSE StillPending(pending)

Candidates ==
  (UNION {EntityEvents(i) : i \in Watched})
  \cup (IF Own \notin Watched THEN {}
        ELSE (UNION {ParryEvents(Own, i) \cup ParryEvents(i, Own) : i \in Watched \ {Own}})
             \cup (IF Opponent \notin Watched THEN {}
                   ELSE ImpactEvents(Own, Opponent) \cup ImpactEvents(Opponent, Own)))
  \cup (IF Own \in present /\ Opponent # NoFighter THEN DodgeEvents(pending) ELSE {})

Priority ==
  [death |-> 100, respawn |-> 90, guardBreak |-> 80, shove |-> 75, rollOver |-> 75,
   parry |-> 70, dodge |-> 65, block |-> 60, hit |-> 50, stun |-> 40]

\* Only the first of the most important is told.
Told ==
  {e \in Candidates : \A d \in Candidates : Priority[e.kind] >= Priority[d.kind]}

\* observe: a snapshot comes.
Observe(now, before) ==
  /\ phase = "between"
  /\ seen' = [i \in Fighter |-> Glance(i)]
  /\ pending' = NextDodge(now, before)
  /\ gap' = 0
  /\ deeds' = {}
  /\ UNCHANGED vars
-----------------------------------------------------------------------------
(***************************************************************************)
(* What is done in the world.                                              *)
(***************************************************************************)

Note(what) ==
  deeds' = deeds \cup {Deed(what, turn, other)} /\ UNCHANGED <<seen, pending, gap>>

Unnoted == UNCHANGED <<seen, pending, gap, deeds>>

Dealt ==
  \/ Parry /\ Note("parried")       \* by the target
  \/ BlockHit /\ Note("block")
  \/ GuardBreak /\ Note(IF fighter[other].guard = 0 THEN "emptyBreak" ELSE "break")
  \/ Hit /\ Note("hit")
  \/ Kill /\ Note("kill")
  \/ KickDown /\ Note("shove")
  \/ RollInto /\ Note("roll")

NothingDealt ==
  /\ \/ ActStep \/ SkipRoller \/ RollPast \/ SkipAttacker
     \/ Miss \/ KickGrounded \/ Evade
  /\ Unnoted

TimePasses ==
  /\ gap < LongestGap
  /\ BeginStep \/ StepOver
  /\ gap' = gap + 1
  /\ UNCHANGED <<seen, pending, deeds>>

JoinOrLeave == (\E i \in Fighter : AddPlayer(i) \/ RemovePlayer(i)) /\ Unnoted

FeedbackNext ==
  \/ Dealt
  \/ NothingDealt
  \/ TimePasses
  \/ JoinOrLeave
  \/ \E now, before \in BOOLEAN : Observe(now, before)

FeedbackSpec == FeedbackInit /\ [][FeedbackNext]_feedbackVars
-----------------------------------------------------------------------------
Done(what, i) == \E d \in deeds : d.what \in what /\ d.to = i

Happened(e) ==
  CASE e.kind = "death"      -> Done({"kill"}, e.of)
    [] e.kind = "guardBreak" -> Done({"break"}, e.of)
    [] e.kind = "block"      -> Done({"block", "break"}, e.of)
    [] e.kind = "hit"        -> Done({"hit", "kill"}, e.of)
    [] e.kind = "stun"       -> Done({"break", "emptyBreak"}, e.of) \/ \E d \in deeds : d.what = "parried" /\ d.by = e.of
    [] e.kind = "parry"      -> Deed("parried", e.of, e.by) \in deeds
    [] e.kind \in {"shove", "rollOver"} ->
         \E d \in deeds : d.by = e.by /\ d.to = e.of /\ d.what \in {"shove", "roll"}
    [] e.kind = "dodge"      ->
         \A d \in deeds : ~(d.by = e.of /\ d.to = e.by /\ d.what \in {"hit", "kill", "block", "break", "parried"})
    [] OTHER -> TRUE

\* What a player is told of the fight did happen: between the last snapshot and this
\* one, however many were lost, the event that the page infers from the two was a deed
\* of the world (createCombatReadabilityTracker).
FeedbackIsTrue == phase = "between" => \A e \in Told : Happened(e)
=============================================================================

---------------------------- MODULE CombatProofs ----------------------------
(***************************************************************************)
(* The safety of the authoritative world, for every number of fighters,    *)
(* every duration, cost and damage.  First what one tick makes of one      *)
(* fighter, then what the steps of the world make of all of them, as far   *)
(* as it concerns others; then what holds of each fighter by itself.       *)
(***************************************************************************)
EXTENDS PracticeParity, SparringAi, FiniteSetTheorems, TLAPS

\* What the proofs need to know of the fields of a fighter.
Sound(f) ==
  /\ DOMAIN f = {"action", "elapsed", "duration", "charging", "down", "buffered", "hits",
                 "rolled", "hp", "guard", "stamina", "guardWait", "staminaWait", "dashWait",
                 "respawnWait", "kills"}
  /\ f.action \in Action
  /\ f.elapsed \in Nat /\ f.duration \in Nat
  /\ f.guard \in Nat /\ f.guardWait \in Nat /\ f.kills \in Nat

\* What no action of its own changes: the score and the guard.
Alike(f, g) ==
  /\ Sound(g)
  /\ g.kills = f.kills /\ g.guard = f.guard /\ g.guardWait = f.guardWait

SameDeed(f, g) ==
  /\ g.action = f.action /\ g.elapsed = f.elapsed /\ g.duration = f.duration
  /\ g.hits = f.hits /\ g.rolled = f.rolled

NewWindup(g) == g.action \in Windup /\ g.elapsed = 0 /\ g.duration = Duration[g.action]

NewRoll(f, g) == g.action = "Dodge" /\ f.action # "Dodge"

\* What a press may start besides: no blow, no windup and no roll.
Fresh == {"FeintRecovery", "Idle", "Block", "Dash", "Jump"}

\* A press, or the end of an action, leaves the deed as it is or starts another.
Begun(f, g) ==
  /\ Alike(f, g)
  /\ SameDeed(f, g) \/ NewWindup(g) \/ NewRoll(f, g) \/ g.action \in Fresh
-----------------------------------------------------------------------------
(***************************************************************************)
(* The helpers of one tick.                                                *)
(***************************************************************************)

\* A timed action lasts a number of ticks.
LEMMA Durations == \A a \in Timed : Duration[a] \in Nat
  BY FighterAssumption

\* A fighter that starts an action keeps what is not of the action.
LEMMA SetActionFacts ==
  ASSUME NEW f, Sound(f), NEW a \in Action, NEW d \in Nat
  PROVE  /\ Alike(f, SetAction(f, a, d))
         /\ SetAction(f, a, d).action = a
         /\ SetAction(f, a, d).elapsed = 0 /\ SetAction(f, a, d).duration = d
         /\ SetAction(f, a, d).hits = f.hits /\ SetAction(f, a, d).rolled = f.rolled
  BY DEF SetAction, Alike, Sound

\* A fighter that rests, or raises its guard, starts afresh.
LEMMA RestBegins ==
  ASSUME NEW f, Sound(f)
  PROVE  Begun(f, Rest(f)) /\ Begun(f, RaiseGuard(f)) /\ Rest(f).action = "Idle"
  BY SetActionFacts DEF Rest, RaiseGuard, Begun, Fresh, Action

\* What is started on a fighter that differs in nothing of the deed is started on it.
LEMMA BegunLater ==
  ASSUME NEW f, NEW g, NEW h, Alike(f, g), SameDeed(f, g), Begun(g, h)
  PROVE  Begun(f, h)
  BY DEF Begun, Alike, SameDeed, NewRoll

\* To pay takes stamina only.
LEMMA SpendKeeps ==
  ASSUME NEW f, Sound(f), NEW n
  PROVE  Alike(f, Spend(f, n)) /\ SameDeed(f, Spend(f, n)) /\ Sound(Spend(f, n))
  BY DEF Spend, Alike, SameDeed, Sound

\* The fields that are not of the deed.
LEMMA AsideKeeps ==
  ASSUME NEW f, Sound(f), NEW x
  PROVE  /\ Begun(f, f)
         /\ Alike(f, [f EXCEPT !.buffered = x]) /\ SameDeed(f, [f EXCEPT !.buffered = x])
         /\ Alike(f, [f EXCEPT !.charging = x]) /\ SameDeed(f, [f EXCEPT !.charging = x])
         /\ Alike(f, [f EXCEPT !.dashWait = x]) /\ SameDeed(f, [f EXCEPT !.dashWait = x])
         /\ Alike(f, [f EXCEPT !.stamina = x])  /\ SameDeed(f, [f EXCEPT !.stamina = x])
         /\ Alike(f, [f EXCEPT !.down = x])     /\ SameDeed(f, [f EXCEPT !.down = x])
  BY DEF Begun, Alike, SameDeed, Sound

\* A dash, a jump or a feint is no blow.
LEMMA StartBegins ==
  ASSUME NEW f, Sound(f), NEW a \in {"Dash", "Jump", "FeintRecovery"}
  PROVE  Begun(f, Start(f, a))
<1>1. a \in Action /\ a \in Fresh /\ a \in Timed
  BY DEF Action, Timed, Recovery, Fresh
<1>2. Duration[a] \in Nat
  BY <1>1, Durations
<1> QED
  BY <1>1, <1>2, SetActionFacts DEF Start, Begun

\* A swing forgets whom the one before it met, and begins with its windup.
LEMMA BeginSwingBegins ==
  ASSUME NEW f, Sound(f), NEW a \in Windup
  PROVE  /\ Begun(f, BeginSwing(f, a)) /\ NewWindup(BeginSwing(f, a))
         /\ Sound(BeginSwing(f, a))
<1> DEFINE g == [f EXCEPT !.hits = {}]
<1>1. Sound(g) /\ Alike(f, g)
  BY DEF Sound, Alike
<1>2. a \in Action /\ Duration[a] \in Nat
  BY Durations DEF Action, Timed
<1> HIDE DEF g
<1>3. Alike(g, SetAction(g, a, Duration[a])) /\ NewWindup(SetAction(g, a, Duration[a]))
  BY <1>1, <1>2, SetActionFacts DEF NewWindup
<1> QED
  BY <1>1, <1>3 DEF BeginSwing, Start, Begun, Alike, g

\* A roll forgets whom the one before it touched.
LEMMA BeginDodgeBegins ==
  ASSUME NEW f, Sound(f), f.action # "Dodge"
  PROVE  Begun(f, BeginDodge(f))
<1> DEFINE g == [f EXCEPT !.rolled = {}]
<1>1. Sound(g) /\ Alike(f, g)
  BY DEF Sound, Alike
<1>2. "Dodge" \in Action /\ Duration["Dodge"] \in Nat
  BY Durations DEF Action, Timed
<1> HIDE DEF g
<1>3. /\ Alike(g, SetAction(g, "Dodge", Duration["Dodge"]))
      /\ SetAction(g, "Dodge", Duration["Dodge"]).action = "Dodge"
  BY <1>1, <1>2, SetActionFacts
<1> QED
  BY <1>1, <1>3 DEF BeginDodge, Start, Begun, NewRoll, Alike, g

\* A deed that is paid for is a deed.
LEMMA PaidBegins ==
  ASSUME NEW f, Sound(f), NEW n
  PROVE  /\ \A a \in Windup : Begun(f, BeginSwing(Spend(f, n), a))
         /\ \A a \in {"Dash", "Jump", "FeintRecovery"} : Begun(f, Start(Spend(f, n), a))
         /\ f.action # "Dodge" => Begun(f, BeginDodge(Spend(f, n)))
<1> DEFINE g == Spend(f, n)
<1>1. Alike(f, g) /\ SameDeed(f, g) /\ Sound(g)
  BY SpendKeeps
<1> HIDE DEF g
<1>2. ASSUME NEW a \in Windup PROVE Begun(f, BeginSwing(g, a))
  BY <1>1, BeginSwingBegins, BegunLater
<1>3. ASSUME NEW a \in {"Dash", "Jump", "FeintRecovery"} PROVE Begun(f, Start(g, a))
  BY <1>1, StartBegins, BegunLater
<1>4. ASSUME f.action # "Dodge" PROVE Begun(f, BeginDodge(g))
  <2>1. g.action # "Dodge"
    BY <1>1, <1>4 DEF SameDeed
  <2> QED
    BY <1>1, <2>1, BeginDodgeBegins, BegunLater
<1> QED
  BY <1>2, <1>3, <1>4 DEF g

\* The windups by name.
LEMMA WindupKinds ==
  {"AttackWindup", "RunningAttackWindup", "HeavyAttackWindup", "KickWindup",
   "JumpAttackWindup"} = Windup
  BY DEF Windup

\* The end of a light recovery starts what was buffered.
LEMMA FinishBegins ==
  ASSUME NEW f, Sound(f), f.action # "Dodge"
  PROVE  Begun(f, FinishLightRecovery(f))
  BY PaidBegins, RestBegins, BeginSwingBegins, WindupKinds DEF FinishLightRecovery

\* A press of a late recovery changes what is buffered.
LEMMA BufferBegins ==
  ASSUME NEW f, Sound(f), NEW edges
  PROVE  Begun(f, BufferPress(f, edges))
<1>1. \A x : Begun(f, [f EXCEPT !.buffered = x]) /\ Begun(f, f)
  BY AsideKeeps DEF Begun
<1> QED
  BY <1>1 DEF BufferPress

\* The release of a charge is a swing, rest, or the charge itself.
LEMMA ReleaseBegins ==
  ASSUME NEW f, Sound(f), NEW input
  PROVE  Begun(f, ReleaseCharge(f, input))
<1> DEFINE g == [f EXCEPT !.charging = FALSE]
<1>1. Alike(f, g) /\ SameDeed(f, g) /\ Begun(f, f)
  BY AsideKeeps
<1>2. Sound(g) /\ Begun(f, g)
  BY <1>1 DEF Alike, Begun
<1> HIDE DEF g
<1>3. Begun(g, ReleaseLight(g, input)) /\ Begun(g, Rest(g))
  BY <1>2, PaidBegins, RestBegins, BeginSwingBegins, WindupKinds DEF ReleaseLight
<1>4. Begun(f, ReleaseLight(g, input)) /\ Begun(f, Rest(g))
  BY <1>1, <1>3, BegunLater
<1> QED
  BY <1>1, <1>2, <1>4 DEF ReleaseCharge, g

\* From rest.
LEMMA IdleBegins ==
  ASSUME NEW f, Sound(f), f.action = "Idle", NEW input, NEW edges
  PROVE  Begun(f, ActFromIdle(f, input, edges))
<1> DEFINE dash  == [Spend(f, Cost["dash"]) EXCEPT !.dashWait = DashCooldown]
           heavy == [BeginSwing(f, "HeavyAttackWindup") EXCEPT !.charging = TRUE]
<1>1. Begun(f, Start(dash, "Dash"))
  <2>1. Alike(f, Spend(f, Cost["dash"])) /\ SameDeed(f, Spend(f, Cost["dash"]))
    BY SpendKeeps
  <2>2. Sound(Spend(f, Cost["dash"]))
    BY SpendKeeps
  <2>3. Alike(Spend(f, Cost["dash"]), dash) /\ SameDeed(Spend(f, Cost["dash"]), dash)
    BY <2>2, AsideKeeps
  <2>4. Begun(dash, Start(dash, "Dash"))
    BY <2>3, StartBegins DEF Alike
  <2> QED
    BY <2>1, <2>3, <2>4, BegunLater
<1>2. Begun(f, heavy)
  <2>1. /\ Begun(f, BeginSwing(f, "HeavyAttackWindup"))
        /\ NewWindup(BeginSwing(f, "HeavyAttackWindup"))
        /\ Sound(BeginSwing(f, "HeavyAttackWindup"))
    BY BeginSwingBegins, WindupKinds
  <2>2. /\ Alike(BeginSwing(f, "HeavyAttackWindup"), heavy)
        /\ SameDeed(BeginSwing(f, "HeavyAttackWindup"), heavy)
    BY <2>1, AsideKeeps
  <2> QED
    BY <2>1, <2>2 DEF Begun, Alike, SameDeed, NewWindup
<1>3. /\ Begun(f, f) /\ Begun(f, RaiseGuard(f))
      /\ \A n : /\ Begun(f, BeginDodge(Spend(f, n)))
                /\ Begun(f, Start(Spend(f, n), "Jump"))
                /\ \A a \in Windup : Begun(f, BeginSwing(Spend(f, n), a))
      /\ \A a \in Windup : Begun(f, BeginSwing(f, a))
  BY AsideKeeps, RestBegins, PaidBegins, BeginSwingBegins
<1> HIDE DEF dash, heavy
<1> QED
  BY <1>1, <1>2, <1>3, WindupKinds DEF ActFromIdle, dash, heavy

\* From behind a guard.
LEMMA BlockBegins ==
  ASSUME NEW f, Sound(f), f.action = "Block", NEW input, NEW edges
  PROVE  Begun(f, ActFromBlock(f, input, edges))
  BY AsideKeeps, RestBegins, PaidBegins DEF ActFromBlock

\* A feint pays, and forgets whom the swing has met.
LEMMA FeintBegins ==
  ASSUME NEW f, Sound(f), NEW n
  PROVE  Begun(f, Start([Spend(f, n) EXCEPT !.hits = {}], "FeintRecovery"))
<1> DEFINE g == Spend(f, n)
           h == [g EXCEPT !.hits = {}]
<1>1. Alike(f, g) /\ Sound(g)
  BY SpendKeeps
<1> HIDE DEF g
<1>2. Sound(h) /\ Alike(g, h)
  BY <1>1 DEF Sound, Alike
<1> HIDE DEF h
<1>3. "FeintRecovery" \in Action /\ Duration["FeintRecovery"] \in Nat
  BY Durations DEF Action, Timed, Recovery
<1>4. /\ Alike(h, Start(h, "FeintRecovery"))
      /\ Start(h, "FeintRecovery").action = "FeintRecovery"
  BY <1>2, <1>3, SetActionFacts DEF Start
<1> QED
  BY <1>1, <1>2, <1>4 DEF Begun, Alike, Fresh, g, h

\* Whatever is pressed.
LEMMA RequestBegins ==
  ASSUME NEW f, Sound(f), NEW input, NEW edges
  PROVE  Begun(f, BeginRequestedAction(f, input, edges))
<1>1. f.action = "Jump" => f.action # "Dodge"
  OBVIOUS
<1> QED
  BY AsideKeeps, BufferBegins, FeintBegins, ReleaseBegins, PaidBegins, BeginSwingBegins,
     IdleBegins, BlockBegins, WindupKinds DEF BeginRequestedAction
-----------------------------------------------------------------------------
(***************************************************************************)
(* The tick of a living fighter.                                           *)
(***************************************************************************)

\* Neither a blow, nor its windup, nor a roll, nor what others do to a fighter.
Harmless == Recovery \cup {"Idle", "Block", "Dash", "Jump"}

\* What a tick makes of the deed of a fighter: a windup; the blow that it wound up
\* for, or still the same one; a new roll, or still the same one; a fall or a stun
\* that goes on; or nothing that concerns another fighter.
Turned(f, g) ==
  \/ g.action \in Windup
  \/ g.action \in Active /\ f.action \in Windup
  \/ g.action \in Active /\ f.action \in Active /\ g.hits = f.hits
  \/ g.action = "Dodge" /\ (f.action = "Dodge" => g.rolled = f.rolled)
  \/ /\ g.action \in {"Knockdown", "Stunned"} /\ f.action = g.action
     /\ g.duration = f.duration /\ g.elapsed = f.elapsed + 1 /\ g.elapsed < g.duration
  \/ g.action \in Harmless

\* The kinds of deeds exclude each other.
LEMMA Kinds ==
  /\ Windup \cap (Active \cup Harmless \cup {"Dodge", "Stunned", "Knockdown", "Dead"}) = {}
  /\ Active \cap (Harmless \cup {"Dodge", "Stunned", "Knockdown", "Dead"}) = {}
  /\ Harmless \cap {"Dodge", "Stunned", "Knockdown", "Dead"} = {}
  /\ Fresh \subseteq Harmless
  /\ Action = Windup \cup Active \cup Harmless \cup {"Dodge", "Stunned", "Knockdown", "Dead"}
  BY DEF Windup, Active, Harmless, Recovery, Fresh, Action, Timed

\* Where a timed action leads.
LEMMA FollowFacts ==
  /\ DOMAIN Follow \subseteq Windup \cup Active \cup {"Dodge"}
  /\ \A a \in DOMAIN Follow \cap Windup : Follow[a] \in Active
  /\ \A a \in DOMAIN Follow \ Windup : Follow[a] \in Recovery
  /\ \A a \in DOMAIN Follow : Follow[a] \in Timed
  BY DEF Follow, Windup, Active, Recovery, Timed

\* A deed that goes on, or begins, is a turn.
LEMMA BegunTurns ==
  ASSUME NEW f, Sound(f), f.action # "Dead", NEW b, Begun(f, b), NEW g,
         g.action = b.action, g.hits = b.hits, g.rolled = b.rolled,
         b.action \in {"Knockdown", "Stunned"} =>
           /\ g.duration = b.duration /\ g.elapsed = b.elapsed + 1
           /\ g.elapsed < g.duration
  PROVE  Turned(f, g)
<1>1. CASE SameDeed(f, b)
  BY <1>1, Kinds DEF SameDeed, Turned, Sound
<1>2. CASE NewWindup(b)
  BY <1>2 DEF NewWindup, Turned
<1>3. CASE NewRoll(f, b)
  BY <1>3 DEF NewRoll, Turned
<1>4. CASE b.action \in Fresh
  BY <1>4, Kinds DEF Turned
<1> QED
  BY <1>1, <1>2, <1>3, <1>4 DEF Begun

\* A deed that has run its time turns into the next one.
LEMMA CompleteTurns ==
  ASSUME NEW f, Sound(f), f.action # "Dead", NEW b, Begun(f, b), NEW g, Alike(b, g),
         g.action = b.action, g.hits = b.hits, g.rolled = b.rolled,
         g.elapsed = b.elapsed + 1, g.duration = b.duration, ~(g.elapsed < g.duration)
  PROVE  Alike(f, Complete(g)) /\ Turned(f, Complete(g))
<1>1. Sound(g) /\ Sound(b)
  BY DEF Alike, Begun
<1>2. CASE g.action = "AttackRecovery"
  <2>1. Begun(g, FinishLightRecovery(g))
    BY <1>1, <1>2, FinishBegins
  <2>2. f.action = "AttackRecovery"
    BY <1>2 DEF Begun, SameDeed, NewWindup, NewRoll, Windup, Fresh
  <2>3. Turned(g, FinishLightRecovery(g))
    <3>1. "AttackRecovery" \in Harmless
      BY DEF Harmless, Recovery
    <3> QED
      BY <1>2, <2>1, <3>1, Kinds
      DEF Begun, Turned, SameDeed, NewWindup, NewRoll
  <2>4. Turned(f, FinishLightRecovery(g))
    BY <1>2, <2>2, <2>3, Kinds DEF Turned, Windup, Active
  <2> QED
    BY <1>2, <2>1, <2>4 DEF Complete, Begun, Alike
<1>3. CASE g.action \in DOMAIN Follow
  <2> DEFINE a == Follow[g.action]
  <2>1. a \in Action /\ Duration[a] \in Nat
    BY <1>3, FollowFacts, Durations DEF Action
  <2>2. /\ Alike(g, Start(g, a)) /\ Start(g, a).action = a
        /\ Start(g, a).hits = g.hits /\ Start(g, a).rolled = g.rolled
    BY <1>1, <2>1, SetActionFacts DEF Start
  <2>3. Complete(g) = Start(g, a)
    <3>1. g.action # "AttackRecovery"
      BY <1>3, FollowFacts DEF Windup, Active
    <3> QED
      BY <1>3, <3>1 DEF Complete
  <2>4. CASE g.action \in Windup
    <3>1. ~NewWindup(b)
      <4> SUFFICES ASSUME NewWindup(b) PROVE FALSE
        OBVIOUS
      <4>1. g.elapsed = 1 /\ g.duration = Duration[b.action] /\ b.action \in Windup
        BY DEF NewWindup
      <4>2. Duration[b.action] > 1 /\ Duration[b.action] \in Nat
        BY <4>1, FighterAssumption DEF Timed
      <4> QED
        BY <4>1, <4>2
    <3>2. f.action \in Windup
      BY <2>4, <3>1, Kinds DEF Begun, SameDeed, NewRoll
    <3> QED
      BY <1>3, <2>4, <3>2, <2>2, <2>3, FollowFacts DEF Turned, Alike, Begun
  <2>5. CASE g.action \notin Windup
    <3>1. a \in Harmless
      BY <1>3, <2>5, FollowFacts DEF Harmless
    <3> QED
      BY <3>1, <2>2, <2>3 DEF Turned, Alike, Begun
  <2> QED
    BY <2>4, <2>5
<1>4. CASE g.action # "AttackRecovery" /\ g.action \notin DOMAIN Follow
  BY <1>1, <1>4, RestBegins DEF Complete, Turned, Harmless, Begun, Alike
<1> QED
  BY <1>2, <1>3, <1>4

\* Time passes for what a fighter does.
LEMMA AdvanceTurns ==
  ASSUME NEW f, Sound(f), f.action # "Dead", NEW b, Begun(f, b), NEW input
  PROVE  Alike(f, AdvanceAction(b, input)) /\ Turned(f, AdvanceAction(b, input))
<1> DEFINE older == [b EXCEPT !.elapsed = @ + 1]
           age   == [b EXCEPT !.elapsed = BlockAge(@ + 1)]
<1>1. Sound(b) /\ Alike(f, b)
  BY DEF Begun, Alike
<1>2. /\ Alike(b, older) /\ older.action = b.action /\ older.hits = b.hits
      /\ older.rolled = b.rolled /\ older.elapsed = b.elapsed + 1
      /\ older.duration = b.duration
  BY <1>1 DEF Alike, Sound
<1>3. Alike(b, age) /\ age.action = b.action
  <2>1. BlockAge(b.elapsed + 1) \in Nat
    BY <1>1, FighterAssumption DEF BlockAge, Sound
  <2> QED
    BY <1>1, <2>1 DEF Alike, Sound
<1>4. b.action # "Dead"
  BY DEF Begun, SameDeed, NewWindup, NewRoll, Windup, Fresh
<1>5. "Idle" \in Harmless /\ "Block" \in Harmless /\ "HeavyAttackWindup" \in Windup
  BY DEF Harmless, Windup
<1>6. Rest(b).action = "Idle" /\ Alike(b, Rest(b))
  BY <1>1, RestBegins DEF Begun
<1>7. older.elapsed < b.duration => Turned(f, older)
  BY <1>1, <1>2, BegunTurns
<1>8. ~(older.elapsed < b.duration) => Alike(f, Complete(older)) /\ Turned(f, Complete(older))
  BY <1>2, CompleteTurns
<1> HIDE DEF older, age
<1>9. CASE b.action \in {"Idle", "Dead"}
  BY <1>1, <1>4, <1>5, <1>9 DEF AdvanceAction, Turned
<1>10. CASE b.charging /\ b.action = "HeavyAttackWindup"
  BY <1>1, <1>2, <1>5, <1>10 DEF AdvanceAction, Turned, older, Alike
<1>11. CASE b.action = "Block"
  BY <1>1, <1>3, <1>5, <1>6, <1>11 DEF AdvanceAction, Turned, age, Alike
<1>12. CASE /\ b.action \notin {"Idle", "Dead", "Block"}
            /\ ~(b.charging /\ b.action = "HeavyAttackWindup")
  <2>1. AdvanceAction(b, input)
          = IF older.elapsed < b.duration THEN older ELSE Complete(older)
    BY <1>12 DEF AdvanceAction, older
  <2> QED
    BY <1>1, <1>2, <1>7, <1>8, <2>1 DEF Alike
<1> QED
  BY <1>9, <1>10, <1>11, <1>12

\* Stamina is spent or comes back.
LEMMA StaminaKeeps ==
  ASSUME NEW f, Sound(f), NEW input
  PROVE  Alike(f, UpdateStamina(f, input)) /\ SameDeed(f, UpdateStamina(f, input))
<1>1. Alike(f, f) /\ SameDeed(f, f)
  BY DEF Alike, SameDeed
<1>2. Alike(f, Spend(f, 1)) /\ SameDeed(f, Spend(f, 1))
  BY SpendKeeps
<1>3. Alike(f, [f EXCEPT !.stamina = @ + 1]) /\ SameDeed(f, [f EXCEPT !.stamina = @ + 1])
  BY DEF Alike, Sound, SameDeed
<1> QED
  BY <1>1, <1>2, <1>3 DEF UpdateStamina

\* One tick: the guard comes back by one, once its delay is over, and the kills stay.
LEMMA LivingTickTurns ==
  ASSUME NEW f, Sound(f), f.action # "Dead", NEW input
  PROVE  LET g == LivingTick(f, input)
         IN /\ Sound(g) /\ Turned(f, g)
            /\ g.kills = f.kills /\ g.guardWait = f.guardWait
            /\ g.guard = f.guard \/ f.guardWait = 0
<1> DEFINE begun == BeginRequestedAction(f, input, (input \cap Pressed) \ f.down)
           aged  == AdvanceAction(begun, input)
           moved == UpdateStamina(aged, input)
           held  == [moved EXCEPT !.down = input \cap Pressed]
           g     == RegenerateGuard(held)
<1>1. Begun(f, begun)
  BY RequestBegins
<1>2. Alike(f, aged) /\ Turned(f, aged)
  BY <1>1, AdvanceTurns
<1> HIDE DEF begun, aged
<1>3. Alike(aged, moved) /\ SameDeed(aged, moved)
  BY <1>2, StaminaKeeps DEF Alike
<1> HIDE DEF moved
<1>4. Alike(moved, held) /\ SameDeed(moved, held)
  BY <1>3, AsideKeeps DEF Alike
<1> HIDE DEF held
<1>5. Alike(f, held) /\ Turned(f, held)
  BY <1>2, <1>3, <1>4 DEF Alike, SameDeed, Turned
<1>6. /\ Sound(g) /\ SameDeed(held, g)
      /\ g.kills = held.kills /\ g.guardWait = held.guardWait
      /\ g.guard = held.guard \/ held.guardWait = 0
  BY <1>5 DEF Alike, Sound, SameDeed, RegenerateGuard
<1> HIDE DEF g
<1>7. Turned(f, g)
  BY <1>5, <1>6 DEF SameDeed, Turned
<1>8. LivingTick(f, input) = g
  BY DEF LivingTick, g, held, moved, aged, begun
<1> QED
  BY <1>5, <1>6, <1>7, <1>8 DEF Alike
-----------------------------------------------------------------------------
(***************************************************************************)
(* The other changes of one fighter.                                       *)
(***************************************************************************)

\* Time passes: only deadlines come nearer, each by one.
LEMMA ElapseKeeps ==
  ASSUME NEW f, Sound(f)
  PROVE  /\ Sound(Elapse(f)) /\ SameDeed(f, Elapse(f))
         /\ Elapse(f).kills = f.kills /\ Elapse(f).guard = f.guard
         /\ Elapse(f).guardWait >= f.guardWait - 1
<1>1. OneLess(f.guardWait) \in Nat /\ OneLess(f.guardWait) >= f.guardWait - 1
  BY DEF OneLess, Sound
<1> QED
  BY <1>1 DEF Elapse, SameDeed, Sound

\* A fighter that enters the world.
LEMMA NewFighterFacts ==
  Sound(NewFighter) /\ NewFighter.action = "Idle" /\ NewFighter.kills = 0
<1>1. GuardMax \in Nat
  BY FighterAssumption
<1> QED
  BY <1>1 DEF NewFighter, Sound, Action

\* A fighter that comes back has its score, and does nothing.
LEMMA RespawnFacts ==
  ASSUME NEW f, Sound(f)
  PROVE  Sound(Respawn(f)) /\ Respawn(f).action = "Idle" /\ Respawn(f).kills = f.kills
<1> DEFINE g == [f EXCEPT !.hp = HpMax, !.guard = GuardMax, !.stamina = StaminaMax,
                          !.respawnWait = 0, !.hits = {}, !.rolled = {}, !.staminaWait = 0,
                          !.down = {}, !.buffered = {}]
<1>1. GuardMax \in Nat
  BY FighterAssumption
<1>2. Sound(g) /\ g.kills = f.kills
  BY <1>1 DEF Sound
<1> HIDE DEF g
<1>3. Sound(Rest(g)) /\ Rest(g).action = "Idle" /\ Rest(g).kills = g.kills
  BY <1>2, RestBegins DEF Begun, Alike
<1> QED
  BY <1>2, <1>3 DEF Respawn, g

\* A fighter that starts a new match has no score.
LEMMA ResetFacts ==
  ASSUME NEW f, Sound(f)
  PROVE  /\ Sound(ResetFighter(f)) /\ ResetFighter(f).action = "Idle"
         /\ ResetFighter(f).kills = 0
<1> DEFINE g == [f EXCEPT !.kills = 0, !.guardWait = 0, !.staminaWait = 0]
<1>1. Sound(g) /\ g.kills = 0
  BY DEF Sound
<1> HIDE DEF g
<1> QED
  BY <1>1, RespawnFacts DEF ResetFighter, g

\* A fighter that dies keeps its score.
LEMMA DieFacts ==
  ASSUME NEW f, Sound(f)
  PROVE  /\ Sound(Die(f)) /\ Die(f).action = "Dead" /\ Die(f).kills = f.kills
         /\ Die(f).hits = f.hits /\ Die(f).rolled = f.rolled
  BY DEF Die, Sound, Action
-----------------------------------------------------------------------------
(***************************************************************************)
(* The world.                                                              *)
(***************************************************************************)

\* What the proofs need to know of the types.
Shape ==
  /\ DOMAIN fighter = Fighter
  /\ \A i \in Fighter : Sound(fighter[i])
  /\ present \subseteq Fighter
  /\ turn \in Fighter /\ other \in Fighter
  /\ swing \in Active \cup {"Idle"}
  /\ met \in [Fighter -> SUBSET Fighter] /\ touched \in [Fighter -> SUBSET Fighter]

\* The next row of a loop is of the next fighter, or of the first one of the next loop.
LEMMA NextRowFacts ==
  ASSUME Shape, NextRow
  PROVE  /\ turn' \in Fighter /\ other' \in Fighter /\ swing' = "Idle"
         /\ phase = "act"    => (phase' = "act" /\ turn' = turn + 1) \/ phase' = "roll"
         /\ phase = "roll"   => phase' \in {"roll", "attack"}
         /\ phase = "attack" => phase' \in {"attack", "between"}
<1>1. 1 \in Fighter /\ (turn < FighterCount => turn + 1 \in Fighter)
  BY CombatAssumption DEF Shape
<1> QED
  BY <1>1 DEF NextRow, Shape

\* The next target of a roll.
LEMMA NextTargetFacts ==
  ASSUME Shape, NextTarget, phase = "roll"
  PROVE  /\ turn' \in Fighter /\ other' \in Fighter
         /\ swing' = "Idle" \/ swing' = swing
         /\ phase' \in {"roll", "attack"}
<1>1. CASE other < FighterCount
  BY <1>1, CombatAssumption DEF NextTarget, Shape
<1>2. CASE ~(other < FighterCount)
  BY <1>2, NextRowFacts DEF NextTarget
<1> QED
  BY <1>1, <1>2

\* After a pair of the third loop: the cursor stays with the attacker for as long as
\* it strikes.
Onward ==
  /\ turn' \in Fighter /\ other' \in Fighter /\ swing' \in Active \cup {"Idle"}
  /\ phase' \in {"attack", "between"}
  /\ swing' \in Active => turn' = turn

\* The next target of a swing.
LEMMA NextVictimFacts ==
  ASSUME Shape, Striking, NextVictim
  PROVE  Onward
<1>1. CASE other < FighterCount
  BY <1>1, CombatAssumption DEF NextVictim, Shape, Striking, Onward
<1>2. CASE ~(other < FighterCount)
  <2>1. "Idle" \notin Active
    BY DEF Active
  <2> QED
    BY <1>2, <2>1, NextRowFacts DEF NextVictim, Striking, Onward
<1> QED
  BY <1>1, <1>2

\* What a swing makes of the attacker.
Attacker ==
  LET f == fighter[turn]
      g == fighter'[turn]
  IN /\ Sound(g) /\ g.hits = f.hits \cup {other} /\ g.rolled = f.rolled
     /\ \/ g.action = f.action /\ g.elapsed = f.elapsed /\ g.duration = f.duration
        \/ g.action = "Stunned"
     /\ \/ g.kills = f.kills /\ UNCHANGED winner
        \/ /\ g.kills = f.kills + 1
           /\ IF g.kills >= KillTarget THEN winner' = turn /\ phase' = "between"
              ELSE UNCHANGED winner

\* What a swing makes of the target that it meets.
Target ==
  LET f == fighter[other]
      g == fighter'[other]
  IN /\ Sound(g) /\ g.hits = f.hits /\ g.rolled = f.rolled /\ g.kills = f.kills
     /\ \/ /\ SameDeed(f, g) /\ broken' = broken
           /\ f.action = "Block" \/ (g.guard = f.guard /\ g.guardWait = f.guardWait)
        \/ /\ g.action = "Stunned" /\ broken' = broken \cup {other}
           /\ g.guard = 0 /\ g.elapsed = 0 /\ g.duration > 0 /\ g.guardWait >= g.duration
        \/ /\ g.action = "Knockdown" /\ f.action # "Knockdown"
           /\ broken' = broken \ {other}
        \/ g.action = "Dead" /\ broken' = broken \ {other}

\* A swing meets a target.
Blow ==
  /\ Striking /\ CanMeet /\ Onward
  /\ met' = [met EXCEPT ![turn] = @ \cup {other}]
  /\ UNCHANGED <<present, touched>>
  /\ DOMAIN fighter' = Fighter
  /\ \A i \in Fighter \ {turn, other} : fighter'[i] = fighter[i]
  /\ Attacker /\ Target

\* The target of a pair is marked, and the attacker is not the target.
LEMMA MarkedFacts ==
  ASSUME Shape, CanMeet
  PROVE  /\ DOMAIN Marked = Fighter /\ turn # other
         /\ \A i \in Fighter \ {turn} : Marked[i] = fighter[i]
         /\ Sound(Marked[turn])
         /\ Marked[turn] = [fighter[turn] EXCEPT !.hits = @ \cup {other}]
<1>1. /\ DOMAIN Marked = Fighter /\ turn # other
      /\ \A i \in Fighter \ {turn} : Marked[i] = fighter[i]
      /\ Marked[turn] = [fighter[turn] EXCEPT !.hits = @ \cup {other}]
  BY DEF Shape, Marked, CanMeet
<1>2. Sound(Marked[turn])
  BY <1>1 DEF Shape, Sound
<1> QED
  BY <1>1, <1>2

\* A swing that leaves its target as it was.
LEMMA MarkStruck ==
  ASSUME Shape, Meet, fighter' = Marked, NextVictim, UNCHANGED <<winner, broken>>
  PROVE  Blow
<1>1. Striking /\ CanMeet /\ Onward
  BY NextVictimFacts DEF Meet
<1>2. Attacker
  BY <1>1, MarkedFacts DEF Attacker, Shape, Sound
<1>3. Target
  BY <1>1, MarkedFacts DEF Target, Shape, SameDeed
<1> QED
  BY <1>1, <1>2, <1>3, MarkedFacts DEF Blow, Meet

\* What others do to a fighter lasts some ticks.
LEMMA StunAndFall ==
  /\ "Stunned" \in Action /\ "Knockdown" \in Action
  /\ ParryStun \in Nat /\ KickKnockdown \in Nat /\ RollKnockdown \in Nat
  BY CombatAssumption DEF Action

\* A block takes some of the guard, or all of it.
LEMMA GuardLeftFacts ==
  ASSUME Shape, Striking
  PROVE  GuardLeft \in Nat
<1>1. fighter[other].guard \in Nat
  BY DEF Shape, Sound
<1>2. GuardDamage[Profile] \in Nat
  BY CombatAssumption DEF Striking
<1> QED
  BY <1>1, <1>2 DEF GuardLeft

\* A parry stuns the attacker, and the target keeps its guard up.
LEMMA ParryStruck ==
  ASSUME Shape, Parry
  PROVE  Blow
<1> DEFINE f == Marked[turn]
           g == SetAction(f, "Stunned", ParryStun)
           h == [fighter[other] EXCEPT !.guardWait = GuardDelay]
<1>1. Striking /\ CanMeet /\ Onward
  BY NextVictimFacts DEF Parry, Blocked, Meet
<1>2. /\ fighter'[turn] = g /\ fighter'[other] = h
      /\ DOMAIN fighter' = Fighter /\ \A i \in Fighter \ {turn, other} : fighter'[i] = fighter[i]
  BY <1>1, MarkedFacts DEF Parry, Shape
<1>3. /\ Sound(g) /\ g.action = "Stunned" /\ g.kills = f.kills
      /\ g.hits = f.hits /\ g.rolled = f.rolled
  <2>1. Sound(f)
    BY <1>1, MarkedFacts
  <2> HIDE DEF f
  <2> QED
    BY <2>1, StunAndFall, SetActionFacts DEF Alike
<1>4. /\ f.kills = fighter[turn].kills /\ f.hits = fighter[turn].hits \cup {other}
      /\ f.rolled = fighter[turn].rolled
  BY <1>1, MarkedFacts DEF Shape, Sound
<1>5. Sound(h) /\ SameDeed(fighter[other], h) /\ h.kills = fighter[other].kills
  BY CombatAssumption DEF Shape, Sound, SameDeed
<1> HIDE DEF f, g, h
<1>6. Attacker
  BY <1>2, <1>3, <1>4 DEF Attacker, Parry
<1>7. Target
  BY <1>2, <1>5 DEF Target, SameDeed, Parry, Blocked
<1> QED
  BY <1>1, <1>2, <1>6, <1>7 DEF Blow, Parry, Blocked, Meet

\* A change of the target of a marked swing.
LEMMA TargetStruck ==
  ASSUME Shape, Meet, Onward, UNCHANGED winner,
         NEW h, fighter' = [Marked EXCEPT ![other] = h],
         fighter'[other] = h => Target
  PROVE  Blow
<1>1. /\ fighter'[turn] = Marked[turn] /\ fighter'[other] = h
      /\ DOMAIN fighter' = Fighter /\ \A i \in Fighter \ {turn, other} : fighter'[i] = fighter[i]
  BY MarkedFacts DEF Meet, Shape
<1>2. Attacker
  BY <1>1, MarkedFacts DEF Attacker, Meet, Shape, Sound
<1> QED
  BY <1>1, <1>2 DEF Blow, Meet

\* A block that holds takes of the guard of a target that keeps it up.
LEMMA BlockHitStruck ==
  ASSUME Shape, BlockHit
  PROVE  Blow
<1> DEFINE h == [fighter[other] EXCEPT !.guard = GuardLeft, !.guardWait = GuardDelay]
<1>1. Meet /\ Onward
  BY NextVictimFacts DEF BlockHit, Blocked, Meet
<1>2. fighter' = [Marked EXCEPT ![other] = h]
  BY <1>1, MarkedFacts DEF BlockHit, Meet, Shape
<1>3. GuardLeft \in Nat
  BY <1>1, GuardLeftFacts DEF Meet
<1>4. Sound(h) /\ SameDeed(fighter[other], h) /\ h.kills = fighter[other].kills
  BY <1>3, CombatAssumption DEF Shape, Sound, SameDeed
<1> HIDE DEF h
<1>5. fighter'[other] = h => Target
  BY <1>4 DEF Target, SameDeed, BlockHit, Blocked
<1> QED
  BY <1>1, <1>2, <1>5, TargetStruck DEF BlockHit

\* A block that breaks stuns the target for no longer than its guard stays down.
LEMMA GuardBreakStruck ==
  ASSUME Shape, GuardBreak
  PROVE  Blow
<1> DEFINE d == GuardBreakStun[Profile]
           f == [fighter[other] EXCEPT !.guard = GuardLeft, !.guardWait = GuardBreakWait]
           h == SetAction(f, "Stunned", d)
<1>1. Meet /\ Onward
  BY NextVictimFacts DEF GuardBreak, Blocked, Meet
<1>2. fighter' = [Marked EXCEPT ![other] = h]
  BY <1>1, MarkedFacts DEF GuardBreak, Meet, Shape
<1>3. GuardLeft = 0
  BY <1>1, GuardLeftFacts DEF GuardBreak, Meet
<1>4. d \in Nat /\ d > 0 /\ GuardBreakWait \in Nat /\ GuardBreakWait >= d
  BY <1>1, CombatAssumption DEF GuardBreakWait, Meet, Striking
<1>5. /\ Sound(f) /\ f.guard = 0 /\ f.guardWait = GuardBreakWait
      /\ f.kills = fighter[other].kills /\ f.hits = fighter[other].hits
      /\ f.rolled = fighter[other].rolled
  BY <1>3, <1>4 DEF Shape, Sound
<1> HIDE DEF f, d
<1>6. /\ Alike(f, h) /\ h.action = "Stunned" /\ h.elapsed = 0 /\ h.duration = d
      /\ h.hits = f.hits /\ h.rolled = f.rolled
  BY <1>4, <1>5, StunAndFall, SetActionFacts
<1> HIDE DEF h
<1>7. fighter'[other] = h => Target
  BY <1>4, <1>5, <1>6 DEF Target, Alike, GuardBreak
<1>8. fighter' = [Marked EXCEPT ![other] = h] => Blow
  BY <1>1, <1>7, TargetStruck DEF GuardBreak
<1> QED
  BY <1>2, <1>8 DEF h

\* A kick fells a target that was not on the ground.
LEMMA KickDownStruck ==
  ASSUME Shape, KickDown
  PROVE  Blow
<1> DEFINE f == fighter[other]
           h == SetAction(f, "Knockdown", KickKnockdown)
<1>1. Meet /\ Onward
  BY NextVictimFacts DEF KickDown, Land, Meet
<1>2. fighter' = [Marked EXCEPT ![other] = h]
  BY <1>1, MarkedFacts DEF KickDown, Meet, Shape
<1>3. f.action # "Knockdown"
  BY DEF KickDown, Land, Grounded
<1>4. Sound(f)
  BY DEF Shape
<1>5. /\ Alike(f, h) /\ h.action = "Knockdown" /\ h.hits = f.hits /\ h.rolled = f.rolled
  BY <1>4, StunAndFall, SetActionFacts
<1> HIDE DEF h
<1>6. fighter'[other] = h => Target
  BY <1>3, <1>5 DEF Target, Alike, KickDown
<1>7. fighter' = [Marked EXCEPT ![other] = h] => Blow
  BY <1>1, <1>6, TargetStruck DEF KickDown
<1> QED
  BY <1>2, <1>7

\* A blow that does not kill leaves the target in what it does.
LEMMA HitStruck ==
  ASSUME Shape, Hit
  PROVE  Blow
<1> DEFINE h == [fighter[other] EXCEPT !.hp = @ - Damage[Profile]]
<1>1. Meet /\ Onward
  BY NextVictimFacts DEF Hit, Land, Meet
<1>2. fighter' = [Marked EXCEPT ![other] = h]
  BY <1>1, MarkedFacts DEF Hit, Meet, Shape
<1>3. /\ Sound(h) /\ SameDeed(fighter[other], h) /\ h.kills = fighter[other].kills
      /\ h.guard = fighter[other].guard /\ h.guardWait = fighter[other].guardWait
  BY DEF Shape, Sound, SameDeed
<1> HIDE DEF h
<1>4. fighter'[other] = h => Target
  BY <1>3 DEF Target, SameDeed, Hit
<1> QED
  BY <1>1, <1>2, <1>4, TargetStruck DEF Hit

\* A kill counts, and the one that decides the match ends the step.
LEMMA KillStruck ==
  ASSUME Shape, Kill
  PROVE  Blow
<1> DEFINE g == [Marked[turn] EXCEPT !.kills = @ + 1]
           h == Die(fighter[other])
<1>1. Striking /\ CanMeet /\ Meet
  BY DEF Kill, Land, Meet
<1>2. Onward
  <2>1. CASE EndStep
    BY <2>1, CombatAssumption DEF EndStep, Onward, Active
  <2>2. CASE NextVictim
    BY <1>1, <2>2, NextVictimFacts
  <2> QED
    BY <2>1, <2>2 DEF Kill, Decide
<1>3. /\ fighter'[turn] = g /\ fighter'[other] = h
      /\ DOMAIN fighter' = Fighter /\ \A i \in Fighter \ {turn, other} : fighter'[i] = fighter[i]
  BY <1>1, MarkedFacts DEF Kill, Shape
<1>4. /\ Sound(g) /\ g.kills = fighter[turn].kills + 1
      /\ g.hits = fighter[turn].hits \cup {other} /\ g.rolled = fighter[turn].rolled
      /\ g.action = fighter[turn].action /\ g.elapsed = fighter[turn].elapsed
      /\ g.duration = fighter[turn].duration
  BY <1>1, MarkedFacts DEF Shape, Sound
<1>5. Sound(h) /\ h.action = "Dead" /\ h.kills = fighter[other].kills
      /\ h.hits = fighter[other].hits /\ h.rolled = fighter[other].rolled
  BY DieFacts DEF Shape
<1>6. IF g.kills >= KillTarget THEN winner' = turn /\ phase' = "between" ELSE UNCHANGED winner
  BY <1>4 DEF Kill, Decide, EndStep
<1> HIDE DEF g, h
<1>7. Attacker
  BY <1>3, <1>4, <1>6 DEF Attacker
<1>8. Target
  BY <1>3, <1>5 DEF Target, Kill
<1> QED
  BY <1>1, <1>3, <1>7, <1>8, <1>2 DEF Blow, Meet

\* Every swing that meets a target.
LEMMA AttackIsStruck ==
  ASSUME Shape,
         KickGrounded \/ Evade \/ Parry \/ BlockHit \/ GuardBreak \/ KickDown \/ Hit \/ Kill
  PROVE  Blow
  BY MarkStruck, ParryStruck, BlockHitStruck, GuardBreakStruck, KickDownStruck, HitStruck,
     KillStruck DEF KickGrounded, Evade, Evaded

\* A roll that catches a target on its feet, or rolls over one on the ground.
Caught ==
  /\ phase = "roll" /\ Rolling(turn) /\ CanTouch /\ turn # other
  /\ turn' \in Fighter /\ other' \in Fighter /\ swing' \in {"Idle", swing}
  /\ phase' \in {"roll", "attack"}
  /\ touched' = [touched EXCEPT ![turn] = @ \cup {other}]
  /\ UNCHANGED <<present, winner, met>>
  /\ DOMAIN fighter' = Fighter
  /\ \A i \in Fighter \ {turn, other} : fighter'[i] = fighter[i]
  /\ LET f == fighter[turn]
         g == fighter'[turn]
     IN Alike(f, g) /\ g.rolled = f.rolled \cup {other} /\ g.hits = f.hits /\ g.action = "Dodge"
  /\ \/ fighter'[other] = fighter[other] /\ UNCHANGED broken
     \/ LET f == fighter[other]
            g == fighter'[other]
        IN /\ f.action # "Knockdown" /\ broken' = broken \ {other}
           /\ Alike(f, g) /\ g.action = "Knockdown"

\* A roll that runs into another touches no third fighter, and goes on.
LEMMA RollCatches ==
  ASSUME Shape, RollInto
  PROVE  Caught
<1> DEFINE g == [fighter[turn] EXCEPT !.rolled = @ \cup {other}]
           h == SetAction(fighter[other], "Knockdown", RollKnockdown)
<1>1. /\ turn' \in Fighter /\ other' \in Fighter /\ swing' \in {"Idle", swing}
      /\ phase' \in {"roll", "attack"}
  BY NextTargetFacts DEF RollInto
<1>2. turn # other /\ turn \in Fighter /\ other \in Fighter /\ fighter[turn].action = "Dodge"
  BY DEF RollInto, CanTouch, Shape, Rolling
<1>3. /\ Alike(fighter[turn], g) /\ g.rolled = fighter[turn].rolled \cup {other}
      /\ g.hits = fighter[turn].hits /\ g.action = fighter[turn].action
  BY <1>2 DEF Shape, Sound, Alike
<1>4. Alike(fighter[other], h) /\ h.action = "Knockdown"
  BY <1>2, StunAndFall, SetActionFacts DEF Shape
<1>5. /\ DOMAIN fighter' = Fighter /\ fighter'[turn] = g
      /\ \A i \in Fighter \ {turn, other} : fighter'[i] = fighter[i]
  BY <1>2 DEF RollInto, RollOverGrounded, KnockDownByRoll, Shape
<1>6. \/ fighter'[other] = fighter[other] /\ UNCHANGED broken
      \/ /\ fighter[other].action # "Knockdown" /\ broken' = broken \ {other}
         /\ fighter'[other] = h
  BY <1>2 DEF RollInto, RollOverGrounded, KnockDownByRoll, Shape
<1> HIDE DEF g, h
<1> QED
  BY <1>1, <1>2, <1>3, <1>4, <1>5, <1>6 DEF Caught, RollInto
-----------------------------------------------------------------------------
(***************************************************************************)
(* The types.                                                              *)
(***************************************************************************)

\* A new world is well shaped.
LEMMA ShapeInit ==
  ASSUME Init
  PROVE  Shape
<1>1. 1 \in Fighter
  BY CombatAssumption
<1> QED
  BY <1>1, NewFighterFacts DEF Init, Shape, NoOne

\* The next-state relation, one disjunct at a time.
LEMMA Steps ==
  ASSUME [Next]_vars
  PROVE  \/ UNCHANGED vars
         \/ \E i \in Fighter : AddPlayer(i)
         \/ \E i \in Fighter : RemovePlayer(i)
         \/ BeginStep \/ StepOver \/ SkipAbsent \/ ActDead
         \/ \E input : ActLiving(input)
         \/ SkipRoller \/ RollPast \/ RollInto \/ SkipAttacker \/ Miss
         \/ KickGrounded \/ Evade \/ Parry \/ BlockHit \/ GuardBreak \/ KickDown \/ Hit \/ Kill
  BY DEF Next, WorldStep, ActStep, RollStep, AttackStep

\* Every step leaves the world well shaped.
LEMMA ShapeNext ==
  ASSUME Shape, [Next]_vars
  PROVE  Shape'
<1>1. CASE UNCHANGED vars
  BY <1>1 DEF vars, worldVars, cursorVars, historyVars, Shape
<1>2. ASSUME NEW i \in Fighter, AddPlayer(i) PROVE Shape'
  BY <1>2 DEF AddPlayer, worldVars, cursorVars, historyVars, Shape
<1>3. ASSUME NEW i \in Fighter, RemovePlayer(i) PROVE Shape'
  BY <1>3, NewFighterFacts DEF RemovePlayer, cursorVars, Shape
<1>4. CASE BeginStep
  <2>1. 1 \in Fighter
    BY CombatAssumption
  <2> QED
    BY <1>4, <2>1, ElapseKeeps DEF BeginStep, historyVars, Shape
<1>5. CASE StepOver
  <2>1. DOMAIN fighter' = Fighter /\ \A i \in Fighter : Sound(fighter'[i])
    BY <1>5, ElapseKeeps, ResetFacts DEF StepOver, Shape
  <2> QED
    BY <1>5, <2>1 DEF StepOver, cursorVars, historyVars, Shape, NoOne
<1>6. CASE SkipAbsent \/ SkipRoller \/ SkipAttacker
  BY <1>6, NextRowFacts
  DEF SkipAbsent, SkipRoller, SkipAttacker, worldVars, historyVars, Shape
<1>7. CASE ActDead
  <2>1. DOMAIN fighter' = Fighter /\ \A i \in Fighter : Sound(fighter'[i])
    BY <1>7, RespawnFacts DEF ActDead, Shape
  <2> QED
    BY <1>7, <2>1, NextRowFacts DEF ActDead, historyVars, Shape
<1>8. ASSUME NEW input, ActLiving(input) PROVE Shape'
  <2>1. DOMAIN fighter' = Fighter /\ \A i \in Fighter : Sound(fighter'[i])
    BY <1>8, LivingTickTurns DEF ActLiving, Shape
  <2>2. /\ met' \in [Fighter -> SUBSET Fighter] /\ touched' \in [Fighter -> SUBSET Fighter]
    BY <1>8 DEF ActLiving, Shape
  <2> QED
    BY <1>8, <2>1, <2>2, NextRowFacts DEF ActLiving, Shape
<1>9. CASE RollPast
  <2>1. turn' \in Fighter /\ other' \in Fighter /\ swing' \in Active \cup {"Idle"}
    BY <1>9, NextTargetFacts DEF RollPast, Shape
  <2> QED
    BY <1>9, <2>1 DEF RollPast, worldVars, historyVars, Shape
<1>10. CASE RollInto
  <2>1. Caught
    BY <1>10, RollCatches
  <2>2. \A i \in Fighter : Sound(fighter'[i])
    BY <2>1 DEF Caught, Shape, Alike
  <2>3. touched' \in [Fighter -> SUBSET Fighter]
    BY <2>1 DEF Caught, Shape
  <2>4. swing' \in Active \cup {"Idle"}
    BY <2>1 DEF Caught, Shape
  <2>5. /\ DOMAIN fighter' = Fighter /\ present' = present /\ met' = met
        /\ turn' \in Fighter /\ other' \in Fighter
    BY <2>1 DEF Caught
  <2> QED
    BY <2>2, <2>3, <2>4, <2>5 DEF Shape
<1>11. CASE Miss
  <2>1. Onward
    BY <1>11, NextVictimFacts DEF Miss
  <2> QED
    BY <1>11, <2>1 DEF Miss, Onward, worldVars, historyVars, Shape
<1>12. CASE Blow
  <2>1. \A i \in Fighter : Sound(fighter'[i])
    BY <1>12 DEF Blow, Attacker, Target, Shape
  <2> QED
    BY <1>12, <2>1 DEF Blow, Onward, Shape
<1> QED
  BY <1>1, <1>2, <1>3, <1>4, <1>5, <1>6, <1>7, <1>8, <1>9, <1>10, <1>11, <1>12,
     Steps, AttackIsStruck

\* The types hold at every moment.
THEOREM ShapeInvariant == Spec => []Shape
<1> QED
  BY ShapeInit, ShapeNext, PTL DEF Spec
-----------------------------------------------------------------------------
(***************************************************************************)
(* The score.                                                              *)
(***************************************************************************)

\* Who is not in the world has no kills, and a match that goes on has no winner.
ScoreInv ==
  /\ WinnerHasTheKills
  /\ \A i \in Fighter \ present : fighter[i].kills = 0
  /\ phase # "between" => winner = NoFighter

\* A new world has no winner and no kills.
LEMMA ScoreInit ==
  ASSUME Init
  PROVE  ScoreInv
  BY NewFighterFacts, CombatAssumption DEF Init, ScoreInv, WinnerHasTheKills, NoFighter

\* Steps that leave the kills and the winner alone.
LEMMA SameScore ==
  ASSUME Shape, ScoreInv, \A i \in Fighter : fighter'[i].kills = fighter[i].kills,
         UNCHANGED <<present, winner>>, phase' # "between" => winner = NoFighter
  PROVE  ScoreInv'
  BY DEF ScoreInv, WinnerHasTheKills, Shape

\* Every step leaves the winner with the kills.
LEMMA ScoreNext ==
  ASSUME Shape, ScoreInv, [Next]_vars
  PROVE  ScoreInv'
<1> USE DEF Shape
<1>0. 0 \notin Fighter /\ KillTarget \in Nat \ {0}
  BY CombatAssumption
<1>1. CASE UNCHANGED vars
  BY <1>1 DEF vars, worldVars, cursorVars, historyVars, ScoreInv, WinnerHasTheKills
<1>2. ASSUME NEW i \in Fighter, AddPlayer(i) PROVE ScoreInv'
  BY <1>0, <1>2 DEF AddPlayer, cursorVars, ScoreInv, WinnerHasTheKills, NoFighter
<1>3. ASSUME NEW i \in Fighter, RemovePlayer(i) PROVE ScoreInv'
  BY <1>3, NewFighterFacts DEF RemovePlayer, cursorVars, ScoreInv, WinnerHasTheKills
<1>4. CASE BeginStep
  <2>1. \A i \in Fighter : fighter'[i].kills = fighter[i].kills
    BY <1>4, ElapseKeeps DEF BeginStep
  <2> QED
    BY <1>4, <2>1, SameScore DEF BeginStep
<1>5. CASE StepOver
  <2>1. CASE resetWait > 1
    <3>1. \A i \in Fighter : fighter'[i].kills = fighter[i].kills
      BY <1>5, <2>1, ElapseKeeps DEF StepOver
    <3> QED
      BY <1>5, <2>1, <3>1, SameScore DEF StepOver, cursorVars
  <2>2. CASE ~(resetWait > 1)
    <3>1. \A i \in Fighter : fighter'[i].kills = 0
      <4> TAKE i \in Fighter
      <4>1. Sound(Elapse(fighter[i]))
        BY ElapseKeeps
      <4>2. i \in present => fighter'[i] = ResetFighter(Elapse(fighter[i]))
        BY <1>5, <2>2 DEF StepOver
      <4>3. i \notin present => fighter'[i] = fighter[i]
        BY <1>5, <2>2 DEF StepOver
      <4> QED
        BY <4>1, <4>2, <4>3, ResetFacts DEF ScoreInv
    <3>2. winner' = NoFighter /\ present' = present
      BY <1>5, <2>2 DEF StepOver
    <3> QED
      BY <1>0, <3>1, <3>2 DEF ScoreInv, WinnerHasTheKills, NoFighter
  <2> QED
    BY <2>1, <2>2
<1>6. CASE SkipAbsent \/ SkipRoller \/ SkipAttacker \/ RollPast \/ Miss
  <2>1. UNCHANGED worldVars /\ phase # "between"
    BY <1>6 DEF SkipAbsent, SkipRoller, SkipAttacker, RollPast, Miss, Striking
  <2> QED
    BY <2>1, SameScore DEF worldVars, ScoreInv
<1>7. CASE ActDead
  <2>1. \A i \in Fighter : fighter'[i].kills = fighter[i].kills
    BY <1>7, RespawnFacts DEF ActDead
  <2> QED
    BY <1>7, <2>1, SameScore DEF ActDead, ScoreInv
<1>8. ASSUME NEW input, ActLiving(input) PROVE ScoreInv'
  <2>1. \A i \in Fighter : fighter'[i].kills = fighter[i].kills
    BY <1>8, LivingTickTurns DEF ActLiving
  <2> QED
    BY <1>8, <2>1, SameScore DEF ActLiving, ScoreInv
<1>9. CASE RollInto
  <2>1. Caught
    BY <1>9, RollCatches
  <2>2. \A i \in Fighter : fighter'[i].kills = fighter[i].kills
    BY <2>1 DEF Caught, Alike
  <2> QED
    BY <2>1, <2>2, SameScore DEF Caught, ScoreInv
<1>10. CASE Blow
  <2>1. /\ turn \in present /\ phase = "attack" /\ winner = NoFighter /\ present' = present
        /\ turn # other
    BY <1>10 DEF Blow, Striking, ScoreInv, CanMeet
  <2>2. \A i \in Fighter \ {turn} : fighter'[i].kills = fighter[i].kills
    BY <1>10 DEF Blow, Target
  <2>3. CASE fighter'[turn].kills = fighter[turn].kills /\ UNCHANGED winner
    BY <2>1, <2>2, <2>3, SameScore
  <2>4. CASE /\ fighter'[turn].kills = fighter[turn].kills + 1
             /\ IF fighter'[turn].kills >= KillTarget
                THEN winner' = turn /\ phase' = "between"
                ELSE UNCHANGED winner
    <3>1. \A i \in present : fighter[i].kills < KillTarget /\ fighter[i].kills \in Nat
      BY <1>0, <2>1 DEF ScoreInv, WinnerHasTheKills, Sound, NoFighter
    <3>2. fighter'[turn].kills <= KillTarget
      BY <1>0, <2>1, <2>4, <3>1
    <3>3. CASE fighter'[turn].kills = KillTarget
      <4>1. winner' = turn /\ phase' = "between"
        BY <1>0, <2>4, <3>3
      <4> QED
        BY <1>0, <2>1, <2>2, <3>1, <3>3, <4>1 DEF ScoreInv, WinnerHasTheKills
    <3>4. CASE fighter'[turn].kills # KillTarget
      <4>1. ~(fighter'[turn].kills >= KillTarget) /\ fighter'[turn].kills \in Nat
        BY <1>0, <2>1, <2>4, <3>1, <3>2, <3>4
      <4>2. winner' = NoFighter
        BY <2>1, <2>4, <4>1
      <4> QED
        BY <1>0, <2>1, <2>2, <3>1, <3>2, <3>4, <4>2
        DEF ScoreInv, WinnerHasTheKills, NoFighter
    <3> QED
      BY <3>3, <3>4
  <2> QED
    BY <1>10, <2>3, <2>4 DEF Blow, Attacker
<1> QED
  BY <1>1, <1>2, <1>3, <1>4, <1>5, <1>6, <1>7, <1>8, <1>9, <1>10, Steps, AttackIsStruck

\* The match has a winner when, and only when, one of the fighters has the kills of a
\* winner, and it is that one: whatever the blows of the step that decides it, and
\* whoever joins and leaves (resolve_attacks, remove_player, reset_match).
THEOREM TheWinnerHasTheKills == Spec => []WinnerHasTheKills
<1>1. ScoreInv => WinnerHasTheKills
  BY DEF ScoreInv
<1> QED
  BY <1>1, ShapeInvariant, ScoreInit, ScoreNext, PTL DEF Spec
-----------------------------------------------------------------------------
(***************************************************************************)
(* Whom a swing and a roll have met.                                       *)
(***************************************************************************)

\* What the masks of a fighter must remember of whom it has met.
Remembers(f, m, t) ==
  /\ f.action \in Windup => m = {}
  /\ f.action \in Active => m \subseteq f.hits
  /\ f.action = "Dodge" => t \subseteq f.rolled

\* The attacker of the row, whatever became of it.
RowInv ==
  phase = "attack" /\ swing \in Active =>
    met[turn] \subseteq fighter[turn].hits /\ fighter[turn].action \notin Windup

MeetInv ==
  /\ \A i \in Fighter : Remembers(fighter[i], met[i], touched[i])
  /\ RowInv

\* A new world owes nobody a blow or a knockdown.
LEMMA MeetInit ==
  ASSUME Init
  PROVE  MeetInv
  BY NewFighterFacts DEF Init, MeetInv, Remembers, RowInv, NoOne, Windup, Active

\* A fighter in no swing and no roll has nothing to remember.
LEMMA IdleRemembers ==
  ASSUME NEW f, NEW m, NEW t, f.action \notin Windup \cup Active \cup {"Dodge"}
  PROVE  Remembers(f, m, t)
  BY DEF Remembers

\* The deed is as it was.
LEMMA SameRemembers ==
  ASSUME NEW f, NEW g, NEW m, NEW t, Remembers(f, m, t), SameDeed(f, g)
  PROVE  Remembers(g, m, t)
  BY DEF Remembers, SameDeed

\* A swing strikes with the mask of its row.
LEMMA StrikerRemembers ==
  ASSUME Shape, MeetInv, Striking
  PROVE  met[turn] \subseteq fighter[turn].hits /\ fighter[turn].action \notin Windup
<1>1. CASE swing = "Idle"
  BY <1>1, Kinds DEF Striking, Profile, MeetInv, Remembers, Shape
<1>2. CASE swing # "Idle"
  BY <1>2 DEF Striking, Profile, MeetInv, RowInv, Shape
<1> QED
  BY <1>1, <1>2

\* Every step leaves the world with all it owes remembered.
LEMMA MeetNext ==
  ASSUME Shape, MeetInv, [Next]_vars
  PROVE  MeetInv'
<1> USE DEF Shape
<1>0. /\ "Idle" \notin Windup \cup Active \cup {"Dodge"}
      /\ {"Knockdown", "Stunned", "Dead"} \cap (Windup \cup Active \cup {"Dodge"}) = {}
  BY DEF Windup, Active
<1>1. CASE UNCHANGED vars
  BY <1>1 DEF vars, worldVars, cursorVars, historyVars, MeetInv, RowInv
<1>2. ASSUME NEW i \in Fighter, AddPlayer(i) PROVE MeetInv'
  BY <1>2 DEF AddPlayer, cursorVars, historyVars, MeetInv, RowInv
<1>3. ASSUME NEW i \in Fighter, RemovePlayer(i) PROVE MeetInv'
  <2>1. \A j \in Fighter : Remembers(fighter'[j], met'[j], touched'[j])
    BY <1>0, <1>3, NewFighterFacts, IdleRemembers DEF RemovePlayer, MeetInv
  <2> QED
    BY <1>3, <2>1 DEF RemovePlayer, cursorVars, MeetInv, RowInv
<1>4. CASE BeginStep
  <2>1. \A j \in Fighter : Remembers(fighter'[j], met'[j], touched'[j])
    BY <1>4, ElapseKeeps, SameRemembers DEF BeginStep, historyVars, MeetInv
  <2> QED
    BY <1>4, <2>1 DEF BeginStep, MeetInv, RowInv
<1>5. CASE StepOver
  <2>1. CASE resetWait > 1
    BY <1>5, <2>1, ElapseKeeps, SameRemembers
    DEF StepOver, historyVars, cursorVars, MeetInv, RowInv
  <2>2. CASE ~(resetWait > 1)
    BY <1>5, <2>2 DEF StepOver, cursorVars, MeetInv, RowInv, Remembers, NoOne
  <2> QED
    BY <2>1, <2>2
<1>6. CASE SkipAbsent \/ SkipRoller \/ SkipAttacker
  BY <1>0, <1>6, NextRowFacts
  DEF SkipAbsent, SkipRoller, SkipAttacker, worldVars, historyVars, MeetInv, RowInv
<1>7. CASE ActDead
  <2>1. /\ \A j \in Fighter : j # turn => fighter'[j] = fighter[j]
        /\ fighter'[turn] = fighter[turn] \/ fighter'[turn].action = "Idle"
    BY <1>7, RespawnFacts DEF ActDead
  <2>2. \A j \in Fighter : Remembers(fighter'[j], met'[j], touched'[j])
    BY <1>0, <1>7, <2>1, IdleRemembers DEF ActDead, historyVars, MeetInv
  <2> QED
    BY <1>0, <1>7, <2>2, NextRowFacts DEF ActDead, MeetInv, RowInv
<1>8. ASSUME NEW input, ActLiving(input) PROVE MeetInv'
  <2>1. /\ \A j \in Fighter : j # turn =>
             fighter'[j] = fighter[j] /\ met'[j] = met[j] /\ touched'[j] = touched[j]
        /\ Turned(fighter[turn], fighter'[turn])
    BY <1>8, LivingTickTurns DEF ActLiving
  <2>2. /\ met'[turn] = IF fighter'[turn].action \in Windup THEN {} ELSE met[turn]
        /\ touched'[turn] = IF fighter'[turn].action = "Dodge" /\ fighter[turn].action # "Dodge"
                            THEN {} ELSE touched[turn]
    BY <1>8 DEF ActLiving
  <2>3. Remembers(fighter'[turn], met'[turn], touched'[turn])
    <3>1. Remembers(fighter[turn], met[turn], touched[turn])
      BY DEF MeetInv
    <3>2. fighter'[turn].action \in Windup => met'[turn] = {}
      BY <2>2
    <3>3. fighter'[turn].action \in Active => met'[turn] \subseteq fighter'[turn].hits
      BY <2>1, <2>2, <3>1, Kinds DEF Turned, Remembers
    <3>4. fighter'[turn].action = "Dodge" => touched'[turn] \subseteq fighter'[turn].rolled
      BY <2>1, <2>2, <3>1, Kinds DEF Turned, Remembers
    <3> QED
      BY <3>2, <3>3, <3>4 DEF Remembers
  <2> QED
    BY <1>0, <1>8, <2>1, <2>3, NextRowFacts DEF ActLiving, MeetInv, RowInv
<1>9. CASE RollPast
  BY <1>0, <1>9, NextTargetFacts DEF RollPast, NextTarget, NextRow, worldVars, historyVars,
     MeetInv, RowInv
<1>10. CASE RollInto
  <2>1. Caught
    BY <1>10, RollCatches
  <2>2. \A j \in Fighter \ {turn, other} : Remembers(fighter'[j], met'[j], touched'[j])
    BY <2>1 DEF Caught, MeetInv
  <2>3. Remembers(fighter'[turn], met'[turn], touched'[turn])
    <3>1. touched[turn] \subseteq fighter[turn].rolled
      BY <2>1 DEF Caught, MeetInv, Remembers, Rolling
    <3>2. touched'[turn] = touched[turn] \cup {other} /\ met'[turn] = met[turn]
      BY <2>1 DEF Caught
    <3>3. fighter'[turn].rolled = fighter[turn].rolled \cup {other}
          /\ fighter'[turn].action = "Dodge"
      BY <2>1 DEF Caught
    <3> QED
      BY <3>1, <3>2, <3>3, Kinds DEF Remembers
  <2>4. Remembers(fighter'[other], met'[other], touched'[other])
    <3>1. touched'[other] = touched[other] /\ met'[other] = met[other]
      BY <2>1 DEF Caught
    <3> QED
      BY <1>0, <2>1, <3>1, IdleRemembers DEF Caught, MeetInv
  <2>5. \A j \in Fighter : Remembers(fighter'[j], met'[j], touched'[j])
    BY <2>2, <2>3, <2>4
  <2>6. ~(phase' = "attack" /\ swing' \in Active)
    BY <1>0, <1>10 DEF RollInto, NextTarget, NextRow
  <2> QED
    BY <2>5, <2>6 DEF MeetInv, RowInv
<1>11. CASE Miss
  <2>1. Onward /\ Striking
    BY <1>11, NextVictimFacts DEF Miss
  <2> QED
    BY <1>11, <2>1, StrikerRemembers DEF Miss, Onward, worldVars, historyVars, MeetInv, RowInv
<1>12. CASE Blow
  <2>1. /\ met[turn] \subseteq fighter[turn].hits /\ fighter[turn].action \notin Windup
        /\ turn # other
    BY <1>12, StrikerRemembers DEF Blow, CanMeet
  <2>2. met'[turn] = met[turn] \cup {other} /\ touched' = touched
        /\ \A j \in Fighter \ {turn} : met'[j] = met[j]
    BY <1>12 DEF Blow
  <2>3. /\ met'[turn] \subseteq fighter'[turn].hits /\ fighter'[turn].action \notin Windup
        /\ Remembers(fighter'[turn], met'[turn], touched'[turn])
    <3>1. fighter'[turn].hits = fighter[turn].hits \cup {other}
          /\ fighter'[turn].rolled = fighter[turn].rolled
          /\ fighter'[turn].action \in {fighter[turn].action, "Stunned"}
      BY <1>12 DEF Blow, Attacker
    <3>2. Remembers(fighter[turn], met[turn], touched[turn])
      BY DEF MeetInv
    <3> QED
      BY <1>0, <2>1, <2>2, <3>1, <3>2 DEF Remembers
  <2>4. Remembers(fighter'[other], met'[other], touched'[other])
    <3>1. Remembers(fighter[other], met[other], touched[other])
      BY DEF MeetInv
    <3>2. met'[other] = met[other] /\ touched'[other] = touched[other]
      BY <2>1, <2>2
    <3>3. SameDeed(fighter[other], fighter'[other])
          \/ fighter'[other].action \in {"Stunned", "Knockdown", "Dead"}
      BY <1>12 DEF Blow, Target
    <3> QED
      BY <1>0, <3>1, <3>2, <3>3, SameRemembers, IdleRemembers
  <2>5. \A j \in Fighter \ {turn, other} : Remembers(fighter'[j], met'[j], touched'[j])
    BY <1>12, <2>2 DEF Blow, MeetInv
  <2>6. \A j \in Fighter : Remembers(fighter'[j], met'[j], touched'[j])
    BY <2>3, <2>4, <2>5
  <2> QED
    BY <1>12, <2>3, <2>6 DEF Blow, Onward, MeetInv, RowInv
<1> QED
  BY <1>1, <1>2, <1>3, <1>4, <1>5, <1>6, <1>7, <1>8, <1>9, <1>10, <1>11, <1>12,
     Steps, AttackIsStruck

\* What a step does to a fighter that has met the target of the pair: nothing.
LEMMA MetIsSpared ==
  ASSUME Shape, MeetInv, [Next]_vars
  PROVE  /\ phase = "roll" /\ other \in touched[turn] => UNCHANGED fighter
         /\ phase = "attack" /\ other \in met[turn] => UNCHANGED fighter
<1>1. ASSUME phase = "roll" \/ phase = "attack",
             ~UNCHANGED fighter
      PROVE  RollInto \/ Blow
  <2>1. ~UNCHANGED vars
    BY <1>1 DEF vars, worldVars
  <2>2. /\ \A i \in Fighter : ~AddPlayer(i) /\ ~RemovePlayer(i)
        /\ ~BeginStep /\ ~StepOver /\ ~SkipAbsent /\ ~ActDead
        /\ \A input : ~ActLiving(input)
    BY <1>1 DEF AddPlayer, RemovePlayer, BeginStep, StepOver, SkipAbsent, ActDead, ActLiving
  <2>3. ~SkipRoller /\ ~RollPast /\ ~SkipAttacker /\ ~Miss
    BY <1>1 DEF SkipRoller, RollPast, SkipAttacker, Miss, worldVars
  <2> QED
    BY <2>1, <2>2, <2>3, Steps, AttackIsStruck
<1>2. ASSUME RollInto PROVE phase = "roll" /\ other \notin touched[turn]
  <2>1. phase = "roll" /\ turn \in Fighter /\ fighter[turn].action = "Dodge"
        /\ other \notin fighter[turn].rolled
    BY <1>2 DEF RollInto, Rolling, CanTouch, Shape
  <2> QED
    BY <2>1 DEF MeetInv, Remembers
<1>3. ASSUME Blow PROVE phase = "attack" /\ other \notin met[turn]
  BY <1>3, StrikerRemembers DEF Blow, Striking, CanMeet
<1> QED
  BY <1>1, <1>2, <1>3

\* One swing meets a target once, and one roll touches it once, however many ticks
\* they last and whatever came of the first time (resolve_attacks and
\* resolve_roll_collisions, whose masks outlive a parry, a fall and an evasion).
THEOREM NothingFallsTwice == Spec => MeetsOnce
<1>1. Shape /\ MeetInv /\ [Next]_vars
      => /\ [phase = "roll" /\ other \in touched[turn] => UNCHANGED fighter]_vars
         /\ [phase = "attack" /\ other \in met[turn] => UNCHANGED fighter]_vars
  BY MetIsSpared
<1> QED
  BY <1>1, ShapeInvariant, MeetInit, MeetNext, PTL
  DEF Spec, MeetsOnce, RollTouchesOnce, SwingMeetsOnce
-----------------------------------------------------------------------------
(***************************************************************************)
(* The ground.                                                             *)
(***************************************************************************)

\* A fighter that was down and is down has no more time to go.
NoLonger(f, g) ==
  f.action = "Knockdown" /\ g.action = "Knockdown" => TimeDown(g) <= TimeDown(f)

\* What is not changed is not prolonged.
LEMMA SameNoLonger ==
  ASSUME NEW f, Sound(f), NEW g, SameDeed(f, g)
  PROVE  NoLonger(f, g) /\ NoLonger(f, f)
  BY DEF NoLonger, TimeDown, SameDeed, Sound

\* No step gives a fighter that stays down more time on the ground.
LEMMA GroundNext ==
  ASSUME Shape, [Next]_vars
  PROVE  \A i \in Fighter : NoLonger(fighter[i], fighter'[i])
<1> USE DEF Shape
<1>1. CASE UNCHANGED fighter
  BY <1>1 DEF NoLonger, TimeDown, Sound
<1>2. \A i \in Fighter : NoLonger(fighter[i], fighter[i])
  BY DEF NoLonger, TimeDown, Sound
<1>3. ASSUME NEW i \in Fighter, AddPlayer(i) PROVE UNCHANGED fighter
  BY <1>3 DEF AddPlayer
<1>4. ASSUME NEW j \in Fighter, RemovePlayer(j)
      PROVE  \A i \in Fighter : NoLonger(fighter[i], fighter'[i])
  <2>1. fighter'[j].action = "Idle" /\ \A i \in Fighter \ {j} : fighter'[i] = fighter[i]
    BY <1>4, NewFighterFacts DEF RemovePlayer
  <2> QED
    BY <1>2, <2>1 DEF NoLonger
<1>5. CASE BeginStep
  BY <1>5, ElapseKeeps, SameNoLonger DEF BeginStep
<1>6. CASE StepOver
  <2>1. CASE resetWait > 1
    BY <1>6, <2>1, ElapseKeeps, SameNoLonger DEF StepOver
  <2>2. CASE ~(resetWait > 1)
    <3> TAKE i \in Fighter
    <3>1. Sound(Elapse(fighter[i]))
      BY ElapseKeeps
    <3>2. fighter'[i].action = "Idle" \/ fighter'[i] = fighter[i]
      BY <1>6, <2>2, <3>1, ResetFacts DEF StepOver
    <3> QED
      BY <1>2, <3>2 DEF NoLonger
  <2> QED
    BY <2>1, <2>2
<1>7. CASE SkipAbsent \/ SkipRoller \/ SkipAttacker \/ RollPast \/ Miss
  BY <1>1, <1>7 DEF SkipAbsent, SkipRoller, SkipAttacker, RollPast, Miss, worldVars
<1>8. CASE ActDead
  <2>1. /\ \A j \in Fighter : j # turn => fighter'[j] = fighter[j]
        /\ fighter'[turn] = fighter[turn] \/ fighter'[turn].action = "Idle"
    BY <1>8, RespawnFacts DEF ActDead
  <2> QED
    BY <1>2, <2>1 DEF NoLonger
<1>9. ASSUME NEW input, ActLiving(input)
      PROVE  \A i \in Fighter : NoLonger(fighter[i], fighter'[i])
  <2>1. /\ \A j \in Fighter : j # turn => fighter'[j] = fighter[j]
        /\ Turned(fighter[turn], fighter'[turn])
    BY <1>9, LivingTickTurns DEF ActLiving
  <2>2. NoLonger(fighter[turn], fighter'[turn])
    BY <2>1, Kinds DEF Turned, NoLonger, TimeDown, Sound
  <2> QED
    BY <1>2, <2>1, <2>2
<1>10. CASE RollInto
  <2>1. Caught
    BY <1>10, RollCatches
  <2> QED
    BY <1>2, <2>1 DEF Caught, NoLonger
<1>11. CASE Blow
  <2>1. NoLonger(fighter[turn], fighter'[turn])
    <3>1. \/ /\ fighter'[turn].elapsed = fighter[turn].elapsed
             /\ fighter'[turn].duration = fighter[turn].duration
          \/ fighter'[turn].action = "Stunned"
      BY <1>11 DEF Blow, Attacker
    <3>2. NoLonger(fighter[turn], fighter[turn])
      BY <1>2
    <3> QED
      BY <3>1, <3>2 DEF NoLonger, TimeDown, Sound
  <2>2. NoLonger(fighter[other], fighter'[other])
    BY <1>11, SameNoLonger DEF Blow, Target, NoLonger
  <2> QED
    BY <1>2, <1>11, <2>1, <2>2 DEF Blow
<1> QED
  BY <1>1, <1>3, <1>4, <1>5, <1>6, <1>7, <1>8, <1>9, <1>10, <1>11, Steps, AttackIsStruck
     DEF vars, worldVars

\* A fighter on the ground gets up when it would have, however many rolls and kicks
\* find it there (resolve_roll_collisions, resolve_attacks).
THEOREM TheGroundIsNotRefreshed == Spec => KnockdownNotRefreshed
<1>1. Shape /\ [Next]_vars
      => [\A i \in Fighter :
            fighter[i].action = "Knockdown" /\ fighter'[i].action = "Knockdown"
            => TimeDown(fighter'[i]) <= TimeDown(fighter[i])]_vars
  <2> SUFFICES ASSUME Shape, [Next]_vars, NEW i \in Fighter,
                      fighter[i].action = "Knockdown", fighter'[i].action = "Knockdown"
               PROVE  TimeDown(fighter'[i]) <= TimeDown(fighter[i])
    OBVIOUS
  <2>1. NoLonger(fighter[i], fighter'[i])
    BY GroundNext
  <2> QED
    BY <2>1 DEF NoLonger
<1> QED
  BY <1>1, ShapeInvariant, PTL DEF Spec, KnockdownNotRefreshed
-----------------------------------------------------------------------------
(***************************************************************************)
(* A broken guard.                                                         *)
(***************************************************************************)

\* One tick fewer for a fighter whose time has passed in this step and that has not
\* acted in it yet.
Ahead(i) == IF phase = "act" /\ turn <= i THEN 1 ELSE 0

\* The guard is down, and waits at least until the stun is over; while the result of
\* a match is shown, nobody acts.
Down(f, n, w) ==
  /\ f.action = "Stunned" /\ f.guard = 0 /\ f.elapsed < f.duration
  /\ w = NoFighter => f.guardWait + n >= TimeDown(f)

GuardInv ==
  /\ broken \subseteq present
  /\ \A i \in broken : Down(fighter[i], Ahead(i), winner)
  /\ phase = "attack" /\ swing \in Active => turn \notin broken

\* A new world has no broken guard.
LEMMA GuardInit ==
  ASSUME Init
  PROVE  GuardInv
  BY DEF Init, GuardInv

\* Who strikes has no broken guard.
LEMMA StrikerIsNotBroken ==
  ASSUME Shape, GuardInv, Striking
  PROVE  turn \notin broken
<1>1. CASE swing = "Idle"
  <2>1. fighter[turn].action # "Stunned"
    BY <1>1 DEF Striking, Profile, Active
  <2> QED
    BY <2>1 DEF GuardInv, Down
<1>2. CASE swing # "Idle"
  BY <1>2 DEF Striking, Profile, GuardInv, Shape
<1> QED
  BY <1>1, <1>2

\* Steps of the second and third loops, and between the steps, after which nobody
\* owes an action.
LEMMA SameDown ==
  ASSUME GuardInv, NEW i \in Fighter, i \in broken, fighter'[i] = fighter[i],
         phase # "act", phase' # "act", winner' = NoFighter => winner = NoFighter
  PROVE  Down(fighter'[i], Ahead(i)', winner')
  BY DEF GuardInv, Down, Ahead, TimeDown

\* The next row leaves what everyone else still owes as it was.
LEMMA OwesTheSame ==
  ASSUME Shape, phase = "act", NextRow, NEW i \in Fighter, i # turn
  PROVE  Ahead(i)' = Ahead(i)
<1>1. i \in 1 .. FighterCount /\ turn \in 1 .. FighterCount /\ FighterCount \in Nat
  BY CombatAssumption DEF Shape
<1>2. CASE turn < FighterCount
  <2>1. phase' = phase /\ turn' = turn + 1
    BY <1>2 DEF NextRow
  <2>2. turn + 1 <= i <=> turn <= i
    BY <1>1
  <2> QED
    BY <2>1, <2>2 DEF Ahead
<1>3. CASE ~(turn < FighterCount)
  <2>1. phase' = "roll"
    BY <1>3 DEF NextRow
  <2>2. ~(turn <= i)
    BY <1>1, <1>3
  <2> QED
    BY <2>1, <2>2 DEF Ahead
<1> QED
  BY <1>2, <1>3

\* Every step leaves a guard that broke in it broken until the step ends.
LEMMA GuardNext ==
  ASSUME Shape, ScoreInv, GuardInv, [Next]_vars
  PROVE  GuardInv'
<1> USE DEF Shape
<1>0. /\ Fighter \subseteq Int /\ "Idle" \notin Active /\ 0 \notin Fighter
      /\ \A i \in Fighter : i >= 1
  BY CombatAssumption DEF Active
<1>1. CASE UNCHANGED vars
  BY <1>1 DEF vars, worldVars, cursorVars, historyVars, GuardInv, Down, Ahead, TimeDown
<1>2. ASSUME NEW j \in Fighter, AddPlayer(j) PROVE GuardInv'
  BY <1>2 DEF AddPlayer, cursorVars, historyVars, GuardInv, Down, Ahead, TimeDown
<1>3. ASSUME NEW j \in Fighter, RemovePlayer(j) PROVE GuardInv'
  BY <1>3 DEF RemovePlayer, cursorVars, GuardInv, Down, Ahead, TimeDown
<1>4. CASE BeginStep
  <2>1. \A i \in broken : Down(fighter'[i], Ahead(i)', winner')
    <3> TAKE i \in broken
    <3>1. i \in Fighter /\ Ahead(i)' = 1 /\ Ahead(i) = 0
      BY <1>0, <1>4 DEF BeginStep, GuardInv, Ahead
    <3>2. Sound(fighter[i]) /\ fighter'[i] = Elapse(fighter[i])
      BY <1>4, <3>1 DEF BeginStep
    <3>3. Down(fighter[i], 0, winner) /\ winner = NoFighter
      BY <1>4, <3>1 DEF BeginStep, GuardInv
    <3>4. /\ Sound(fighter'[i]) /\ SameDeed(fighter[i], fighter'[i])
          /\ fighter'[i].guard = fighter[i].guard
          /\ fighter'[i].guardWait >= fighter[i].guardWait - 1
      BY <3>2, ElapseKeeps
    <3>5. fighter'[i].guardWait + 1 >= TimeDown(fighter'[i])
      BY <3>2, <3>3, <3>4 DEF Down, SameDeed, TimeDown, Sound
    <3> QED
      BY <3>1, <3>3, <3>4, <3>5 DEF Down, SameDeed, TimeDown
  <2> QED
    BY <1>4, <2>1 DEF BeginStep, historyVars, GuardInv
<1>5. CASE StepOver
  <2>1. CASE resetWait > 1
    <3>1. \A i \in broken : Down(fighter'[i], Ahead(i)', winner')
      <4> TAKE i \in broken
      <4>1. i \in Fighter /\ fighter'[i] = Elapse(fighter[i]) /\ winner' # NoFighter
        BY <1>5, <2>1 DEF StepOver, GuardInv
      <4>2. SameDeed(fighter[i], fighter'[i]) /\ fighter'[i].guard = fighter[i].guard
        BY <4>1, ElapseKeeps
      <4> QED
        BY <4>1, <4>2 DEF GuardInv, Down, SameDeed
    <3> QED
      BY <1>5, <2>1, <3>1 DEF StepOver, cursorVars, historyVars, GuardInv
  <2>2. CASE ~(resetWait > 1)
    BY <1>5, <2>2 DEF StepOver, GuardInv
  <2> QED
    BY <2>1, <2>2
<1>6. CASE SkipAbsent
  <2>1. \A i \in broken : Down(fighter'[i], Ahead(i)', winner')
    <3> TAKE i \in broken
    <3>1. i \in Fighter /\ i # turn /\ UNCHANGED <<fighter, winner>>
      BY <1>6 DEF SkipAbsent, GuardInv, worldVars
    <3>2. Ahead(i) \in {0, 1} /\ (Ahead(i) = 1 => Ahead(i)' = 1 \/ phase' # "act")
      BY <1>0, <1>6, <3>1, NextRowFacts DEF SkipAbsent, Ahead
    <3>3. Ahead(i)' = Ahead(i)
      BY <1>6, <3>1, OwesTheSame DEF SkipAbsent
    <3> QED
      BY <3>1, <3>3 DEF GuardInv, Down, TimeDown
  <2> QED
    BY <1>0, <1>6, <2>1, NextRowFacts DEF SkipAbsent, GuardInv, worldVars, historyVars
<1>7. CASE SkipRoller \/ SkipAttacker \/ RollPast \/ Miss
  <2>1. /\ UNCHANGED <<fighter, winner, broken, present>> /\ phase # "act" /\ phase' # "act"
    BY <1>7, NextRowFacts, NextTargetFacts, NextVictimFacts
    DEF SkipRoller, SkipAttacker, RollPast, Miss, Striking, Onward, worldVars, historyVars
  <2>2. \A i \in broken : Down(fighter'[i], Ahead(i)', winner')
    BY <2>1, SameDown DEF GuardInv
  <2>3. phase' = "attack" /\ swing' \in Active => turn' \notin broken'
    <3>1. CASE SkipRoller \/ SkipAttacker
      BY <1>0, <3>1, NextRowFacts DEF SkipRoller, SkipAttacker
    <3>2. CASE RollPast
      BY <1>0, <3>2 DEF RollPast, NextTarget, NextRow
    <3>3. CASE Miss
      BY <2>1, <3>3, NextVictimFacts, StrikerIsNotBroken DEF Miss, Onward
    <3> QED
      BY <1>7, <3>1, <3>2, <3>3
  <2> QED
    BY <2>1, <2>2, <2>3 DEF GuardInv
<1>8. ASSUME UNCHANGED <<present, winner>>, NextRow, phase = "act",
             DOMAIN fighter' = Fighter,
             \A i \in Fighter : i # turn => fighter'[i] = fighter[i],
             broken' \in {broken, broken \ {turn}},
             turn \in broken' => Down(fighter'[turn], 0, winner')
      PROVE  GuardInv'
  <2>1. \A i \in broken' : Down(fighter'[i], Ahead(i)', winner')
    <3> TAKE i \in broken'
    <3>1. i \in broken /\ i \in Fighter
      BY <1>8 DEF GuardInv
    <3>2. CASE i = turn
      <4>1. Ahead(i)' = 0
        BY <1>0, <1>8, <3>2, NextRowFacts DEF Ahead
      <4> QED
        BY <1>8, <3>2, <4>1
    <3>3. CASE i # turn
      <4>1. Ahead(i)' = Ahead(i)
        BY <1>8, <3>1, <3>3, OwesTheSame
      <4> QED
        BY <1>8, <3>1, <3>3, <4>1 DEF GuardInv, Down, TimeDown
    <3> QED
      BY <3>2, <3>3
  <2> QED
    BY <1>0, <1>8, <2>1, NextRowFacts DEF GuardInv
<1>9. CASE ActDead
  <2>1. turn \notin broken
    BY <1>9 DEF ActDead, GuardInv, Down
  <2> QED
    BY <1>8, <1>9, <2>1 DEF ActDead, historyVars
<1>10. ASSUME NEW input, ActLiving(input) PROVE GuardInv'
  <2> DEFINE f == fighter[turn]
             g == fighter'[turn]
  <2>1. /\ Sound(f) /\ Sound(g) /\ Turned(f, g) /\ g.guardWait = f.guardWait
        /\ g.guard = f.guard \/ f.guardWait = 0
    BY <1>10, LivingTickTurns DEF ActLiving
  <2>2. broken' = IF g.action = "Stunned" THEN broken ELSE broken \ {turn}
    BY <1>10 DEF ActLiving
  <2>3. winner = NoFighter /\ UNCHANGED winner
    BY <1>10 DEF ActLiving, ScoreInv
  <2>4. ASSUME turn \in broken' PROVE Down(fighter'[turn], 0, winner')
    <3>1. turn \in broken /\ g.action = "Stunned"
      BY <2>2, <2>4
    <3>2. Down(f, 1, winner)
      BY <1>0, <1>10, <3>1 DEF ActLiving, GuardInv, Ahead
    <3>3. g.duration = f.duration /\ g.elapsed = f.elapsed + 1 /\ g.elapsed < g.duration
      BY <2>1, <3>1, Kinds DEF Turned
    <3>4. f.guardWait + 1 >= f.duration - f.elapsed /\ f.guard = 0
      BY <2>3, <3>2 DEF Down, TimeDown
    <3>5. f.guardWait # 0
      BY <2>1, <3>3, <3>4 DEF Sound
    <3>6. g.guard = 0 /\ g.guardWait + 0 >= g.duration - g.elapsed
      BY <2>1, <3>3, <3>4, <3>5 DEF Sound
    <3> QED
      BY <3>1, <3>3, <3>6 DEF Down, TimeDown
  <2> HIDE DEF f, g
  <2>5. DOMAIN fighter' = Fighter /\ \A i \in Fighter : i # turn => fighter'[i] = fighter[i]
    BY <1>10 DEF ActLiving
  <2>6. UNCHANGED <<present, winner>> /\ NextRow /\ phase = "act"
    BY <1>10 DEF ActLiving
  <2>7. broken' \in {broken, broken \ {turn}}
    BY <2>2
  <2> QED
    BY <1>8, <2>4, <2>5, <2>6, <2>7
<1>11. CASE RollInto
  <2>1. Caught
    BY <1>11, RollCatches
  <2>2. turn \notin broken
    BY <2>1 DEF Caught, Rolling, GuardInv, Down
  <2>3. broken' \subseteq broken /\ \A i \in broken' : fighter'[i] = fighter[i]
    BY <2>1, <2>2 DEF Caught, GuardInv
  <2>4. \A i \in broken' : Down(fighter'[i], Ahead(i)', winner')
    BY <2>1, <2>3, SameDown DEF Caught, GuardInv
  <2>5. ~(phase' = "attack" /\ swing' \in Active)
    BY <1>0, <1>11 DEF RollInto, NextTarget, NextRow
  <2> QED
    BY <2>1, <2>3, <2>4, <2>5 DEF Caught, GuardInv
<1>12. CASE Blow
  <2>1. turn \notin broken /\ turn # other /\ other \in present /\ Onward
        /\ phase = "attack" /\ winner = NoFighter /\ present' = present
    BY <1>12, StrikerIsNotBroken DEF Blow, CanMeet, Striking, ScoreInv
  <2>2. \A i \in Fighter \ {turn, other} : fighter'[i] = fighter[i]
    BY <1>12 DEF Blow
  <2>3. phase' # "act"
    BY <2>1 DEF Onward
  <2>4. \A i \in broken \ {other} : Down(fighter'[i], Ahead(i)', winner')
    BY <2>1, <2>2, <2>3, SameDown DEF GuardInv
  <2>5. /\ broken' \subseteq broken \cup {other}
        /\ other \in broken' => Down(fighter'[other], 0, winner')
    <3> DEFINE f == fighter[other]
               g == fighter'[other]
    <3>1. Ahead(other) = 0 /\ (winner' = NoFighter => winner = NoFighter)
      BY <2>1 DEF Ahead
    <3>2. CASE /\ SameDeed(f, g) /\ broken' = broken
               /\ f.action = "Block" \/ (g.guard = f.guard /\ g.guardWait = f.guardWait)
      BY <2>1, <3>1, <3>2 DEF GuardInv, Down, SameDeed, TimeDown
    <3>3. CASE /\ g.action = "Stunned" /\ broken' = broken \cup {other}
               /\ g.guard = 0 /\ g.elapsed = 0 /\ g.duration > 0 /\ g.guardWait >= g.duration
      <4>1. Sound(g)
        BY <1>12 DEF Blow, Target
      <4>2. g.elapsed < g.duration /\ g.guardWait + 0 >= g.duration - g.elapsed
        BY <3>3, <4>1 DEF Sound
      <4> QED
        BY <3>1, <3>3, <4>2 DEF Down, TimeDown
    <3>4. CASE broken' = broken \ {other}
      BY <3>4
    <3> QED
      BY <1>12, <3>2, <3>3, <3>4 DEF Blow, Target
  <2>6. \A i \in broken' : Down(fighter'[i], Ahead(i)', winner')
    BY <2>3, <2>4, <2>5 DEF Ahead
  <2>7. broken' \subseteq present'
    BY <2>1, <2>5 DEF GuardInv
  <2>8. phase' = "attack" /\ swing' \in Active => turn' \notin broken'
    BY <2>1, <2>5 DEF Onward
  <2> QED
    BY <2>6, <2>7, <2>8 DEF GuardInv
<1> QED
  BY <1>1, <1>2, <1>3, <1>4, <1>5, <1>6, <1>7, <1>9, <1>10, <1>11, <1>12,
     Steps, AttackIsStruck

\* A broken guard does not come back while the stun that it cost lasts, however long
\* that is and whatever falls on the fighter meanwhile (resolve_attacks).
THEOREM TheGuardStaysBroken == Spec => []GuardStaysBroken
<1>1. GuardInv => GuardStaysBroken
  BY DEF GuardInv, Down, GuardStaysBroken
<1> QED
  BY <1>1, ShapeInvariant, ScoreInit, ScoreNext, GuardInit, GuardNext, PTL DEF Spec

-----------------------------------------------------------------------------
(***************************************************************************)
(* Each fighter is consistent at every moment of a step (FighterInv), the  *)
(* practice treats it as the server does (PracticeActsAlike,               *)
(* PracticeFightsAlike), a charge that ends early is no heavy attack, a    *)
(* light press that a denied one outranks is lost, and what the partner of *)
(* the practice starts it can carry out (PartnerActs).                     *)
(*                                                                         *)
(* FighterInv says nothing of one fighter that depends on another, so it   *)
(* is preserved because every change of a fighter preserves it.            *)
(***************************************************************************)

\* The type of a fighter, field by field.
Typed(f) ==
  /\ f = [x \in DOMAIN f |-> f[x]]
  /\ DOMAIN f = {"action", "elapsed", "duration", "charging", "down", "buffered", "hits",
                 "rolled", "hp", "guard", "stamina", "guardWait", "staminaWait", "dashWait",
                 "respawnWait", "kills"}
  /\ f.action \in Action /\ f.elapsed \in Nat /\ f.duration \in Nat
  /\ f.charging \in BOOLEAN /\ f.down \in SUBSET Pressed /\ f.buffered \in SUBSET Buffer
  /\ f.hits \in SUBSET Fighter /\ f.rolled \in SUBSET Fighter
  /\ f.hp \in 0 .. HpMax /\ f.guard \in 0 .. GuardMax /\ f.stamina \in 0 .. StaminaMax
  /\ f.guardWait \in Nat /\ f.staminaWait \in Nat /\ f.dashWait \in Nat
  /\ f.respawnWait \in Nat /\ f.kills \in Nat

\* A recovery remembers at most one press.
Lone(f) == \E press : f.buffered \subseteq {press}

\* A charge waits at the end of the windup, and not beyond it.
HoldWaits(f) == f.charging => f.elapsed <= Duration["HeavyAttackWindup"]

\* A fighter as FighterInv has it, and whose charge waits.
Good(f) ==
  /\ Typed(f)
  /\ Lone(f) /\ BufferWaits(f) /\ ChargeIsWindup(f) /\ WindupIsFresh(f) /\ BufferIsPaid(f)
  /\ HoldWaits(f)

\* What a tick did not start agrees with what it was, but for what no part of FighterInv
\* reads, and has no less stamina.
Agrees(f, g) ==
  /\ g.action = f.action /\ g.charging = f.charging /\ g.buffered = f.buffered
  /\ g.elapsed = f.elapsed /\ g.hits = f.hits /\ g.stamina >= f.stamina
-----------------------------------------------------------------------------
\* The fields make the record.
LEMMA TypedIsState ==
  ASSUME NEW f, Typed(f)
  PROVE  f \in FighterState
  BY DEF Typed, FighterState

\* At most one element.
LEMMA LoneCardinality ==
  ASSUME NEW f, Lone(f)
  PROVE  OneBufferedPress(f)
<1>1. PICK press : f.buffered \subseteq {press}
  BY DEF Lone
<1>2. f.buffered = {} \/ f.buffered = {press}
  BY <1>1
<1>3. Cardinality({}) = 0 /\ Cardinality({press}) = 1
  BY FS_EmptySet, FS_Singleton
<1>4. Cardinality(f.buffered) \in {0, 1}
  BY <1>2, <1>3
<1> QED
  BY <1>4 DEF OneBufferedPress

\* The parameters, as the proofs use them.
LEMMA Parameters ==
  /\ StaminaMax \in Nat /\ StaminaDelay \in Nat /\ GuardMax \in Nat /\ DashCooldown \in Nat
  /\ ParryWindow \in Nat /\ HpMax \in Nat
  /\ \A a \in {"dodge", "dash", "kick", "jump", "jumpAttack", "feint", "running"} : Cost[a] \in Nat
  /\ JumpAttackCost \in Nat
  /\ \A press : BufferCost(press) \in Nat
  /\ HpMax \in 0 .. HpMax /\ GuardMax \in 0 .. GuardMax /\ StaminaMax \in 0 .. StaminaMax
  /\ 0 \in 0 .. HpMax /\ RespawnDelay \in Nat
<1>1. \A a \in {"dodge", "dash", "kick", "jump", "jumpAttack", "feint", "running"} :
        Cost[a] \in Nat
  BY FighterAssumption
<1>2. JumpAttackCost \in Nat
  BY <1>1 DEF JumpAttackCost
<1>3. HpMax \in Nat /\ GuardMax \in Nat /\ StaminaMax \in Nat /\ RespawnDelay \in Nat
  BY FighterAssumption, CombatAssumption
<1>4. /\ HpMax \in 0 .. HpMax /\ GuardMax \in 0 .. GuardMax /\ StaminaMax \in 0 .. StaminaMax
      /\ 0 \in 0 .. HpMax
  BY <1>3
<1> QED
  BY <1>1, <1>2, <1>3, <1>4, FighterAssumption DEF BufferCost

\* The full windup of a heavy attack.
LEMMA FullWindup == Duration["HeavyAttackWindup"] \in Nat \ {0}
<1>1. "HeavyAttackWindup" \in Timed
  BY DEF Timed, Windup
<1> QED
  BY <1>1, FighterAssumption

\* A fighter that agrees with a consistent one is consistent.
LEMMA AgreesIsGood ==
  ASSUME NEW f, NEW g, Good(f), Typed(g), Agrees(f, g)
  PROVE  Good(g)
<1>1. BufferIsPaid(g)
  <2> SUFFICES ASSUME g.action = "AttackRecovery", NEW press \in g.buffered
               PROVE  g.stamina >= BufferCost(press)
    BY DEF BufferIsPaid
  <2>1. f.stamina >= BufferCost(press)
    BY DEF Good, BufferIsPaid, Agrees
  <2>2. f.stamina \in Int /\ g.stamina \in Int /\ BufferCost(press) \in Int
    BY Parameters DEF Good, Typed
  <2> QED
    BY <2>1, <2>2 DEF Agrees
<1> QED
  BY <1>1 DEF Good, Agrees, Lone, BufferWaits, ChargeIsWindup, WindupIsFresh, HoldWaits

\* A fighter that starts an action is consistent, unless it winds up with a mask or
\* takes a buffer along.
LEMMA SetActionGood ==
  ASSUME NEW f, Typed(f), NEW a \in Action, NEW d \in Nat,
         a \in Windup => f.hits = {}, a = "AttackRecovery" => f.buffered = {}
  PROVE  Good(SetAction(f, a, d))
<1> DEFINE g == SetAction(f, a, d)
<1>1. g.buffered = {}
  BY DEF SetAction, Typed
<1>2. g.charging \in BOOLEAN /\ (g.charging => a = "HeavyAttackWindup")
  BY DEF SetAction, Typed
<1>3. g.action = a /\ g.elapsed = 0 /\ g.duration = d /\ g.hits = f.hits
  BY DEF SetAction, Typed
<1>4. Typed(g)
  BY <1>1, <1>2 DEF SetAction, Typed
<1> HIDE DEF g
<1>5. Lone(g) /\ BufferWaits(g) /\ BufferIsPaid(g)
  BY <1>1 DEF Lone, BufferWaits, BufferIsPaid
<1>6. ChargeIsWindup(g) /\ WindupIsFresh(g)
  BY <1>2, <1>3 DEF ChargeIsWindup, WindupIsFresh
<1>7. HoldWaits(g)
  BY <1>3, FullWindup DEF HoldWaits
<1> QED
  BY <1>4, <1>5, <1>6, <1>7 DEF Good, g

\* Rest and guard.
LEMMA RestGood ==
  ASSUME NEW f, Typed(f)
  PROVE  Good(Rest(f)) /\ Good(RaiseGuard(f))
<1>1. {"Idle", "Block"} \subseteq Action /\ {"Idle", "Block", "AttackRecovery"} \cap Windup = {}
  BY DEF Action, Windup
<1> QED
  BY <1>1, SetActionGood DEF Rest, RaiseGuard

\* A timed action that is no windup and no light recovery.
LEMMA StartGood ==
  ASSUME NEW f, Typed(f), NEW a \in Timed, a \notin Windup,
         a = "AttackRecovery" => f.buffered = {}
  PROVE  Good(Start(f, a))
<1>1. a \in Action /\ Duration[a] \in Nat
  BY Durations DEF Action
<1> QED
  BY <1>1, SetActionGood DEF Start

\* A swing.
LEMMA BeginSwingGood ==
  ASSUME NEW f, Typed(f), NEW a \in Windup
  PROVE  Good(BeginSwing(f, a)) /\ BeginSwing(f, a).action = a /\ BeginSwing(f, a).elapsed = 0
<1> DEFINE g == [f EXCEPT !.hits = {}]
<1>1. Typed(g) /\ g.hits = {}
  BY DEF Typed
<1> HIDE DEF g
<1>2. a \in Action /\ Duration[a] \in Nat /\ a # "AttackRecovery"
  BY Durations DEF Action, Timed, Windup
<1>3. Good(SetAction(g, a, Duration[a]))
  BY <1>1, <1>2, SetActionGood
<1>4. SetAction(g, a, Duration[a]).action = a /\ SetAction(g, a, Duration[a]).elapsed = 0
  BY <1>1 DEF SetAction, Typed
<1> QED
  BY <1>3, <1>4 DEF BeginSwing, Start, g

\* A roll.
LEMMA BeginDodgeGood ==
  ASSUME NEW f, Typed(f)
  PROVE  Good(BeginDodge(f))
<1> DEFINE g == [f EXCEPT !.rolled = {}]
<1>1. Typed(g)
  BY DEF Typed
<1> HIDE DEF g
<1>2. "Dodge" \in Timed /\ "Dodge" \notin Windup /\ "Dodge" # "AttackRecovery"
  BY DEF Timed, Windup
<1>3. Good(Start(g, "Dodge"))
  BY <1>1, <1>2, StartGood
<1> QED
  BY <1>3 DEF BeginDodge, g

\* Who can pay stays typed.
LEMMA SpendTyped ==
  ASSUME NEW f, Typed(f), NEW n \in Nat, CanSpend(f, n)
  PROVE  Typed(Spend(f, n)) /\ Spend(f, n).action = f.action
<1>1. f.stamina - n \in 0 .. StaminaMax
  BY Parameters DEF Typed, CanSpend
<1> QED
  BY <1>1, Parameters DEF Spend, Typed

\* What can be paid for is consistent.
LEMMA PaidGood ==
  ASSUME NEW f, Typed(f), NEW n \in Nat, CanSpend(f, n)
  PROVE  /\ \A a \in Windup : Good(BeginSwing(Spend(f, n), a))
         /\ \A a \in Timed \ Windup :
              a # "AttackRecovery" => Good(Start(Spend(f, n), a))
         /\ Good(BeginDodge(Spend(f, n)))
<1> DEFINE g == Spend(f, n)
<1>1. Typed(g)
  BY SpendTyped
<1> HIDE DEF g
<1>2. ASSUME NEW a \in Windup PROVE Good(BeginSwing(g, a))
  BY <1>1, BeginSwingGood
<1>3. ASSUME NEW a \in Timed \ Windup, a # "AttackRecovery" PROVE Good(Start(g, a))
  BY <1>1, <1>3, StartGood
<1>4. Good(BeginDodge(g))
  BY <1>1, BeginDodgeGood
<1> QED
  BY <1>2, <1>3, <1>4 DEF g
-----------------------------------------------------------------------------
(***************************************************************************)
(* The tick of a living fighter.                                           *)
(***************************************************************************)

\* What the end of a recovery starts.
LEMMA FinishGood ==
  ASSUME NEW f, Typed(f)
  PROVE  Good(FinishLightRecovery(f))
<1>1. {"KickWindup", "JumpAttackWindup", "AttackWindup"} \subseteq Windup
  BY DEF Windup
<1>2. "Jump" \in Timed \ Windup /\ "Jump" # "AttackRecovery"
  BY DEF Timed, Windup
<1>3. \A press : BufferCost(press) \in Nat
  BY Parameters
<1> QED
  BY <1>1, <1>2, <1>3, PaidGood, RestGood, BeginSwingGood DEF FinishLightRecovery

\* What a late recovery remembers, it can pay.
LEMMA BufferGood ==
  ASSUME NEW f, Good(f), f.action = "AttackRecovery", NEW edges
  PROVE  Good(BufferPress(f, edges))
<1>1. ASSUME NEW press \in Buffer, CanSpend(f, BufferCost(press))
      PROVE  Good([f EXCEPT !.buffered = {press}])
  <2> DEFINE g == [f EXCEPT !.buffered = {press}]
  <2>1. Typed(g)
    BY DEF Good, Typed
  <2>2. /\ g.action = f.action /\ g.charging = f.charging /\ g.buffered = {press}
        /\ g.elapsed = f.elapsed /\ g.stamina = f.stamina
    BY DEF Good, Typed
  <2> HIDE DEF g
  <2>3. Lone(g) /\ BufferWaits(g)
    BY <2>2 DEF Lone, BufferWaits
  <2>4. ChargeIsWindup(g) /\ WindupIsFresh(g) /\ HoldWaits(g)
    BY <2>2 DEF Good, ChargeIsWindup, WindupIsFresh, HoldWaits, Windup
  <2>5. BufferIsPaid(g)
    BY <1>1, <2>2 DEF BufferIsPaid, CanSpend
  <2> QED
    BY <2>1, <2>3, <2>4, <2>5 DEF Good, g
<1>2. {"block", "dodge", "jumpAttack", "jump", "kick", "attack"} \subseteq Buffer
  BY DEF Buffer
<1>3. CanSpend(f, BufferCost("block")) /\ CanSpend(f, BufferCost("attack"))
  BY DEF CanSpend, BufferCost, Good, Typed
<1> QED
  BY <1>1, <1>2, <1>3 DEF BufferPress

\* What a light release starts.
LEMMA ReleaseLightGood ==
  ASSUME NEW f, Typed(f), NEW input
  PROVE  Good(ReleaseLight(f, input))
<1>1. {"JumpAttackWindup", "RunningAttackWindup", "AttackWindup"} \subseteq Windup
  BY DEF Windup
<1>2. JumpAttackCost \in Nat /\ Cost["running"] \in Nat
  BY Parameters
<1> QED
  BY <1>1, <1>2, PaidGood, RestGood, BeginSwingGood DEF ReleaseLight

\* The hold of a charge.
LEMMA ReleaseChargeGood ==
  ASSUME NEW f, Good(f), NEW input
  PROVE  Good(ReleaseCharge(f, input))
<1> DEFINE g == [f EXCEPT !.charging = FALSE]
<1>1. Typed(g)
  BY DEF Good, Typed
<1>2. /\ g.action = f.action /\ g.charging = FALSE /\ g.buffered = f.buffered
      /\ g.hits = f.hits /\ g.stamina = f.stamina
  BY DEF Good, Typed
<1> HIDE DEF g
<1>3. Good(g)
  BY <1>1, <1>2
  DEF Good, Lone, BufferWaits, ChargeIsWindup, WindupIsFresh, BufferIsPaid, HoldWaits
<1>4. Good(ReleaseLight(g, input)) /\ Good(Rest(g))
  BY <1>1, ReleaseLightGood, RestGood
<1> QED
  BY <1>3, <1>4 DEF ReleaseCharge, g

\* From rest.
LEMMA IdleGood ==
  ASSUME NEW f, Good(f), NEW input, NEW edges
  PROVE  Good(ActFromIdle(f, input, edges))
<1> DEFINE dash  == [Spend(f, Cost["dash"]) EXCEPT !.dashWait = DashCooldown]
           heavy == [BeginSwing(f, "HeavyAttackWindup") EXCEPT !.charging = TRUE]
<1>1. Typed(f)
  BY DEF Good
<1>2. {"KickWindup", "JumpAttackWindup", "RunningAttackWindup", "HeavyAttackWindup",
       "AttackWindup"} \subseteq Windup
  BY DEF Windup
<1>3. /\ {"Jump", "Dash"} \subseteq Timed \ Windup
      /\ "Jump" # "AttackRecovery" /\ "Dash" # "AttackRecovery"
  BY DEF Timed, Windup
<1>4. /\ \A a \in {"dodge", "dash", "kick", "jump", "running"} : Cost[a] \in Nat
      /\ JumpAttackCost \in Nat
  BY Parameters
<1>5. ASSUME CanSpend(f, Cost["dash"]) PROVE Good(Start(dash, "Dash"))
  <2>1. Typed(Spend(f, Cost["dash"]))
    BY <1>1, <1>4, <1>5, SpendTyped
  <2>2. Typed(dash)
    BY <2>1, Parameters DEF Typed
  <2> HIDE DEF dash
  <2> QED
    BY <1>3, <2>2, StartGood
<1>6. Good(heavy)
  <2> DEFINE g == BeginSwing(f, "HeavyAttackWindup")
             h == [g EXCEPT !.charging = TRUE]
  <2>1. Good(g) /\ g.action = "HeavyAttackWindup" /\ g.elapsed = 0
    BY <1>1, <1>2, BeginSwingGood
  <2> HIDE DEF g
  <2>2. Typed(h)
    BY <2>1 DEF Good, Typed
  <2>4. /\ h.action = "HeavyAttackWindup" /\ h.elapsed = 0
        /\ h.buffered = g.buffered /\ h.hits = g.hits
    BY <2>1 DEF Good, Typed
  <2> HIDE DEF h
  <2>3. Good(h)
    BY <2>1, <2>2, <2>4, FullWindup
    DEF Good, Lone, BufferWaits, ChargeIsWindup, WindupIsFresh, BufferIsPaid, HoldWaits
  <2> QED
    BY <2>3 DEF g, h
<1>7. /\ Good(RaiseGuard(f))
      /\ \A a \in Windup : Good(BeginSwing(f, a))
      /\ \A n \in Nat : CanSpend(f, n) =>
           /\ Good(BeginDodge(Spend(f, n))) /\ Good(Start(Spend(f, n), "Jump"))
           /\ \A a \in Windup : Good(BeginSwing(Spend(f, n), a))
  BY <1>1, <1>3, RestGood, BeginSwingGood, PaidGood
<1> HIDE DEF dash, heavy
<1> QED
  BY <1>2, <1>4, <1>5, <1>6, <1>7 DEF ActFromIdle, dash, heavy

\* From behind a guard.
LEMMA BlockGood ==
  ASSUME NEW f, Good(f), NEW input, NEW edges
  PROVE  Good(ActFromBlock(f, input, edges))
<1>1. Typed(f) /\ Cost["dodge"] \in Nat
  BY Parameters DEF Good
<1> QED
  BY <1>1, PaidGood, RestGood DEF ActFromBlock

\* A feint.
LEMMA FeintGood ==
  ASSUME NEW f, Typed(f), CanSpend(f, Cost["feint"])
  PROVE  Good(Start([Spend(f, Cost["feint"]) EXCEPT !.hits = {}], "FeintRecovery"))
<1> DEFINE g == Spend(f, Cost["feint"])
           h == [g EXCEPT !.hits = {}]
<1>1. Typed(g)
  BY Parameters, SpendTyped
<1> HIDE DEF g
<1>2. Typed(h)
  BY <1>1 DEF Typed
<1> HIDE DEF h
<1>3. "FeintRecovery" \in Timed \ Windup /\ "FeintRecovery" # "AttackRecovery"
  BY DEF Timed, Windup, Recovery
<1> QED
  BY <1>2, <1>3, StartGood DEF g, h

\* Whatever is pressed.
LEMMA RequestGood ==
  ASSUME NEW f, Good(f), NEW input, NEW edges
  PROVE  Good(BeginRequestedAction(f, input, edges))
<1>1. Typed(f) /\ Cost["jumpAttack"] \in Nat
  BY Parameters DEF Good
<1>2. "JumpAttackWindup" \in Windup /\ "HeavyAttackWindup" \in Windup
  BY DEF Windup
<1>3. CanFeint(f, input) =>
        Good(Start([Spend(f, Cost["feint"]) EXCEPT !.hits = {}], "FeintRecovery"))
  BY <1>1, FeintGood DEF CanFeint
<1>4. f.action = "AttackRecovery" => Good(BufferPress(f, edges))
  BY BufferGood
<1>5. Good(ReleaseCharge(f, input)) /\ Good(ActFromIdle(f, input, edges))
      /\ Good(ActFromBlock(f, input, edges))
  BY ReleaseChargeGood, IdleGood, BlockGood
<1>6. /\ CanSpend(f, Cost["jumpAttack"]) =>
           Good(BeginSwing(Spend(f, Cost["jumpAttack"]), "JumpAttackWindup"))
      /\ Good(BeginSwing(f, "HeavyAttackWindup"))
  BY <1>1, <1>2, PaidGood, BeginSwingGood
<1> QED
  BY <1>3, <1>4, <1>5, <1>6 DEF BeginRequestedAction

\* What an action turns into.
LEMMA CompleteGood ==
  ASSUME NEW f, Good(f)
  PROVE  Good(Complete(f))
<1>1. Typed(f)
  BY DEF Good
<1>2. CASE f.action = "AttackRecovery"
  BY <1>1, <1>2, FinishGood DEF Complete
<1>3. CASE f.action \in DOMAIN Follow
  <2> DEFINE a == Follow[f.action]
  <2>1. a \in Timed /\ a \notin Windup /\ f.action # "AttackRecovery"
    BY <1>3, FollowFacts DEF Windup, Active, Recovery
  <2>2. f.buffered = {}
    BY <1>3, FollowFacts DEF Good, BufferWaits, Windup, Active
  <2> HIDE DEF a
  <2>3. Good(Start(f, a))
    BY <1>1, <2>1, <2>2, StartGood
  <2> QED
    BY <1>3, <2>1, <2>3 DEF Complete, a
<1>4. CASE f.action # "AttackRecovery" /\ f.action \notin DOMAIN Follow
  BY <1>1, <1>4, RestGood DEF Complete
<1> QED
  BY <1>2, <1>3, <1>4

\* A longer time in the same action, within the windup if a charge is held.
LEMMA AgedGood ==
  ASSUME NEW f, Good(f), NEW n \in Nat, f.charging => n <= Duration["HeavyAttackWindup"]
  PROVE  Good([f EXCEPT !.elapsed = n])
<1> DEFINE g == [f EXCEPT !.elapsed = n]
<1>1. Typed(g)
  BY DEF Good, Typed
<1>2. /\ g.action = f.action /\ g.charging = f.charging /\ g.buffered = f.buffered
      /\ g.elapsed = n /\ g.hits = f.hits /\ g.stamina = f.stamina
  BY DEF Good, Typed
<1> HIDE DEF g
<1>3. Lone(g) /\ BufferWaits(g) /\ ChargeIsWindup(g) /\ WindupIsFresh(g)
  BY <1>2 DEF Good, Lone, BufferWaits, ChargeIsWindup, WindupIsFresh
<1>4. BufferIsPaid(g) /\ HoldWaits(g)
  BY <1>2 DEF Good, BufferIsPaid, HoldWaits
<1> QED
  BY <1>1, <1>3, <1>4 DEF Good, g

\* The age of a fighter, one tick later.
LEMMA OlderGood ==
  ASSUME NEW f, Good(f),
         f.charging => f.action = "HeavyAttackWindup" /\ f.elapsed < Duration["HeavyAttackWindup"]
  PROVE  Good([f EXCEPT !.elapsed = @ + 1])
<1>1. f.elapsed \in Nat
  BY DEF Good, Typed
<1>2. f.charging => f.elapsed + 1 <= Duration["HeavyAttackWindup"]
  BY <1>1, FullWindup
<1>3. f.elapsed + 1 \in Nat
  BY <1>1
<1> QED
  BY <1>2, <1>3, AgedGood

\* The age of a guard.
LEMMA GuardAgeGood ==
  ASSUME NEW f, Good(f), f.action = "Block"
  PROVE  Good([f EXCEPT !.elapsed = BlockAge(@ + 1)])
<1>1. ~f.charging
  BY DEF Good, ChargeIsWindup
<1>2. BlockAge(f.elapsed + 1) \in Nat
  BY Parameters DEF BlockAge, Good, Typed
<1> QED
  BY <1>1, <1>2, AgedGood

\* Time passes for what a fighter does.
LEMMA AdvanceGood ==
  ASSUME NEW f, Good(f), NEW input
  PROVE  Good(AdvanceAction(f, input))
<1> DEFINE older == [f EXCEPT !.elapsed = @ + 1]
           age   == [f EXCEPT !.elapsed = BlockAge(@ + 1)]
<1>1. Good(Rest(f))
  BY RestGood DEF Good
<1>2. CASE f.action \in {"Idle", "Dead"}
  BY <1>2 DEF AdvanceAction
<1>3. CASE f.charging /\ f.action = "HeavyAttackWindup"
  <2>1. AdvanceAction(f, input) =
          IF f.elapsed < Duration["HeavyAttackWindup"] THEN older ELSE f
    BY <1>3 DEF AdvanceAction
  <2>2. f.elapsed < Duration["HeavyAttackWindup"] => Good(older)
    BY <1>3, OlderGood
  <2> HIDE DEF older
  <2> QED
    BY <2>1, <2>2
<1>4. CASE f.action = "Block"
  <2>1. AdvanceAction(f, input) = IF "block" \in input THEN age ELSE Rest(f)
    BY <1>4 DEF AdvanceAction
  <2>2. Good(age)
    BY <1>4, GuardAgeGood
  <2> HIDE DEF age
  <2> QED
    BY <1>1, <2>1, <2>2
<1>5. CASE f.action \notin {"Idle", "Dead", "Block"} /\ ~f.charging
  <2>1. AdvanceAction(f, input) = IF older.elapsed < f.duration THEN older ELSE Complete(older)
    BY <1>5 DEF AdvanceAction
  <2>2. Good(older)
    BY <1>5, OlderGood
  <2> HIDE DEF older
  <2>3. Good(Complete(older))
    BY <2>2, CompleteGood
  <2> QED
    BY <2>1, <2>2, <2>3
<1>6. f.charging => f.action \in {"HeavyAttackWindup", "Dead"}
  BY DEF Good, ChargeIsWindup
<1> QED
  BY <1>2, <1>3, <1>4, <1>5, <1>6

\* Stamina, guard and buttons.
LEMMA StaminaGood ==
  ASSUME NEW f, Good(f), NEW input
  PROVE  Good(UpdateStamina(f, input))
<1>1. ASSUME f.action = "Idle", f.stamina > 0 PROVE Good(Spend(f, 1))
  <2> DEFINE g == Spend(f, 1)
  <2>1. CanSpend(f, 1)
    BY <1>1 DEF CanSpend, Good, Typed
  <2>2. Typed(g) /\ g.action = "Idle"
    BY <1>1, <2>1, SpendTyped DEF Good
  <2>3. g.charging = f.charging /\ g.buffered = f.buffered /\ g.elapsed = f.elapsed
    BY DEF Spend, Good, Typed
  <2> HIDE DEF g
  <2>4. BufferIsPaid(g) /\ WindupIsFresh(g)
    BY <2>2 DEF BufferIsPaid, WindupIsFresh, Windup
  <2> QED
    BY <1>1, <2>2, <2>3, <2>4 DEF Good, Lone, BufferWaits, ChargeIsWindup, HoldWaits, g
<1>2. ASSUME f.stamina < StaminaMax PROVE Good([f EXCEPT !.stamina = @ + 1])
  <2> DEFINE g == [f EXCEPT !.stamina = @ + 1]
  <2>1. f.stamina + 1 \in 0 .. StaminaMax
    BY <1>2, Parameters DEF Good, Typed
  <2>2. Typed(g)
    BY <2>1 DEF Good, Typed
  <2>3. Agrees(f, g)
    BY DEF Agrees, Good, Typed
  <2> QED
    BY <2>2, <2>3, AgreesIsGood
<1> QED
  BY <1>1, <1>2 DEF UpdateStamina

\* The guard comes back by one, up to its most.
LEMMA RegenerateGood ==
  ASSUME NEW f, Good(f)
  PROVE  Good(RegenerateGuard(f))
<1>1. ASSUME f.guard < GuardMax PROVE Good([f EXCEPT !.guard = @ + 1])
  <2> DEFINE g == [f EXCEPT !.guard = @ + 1]
  <2>1. f.guard + 1 \in 0 .. GuardMax
    BY <1>1, Parameters DEF Good, Typed
  <2>2. Typed(g)
    BY <2>1 DEF Good, Typed
  <2>3. Agrees(f, g)
    BY DEF Agrees, Good, Typed
  <2> QED
    BY <2>2, <2>3, AgreesIsGood
<1> QED
  BY <1>1 DEF RegenerateGuard

\* One tick.
LEMMA LivingTickGood ==
  ASSUME NEW f, Good(f), NEW input
  PROVE  Good(LivingTick(f, input))
<1> DEFINE begun == BeginRequestedAction(f, input, (input \cap Pressed) \ f.down)
           moved == UpdateStamina(AdvanceAction(begun, input), input)
           held  == [moved EXCEPT !.down = input \cap Pressed]
<1>1. Good(moved)
  BY RequestGood, AdvanceGood, StaminaGood
<1> HIDE DEF moved
<1>2. Typed(held) /\ Agrees(moved, held)
  <2>1. input \cap Pressed \in SUBSET Pressed
    OBVIOUS
  <2>2. Typed(held)
    BY <1>1, <2>1 DEF Good, Typed
  <2>3. Agrees(moved, held)
    BY <1>1 DEF Good, Typed, Agrees
  <2> QED
    BY <2>2, <2>3
<1> HIDE DEF held
<1>3. Good(RegenerateGuard(held))
  BY <1>1, <1>2, AgreesIsGood, RegenerateGood
<1> QED
  BY <1>3 DEF LivingTick, held, moved, begun
-----------------------------------------------------------------------------
(***************************************************************************)
(* The other changes of one fighter.                                       *)
(***************************************************************************)

\* Who enters the world.
LEMMA NewFighterGood == Good(NewFighter)
<1>1. Typed(NewFighter)
  <2>1. "Idle" \in Action
    BY DEF Action
  <2>2. /\ HpMax \in 0 .. HpMax /\ GuardMax \in 0 .. GuardMax
        /\ StaminaMax \in 0 .. StaminaMax
    BY Parameters
  <2>3. NewFighter = [x \in DOMAIN NewFighter |-> NewFighter[x]]
    BY DEF NewFighter
  <2>4. DOMAIN NewFighter =
          {"action", "elapsed", "duration", "charging", "down", "buffered", "hits", "rolled",
           "hp", "guard", "stamina", "guardWait", "staminaWait", "dashWait", "respawnWait",
           "kills"}
    BY DEF NewFighter
  <2>5. /\ NewFighter.action = "Idle" /\ NewFighter.elapsed = 0 /\ NewFighter.duration = 0
        /\ NewFighter.charging = FALSE /\ NewFighter.down = {} /\ NewFighter.buffered = {}
        /\ NewFighter.hits = {} /\ NewFighter.rolled = {}
    BY DEF NewFighter
  <2>6. /\ NewFighter.hp = HpMax /\ NewFighter.guard = GuardMax
        /\ NewFighter.stamina = StaminaMax /\ NewFighter.guardWait = 0
        /\ NewFighter.staminaWait = 0 /\ NewFighter.dashWait = 0
        /\ NewFighter.respawnWait = 0 /\ NewFighter.kills = 0
    BY DEF NewFighter
  <2>7. /\ NewFighter.action \in Action /\ NewFighter.elapsed \in Nat
        /\ NewFighter.duration \in Nat
    BY <2>1, <2>5
  <2>8. /\ NewFighter.charging \in BOOLEAN /\ NewFighter.down \in SUBSET Pressed
        /\ NewFighter.buffered \in SUBSET Buffer
    BY <2>5
  <2>9. NewFighter.hits \in SUBSET Fighter /\ NewFighter.rolled \in SUBSET Fighter
    BY <2>5
  <2>10. /\ NewFighter.hp \in 0 .. HpMax /\ NewFighter.guard \in 0 .. GuardMax
         /\ NewFighter.stamina \in 0 .. StaminaMax
    BY <2>2, <2>6
  <2>11. /\ NewFighter.guardWait \in Nat /\ NewFighter.staminaWait \in Nat
         /\ NewFighter.dashWait \in Nat /\ NewFighter.respawnWait \in Nat
         /\ NewFighter.kills \in Nat
    BY <2>6
  <2> QED
    BY <2>3, <2>4, <2>7, <2>8, <2>9, <2>10, <2>11 DEF Typed
<1>2. NewFighter.buffered = {} /\ NewFighter.charging = FALSE /\ NewFighter.hits = {}
  BY DEF NewFighter
<1> QED
  BY <1>1, <1>2
  DEF Good, Lone, BufferWaits, ChargeIsWindup, WindupIsFresh, BufferIsPaid, HoldWaits

\* Time passes.
LEMMA ElapseGood ==
  ASSUME NEW f, Good(f)
  PROVE  Good(Elapse(f))
<1>1. \A n \in Nat : OneLess(n) \in Nat
  BY DEF OneLess
<1> DEFINE g == Elapse(f)
<1>2. Typed(g)
  <2>1. g = [x \in DOMAIN g |-> g[x]] /\ DOMAIN g = DOMAIN f
    BY DEF Good, Typed, Elapse
  <2>2. /\ g.guardWait = OneLess(f.guardWait) /\ g.staminaWait = OneLess(f.staminaWait)
        /\ g.dashWait = OneLess(f.dashWait) /\ g.respawnWait = OneLess(f.respawnWait)
    BY DEF Good, Typed, Elapse
  <2>3. /\ g.action = f.action /\ g.elapsed = f.elapsed /\ g.duration = f.duration
        /\ g.charging = f.charging /\ g.down = f.down /\ g.buffered = f.buffered
    BY DEF Good, Typed, Elapse
  <2>4. /\ g.hits = f.hits /\ g.rolled = f.rolled /\ g.hp = f.hp /\ g.guard = f.guard
        /\ g.stamina = f.stamina /\ g.kills = f.kills
    BY DEF Good, Typed, Elapse
  <2> HIDE DEF g
  <2> QED
    BY <1>1, <2>1, <2>2, <2>3, <2>4 DEF Good, Typed
<1>3. Agrees(f, Elapse(f))
  BY DEF Good, Typed, Elapse, Agrees
<1> QED
  BY <1>2, <1>3, AgreesIsGood

\* Who comes back.
LEMMA RespawnGood ==
  ASSUME NEW f, Typed(f)
  PROVE  Good(Respawn(f))
<1> DEFINE g == [f EXCEPT !.hp = HpMax, !.guard = GuardMax, !.stamina = StaminaMax,
                          !.respawnWait = 0, !.hits = {}, !.rolled = {}, !.staminaWait = 0,
                          !.down = {}, !.buffered = {}]
<1>1. Typed(g)
  <2>1. /\ HpMax \in 0 .. HpMax /\ GuardMax \in 0 .. GuardMax
        /\ StaminaMax \in 0 .. StaminaMax
    BY Parameters
  <2>2. g = [x \in DOMAIN g |-> g[x]] /\ DOMAIN g = DOMAIN f
    OBVIOUS
  <2>3. /\ g.hp = HpMax /\ g.guard = GuardMax /\ g.stamina = StaminaMax /\ g.respawnWait = 0
        /\ g.hits = {}
    BY DEF Typed
  <2>4. g.rolled = {} /\ g.staminaWait = 0 /\ g.down = {} /\ g.buffered = {}
    BY DEF Typed
  <2>5. /\ g.action = f.action /\ g.elapsed = f.elapsed /\ g.duration = f.duration
        /\ g.charging = f.charging
    BY DEF Typed
  <2>6. g.guardWait = f.guardWait /\ g.dashWait = f.dashWait /\ g.kills = f.kills
    BY DEF Typed
  <2> HIDE DEF g
  <2> QED
    BY <2>1, <2>2, <2>3, <2>4, <2>5, <2>6 DEF Typed
<1> HIDE DEF g
<1>2. Good(Rest(g))
  BY <1>1, RestGood
<1> QED
  BY <1>2 DEF Respawn, g

\* Who starts a new match.
LEMMA ResetGood ==
  ASSUME NEW f, Typed(f)
  PROVE  Good(ResetFighter(f))
<1> DEFINE g == [f EXCEPT !.kills = 0, !.guardWait = 0, !.staminaWait = 0]
<1>1. Typed(g)
  <2>1. g = [x \in DOMAIN g |-> g[x]] /\ DOMAIN g = DOMAIN f
    BY DEF Typed
  <2>2. g.kills = 0 /\ g.guardWait = 0 /\ g.staminaWait = 0
    BY DEF Typed
  <2>3. /\ g.action = f.action /\ g.elapsed = f.elapsed /\ g.duration = f.duration
        /\ g.charging = f.charging /\ g.down = f.down /\ g.buffered = f.buffered
    BY DEF Typed
  <2>4. /\ g.hits = f.hits /\ g.rolled = f.rolled /\ g.hp = f.hp /\ g.guard = f.guard
        /\ g.stamina = f.stamina /\ g.dashWait = f.dashWait /\ g.respawnWait = f.respawnWait
    BY DEF Typed
  <2> HIDE DEF g
  <2> QED
    BY <2>1, <2>2, <2>3, <2>4 DEF Typed
<1> HIDE DEF g
<1>2. Good(Respawn(g))
  BY <1>1, RespawnGood
<1> QED
  BY <1>2 DEF ResetFighter, g

\* Who dies may hold a charge and a press that were of its life.
LEMMA DieGood ==
  ASSUME NEW f, Good(f)
  PROVE  Good(Die(f))
<1> DEFINE g == Die(f)
<1>1. f.buffered \ {"attack"} \in SUBSET Buffer
  BY DEF Good, Typed
<1>2. Typed(g)
  <2>1. "Dead" \in Action
    BY DEF Action
  <2>2. 0 \in 0 .. HpMax /\ RespawnDelay \in Nat
    BY Parameters
  <2>3. g = [x \in DOMAIN g |-> g[x]] /\ DOMAIN g = DOMAIN f
    BY DEF Good, Typed, Die
  <2>4. /\ g.action = "Dead" /\ g.elapsed = 0 /\ g.duration = 0 /\ g.hp = 0
        /\ g.buffered = f.buffered \ {"attack"} /\ g.respawnWait = RespawnDelay
    BY DEF Good, Typed, Die
  <2>5. /\ g.charging = f.charging /\ g.down = f.down /\ g.hits = f.hits
        /\ g.rolled = f.rolled /\ g.guard = f.guard
    BY DEF Good, Typed, Die
  <2>6. /\ g.stamina = f.stamina /\ g.guardWait = f.guardWait
        /\ g.staminaWait = f.staminaWait /\ g.dashWait = f.dashWait /\ g.kills = f.kills
    BY DEF Good, Typed, Die
  <2> HIDE DEF g
  <2> QED
    BY <1>1, <2>1, <2>2, <2>3, <2>4, <2>5, <2>6 DEF Good, Typed
<1>3. g.action = "Dead" /\ g.elapsed = 0 /\ g.buffered \subseteq f.buffered
  BY DEF Good, Typed, Die
<1> HIDE DEF g
<1>4. Lone(g)
  BY <1>3 DEF Good, Lone
<1>5. BufferWaits(g) /\ ChargeIsWindup(g) /\ WindupIsFresh(g) /\ BufferIsPaid(g)
  BY <1>3 DEF BufferWaits, ChargeIsWindup, WindupIsFresh, BufferIsPaid, Windup
<1>6. HoldWaits(g)
  BY <1>3, FullWindup DEF HoldWaits
<1> QED
  BY <1>2, <1>4, <1>5, <1>6 DEF Good, g

\* Who is stunned or falls.
LEMMA FallGood ==
  ASSUME NEW f, Typed(f), NEW d \in Nat
  PROVE  Good(SetAction(f, "Stunned", d)) /\ Good(SetAction(f, "Knockdown", d))
<1>1. /\ "Stunned" \notin Windup /\ "Knockdown" \notin Windup
      /\ "Stunned" # "AttackRecovery" /\ "Knockdown" # "AttackRecovery"
  BY DEF Windup
<1> QED
  BY <1>1, StunAndFall, SetActionGood
-----------------------------------------------------------------------------
(***************************************************************************)
(* The world.                                                              *)
(***************************************************************************)

\* The types that are not of a fighter.
WorldTyped ==
  /\ present \in SUBSET Fighter /\ gone \in SUBSET Fighter
  /\ winner \in Fighter \cup {NoFighter} /\ resetWait \in Nat
  /\ phase \in Phase /\ turn \in Fighter /\ other \in Fighter
  /\ swing \in Active \cup {"Idle"}
  /\ met \in [Fighter -> SUBSET Fighter] /\ touched \in [Fighter -> SUBSET Fighter]
  /\ broken \in SUBSET Fighter

\* Everyone is a consistent fighter.
AllGood(s) == s = [i \in Fighter |-> s[i]] /\ \A i \in Fighter : Good(s[i])

\* Both make the invariant.
LEMMA GoodIsFighterInv ==
  ASSUME WorldTyped, AllGood(fighter)
  PROVE  FighterInv
<1>1. \A i \in Fighter : fighter[i] \in FighterState /\ OneBufferedPress(fighter[i])
  BY TypedIsState, LoneCardinality DEF AllGood, Good
<1>2. fighter \in [Fighter -> FighterState]
  BY <1>1 DEF AllGood
<1>3. TypeOK
  BY <1>2 DEF TypeOK, WorldTyped
<1> QED
  BY <1>1, <1>3 DEF FighterInv, AllGood, Good

\* Who enters the world does so consistent.
LEMMA GoodInit ==
  ASSUME Init
  PROVE  WorldTyped /\ AllGood(fighter)
<1>1. 1 \in Fighter
  BY CombatAssumption
<1>2. WorldTyped
  BY <1>1 DEF Init, WorldTyped, NoOne, Phase
<1> QED
  BY <1>2, NewFighterGood DEF Init, AllGood

\* One fighter of the world changes.
LEMMA OneGood ==
  ASSUME NEW s, AllGood(s), NEW i \in Fighter, NEW g, Good(g)
  PROVE  AllGood([s EXCEPT ![i] = g])
  BY DEF AllGood

\* The swing marks its target: its attacker is in no windup.
LEMMA MarkedGood ==
  ASSUME Shape, MeetInv, AllGood(fighter), Striking, CanMeet
  PROVE  AllGood(Marked)
<1> DEFINE f == fighter[turn]
           g == [f EXCEPT !.hits = @ \cup {other}]
<1>1. Good(f) /\ turn \in Fighter /\ other \in Fighter
  BY DEF AllGood, Shape
<1>2. f.action \notin Windup
  BY StrikerRemembers
<1>3. Typed(g)
  BY <1>1 DEF Good, Typed
<1>4. /\ g.action = f.action /\ g.charging = f.charging /\ g.buffered = f.buffered
      /\ g.elapsed = f.elapsed /\ g.stamina = f.stamina
  BY <1>1 DEF Good, Typed
<1>5. Marked = [fighter EXCEPT ![turn] = g]
  BY DEF Marked
<1> HIDE DEF g
<1>6. Good(g)
  BY <1>1, <1>2, <1>3, <1>4
  DEF Good, Lone, BufferWaits, ChargeIsWindup, WindupIsFresh, BufferIsPaid, HoldWaits
<1> QED
  BY <1>1, <1>5, <1>6, OneGood

\* Fields of the guard and the health.
LEMMA ScratchGood ==
  ASSUME NEW f, Good(f), NEW g, Typed(g),
         g.action = f.action, g.charging = f.charging, g.buffered = f.buffered,
         g.elapsed = f.elapsed, g.hits = f.hits, g.stamina = f.stamina
  PROVE  Good(g)
<1>1. Agrees(f, g)
  BY DEF Agrees, Good, Typed
<1> QED
  BY <1>1, AgreesIsGood

\* What a block leaves of the guard.
LEMMA GuardLeftInRange ==
  ASSUME Striking, Good(fighter[other])
  PROVE  GuardLeft \in 0 .. GuardMax
<1>1. GuardDamage[Profile] \in Nat
  BY CombatAssumption DEF Striking
<1>2. fighter[other].guard \in 0 .. GuardMax /\ GuardMax \in Nat
  BY Parameters DEF Good, Typed
<1> QED
  BY <1>1, <1>2 DEF GuardLeft

\* Every blow leaves everyone consistent: a parry.
LEMMA ParryGood ==
  ASSUME Shape, MeetInv, AllGood(fighter), Parry
  PROVE  AllGood(fighter')
<1> DEFINE f == Marked[other]
           h == [f EXCEPT !.guardWait = GuardDelay]
           g == SetAction(Marked[turn], "Stunned", ParryStun)
<1>1. AllGood(Marked) /\ turn \in Fighter /\ other \in Fighter /\ turn # other
  BY MarkedGood DEF Parry, Blocked, Meet, CanMeet, Shape
<1>2. Good(f) /\ Good(Marked[turn])
  BY <1>1 DEF AllGood
<1>3. fighter' = [[Marked EXCEPT ![other] = h] EXCEPT ![turn] = g]
  BY <1>1 DEF Parry, AllGood
<1>4. Typed(h)
  BY <1>2, CombatAssumption DEF Good, Typed
<1>5. Good(h)
  BY <1>2, <1>4, ScratchGood DEF Good, Typed
<1>6. Good(g)
  BY <1>2, FallGood, StunAndFall DEF Good
<1> HIDE DEF g, h
<1> QED
  BY <1>1, <1>3, <1>5, <1>6, OneGood

\* A block that holds.
LEMMA BlockHitGood ==
  ASSUME Shape, MeetInv, AllGood(fighter), BlockHit
  PROVE  AllGood(fighter')
<1> DEFINE f == Marked[other]
           h == [f EXCEPT !.guard = GuardLeft, !.guardWait = GuardDelay]
<1>1. AllGood(Marked) /\ turn \in Fighter /\ other \in Fighter /\ turn # other
  BY MarkedGood DEF BlockHit, Blocked, Meet, CanMeet, Shape
<1>2. Good(f) /\ f = fighter[other]
  BY <1>1, MarkedFacts DEF AllGood, BlockHit, Blocked, Meet
<1>3. fighter' = [Marked EXCEPT ![other] = h]
  BY <1>1 DEF BlockHit, AllGood
<1>4. GuardLeft \in 0 .. GuardMax
  BY <1>2, GuardLeftInRange DEF BlockHit, Blocked, Meet
<1>5. Typed(h)
  BY <1>2, <1>4, CombatAssumption DEF Good, Typed
<1>6. Good(h)
  BY <1>2, <1>5, ScratchGood DEF Good, Typed
<1> HIDE DEF h
<1> QED
  BY <1>1, <1>3, <1>6, OneGood

\* A block that breaks.
LEMMA GuardBreakGood ==
  ASSUME Shape, MeetInv, AllGood(fighter), GuardBreak
  PROVE  AllGood(fighter')
<1> DEFINE d == GuardBreakStun[Profile]
           f == Marked[other]
           h == [f EXCEPT !.guard = GuardLeft, !.guardWait = GuardBreakWait]
           g == SetAction(h, "Stunned", d)
<1>1. AllGood(Marked) /\ turn \in Fighter /\ other \in Fighter /\ turn # other
      /\ Striking /\ CanMeet
  BY MarkedGood DEF GuardBreak, Blocked, Meet, CanMeet, Shape
<1>2. Good(f) /\ f = fighter[other]
  BY <1>1, MarkedFacts DEF AllGood
<1>3. fighter' = [Marked EXCEPT ![other] = g]
  BY <1>1 DEF GuardBreak, AllGood
<1>4. GuardLeft \in 0 .. GuardMax
  BY <1>1, <1>2, GuardLeftInRange
<1>5. d \in Nat /\ GuardBreakWait \in Nat
  BY <1>1, CombatAssumption DEF GuardBreakWait, Striking
<1>6. Typed(h)
  BY <1>2, <1>4, <1>5 DEF Good, Typed
<1> HIDE DEF h, d
<1>7. Good(g)
  BY <1>5, <1>6, FallGood
<1> HIDE DEF g
<1>8. AllGood([Marked EXCEPT ![other] = g])
  BY <1>1, <1>7, OneGood
<1> QED
  BY <1>3, <1>8

\* A kick.
LEMMA KickDownGood ==
  ASSUME Shape, MeetInv, AllGood(fighter), KickDown
  PROVE  AllGood(fighter')
<1> DEFINE g == SetAction(Marked[other], "Knockdown", KickKnockdown)
<1>1. AllGood(Marked) /\ other \in Fighter
  BY MarkedGood DEF KickDown, Land, Meet, Shape
<1>2. Typed(Marked[other])
  BY <1>1 DEF AllGood, Good
<1>3. Good(g)
  BY <1>2, FallGood, StunAndFall
<1>4. fighter' = [Marked EXCEPT ![other] = g]
  BY <1>1 DEF KickDown, AllGood
<1> HIDE DEF g
<1> QED
  BY <1>1, <1>3, <1>4, OneGood

\* A blow that wounds.
LEMMA HitGood ==
  ASSUME Shape, MeetInv, AllGood(fighter), Hit
  PROVE  AllGood(fighter')
<1> DEFINE f == Marked[other]
           h == [f EXCEPT !.hp = @ - Damage[Profile]]
<1>1. AllGood(Marked) /\ other \in Fighter /\ Striking /\ CanMeet
  BY MarkedGood DEF Hit, Land, Meet, Shape
<1>2. Good(f) /\ f = fighter[other]
  BY <1>1, MarkedFacts DEF AllGood, CanMeet
<1>3. f.hp - Damage[Profile] \in 0 .. HpMax
  <2>1. Damage[Profile] \in Nat
    BY <1>1, CombatAssumption DEF Striking
  <2>2. f.hp \in 0 .. HpMax /\ f.hp > Damage[Profile] /\ HpMax \in Nat
    BY <1>2, Parameters DEF Good, Typed, Hit
  <2> QED
    BY <2>1, <2>2
<1>4. fighter' = [Marked EXCEPT ![other] = h]
  BY <1>1 DEF Hit, AllGood
<1>5. Typed(h)
  BY <1>2, <1>3 DEF Good, Typed
<1>6. Good(h)
  BY <1>2, <1>5, ScratchGood DEF Good, Typed
<1> HIDE DEF h
<1> QED
  BY <1>1, <1>4, <1>6, OneGood

\* A blow that kills.
LEMMA KillGood ==
  ASSUME Shape, MeetInv, AllGood(fighter), Kill
  PROVE  AllGood(fighter')
<1> DEFINE f == Marked[turn]
           g == [f EXCEPT !.kills = @ + 1]
           h == Die(Marked[other])
<1>1. AllGood(Marked) /\ turn \in Fighter /\ other \in Fighter /\ turn # other
  BY MarkedGood DEF Kill, Land, Meet, CanMeet, Shape
<1>2. Good(f) /\ Good(Marked[other])
  BY <1>1 DEF AllGood
<1>3. fighter' = [[Marked EXCEPT ![turn] = g] EXCEPT ![other] = h]
  BY <1>1 DEF Kill, AllGood
<1> HIDE DEF f
<1>4. Typed(g)
  <2>1. g = [x \in DOMAIN g |-> g[x]] /\ DOMAIN g = DOMAIN f
    BY <1>2 DEF Good, Typed
  <2>2. g.kills = f.kills + 1 /\ g.kills \in Nat
    BY <1>2 DEF Good, Typed
  <2>3. \A x \in DOMAIN f : x # "kills" => g[x] = f[x]
    BY <1>2 DEF Good, Typed
  <2> HIDE DEF g
  <2> QED
    BY <1>2, <2>1, <2>2, <2>3 DEF Good, Typed
<1>5. Good(g)
  BY <1>2, <1>4, ScratchGood DEF Good, Typed
<1>6. Good(h)
  BY <1>2, DieGood
<1> HIDE DEF g, h
<1> QED
  BY <1>1, <1>3, <1>5, <1>6, OneGood

\* A roll leaves everyone consistent.
LEMMA RollGood ==
  ASSUME Shape, AllGood(fighter), RollInto
  PROVE  AllGood(fighter')
<1> DEFINE f == fighter[turn]
           g == [f EXCEPT !.rolled = @ \cup {other}]
           h == SetAction(fighter[other], "Knockdown", RollKnockdown)
<1>1. turn \in Fighter /\ other \in Fighter /\ turn # other
  BY DEF RollInto, CanTouch, Shape
<1>2. Good(f) /\ Good(fighter[other])
  BY <1>1 DEF AllGood
<1>3. Typed(g)
  BY <1>1, <1>2 DEF Good, Typed
<1>4. Good(g)
  BY <1>2, <1>3, ScratchGood DEF Good, Typed
<1>5. Good(h)
  BY <1>2, FallGood, StunAndFall DEF Good
<1>6. \/ fighter' = [fighter EXCEPT ![turn] = g]
      \/ fighter' = [[fighter EXCEPT ![turn] = g] EXCEPT ![other] = h]
  BY <1>1 DEF RollInto, RollOverGrounded, KnockDownByRoll, AllGood
<1> HIDE DEF g, h
<1>7. AllGood([fighter EXCEPT ![turn] = g])
  BY <1>1, <1>4, OneGood
<1>8. AllGood([[fighter EXCEPT ![turn] = g] EXCEPT ![other] = h])
  BY <1>1, <1>5, <1>7, OneGood
<1> QED
  BY <1>6, <1>7, <1>8

\* A tick of the loop over the fighters, and the steps between the loops.
LEMMA ActGood ==
  ASSUME Shape, AllGood(fighter), NEW input, ActLiving(input)
  PROVE  AllGood(fighter')
<1>1. turn \in Fighter /\ Good(fighter[turn])
  BY DEF Shape, AllGood
<1>2. Good(LivingTick(fighter[turn], input))
  BY <1>1, LivingTickGood
<1>3. fighter' = [fighter EXCEPT ![turn] = LivingTick(fighter[turn], input)]
  BY DEF ActLiving
<1> QED
  BY <1>1, <1>2, <1>3, OneGood

\* The types of the cursor after the row of a fighter.
LEMMA CursorTyped ==
  ASSUME Shape, WorldTyped, NextRow \/ (phase = "roll" /\ NextTarget), phase # "between"
  PROVE  /\ phase' \in Phase /\ turn' \in Fighter /\ other' \in Fighter
         /\ swing' \in Active \cup {"Idle"}
<1>1. CASE NextRow
  BY <1>1, NextRowFacts DEF WorldTyped, Phase
<1>2. CASE phase = "roll" /\ NextTarget
  BY <1>2, NextTargetFacts DEF WorldTyped, Phase
<1> QED
  BY <1>1, <1>2

\* Whatever the server does, it leaves every fighter consistent.
LEMMA FightersNext ==
  ASSUME Shape, MeetInv, AllGood(fighter), [Next]_vars
  PROVE  AllGood(fighter')
<1>1. CASE UNCHANGED fighter
  BY <1>1
<1>2. ASSUME NEW i \in Fighter, AddPlayer(i) PROVE UNCHANGED fighter
  BY <1>2 DEF AddPlayer
<1>3. ASSUME NEW i \in Fighter, RemovePlayer(i) PROVE AllGood(fighter')
  BY <1>3, NewFighterGood, OneGood DEF RemovePlayer
<1>4. CASE BeginStep
  BY <1>4, ElapseGood DEF BeginStep, AllGood
<1>5. CASE StepOver
  <2>1. CASE resetWait > 1
    BY <1>5, <2>1, ElapseGood DEF StepOver, AllGood
  <2>2. CASE ~(resetWait > 1)
    <3>1. fighter' = [i \in Fighter |->
            IF i \in present THEN ResetFighter(Elapse(fighter[i])) ELSE fighter[i]]
      BY <1>5, <2>2 DEF StepOver
    <3>2. \A i \in Fighter : Good(fighter[i]) /\ Good(ResetFighter(Elapse(fighter[i])))
      <4> TAKE i \in Fighter
      <4>1. Good(fighter[i])
        BY DEF AllGood
      <4>2. Typed(Elapse(fighter[i]))
        BY <4>1, ElapseGood DEF Good
      <4> QED
        BY <4>1, <4>2, ResetGood
    <3> QED
      BY <3>1, <3>2 DEF AllGood
  <2> QED
    BY <2>1, <2>2
<1>6. CASE SkipAbsent \/ SkipRoller \/ SkipAttacker \/ RollPast \/ Miss
  BY <1>1, <1>6 DEF SkipAbsent, SkipRoller, SkipAttacker, RollPast, Miss, worldVars
<1>7. CASE ActDead
  <2> DEFINE f == fighter[turn]
             g == IF f.respawnWait = 0 THEN Respawn(f) ELSE f
  <2>1. turn \in Fighter /\ Good(f)
    BY DEF Shape, AllGood
  <2>2. Good(g)
    BY <2>1, RespawnGood DEF Good
  <2>3. fighter' = [fighter EXCEPT ![turn] = g]
    BY <1>7 DEF ActDead
  <2> HIDE DEF g
  <2> QED
    BY <2>1, <2>2, <2>3, OneGood
<1>8. CASE KickGrounded \/ Evade
  BY <1>8, MarkedGood DEF KickGrounded, Evade, Evaded, Meet
<1> QED
  BY <1>1, <1>2, <1>3, <1>4, <1>5, <1>6, <1>7, <1>8, ActGood, RollGood, ParryGood,
     BlockHitGood, GuardBreakGood, KickDownGood, HitGood, KillGood, Steps
  DEF vars, worldVars

\* Whatever the server does, the recorded world keeps its type.
LEMMA WorldNext ==
  ASSUME Shape, WorldTyped, [Next]_vars
  PROVE  WorldTyped'
<1> USE DEF WorldTyped
<1>0. 1 \in Fighter /\ ResetDelay \in Nat /\ "between" \in Phase /\ "act" \in Phase
  BY CombatAssumption DEF Phase
<1>1. CASE UNCHANGED vars
  BY <1>1 DEF vars, worldVars, cursorVars, historyVars
<1>2. ASSUME NEW i \in Fighter, AddPlayer(i) PROVE WorldTyped'
  BY <1>2 DEF AddPlayer, cursorVars, historyVars
<1>3. ASSUME NEW i \in Fighter, RemovePlayer(i) PROVE WorldTyped'
  BY <1>3 DEF RemovePlayer, cursorVars
<1>4. CASE BeginStep
  BY <1>0, <1>4 DEF BeginStep, historyVars
<1>5. CASE StepOver
  BY <1>5 DEF StepOver, ResetWaitLater, cursorVars, historyVars, NoOne
<1>6. CASE SkipAbsent \/ SkipRoller \/ SkipAttacker
  <2>1. NextRow /\ phase # "between" /\ UNCHANGED <<worldVars, historyVars>>
    BY <1>6 DEF SkipAbsent, SkipRoller, SkipAttacker
  <2> QED
    BY <2>1, CursorTyped DEF worldVars, historyVars
<1>7. CASE ActDead
  <2>1. NextRow /\ phase # "between"
    BY <1>7 DEF ActDead
  <2> QED
    BY <1>7, <2>1, CursorTyped DEF ActDead, historyVars
<1>8. ASSUME NEW input, ActLiving(input) PROVE WorldTyped'
  <2>1. NextRow /\ phase # "between"
    BY <1>8 DEF ActLiving
  <2>2. /\ met' \in [Fighter -> SUBSET Fighter] /\ touched' \in [Fighter -> SUBSET Fighter]
        /\ broken' \in SUBSET Fighter
    BY <1>8 DEF ActLiving
  <2> QED
    BY <1>8, <2>1, <2>2, CursorTyped DEF ActLiving
<1>9. CASE RollPast
  <2>1. NextTarget /\ phase = "roll"
    BY <1>9 DEF RollPast
  <2> QED
    BY <1>9, <2>1, CursorTyped DEF RollPast, worldVars, historyVars
<1>10. CASE RollInto
  <2>1. NextTarget /\ phase = "roll"
    BY <1>10 DEF RollInto
  <2>2. touched' \in [Fighter -> SUBSET Fighter] /\ broken' \in SUBSET Fighter
    BY <1>10 DEF RollInto
  <2> QED
    BY <1>10, <2>1, <2>2, CursorTyped DEF RollInto
<1>11. CASE Miss
  <2>1. Onward
    BY <1>11, NextVictimFacts DEF Miss
  <2> QED
    BY <1>11, <2>1 DEF Miss, Onward, worldVars, historyVars, Phase
<1>12. CASE KickGrounded \/ Evade \/ Parry \/ BlockHit \/ GuardBreak \/ KickDown \/ Hit \/ Kill
  <2>1. Blow
    BY <1>12, AttackIsStruck
  <2>2. /\ phase' \in Phase /\ turn' \in Fighter /\ other' \in Fighter
        /\ swing' \in Active \cup {"Idle"}
    BY <2>1 DEF Blow, Onward, Phase
  <2>3. met' \in [Fighter -> SUBSET Fighter] /\ UNCHANGED <<present, touched>>
    BY <2>1 DEF Blow
  <2>4. UNCHANGED gone
    BY <1>12 DEF KickGrounded, Evade, Parry, BlockHit, GuardBreak, KickDown, Hit, Kill,
       Blocked, Land, Meet
  <2>5. broken' \in SUBSET Fighter
    BY <2>1 DEF Blow, Target
  <2>6. winner' \in Fighter \cup {NoFighter}
    BY <2>1 DEF Blow, Attacker
  <2>7. resetWait' \in Nat
    BY <1>0, <1>12 DEF KickGrounded, Evade, Parry, BlockHit, GuardBreak, KickDown, Hit, Kill,
       Decide
  <2> QED
    BY <2>2, <2>3, <2>4, <2>5, <2>6, <2>7
<1> QED
  BY <1>1, <1>2, <1>3, <1>4, <1>5, <1>6, <1>7, <1>8, <1>9, <1>10, <1>11, <1>12, Steps

\* Between any two blows of a step every fighter is well typed, remembers at most one
\* press and only for the end of a light recovery, can pay for it, charges only in the
\* windup of a heavy attack, and winds up with nobody on its mask (set_action,
\* clear_recovery_input_buffer, clear_light_attack_buffer).
THEOREM EveryFighterIsConsistent == Spec => []FighterInv
<1>1. Init => WorldTyped /\ AllGood(fighter)
  BY GoodInit
<1>2. Shape /\ MeetInv /\ WorldTyped /\ AllGood(fighter) /\ [Next]_vars
      => WorldTyped' /\ AllGood(fighter)'
  BY FightersNext, WorldNext
<1>3. WorldTyped /\ AllGood(fighter) => FighterInv
  BY GoodIsFighterInv
<1> QED
  BY <1>1, <1>2, <1>3, ShapeInvariant, MeetInit, MeetNext, PTL DEF Spec
-----------------------------------------------------------------------------
(***************************************************************************)
(* The practice of the browser does, with one fighter, what the server     *)
(* does: PracticeFighter against FighterActions, operator by operator.     *)
(***************************************************************************)

\* The two ways to start an action.
LEMMA SameAction ==
  ASSUME NEW f, Typed(f), NEW a, NEW d
  PROVE  Enter(f, a, d) = SetAction(f, a, d)
<1>1. (f.charging /\ a = "HeavyAttackWindup")
      = (IF a = "HeavyAttackWindup" THEN f.charging ELSE FALSE)
  BY DEF Typed
<1> QED
  BY <1>1 DEF Enter, SetAction

\* What an action forgets anyway need not be forgotten first.
LEMMA ForgottenAnyway ==
  ASSUME NEW f, Typed(f), NEW a, a # "AttackRecovery", NEW d
  PROVE  SetAction([f EXCEPT !.buffered = {}], a, d) = SetAction(f, a, d)
<1> DEFINE e == [f EXCEPT !.buffered = {}]
           g == SetAction(e, a, d)
           h == SetAction(f, a, d)
<1>1. /\ e = [x \in DOMAIN e |-> e[x]] /\ DOMAIN e = DOMAIN f
      /\ e.charging = f.charging /\ \A x \in DOMAIN f : x # "buffered" => e[x] = f[x]
  BY DEF Typed
<1> HIDE DEF e
<1>2. g = [x \in DOMAIN g |-> g[x]] /\ h = [x \in DOMAIN h |-> h[x]]
  BY DEF SetAction
<1>0. DOMAIN g = DOMAIN f /\ DOMAIN h = DOMAIN f
  BY <1>1 DEF SetAction
<1>3. g.buffered = h.buffered
  BY <1>1 DEF SetAction, Typed
<1>4. /\ g.action = h.action /\ g.elapsed = h.elapsed /\ g.duration = h.duration
      /\ g.charging = h.charging
  BY <1>1 DEF SetAction, Typed
<1>5. ASSUME NEW x \in DOMAIN f,
             x \notin {"buffered", "action", "elapsed", "duration", "charging"}
      PROVE  g[x] = h[x]
  BY <1>1, <1>5 DEF SetAction
<1>6. \A x \in DOMAIN f : g[x] = h[x]
  BY <1>3, <1>4, <1>5
<1> HIDE DEF g, h
<1> QED
  BY <1>0, <1>2, <1>6 DEF e, g, h

\* Rest, guard, and the actions with a time.
LEMMA SameStart ==
  ASSUME NEW f, Typed(f)
  PROVE  /\ StandBy(f) = Rest(f) /\ HoldGuard(f) = RaiseGuard(f)
         /\ \A a : Perform(f, a) = Start(f, a)
<1>1. Typed([f EXCEPT !.buffered = {}])
  BY DEF Typed
<1>2. StandBy(f) = Rest(f) /\ \A a : Perform(f, a) = Start(f, a)
  BY SameAction DEF StandBy, Rest, Perform, Start
<1>3. HoldGuard(f) = SetAction([f EXCEPT !.buffered = {}], "Block", 0)
  BY <1>1, SameAction DEF HoldGuard
<1> QED
  BY <1>2, <1>3, ForgottenAnyway DEF RaiseGuard

\* The swings.
LEMMA SameSwing ==
  ASSUME NEW f, Typed(f), NEW a \in Windup
  PROVE  Swing(f, a) = BeginSwing(f, a)
<1> DEFINE g == [f EXCEPT !.hits = {}]
           h == [f EXCEPT !.buffered = {}, !.hits = {}]
<1>1. Typed(g)
  BY DEF Typed
<1>2. h = [g EXCEPT !.buffered = {}]
  BY DEF Typed
<1> HIDE DEF g, h
<1>3. Typed(h)
  BY <1>1, <1>2 DEF Typed
<1>4. a # "AttackRecovery"
  BY DEF Windup
<1>5. Perform(h, a) = Start(h, a)
  BY <1>3, SameStart
<1>6. Start(h, a) = Start(g, a)
  BY <1>1, <1>2, <1>4, ForgottenAnyway DEF Start
<1> QED
  BY <1>5, <1>6 DEF Swing, BeginSwing, g, h

\* The rolls.
LEMMA SameDodge ==
  ASSUME NEW f, Typed(f)
  PROVE  RollAway(f) = BeginDodge(f)
<1> DEFINE g == [f EXCEPT !.rolled = {}]
           h == [f EXCEPT !.buffered = {}, !.rolled = {}]
<1>1. Typed(g)
  BY DEF Typed
<1>2. h = [g EXCEPT !.buffered = {}]
  BY DEF Typed
<1> HIDE DEF g, h
<1>3. Typed(h)
  BY <1>1, <1>2 DEF Typed
<1>4. Perform(h, "Dodge") = Start(h, "Dodge")
  BY <1>3, SameStart
<1>5. Start(h, "Dodge") = Start(g, "Dodge")
  BY <1>1, <1>2, ForgottenAnyway DEF Start
<1> QED
  BY <1>4, <1>5 DEF RollAway, BeginDodge, g, h

\* What is paid for.
LEMMA SamePaid ==
  ASSUME NEW f, Typed(f), NEW n \in Nat, CanSpend(f, n)
  PROVE  /\ Typed(Spend(f, n)) /\ Pay(f, n) = Spend(f, n)
         /\ \A a \in Windup : Swing(Pay(f, n), a) = BeginSwing(Spend(f, n), a)
         /\ \A a : Perform(Pay(f, n), a) = Start(Spend(f, n), a)
         /\ RollAway(Pay(f, n)) = BeginDodge(Spend(f, n))
<1>1. Typed(Spend(f, n))
  BY SpendTyped
<1>2. Pay(f, n) = Spend(f, n)
  BY DEF Pay, Spend
<1> QED
  BY <1>1, <1>2, SameSwing, SameStart, SameDodge

\* The prices.
LEMMA SamePrices ==
  /\ Price["kick"] = Cost["kick"] /\ Price["jump"] = Cost["jump"]
  /\ Price["dodge"] = Cost["dodge"] /\ Price["jumpAttack"] = JumpAttackCost
  /\ \A press \in Buffer : Price[press] = BufferCost(press)
<1>1. /\ Price["kick"] = Cost["kick"] /\ Price["jump"] = Cost["jump"]
      /\ Price["dodge"] = Cost["dodge"] /\ Price["jumpAttack"] = JumpAttackCost
      /\ Price["block"] = 0 /\ Price["attack"] = 0
  BY DEF Price, JumpAttackCost
<1>2. \A press \in Buffer : Price[press] = BufferCost(press)
  BY <1>1 DEF BufferCost, Buffer
<1> QED
  BY <1>1, <1>2

\* What both can pay.
LEMMA SamePurse ==
  ASSUME NEW f, NEW n
  PROVE  Affords(f, n) = CanSpend(f, n)
  BY DEF Affords, CanSpend

\* The end of a light recovery.
LEMMA SameRecovery ==
  ASSUME NEW f, Good(f)
  PROVE  LeaveRecovery(f) = FinishLightRecovery(f)
<1>1. Typed(f)
  BY DEF Good
<1>2. CASE f.buffered = {}
  BY <1>1, <1>2, SameStart DEF LeaveRecovery, FinishLightRecovery
<1>3. ASSUME NEW press \in Buffer, f.buffered = {press}
      PROVE  LeaveRecovery(f) = FinishLightRecovery(f)
  <2>1. Rank[press] \in Int
    BY DEF Rank, Buffer
  <2>2. (CHOOSE p \in f.buffered : \A q \in f.buffered : Rank[p] <= Rank[q]) = press
    BY <1>3, <2>1
  <2>3. LeaveRecovery(f) = PayAndServe(f, press)
    BY <1>3, <2>2 DEF LeaveRecovery
  <2>4. BufferCost(press) \in Nat /\ Price[press] = BufferCost(press)
    BY Parameters, SamePrices
  <2>5. \A a \in {"KickWindup", "JumpAttackWindup", "AttackWindup"} : a \in Windup
    BY DEF Windup
  <2>6. CASE press = "kick"
    BY <1>1, <1>3, <2>3, <2>4, <2>5, <2>6, SamePaid, SameStart, SamePurse
    DEF PayAndServe, Serve, FinishLightRecovery
  <2>7. CASE press = "jumpAttack"
    BY <1>1, <1>3, <2>3, <2>4, <2>5, <2>7, SamePaid, SameStart, SamePurse
    DEF PayAndServe, Serve, FinishLightRecovery
  <2>8. CASE press = "jump"
    BY <1>1, <1>3, <2>3, <2>4, <2>8, SamePaid, SameStart, SamePurse
    DEF PayAndServe, Serve, FinishLightRecovery
  <2>9. CASE press = "dodge"
    BY <1>1, <1>3, <2>3, <2>4, <2>9, SamePaid, SameStart, SamePurse
    DEF PayAndServe, Serve, FinishLightRecovery
  <2>10. CASE press = "block"
    BY <1>1, <1>3, <2>3, <2>10, SameStart DEF PayAndServe, Serve, FinishLightRecovery
  <2>11. CASE press = "attack"
    BY <1>1, <1>3, <2>3, <2>5, <2>11, SameSwing DEF PayAndServe, Serve, FinishLightRecovery
  <2> QED
    BY <2>6, <2>7, <2>8, <2>9, <2>10, <2>11 DEF Buffer
<1>4. f.buffered = {} \/ \E press \in Buffer : f.buffered = {press}
  BY <1>1 DEF Good, Lone, Typed
<1> QED
  BY <1>2, <1>3, <1>4

\* What a light recovery remembers.
LEMMA SameMemory ==
  ASSUME NEW f, Good(f), NEW edges
  PROVE  Remember(f, edges) = BufferPress(f, edges)
<1>1. f.duration \in Nat /\ f.elapsed \in Nat /\ BufferWindow \in Nat
  BY FighterAssumption DEF Good, Typed
<1>2. /\ Price["kick"] = BufferCost("kick") /\ Price["jump"] = BufferCost("jump")
      /\ Price["dodge"] = BufferCost("dodge")
      /\ Price["jumpAttack"] = BufferCost("jumpAttack")
  BY SamePrices DEF Buffer
<1>3. CASE f.duration - f.elapsed > BufferWindow
  <2>1. ~(f.duration - f.elapsed <= BufferWindow)
    BY <1>1, <1>3
  <2> QED
    BY <1>3, <2>1 DEF Remember, BufferPress
<1>4. CASE ~(f.duration - f.elapsed > BufferWindow)
  <2>1. f.duration - f.elapsed <= BufferWindow
    BY <1>1, <1>4
  <2> QED
    BY <1>2, <1>4, <2>1, SamePurse DEF Remember, BufferPress, Chord
<1> QED
  BY <1>3, <1>4

\* The release of a charge, but for the heavy one before its time.
LEMMA SameRelease ==
  ASSUME NEW f, Good(f), NEW input,
         {"attack", "heavy"} \cap input = {"heavy"} => f.elapsed >= Duration["HeavyAttackWindup"]
  PROVE  (IF {"attack", "heavy"} \subseteq input THEN f ELSE EndCharge(f, input))
         = ReleaseCharge(f, input)
<1> DEFINE q == [f EXCEPT !.charging = FALSE]
<1>1. Typed(q)
  BY DEF Good, Typed
<1>2. Price["jumpAttack"] = JumpAttackCost /\ JumpAttackCost \in Nat /\ Cost["running"] \in Nat
  BY SamePrices, Parameters
<1>3. {"JumpAttackWindup", "AttackWindup", "RunningAttackWindup"} \subseteq Windup
  BY DEF Windup
<1>4. Sprinting(input) = Running(input)
  BY DEF Sprinting, Running
<1> HIDE DEF q
<1>5. StandBy(q) = Rest(q) /\ Swing(q, "AttackWindup") = BeginSwing(q, "AttackWindup")
  BY <1>1, <1>3, SameStart, SameSwing
<1>6. CanSpend(q, JumpAttackCost) =>
        Swing(Pay(q, JumpAttackCost), "JumpAttackWindup")
        = BeginSwing(Spend(q, JumpAttackCost), "JumpAttackWindup")
  BY <1>1, <1>2, <1>3, SamePaid
<1>7. CanSpend(q, Cost["running"]) =>
        RunningStrike(q) = BeginSwing(Spend(q, Cost["running"]), "RunningAttackWindup")
  BY <1>1, <1>2, <1>3, SamePaid DEF RunningStrike
<1>8. CASE {"attack", "heavy"} \subseteq input
  BY <1>8 DEF ReleaseCharge
<1>9. CASE "heavy" \in input /\ "attack" \notin input
  <2>1. f.elapsed >= Duration["HeavyAttackWindup"]
    BY <1>9
  <2> QED
    BY <1>9, <2>1 DEF EndCharge, ReleaseCharge, q
<1>10. CASE "heavy" \notin input /\ "attack" \in input
  <2>1. EndCharge(f, input) = ReleaseLight(q, input)
    BY <1>2, <1>4, <1>5, <1>6, <1>7, <1>10, SamePurse DEF EndCharge, ReleaseLight, q
  <2>2. ReleaseCharge(f, input) = ReleaseLight(q, input)
    BY <1>10 DEF ReleaseCharge, q
  <2> QED
    BY <1>10, <2>1, <2>2
<1>11. CASE "heavy" \notin input /\ "attack" \notin input
  BY <1>5, <1>11 DEF EndCharge, ReleaseCharge, q
<1> QED
  BY <1>8, <1>9, <1>10, <1>11

\* The choice from rest.
LEMMA SameFromIdle ==
  ASSUME NEW f, Good(f), f.action = "Idle", NEW input, NEW edges
  PROVE  ChooseAction(f, input, edges) = ActFromIdle(f, input, edges)
<1> DEFINE dash  == [Spend(f, Cost["dash"]) EXCEPT !.dashWait = DashCooldown]
<1>1. Typed(f)
  BY DEF Good
<1>2. {"KickWindup", "JumpAttackWindup", "RunningAttackWindup", "HeavyAttackWindup",
       "AttackWindup"} \subseteq Windup
  BY DEF Windup
<1>3. /\ \A a \in {"dodge", "dash", "kick", "jump", "running"} : Cost[a] \in Nat
      /\ JumpAttackCost \in Nat /\ Price["jumpAttack"] = JumpAttackCost
  BY Parameters, SamePrices
<1>4. ASSUME CanSpend(f, Cost["dash"])
      PROVE  Perform([Pay(f, Cost["dash"]) EXCEPT !.dashWait = DashCooldown], "Dash")
             = Start(dash, "Dash")
  <2>1. Typed(Spend(f, Cost["dash"])) /\ Pay(f, Cost["dash"]) = Spend(f, Cost["dash"])
    BY <1>1, <1>3, <1>4, SamePaid
  <2>2. Typed(dash)
    BY <2>1, Parameters DEF Typed
  <2> QED
    BY <2>1, <2>2, SameStart
<1>5. /\ HoldGuard(f) = RaiseGuard(f)
      /\ \A a \in Windup : Swing(f, a) = BeginSwing(f, a)
  BY <1>1, SameStart, SameSwing
<1>6. \A n \in Nat : CanSpend(f, n) =>
        /\ \A a \in Windup : Swing(Pay(f, n), a) = BeginSwing(Spend(f, n), a)
        /\ Perform(Pay(f, n), "Jump") = Start(Spend(f, n), "Jump")
        /\ RollAway(Pay(f, n)) = BeginDodge(Spend(f, n))
  BY <1>1, SamePaid
<1>7. Sprinting(input) = Running(input) /\ \A n : Affords(f, n) = CanSpend(f, n)
  BY SamePurse DEF Sprinting, Running
<1> HIDE DEF dash
<1>8. CASE Chord(edges, "block") \/ ("dodge" \in edges /\ CanSpend(f, Cost["dodge"]))
           \/ Chord(edges, "dodge")
  BY <1>3, <1>5, <1>6, <1>7, <1>8 DEF ChooseAction, ActFromIdle, Chord
<1>9. ASSUME ~Chord(edges, "block"), ~("dodge" \in edges /\ CanSpend(f, Cost["dodge"])),
             ~Chord(edges, "dodge")
      PROVE  ChooseAction(f, input, edges) = ActFromIdle(f, input, edges)
  BY <1>2, <1>3, <1>4, <1>5, <1>6, <1>7, <1>9
  DEF ChooseAction, ActFromIdle, Chord, RunningStrike, dash
<1> QED
  BY <1>8, <1>9

\* The choice from behind a guard.
LEMMA SameFromBlock ==
  ASSUME NEW f, Good(f), f.action = "Block", NEW input, NEW edges
  PROVE  ChooseAction(f, input, edges) = ActFromBlock(f, input, edges)
<1>1. Typed(f) /\ Cost["dodge"] \in Nat
  BY Parameters DEF Good
<1>2. CanSpend(f, Cost["dodge"]) =>
        RollAway(Pay(f, Cost["dodge"])) = BeginDodge(Spend(f, Cost["dodge"]))
  BY <1>1, SamePaid
<1>3. StandBy(f) = Rest(f)
  BY <1>1, SameStart
<1> QED
  BY <1>2, <1>3, SamePurse DEF ChooseAction, ActFromBlock, Chord

\* The feint.
LEMMA SameFeint ==
  ASSUME NEW f, Typed(f), NEW input
  PROVE  /\ (FeintTime(f) > 0 /\ "block" \in input /\ f.elapsed <= FeintTime(f)
             /\ Affords(f, Cost["feint"])) <=> CanFeint(f, input)
         /\ CanFeint(f, input) =>
              Perform([Pay(f, Cost["feint"]) EXCEPT !.hits = {}], "FeintRecovery")
              = Start([Spend(f, Cost["feint"]) EXCEPT !.hits = {}], "FeintRecovery")
<1>1. (FeintTime(f) > 0 /\ "block" \in input /\ f.elapsed <= FeintTime(f)
       /\ Affords(f, Cost["feint"])) <=> CanFeint(f, input)
  <2>1. CASE f.action \in {"AttackWindup", "HeavyAttackWindup"}
    BY <2>1, SamePurse DEF FeintTime, CanFeint
  <2>2. CASE f.action \notin {"AttackWindup", "HeavyAttackWindup"}
    <3>1. FeintTime(f) = 0 /\ ~CanFeint(f, input)
      BY <2>2 DEF FeintTime, CanFeint
    <3>2. ~(FeintTime(f) > 0)
      BY <3>1
    <3> QED
      BY <3>1, <3>2
  <2> QED
    BY <2>1, <2>2
<1>2. ASSUME CanFeint(f, input)
      PROVE  Perform([Pay(f, Cost["feint"]) EXCEPT !.hits = {}], "FeintRecovery")
             = Start([Spend(f, Cost["feint"]) EXCEPT !.hits = {}], "FeintRecovery")
  <2>1. /\ Typed(Spend(f, Cost["feint"]))
        /\ Pay(f, Cost["feint"]) = Spend(f, Cost["feint"])
    BY <1>2, Parameters, SamePaid DEF CanFeint
  <2>2. Typed([Spend(f, Cost["feint"]) EXCEPT !.hits = {}])
    BY <2>1 DEF Typed
  <2> QED
    BY <2>1, <2>2, SameStart
<1> QED
  BY <1>1, <1>2

\* Whatever is pressed.
LEMMA SameRequest ==
  ASSUME NEW f, Good(f), NEW input, NEW edges, ~EarlyHeavyRelease(f, input)
  PROVE  Request(f, input, edges) = BeginRequestedAction(f, input, edges)
<1> DEFINE feints == /\ FeintTime(f) > 0 /\ "block" \in input /\ f.elapsed <= FeintTime(f)
                     /\ Affords(f, Cost["feint"])
<1>1. Typed(f) /\ Cost["jumpAttack"] \in Nat
  BY Parameters DEF Good
<1>2. "JumpAttackWindup" \in Windup /\ "HeavyAttackWindup" \in Windup
  BY DEF Windup
<1>3. /\ feints <=> CanFeint(f, input)
      /\ CanFeint(f, input) =>
           Perform([Pay(f, Cost["feint"]) EXCEPT !.hits = {}], "FeintRecovery")
           = Start([Spend(f, Cost["feint"]) EXCEPT !.hits = {}], "FeintRecovery")
  BY <1>1, SameFeint
<1>4. Remember(f, edges) = BufferPress(f, edges)
  BY SameMemory
<1>5. f.charging /\ ~CanFeint(f, input) =>
        (IF {"attack", "heavy"} \subseteq input THEN f ELSE EndCharge(f, input))
        = ReleaseCharge(f, input)
  <2> SUFFICES ASSUME f.charging, ~CanFeint(f, input)
               PROVE  (IF {"attack", "heavy"} \subseteq input THEN f ELSE EndCharge(f, input))
                      = ReleaseCharge(f, input)
    OBVIOUS
  <2>1. ~feints
    BY <1>3
  <2>2. {"attack", "heavy"} \cap input = {"heavy"} => ~(f.elapsed < Duration["HeavyAttackWindup"])
    BY <2>1 DEF EarlyHeavyRelease
  <2>3. f.elapsed \in Nat /\ Duration["HeavyAttackWindup"] \in Nat
    BY <1>1, FullWindup DEF Typed
  <2>4. {"attack", "heavy"} \cap input = {"heavy"} => f.elapsed >= Duration["HeavyAttackWindup"]
    BY <2>2, <2>3
  <2> QED
    BY <2>4, SameRelease
<1>6. /\ CanSpend(f, Cost["jumpAttack"]) =>
           Swing(Pay(f, Cost["jumpAttack"]), "JumpAttackWindup")
           = BeginSwing(Spend(f, Cost["jumpAttack"]), "JumpAttackWindup")
      /\ Swing(f, "HeavyAttackWindup") = BeginSwing(f, "HeavyAttackWindup")
  BY <1>1, <1>2, SamePaid, SameSwing
<1>7. /\ f.action = "Idle" => ChooseAction(f, input, edges) = ActFromIdle(f, input, edges)
      /\ f.action = "Block" => ChooseAction(f, input, edges) = ActFromBlock(f, input, edges)
  BY SameFromIdle, SameFromBlock
<1>8. Affords(f, Cost["jumpAttack"]) = CanSpend(f, Cost["jumpAttack"])
  BY SamePurse
<1>9. Request(f, input, edges) =
        IF /\ f.action = "AttackRecovery"
           /\ edges \cap {"attack", "block", "dodge", "kick", "jump"} # {}
        THEN Remember(f, edges)
        ELSE IF feints
        THEN Perform([Pay(f, Cost["feint"]) EXCEPT !.hits = {}], "FeintRecovery")
        ELSE IF f.charging
        THEN IF {"attack", "heavy"} \subseteq input THEN f ELSE EndCharge(f, input)
        ELSE IF f.action = "Jump" /\ "attack" \in edges /\ Affords(f, Cost["jumpAttack"])
        THEN Swing(Pay(f, Cost["jumpAttack"]), "JumpAttackWindup")
        ELSE IF "heavy" \in edges /\ f.action \in {"AttackWindup", "RunningAttackWindup"}
                /\ f.elapsed < Duration[f.action]
        THEN Swing(f, "HeavyAttackWindup")
        ELSE IF f.action \in {"Idle", "Block"} THEN ChooseAction(f, input, edges)
        ELSE f
  BY DEF Request
<1> HIDE DEF feints
<1> QED
  BY <1>3, <1>4, <1>5, <1>6, <1>7, <1>8, <1>9 DEF BeginRequestedAction

\* What an action turns into.
LEMMA SameEnd ==
  ASSUME NEW f, Good(f)
  PROVE  Finish(f) = Complete(f)
<1>1. Typed(f)
  BY DEF Good
<1>2. "AttackRecovery" \notin DOMAIN Follow
  BY DEF Follow
<1> QED
  BY <1>1, <1>2, SameRecovery, SameStart DEF Finish, Complete

\* Time passes for what a fighter does.
LEMMA SameGrowth ==
  ASSUME NEW f, Good(f), NEW input
  PROVE  Grow(f, input) = AdvanceAction(f, input)
<1> DEFINE older == [f EXCEPT !.elapsed = @ + 1]
           full  == Duration["HeavyAttackWindup"]
<1>1. Typed(f) /\ f.elapsed \in Nat /\ f.duration \in Nat /\ full \in Nat
  BY FullWindup DEF Good, Typed
<1>2. Typed(older) /\ older.elapsed = f.elapsed + 1 /\ older.duration = f.duration
  BY <1>1 DEF Typed
<1>3. CASE f.action \in {"Idle", "Dead"}
  BY <1>3 DEF Grow, AdvanceAction
<1>4. CASE f.charging /\ f.action = "HeavyAttackWindup"
  <2>1. Grow(f, input) = [older EXCEPT !.elapsed = IF @ > full THEN full ELSE @]
    BY <1>4 DEF Grow
  <2>2. AdvanceAction(f, input) = IF f.elapsed < full THEN older ELSE f
    BY <1>4 DEF AdvanceAction
  <2>3. f.elapsed <= full
    BY <1>4 DEF Good, HoldWaits
  <2>4. [older EXCEPT !.elapsed = older.elapsed] = older /\ [older EXCEPT !.elapsed = f.elapsed] = f
    BY <1>1, <1>2 DEF Typed
  <2>5. CASE f.elapsed < full
    <3>1. ~(older.elapsed > full)
      BY <1>1, <1>2, <2>5
    <3> HIDE DEF older
    <3> QED
      BY <2>1, <2>2, <2>4, <2>5, <3>1
  <2>6. CASE ~(f.elapsed < full)
    <3>1. older.elapsed > full /\ full = f.elapsed
      BY <1>1, <1>2, <2>3, <2>6
    <3> HIDE DEF older
    <3> QED
      BY <2>1, <2>2, <2>4, <2>6, <3>1
  <2> QED
    BY <2>5, <2>6
<1>5. CASE f.action = "Block"
  <2>1. Grow(f, input) =
          IF "block" \notin input THEN StandBy(f)
          ELSE [older EXCEPT !.elapsed = BlockAge(@)]
    BY <1>5 DEF Grow, BlockAge
  <2>2. AdvanceAction(f, input) =
          IF "block" \in input THEN [f EXCEPT !.elapsed = BlockAge(f.elapsed + 1)] ELSE Rest(f)
    BY <1>5 DEF AdvanceAction
  <2>3. [older EXCEPT !.elapsed = BlockAge(older.elapsed)]
        = [f EXCEPT !.elapsed = BlockAge(f.elapsed + 1)]
    BY <1>1, <1>2 DEF Typed
  <2>4. StandBy(f) = Rest(f)
    BY <1>1, SameStart
  <2> HIDE DEF older
  <2> QED
    BY <2>1, <2>2, <2>3, <2>4
<1>6. CASE f.action \notin {"Idle", "Dead", "Block"} /\ ~f.charging
  <2>1. Grow(f, input) = IF older.elapsed < older.duration THEN older ELSE Finish(older)
    BY <1>6 DEF Grow
  <2>2. AdvanceAction(f, input) = IF older.elapsed < f.duration THEN older ELSE Complete(older)
    BY <1>6 DEF AdvanceAction
  <2>3. Good(older)
    BY <1>6, OlderGood
  <2>4. Finish(older) = Complete(older)
    BY <2>3, SameEnd
  <2> HIDE DEF older
  <2> QED
    BY <1>2, <2>1, <2>2, <2>4
<1>7. f.charging => f.action \in {"HeavyAttackWindup", "Dead"}
  BY DEF Good, ChargeIsWindup
<1> QED
  BY <1>3, <1>4, <1>5, <1>6, <1>7

\* Stamina and guard.
LEMMA SameBreath ==
  ASSUME NEW f, Good(f), NEW input
  PROVE  Breathe(f, input) = UpdateStamina(f, input) /\ Recover(f) = RegenerateGuard(f)
<1>1. [f EXCEPT !.stamina = f.stamina] = f /\ [f EXCEPT !.guard = f.guard] = f
  BY DEF Good, Typed
<1>2. Breathe(f, input) = UpdateStamina(f, input)
  <2>1. Sprinting(input) = Running(input) /\ Pay(f, 1) = Spend(f, 1)
    BY DEF Sprinting, Running, Pay, Spend
  <2>2. CASE f.staminaWait = 0 /\ f.stamina < StaminaMax
    BY <2>1, <2>2 DEF Breathe, UpdateStamina
  <2>3. CASE ~(f.staminaWait = 0 /\ f.stamina < StaminaMax)
    BY <1>1, <2>1, <2>3 DEF Breathe, UpdateStamina
  <2> QED
    BY <2>2, <2>3
<1>3. Recover(f) = RegenerateGuard(f)
  <2>1. CASE f.action # "Block" /\ f.guardWait = 0 /\ f.guard < GuardMax
    BY <2>1 DEF Recover, RegenerateGuard
  <2>2. CASE ~(f.action # "Block" /\ f.guardWait = 0 /\ f.guard < GuardMax)
    BY <1>1, <2>2 DEF Recover, RegenerateGuard
  <2> QED
    BY <2>1, <2>2
<1> QED
  BY <1>2, <1>3

\* One tick of a living fighter.
LEMMA SameTick ==
  ASSUME NEW f, Good(f), NEW input, ~EarlyHeavyRelease(f, input)
  PROVE  PracticeTick(f, input) = LivingTick(f, input)
<1> DEFINE edges == (input \cap Pressed) \ f.down
           begun == BeginRequestedAction(f, input, edges)
           moved == UpdateStamina(AdvanceAction(begun, input), input)
           held  == [moved EXCEPT !.down = input \cap Pressed]
<1>1. {b \in input \cap Pressed : b \notin f.down} = edges
  OBVIOUS
<1> HIDE DEF edges
<1>2. Request(f, input, edges) = begun /\ Good(begun)
  BY SameRequest, RequestGood
<1> HIDE DEF begun
<1>3. Breathe(Grow(begun, input), input) = moved /\ Good(moved)
  BY <1>2, SameGrowth, SameBreath, AdvanceGood, StaminaGood
<1> HIDE DEF moved
<1>4. Good(held)
  <2>1. Typed(held)
    BY <1>3 DEF Good, Typed
  <2>2. Agrees(moved, held)
    BY <1>3 DEF Good, Typed, Agrees
  <2> HIDE DEF held
  <2> QED
    BY <1>3, <2>1, <2>2, AgreesIsGood
<1>5. Recover(held) = RegenerateGuard(held)
  BY <1>4, SameBreath
<1>6. PracticeTick(f, input) = Recover(held)
  BY <1>1, <1>2, <1>3 DEF PracticeTick
<1>7. LivingTick(f, input) = RegenerateGuard(held)
  BY DEF LivingTick, edges, begun, moved
<1> QED
  BY <1>5, <1>6, <1>7

\* The clocks, and the return of the dead.
LEMMA SameClock ==
  ASSUME NEW f, Good(f)
  PROVE  Wait(f) = Elapse(f) /\ ComeBack(f) = Respawn(f)
<1>1. /\ f.guardWait \in Nat /\ f.staminaWait \in Nat /\ f.dashWait \in Nat
      /\ f.respawnWait \in Nat
  BY DEF Good, Typed
<1>2. \A n \in Nat : (IF n > 0 THEN n - 1 ELSE 0) = OneLess(n)
  BY DEF OneLess
<1>3. Wait(f) = Elapse(f)
  BY <1>1, <1>2 DEF Wait, Elapse
<1> DEFINE g == [f EXCEPT !.hp = HpMax, !.guard = GuardMax, !.stamina = StaminaMax,
                          !.respawnWait = 0, !.hits = {}, !.rolled = {}, !.staminaWait = 0,
                          !.down = {}, !.buffered = {}]
<1>4. g.charging \in BOOLEAN
  BY DEF Good, Typed
<1>5. StandBy(g) = Rest(g)
  <2> HIDE DEF g
  <2>1. (g.charging /\ "Idle" = "HeavyAttackWindup")
        = (IF "Idle" = "HeavyAttackWindup" THEN g.charging ELSE FALSE)
    BY <1>4
  <2> QED
    BY <2>1 DEF StandBy, Rest, Enter, SetAction
<1> HIDE DEF g
<1>6. ComeBack(f) = StandBy(g) /\ Respawn(f) = Rest(g)
  BY DEF ComeBack, Respawn, g
<1> QED
  BY <1>3, <1>5, <1>6

\* For all durations and costs, and every input of every reachable fighter: a player of the
\* practice is in the same action, for the same time, with the same stamina, charge and
\* memory of a press as on the server (stepWorld of the browser and step_by_into).
THEOREM PracticeActsAsTheServer == Spec => PracticeActsAlike
<1>1. Init => WorldTyped /\ AllGood(fighter)
  BY GoodInit
<1>2. Shape /\ MeetInv /\ WorldTyped /\ AllGood(fighter) /\ [Next]_vars
      => WorldTyped' /\ AllGood(fighter)'
  BY FightersNext, WorldNext
<1>3. Shape /\ AllGood(fighter)
      => [/\ BeginStep => fighter' = [i \in Fighter |-> Wait(fighter[i])]
          /\ ActDead /\ fighter[turn].respawnWait = 0 =>
               fighter' = [fighter EXCEPT ![turn] = ComeBack(@)]
          /\ \A input \in Given :
               ActLiving(input) /\ ~EarlyHeavyRelease(fighter[turn], input) =>
                 fighter' = [fighter EXCEPT ![turn] = PracticeTick(@, input)]]_vars
  <2> SUFFICES ASSUME Shape, AllGood(fighter)
               PROVE  /\ BeginStep => fighter' = [i \in Fighter |-> Wait(fighter[i])]
                      /\ ActDead /\ fighter[turn].respawnWait = 0 =>
                           fighter' = [fighter EXCEPT ![turn] = ComeBack(@)]
                      /\ \A input \in Given :
                           ActLiving(input) /\ ~EarlyHeavyRelease(fighter[turn], input) =>
                             fighter' = [fighter EXCEPT ![turn] = PracticeTick(@, input)]
    OBVIOUS
  <2>1. turn \in Fighter /\ \A i \in Fighter : Good(fighter[i])
    BY DEF Shape, AllGood
  <2>2. BeginStep => fighter' = [i \in Fighter |-> Wait(fighter[i])]
    <3>1. [i \in Fighter |-> Wait(fighter[i])] = [i \in Fighter |-> Elapse(fighter[i])]
      BY <2>1, SameClock
    <3> QED
      BY <3>1 DEF BeginStep
  <2>3. ActDead /\ fighter[turn].respawnWait = 0 =>
          fighter' = [fighter EXCEPT ![turn] = ComeBack(@)]
    BY <2>1, SameClock DEF ActDead
  <2>4. ASSUME NEW input, ActLiving(input), ~EarlyHeavyRelease(fighter[turn], input)
        PROVE  fighter' = [fighter EXCEPT ![turn] = PracticeTick(@, input)]
    BY <2>1, <2>4, SameTick DEF ActLiving
  <2> QED
    BY <2>2, <2>3, <2>4
<1> QED
  BY <1>1, <1>2, <1>3, ShapeInvariant, MeetInit, MeetNext, PTL DEF Spec, PracticeActsAlike
-----------------------------------------------------------------------------
(***************************************************************************)
(* The practice does, with a roll or a blow, what the server does.         *)
(***************************************************************************)

\* A roll that changes anyone.
LEMMA SameRoll ==
  ASSUME Shape, AllGood(fighter), RollInto
  PROVE  MayTouch /\ fighter' = Touched
<1> DEFINE spent == [fighter EXCEPT ![turn].rolled = @ \cup {other}]
           h     == SetAction(fighter[other], "Knockdown", RollKnockdown)
<1>1. turn \in Fighter /\ other \in Fighter /\ turn # other
  BY DEF RollInto, CanTouch, Shape
<1>2. MayTouch
  BY <1>1 DEF RollInto, CanTouch, Rolling, MayTouch
<1>3. spent[other] = fighter[other] /\ Typed(fighter[other])
  BY <1>1 DEF AllGood, Good
<1>4. Enter(spent[other], "Knockdown", RollKnockdown) = h
  BY <1>3, SameAction
<1>5. CASE fighter[other].action = "Knockdown"
  BY <1>2, <1>5 DEF RollInto, RollOverGrounded, Touched
<1>6. CASE fighter[other].action # "Knockdown"
  <2>1. fighter' = [spent EXCEPT ![other] = h]
    BY <1>1, <1>6 DEF RollInto, KnockDownByRoll, AllGood
  <2>2. Touched = [spent EXCEPT ![other] = Enter(spent[other], "Knockdown", RollKnockdown)]
    BY <1>6 DEF Touched
  <2> HIDE DEF spent, h
  <2> QED
    BY <1>2, <1>4, <2>1, <2>2
<1> QED
  BY <1>5, <1>6

\* What every blow has in common.
LEMMA BlowFacts ==
  ASSUME Shape, MeetInv, AllGood(fighter), Meet
  PROVE  /\ MayStrike /\ turn \in Fighter /\ other \in Fighter /\ turn # other
         /\ AllGood(Marked) /\ Marked[other] = fighter[other]
         /\ Typed(Marked[other]) /\ Typed(Marked[turn])
         /\ Profile \in Active /\ GuardDamage[Profile] \in Nat
         /\ fighter[other].elapsed \in Nat /\ fighter[other].guard \in Nat
         /\ fighter[other].hp \in Nat /\ Damage[Profile] \in Nat
         /\ SafeInRoll = Invulnerable(fighter[other])
<1>1. Striking /\ CanMeet /\ turn \in Fighter /\ other \in Fighter /\ turn # other
  BY DEF Meet, CanMeet, Shape
<1>2. MayStrike /\ Profile \in Active
  BY <1>1 DEF Striking, CanMeet, MayStrike
<1>3. AllGood(Marked) /\ Marked[other] = fighter[other]
  BY <1>1, MarkedGood, MarkedFacts
<1>4. Typed(Marked[other]) /\ Typed(Marked[turn])
  BY <1>1, <1>3 DEF AllGood, Good
<1>5. fighter[other].elapsed \in Nat /\ fighter[other].guard \in Nat /\ fighter[other].hp \in Nat
  BY <1>3, <1>4, Parameters DEF Typed
<1>6. GuardDamage[Profile] \in Nat /\ Damage[Profile] \in Nat
  BY <1>2, CombatAssumption
<1>7. SafeInRoll = Invulnerable(fighter[other])
  BY DEF SafeInRoll, Rolls, Invulnerable
<1> QED
  BY <1>1, <1>2, <1>3, <1>4, <1>5, <1>6, <1>7

\* A blow without effect.
LEMMA SameMark ==
  ASSUME NEW faced, Safe
  PROVE  Struck(faced) = Marked
  BY DEF Struck, Marked

\* A blow on a guard that faces it.
LEMMA SameGuarded ==
  ASSUME Blocked
  PROVE  Struck(TRUE) = Guarded(Marked)
<1>1. ~Safe
  BY DEF Safe, Rolls, Blocked
<1> QED
  BY <1>1 DEF Struck, Marked, Blocked

\* A parry.
LEMMA SameParry ==
  ASSUME Shape, MeetInv, AllGood(fighter), Parry
  PROVE  fighter' = Struck(TRUE)
<1> DEFINE h == [Marked EXCEPT ![other].guardWait = GuardDelay]
           g == SetAction(Marked[turn], "Stunned", ParryStun)
<1>1. /\ turn \in Fighter /\ other \in Fighter /\ turn # other /\ AllGood(Marked)
      /\ Marked[other] = fighter[other] /\ Typed(Marked[turn])
  BY BlowFacts DEF Parry, Blocked
<1>2. h[turn] = Marked[turn]
  BY <1>1 DEF AllGood
<1>3. fighter' = [h EXCEPT ![turn] = g]
  BY <1>1, <1>2 DEF Parry
<1>4. Enter(Marked[turn], "Stunned", ParryStun) = g
  BY <1>1, SameAction
<1>5. Guarded(Marked) = [h EXCEPT ![turn] = Enter(h[turn], "Stunned", ParryStun)]
  BY <1>1 DEF Guarded, Parry
<1>6. Struck(TRUE) = Guarded(Marked)
  BY SameGuarded DEF Parry
<1> HIDE DEF g, h
<1> QED
  BY <1>2, <1>3, <1>4, <1>5, <1>6

\* A block that holds, or breaks.
LEMMA SameBlock ==
  ASSUME Shape, MeetInv, AllGood(fighter), Blocked, fighter[other].elapsed > ParryWindow
  PROVE  /\ BlockHit => fighter' = Struck(TRUE)
         /\ GuardBreak /\ GuardBreakStun[Profile] = BreakStun => fighter' = Struck(TRUE)
<1> DEFINE f == Marked[other]
<1>1. /\ turn \in Fighter /\ other \in Fighter /\ turn # other /\ AllGood(Marked)
      /\ Marked[other] = fighter[other] /\ Typed(Marked[other])
      /\ GuardDamage[Profile] \in Nat /\ fighter[other].guard \in Nat
      /\ fighter[other].elapsed \in Nat /\ ParryWindow \in Nat
  BY BlowFacts, Parameters DEF Blocked
<1>2. ~(f.elapsed <= ParryWindow)
  BY <1>1
<1>3. Struck(TRUE) = Guarded(Marked)
  BY SameGuarded
<1>4. (IF f.guard > GuardDamage[Profile] THEN f.guard - GuardDamage[Profile] ELSE 0) = GuardLeft
  BY <1>1 DEF GuardLeft
<1>5. ASSUME BlockHit PROVE fighter' = Struck(TRUE)
  <2>1. GuardLeft > 0
    BY <1>5 DEF BlockHit
  <2>2. Guarded(Marked) =
          [Marked EXCEPT ![other] = [f EXCEPT !.guardWait = GuardDelay, !.guard = GuardLeft]]
    BY <1>2, <1>4, <2>1 DEF Guarded
  <2>3. [f EXCEPT !.guardWait = GuardDelay, !.guard = GuardLeft]
        = [f EXCEPT !.guard = GuardLeft, !.guardWait = GuardDelay]
    BY <1>1 DEF Typed
  <2>4. fighter' =
          [Marked EXCEPT ![other] = [f EXCEPT !.guard = GuardLeft, !.guardWait = GuardDelay]]
    BY <1>1, <1>5 DEF BlockHit, AllGood
  <2> HIDE DEF f
  <2> QED
    BY <1>3, <2>2, <2>3, <2>4
<1>6. ASSUME GuardBreak, GuardBreakStun[Profile] = BreakStun PROVE fighter' = Struck(TRUE)
  <2> DEFINE g == [f EXCEPT !.guard = 0, !.guardWait = GuardBreakWait]
             h == [f EXCEPT !.guardWait = GuardBreakWait, !.guard = 0]
  <2>1. GuardLeft = 0 /\ ~(GuardLeft > 0)
    BY <1>1, <1>6 DEF GuardBreak, GuardLeft
  <2>2. (IF BreakStun > GuardDelay THEN BreakStun ELSE GuardDelay) = GuardBreakWait
    BY <1>6 DEF GuardBreakWait
  <2>3. Guarded(Marked) = [Marked EXCEPT ![other] = Enter(h, "Stunned", BreakStun)]
    BY <1>2, <1>4, <2>1, <2>2 DEF Guarded
  <2>4. g = h
    BY <1>1 DEF Typed
  <2>5. GuardBreakWait \in Nat
    BY <1>1, BlowFacts, CombatAssumption DEF GuardBreakWait, Blocked
  <2>6. Typed(h)
    <3>1. 0 \in 0 .. GuardMax
      BY Parameters
    <3>2. h = [x \in DOMAIN h |-> h[x]] /\ DOMAIN h = DOMAIN f
      OBVIOUS
    <3>3. h.guard = 0 /\ h.guardWait = GuardBreakWait
      BY <1>1 DEF Typed
    <3>4. \A x \in DOMAIN f : x \notin {"guard", "guardWait"} => h[x] = f[x]
      OBVIOUS
    <3> HIDE DEF f, h
    <3> QED
      BY <1>1, <2>5, <3>1, <3>2, <3>3, <3>4 DEF Typed, f
  <2>7. Enter(h, "Stunned", BreakStun) = SetAction(g, "Stunned", BreakStun)
    BY <2>4, <2>6, SameAction
  <2>8. fighter' = [Marked EXCEPT ![other] = SetAction(g, "Stunned", BreakStun)]
    BY <1>1, <1>6, <2>1 DEF GuardBreak, AllGood
  <2> HIDE DEF g, h
  <2> QED
    BY <1>3, <2>3, <2>7, <2>8
<1> QED
  BY <1>5, <1>6

\* A blow that no guard takes.
LEMMA SameBare ==
  ASSUME Shape, MeetInv, AllGood(fighter), Land
  PROVE  Struck(FALSE) = IF Profile = "KickActive"
                         THEN [Marked EXCEPT ![other] =
                                 SetAction(Marked[other], "Knockdown", KickKnockdown)]
                         ELSE [Marked EXCEPT ![other] = Wounded(Marked[other], Damage[Profile])]
<1>1. Typed(Marked[other])
  BY BlowFacts DEF Land
<1>2. ~Safe
  BY BlowFacts DEF Land, Safe, SafeInRoll, Grounded
<1>3. Enter(Marked[other], "Knockdown", KickKnockdown)
      = SetAction(Marked[other], "Knockdown", KickKnockdown)
  BY <1>1, SameAction
<1> QED
  BY <1>2, <1>3 DEF Struck, Marked

\* A kick, and a blow that wounds.
LEMMA SameWound ==
  ASSUME Shape, MeetInv, AllGood(fighter), KickDown \/ Hit
  PROVE  fighter' = Struck(FALSE)
<1>1. Land /\ Meet
  BY DEF KickDown, Hit, Land
<1>2. Marked[other] = fighter[other]
  BY <1>1, BlowFacts
<1>3. CASE KickDown
  BY <1>1, <1>3, SameBare DEF KickDown
<1>4. CASE Hit
  <2>1. Wounded(Marked[other], Damage[Profile]) =
          [Marked[other] EXCEPT !.hp = @ - Damage[Profile]]
    BY <1>2, <1>4 DEF Wounded, Hit
  <2>2. fighter' = [Marked EXCEPT ![other] = [Marked[other] EXCEPT !.hp = @ - Damage[Profile]]]
    BY <1>4 DEF Hit
  <2> QED
    BY <1>1, <1>4, <2>1, <2>2, SameBare DEF Hit
<1> QED
  BY <1>3, <1>4

\* A blow that kills.
LEMMA SameDeath ==
  ASSUME Shape, MeetInv, AllGood(fighter), Kill
  PROVE  Uncounted(fighter') = Uncounted(Struck(FALSE))
<1> DEFINE f == Marked[turn]
           g == [f EXCEPT !.kills = @ + 1]
           h == Die(Marked[other])
<1>1. Land /\ Meet
  BY DEF Kill, Land
<1>2. /\ turn \in Fighter /\ other \in Fighter /\ turn # other /\ AllGood(Marked)
      /\ Marked[other] = fighter[other] /\ fighter[other].hp \in Nat /\ Damage[Profile] \in Nat
      /\ Typed(f)
  BY <1>1, BlowFacts
<1>3. Wounded(Marked[other], Damage[Profile]) = h
  <2>1. ~(Marked[other].hp > Damage[Profile])
    BY <1>2 DEF Kill
  <2> QED
    BY <2>1 DEF Wounded, Die
<1>4. Struck(FALSE) = [Marked EXCEPT ![other] = h]
  BY <1>1, <1>3, SameBare DEF Kill
<1>5. fighter' = [[Marked EXCEPT ![turn] = g] EXCEPT ![other] = h]
  BY <1>2 DEF Kill, AllGood
<1>6. [g EXCEPT !.kills = 0] = [f EXCEPT !.kills = 0]
  BY <1>2 DEF Typed
<1> HIDE DEF f, g, h
<1>7. ASSUME NEW i \in Fighter
      PROVE  [fighter'[i] EXCEPT !.kills = 0] = [Struck(FALSE)[i] EXCEPT !.kills = 0]
  <2>1. CASE i = turn
    BY <1>2, <1>4, <1>5, <1>6, <2>1 DEF AllGood, f
  <2>2. CASE i # turn
    BY <1>2, <1>4, <1>5, <2>2 DEF AllGood
  <2> QED
    BY <2>1, <2>2
<1> QED
  BY <1>7 DEF Uncounted

\* For all durations and costs: whatever a roll or a blow does to anyone on the server, it
\* does to the same two fighters in the practice, but for the stun of a guard that a heavy
\* attack breaks (resolveRollCollisions, resolveAttacks, resolve_attacks).
THEOREM PracticeFightsAsTheServer == Spec => PracticeFightsAlike
<1>1. Init => WorldTyped /\ AllGood(fighter)
  BY GoodInit
<1>2. Shape /\ MeetInv /\ WorldTyped /\ AllGood(fighter) /\ [Next]_vars
      => WorldTyped' /\ AllGood(fighter)'
  BY FightersNext, WorldNext
<1>3. Shape /\ MeetInv /\ AllGood(fighter) /\ [Next]_vars
      => [/\ phase = "roll" /\ fighter' # fighter => MayTouch /\ fighter' = Touched
          /\ phase = "attack" /\ fighter' # fighter =>
               /\ MayStrike
               /\ \E faced \in BOOLEAN :
                    \/ Uncounted(fighter') = Uncounted(Struck(faced))
                    \/ GuardBreak /\ GuardBreakStun[Profile] # BreakStun]_vars
  <2> SUFFICES ASSUME Shape, MeetInv, AllGood(fighter), [Next]_vars, fighter' # fighter
               PROVE  /\ phase = "roll" => MayTouch /\ fighter' = Touched
                      /\ phase = "attack" =>
                           /\ MayStrike
                           /\ \E faced \in BOOLEAN :
                                \/ Uncounted(fighter') = Uncounted(Struck(faced))
                                \/ GuardBreak /\ GuardBreakStun[Profile] # BreakStun
    OBVIOUS
  <2>1. CASE phase = "roll"
    <3>1. RollInto
      BY <2>1, Steps
      DEF vars, worldVars, AddPlayer, RemovePlayer, BeginStep, StepOver, SkipAbsent, ActDead,
          ActLiving, SkipRoller, RollPast, SkipAttacker, Miss, KickGrounded, Evade, Parry,
          BlockHit, GuardBreak, KickDown, Hit, Kill, Blocked, Land, Meet, Striking
    <3> QED
      BY <2>1, <3>1, SameRoll
  <2>2. CASE phase = "attack"
    <3>1. KickGrounded \/ Evade \/ Parry \/ BlockHit \/ GuardBreak \/ KickDown \/ Hit \/ Kill
      BY <2>2, Steps
      DEF vars, worldVars, AddPlayer, RemovePlayer, BeginStep, StepOver, SkipAbsent, ActDead,
          ActLiving, SkipRoller, RollPast, RollInto, SkipAttacker, Miss
    <3>2. Meet
      BY <3>1 DEF KickGrounded, Evade, Parry, BlockHit, GuardBreak, KickDown, Hit, Kill,
         Blocked, Land
    <3>3. MayStrike
      BY <3>2, BlowFacts
    <3>4. CASE KickGrounded \/ Evade
      <4>1. fighter' = Marked
        BY <3>4 DEF KickGrounded, Evade, Evaded
      <4>2. Safe
        BY <3>2, <3>4, BlowFacts DEF KickGrounded, Grounded, Evade, Safe, SafeInRoll
      <4> QED
        BY <2>2, <3>3, <4>1, <4>2, SameMark
    <3>5. CASE Parry
      BY <2>2, <3>3, <3>5, SameParry
    <3>6. CASE BlockHit
      BY <2>2, <3>3, <3>6, SameBlock DEF BlockHit
    <3>7. CASE GuardBreak
      BY <2>2, <3>3, <3>7, SameBlock DEF GuardBreak
    <3>8. CASE KickDown \/ Hit
      BY <2>2, <3>3, <3>8, SameWound
    <3>9. CASE Kill
      BY <2>2, <3>3, <3>9, SameDeath
    <3> QED
      BY <3>1, <3>4, <3>5, <3>6, <3>7, <3>8, <3>9
  <2> QED
    BY <2>1, <2>2
<1> QED
  BY <1>1, <1>2, <1>3, ShapeInvariant, MeetInit, MeetNext, PTL DEF Spec, PracticeFightsAlike
-----------------------------------------------------------------------------
(***************************************************************************)
(* What becomes of a charge that ends early, and of a press that is denied.*)
(***************************************************************************)

\* The blow of a heavy attack and its windup.
HeavyBlow == {"HeavyAttackWindup", "HeavyAttackActive"}

\* The windups that a light press may start.
LightPress == {"AttackWindup", "RunningAttackWindup", "HeavyAttackWindup"}

\* Whatever a fighter starts, it is in that action, and remembers nothing.
Starts(f) ==
  /\ Rest(f).action = "Idle" /\ Rest(f).buffered = {}
  /\ RaiseGuard(f).action = "Block" /\ RaiseGuard(f).buffered = {}
  /\ \A a \in Windup : BeginSwing(f, a).action = a /\ BeginSwing(f, a).buffered = {}
  /\ Start(f, "Jump").action = "Jump" /\ Start(f, "Jump").buffered = {}
  /\ BeginDodge(f).action = "Dodge" /\ BeginDodge(f).buffered = {}
  /\ Start([f EXCEPT !.hits = {}], "FeintRecovery").action = "FeintRecovery"
  /\ Start([f EXCEPT !.dashWait = DashCooldown], "Dash").action = "Dash"

\* What each start leaves: the action it names, and no remembered press.
LEMMA StartedIs ==
  ASSUME NEW f, {"action", "buffered"} \subseteq DOMAIN f
  PROVE  Starts(f)
<1>1. ASSUME NEW h, {"action", "buffered"} \subseteq DOMAIN h, NEW a, a # "AttackRecovery", NEW d
      PROVE  SetAction(h, a, d).action = a /\ SetAction(h, a, d).buffered = {}
  BY <1>1 DEF SetAction
<1>2. ASSUME NEW h, {"action", "buffered"} \subseteq DOMAIN h, NEW a, a # "AttackRecovery"
      PROVE  Start(h, a).action = a /\ Start(h, a).buffered = {}
  BY <1>1, <1>2 DEF Start
<1>3. ASSUME NEW a \in Windup
      PROVE  BeginSwing(f, a).action = a /\ BeginSwing(f, a).buffered = {}
  <2> DEFINE h == [f EXCEPT !.hits = {}]
  <2>1. {"action", "buffered"} \subseteq DOMAIN h /\ a # "AttackRecovery"
    BY DEF Windup
  <2> HIDE DEF h
  <2>2. Start(h, a).action = a /\ Start(h, a).buffered = {}
    BY <1>2, <2>1
  <2> QED
    BY <2>2 DEF BeginSwing, h
<1>4. Rest(f).action = "Idle" /\ Rest(f).buffered = {}
  BY <1>1 DEF Rest
<1>5. RaiseGuard(f).action = "Block" /\ RaiseGuard(f).buffered = {}
  BY <1>1 DEF RaiseGuard
<1>6. Start(f, "Jump").action = "Jump" /\ Start(f, "Jump").buffered = {}
  BY <1>2
<1>7. BeginDodge(f).action = "Dodge" /\ BeginDodge(f).buffered = {}
  <2> DEFINE h == [f EXCEPT !.rolled = {}]
  <2>1. {"action", "buffered"} \subseteq DOMAIN h
    OBVIOUS
  <2> HIDE DEF h
  <2>2. Start(h, "Dodge").action = "Dodge" /\ Start(h, "Dodge").buffered = {}
    BY <1>2, <2>1
  <2> QED
    BY <2>2 DEF BeginDodge, h
<1>8. Start([f EXCEPT !.hits = {}], "FeintRecovery").action = "FeintRecovery"
  <2> DEFINE h == [f EXCEPT !.hits = {}]
  <2>1. {"action", "buffered"} \subseteq DOMAIN h
    OBVIOUS
  <2> HIDE DEF h
  <2>2. Start(h, "FeintRecovery").action = "FeintRecovery"
    BY <1>2, <2>1
  <2> QED
    BY <2>2 DEF h
<1>9. Start([f EXCEPT !.dashWait = DashCooldown], "Dash").action = "Dash"
  <2> DEFINE h == [f EXCEPT !.dashWait = DashCooldown]
  <2>1. {"action", "buffered"} \subseteq DOMAIN h
    OBVIOUS
  <2> HIDE DEF h
  <2>2. Start(h, "Dash").action = "Dash"
    BY <1>2, <2>1
  <2> QED
    BY <2>2 DEF h
<1> QED
  BY <1>3, <1>4, <1>5, <1>6, <1>7, <1>8, <1>9 DEF Starts

\* Paid or not.
LEMMA PaidStarts ==
  ASSUME NEW f, Typed(f)
  PROVE  Starts(f) /\ \A n : Starts(Spend(f, n))
<1>1. \A n : {"action", "buffered"} \subseteq DOMAIN Spend(f, n)
  BY DEF Spend, Typed
<1>2. {"action", "buffered"} \subseteq DOMAIN f
  BY DEF Typed
<1> QED
  BY <1>1, <1>2, StartedIs

\* What the end of a recovery starts is paid for and forgotten.
LEMMA FinishIs ==
  ASSUME NEW f, Typed(f)
  PROVE  /\ FinishLightRecovery(f).buffered = {}
         /\ FinishLightRecovery(f).action \notin HeavyBlow
<1>1. {"KickWindup", "JumpAttackWindup", "AttackWindup"} \subseteq Windup
  BY DEF Windup
<1>2. \A n : /\ \A a \in Windup : /\ BeginSwing(Spend(f, n), a).action = a
                                  /\ BeginSwing(Spend(f, n), a).buffered = {}
             /\ Start(Spend(f, n), "Jump").action = "Jump"
             /\ Start(Spend(f, n), "Jump").buffered = {}
             /\ BeginDodge(Spend(f, n)).action = "Dodge"
             /\ BeginDodge(Spend(f, n)).buffered = {}
  <2> TAKE n
  <2>1. Starts(Spend(f, n))
    BY PaidStarts
  <2> QED
    BY <2>1 DEF Starts
<1>3. /\ Rest(f).action = "Idle" /\ Rest(f).buffered = {}
      /\ RaiseGuard(f).action = "Block" /\ RaiseGuard(f).buffered = {}
      /\ BeginSwing(f, "AttackWindup").action = "AttackWindup"
      /\ BeginSwing(f, "AttackWindup").buffered = {}
  <2>1. Starts(f)
    BY PaidStarts
  <2> QED
    BY <1>1, <2>1 DEF Starts
<1>4. FinishLightRecovery(f).buffered = {}
  BY <1>1, <1>2, <1>3 DEF FinishLightRecovery
<1>5. FinishLightRecovery(f).action \notin HeavyBlow
  BY <1>1, <1>2, <1>3 DEF FinishLightRecovery, HeavyBlow
<1> QED
  BY <1>4, <1>5

\* Time makes no heavy blow of what is none, no light press of what is none and no light
\* recovery, and no memory.
LEMMA GrowthIs ==
  ASSUME NEW f, Good(f), NEW input
  PROVE  LET g == AdvanceAction(f, input)
         IN /\ f.action \notin HeavyBlow => g.action \notin HeavyBlow
            /\ f.action \notin LightPress \cup {"AttackRecovery"} => g.action \notin LightPress
            /\ g.buffered \subseteq f.buffered
<1> DEFINE g     == AdvanceAction(f, input)
           older == [f EXCEPT !.elapsed = @ + 1]
           age   == [f EXCEPT !.elapsed = BlockAge(@ + 1)]
<1>1. Typed(f)
  BY DEF Good
<1>2. older.action = f.action /\ older.buffered = f.buffered /\ Typed(older)
  BY <1>1 DEF Typed
<1>3. age.action = f.action /\ age.buffered = f.buffered
  BY <1>1 DEF Typed
<1> HIDE DEF older, age
<1>4. Rest(f).action = "Idle" /\ Rest(f).buffered = {}
      /\ Rest(older).action = "Idle" /\ Rest(older).buffered = {}
  BY <1>1, <1>2, PaidStarts DEF Starts
<1>5. \/ g = f \/ g = older \/ g = age \/ g = Rest(f) \/ g = Complete(older)
  BY DEF AdvanceAction, older, age
<1>6. \/ Complete(older) = Rest(older)
      \/ /\ f.action = "AttackRecovery" /\ Complete(older) = FinishLightRecovery(older)
      \/ /\ f.action \in DOMAIN Follow /\ f.action # "AttackRecovery"
         /\ Complete(older) = Start(older, Follow[f.action])
  BY <1>2 DEF Complete
<1>7. ASSUME f.action \in DOMAIN Follow
      PROVE  /\ Start(older, Follow[f.action]).action = Follow[f.action]
             /\ Start(older, Follow[f.action]).buffered \subseteq f.buffered
             /\ Follow[f.action] \notin LightPress
             /\ f.action \notin HeavyBlow => Follow[f.action] \notin HeavyBlow
  <2>1. /\ Start(older, Follow[f.action]).action = Follow[f.action]
        /\ Start(older, Follow[f.action]).buffered \subseteq f.buffered
    BY <1>2 DEF Start, SetAction, Typed
  <2>2. Follow[f.action] \notin LightPress
    BY <1>7 DEF Follow, LightPress
  <2>3. f.action \notin HeavyBlow => Follow[f.action] \notin HeavyBlow
    BY <1>7 DEF Follow, HeavyBlow
  <2> QED
    BY <2>1, <2>2, <2>3
<1>8. /\ FinishLightRecovery(older).buffered = {}
      /\ FinishLightRecovery(older).action \notin HeavyBlow
  BY <1>2, FinishIs
<1> HIDE DEF g
<1>9. g.buffered \subseteq f.buffered
  BY <1>2, <1>3, <1>4, <1>5, <1>6, <1>7, <1>8
<1>10. ASSUME f.action \notin HeavyBlow PROVE g.action \notin HeavyBlow
  <2>1. "Idle" \notin HeavyBlow
    BY DEF HeavyBlow
  <2> QED
    BY <1>2, <1>3, <1>4, <1>5, <1>6, <1>7, <1>8, <1>10, <2>1
<1>11. ASSUME f.action \notin LightPress \cup {"AttackRecovery"} PROVE g.action \notin LightPress
  <2>1. "Idle" \notin LightPress
    BY DEF LightPress
  <2> QED
    BY <1>2, <1>3, <1>4, <1>5, <1>6, <1>7, <1>11, <2>1
<1> QED
  BY <1>9, <1>10, <1>11 DEF g

\* The rest of a tick takes the buttons, and leaves the deed.
LEMMA TickIs ==
  ASSUME NEW f, Good(f), NEW input
  PROVE  LET g == LivingTick(f, input)
             begun == BeginRequestedAction(f, input, (input \cap Pressed) \ f.down)
             aged == AdvanceAction(begun, input)
         IN /\ g.action = aged.action /\ g.charging = aged.charging
            /\ g.buffered = aged.buffered /\ g.down = input \cap Pressed
<1> DEFINE begun == BeginRequestedAction(f, input, (input \cap Pressed) \ f.down)
           aged  == AdvanceAction(begun, input)
           moved == UpdateStamina(aged, input)
           held  == [moved EXCEPT !.down = input \cap Pressed]
           g     == RegenerateGuard(held)
<1>1. Good(aged)
  BY RequestGood, AdvanceGood
<1> HIDE DEF begun, aged
<1>2. /\ moved.action = aged.action /\ moved.charging = aged.charging
      /\ moved.buffered = aged.buffered
  BY <1>1 DEF UpdateStamina, Spend, Good, Typed
<1>3. Good(moved)
  BY <1>1, StaminaGood
<1> HIDE DEF moved
<1>4. /\ held.action = moved.action /\ held.charging = moved.charging
      /\ held.buffered = moved.buffered /\ held.down = input \cap Pressed
      /\ DOMAIN held = DOMAIN moved
  BY <1>3 DEF Good, Typed
<1> HIDE DEF held
<1>5. /\ g.action = held.action /\ g.charging = held.charging
      /\ g.buffered = held.buffered /\ g.down = held.down
  BY DEF RegenerateGuard
<1>6. LivingTick(f, input) = g
  BY DEF LivingTick, g, held, moved, aged, begun
<1> HIDE DEF g
<1> QED
  BY <1>2, <1>4, <1>5, <1>6 DEF aged, begun

\* A hold that ends in a tick of its fighter, before its time, is no heavy attack.
LEMMA LostHold ==
  ASSUME NEW f, Good(f), f.action # "Dead", f.charging,
         f.elapsed < Duration["HeavyAttackWindup"], NEW input, ~LivingTick(f, input).charging
  PROVE  LivingTick(f, input).action \notin HeavyBlow
<1> DEFINE edges == (input \cap Pressed) \ f.down
           begun == BeginRequestedAction(f, input, edges)
           g     == [f EXCEPT !.charging = FALSE]
<1>1. Typed(f) /\ f.action = "HeavyAttackWindup" /\ f.elapsed \in Nat
  BY DEF Good, ChargeIsWindup, Typed
<1>2. Typed(g) /\ Good(begun)
  BY <1>1, RequestGood DEF Typed
<1>3. ~(f.elapsed >= Duration["HeavyAttackWindup"])
  BY <1>1, FullWindup
<1>4. \/ begun = Start([Spend(f, Cost["feint"]) EXCEPT !.hits = {}], "FeintRecovery")
      \/ begun = ReleaseCharge(f, input)
  BY <1>1 DEF BeginRequestedAction
<1>5. ReleaseCharge(f, input) \in {f, ReleaseLight(g, input), Rest(g)}
  BY <1>3 DEF ReleaseCharge
<1> HIDE DEF g, begun
<1>6. begun # f => begun.action \notin HeavyBlow
  <2>1. {"JumpAttackWindup", "AttackWindup", "RunningAttackWindup"} \subseteq Windup
    BY DEF Windup
  <2>2. \A n : /\ \A a \in Windup : BeginSwing(Spend(g, n), a).action = a
               /\ \A a \in Windup : BeginSwing(g, a).action = a
               /\ Rest(g).action = "Idle"
    <3> TAKE n
    <3>1. Starts(g) /\ Starts(Spend(g, n))
      BY <1>2, PaidStarts
    <3> QED
      BY <3>1 DEF Starts
  <2>3. ReleaseLight(g, input).action
          \in {"JumpAttackWindup", "AttackWindup", "RunningAttackWindup", "Idle"}
    BY <2>1, <2>2 DEF ReleaseLight
  <2>4. Start([Spend(f, Cost["feint"]) EXCEPT !.hits = {}], "FeintRecovery").action
          = "FeintRecovery"
    <3>1. Starts(Spend(f, Cost["feint"]))
      BY <1>1, PaidStarts
    <3> QED
      BY <3>1 DEF Starts
  <2> QED
    BY <1>4, <1>5, <2>2, <2>3, <2>4 DEF HeavyBlow
<1>7. CASE begun = f
  <2>1. AdvanceAction(f, input).charging
    BY <1>1 DEF AdvanceAction, Typed
  <2> QED
    BY <1>7, <2>1, TickIs DEF begun, edges
<1>8. CASE begun # f
  <2>1. AdvanceAction(begun, input).action \notin HeavyBlow
    BY <1>2, <1>6, <1>8, GrowthIs
  <2> QED
    BY <2>1, TickIs DEF begun, edges
<1> QED
  BY <1>7, <1>8

\* What a fighter is after a step, if it is still charged or not.
Changed(f, g) ==
  \/ g.action \in {"Idle", "Stunned", "Knockdown", "Dead"}
  \/ g.charging = f.charging
  \/ \E input : f.action # "Dead" /\ g = LivingTick(f, input)

\* A fighter that comes back, starts a new match or falls.
LEMMA OthersChange ==
  ASSUME NEW f, Typed(f)
  PROVE  /\ Respawn(f).action = "Idle" /\ ResetFighter(f).action = "Idle"
         /\ Elapse(f).charging = f.charging /\ Die(f).action = "Dead"
         /\ \A a, d : SetAction(f, a, d).action = a
         /\ NewFighter.action = "Idle"
<1>1. ASSUME NEW h, "action" \in DOMAIN h PROVE Rest(h).action = "Idle"
  BY <1>1 DEF Rest, SetAction
<1>2. ASSUME NEW h, "action" \in DOMAIN h PROVE Respawn(h).action = "Idle"
  <2> DEFINE e == [h EXCEPT !.hp = HpMax, !.guard = GuardMax, !.stamina = StaminaMax,
                            !.respawnWait = 0, !.hits = {}, !.rolled = {}, !.staminaWait = 0,
                            !.down = {}, !.buffered = {}]
  <2>1. "action" \in DOMAIN e
    BY <1>2
  <2> HIDE DEF e
  <2> QED
    BY <1>1, <2>1 DEF Respawn, e
<1>3. /\ "action" \in DOMAIN f
      /\ "action" \in DOMAIN [f EXCEPT !.kills = 0, !.guardWait = 0, !.staminaWait = 0]
  BY DEF Typed
<1>4. Respawn(f).action = "Idle" /\ ResetFighter(f).action = "Idle"
  BY <1>2, <1>3 DEF ResetFighter
<1>5. Elapse(f).charging = f.charging
  BY DEF Elapse, Typed
<1>6. Die(f).action = "Dead" /\ \A a, d : SetAction(f, a, d).action = a
  BY DEF Die, SetAction, Typed
<1>7. NewFighter.action = "Idle"
  BY DEF NewFighter
<1> QED
  BY <1>4, <1>5, <1>6, <1>7

\* A blow stuns, fells or kills one of the two, or leaves the charge of both.
LEMMA BlowsChange ==
  ASSUME Shape, MeetInv, AllGood(fighter), NEW i \in Fighter,
         KickGrounded \/ Evade \/ Parry \/ BlockHit \/ GuardBreak \/ KickDown \/ Hit \/ Kill
  PROVE  Changed(fighter[i], fighter'[i])
<1>1. Meet
  BY DEF KickGrounded, Evade, Parry, BlockHit, GuardBreak, KickDown, Hit, Kill, Blocked, Land
<1>2. /\ turn \in Fighter /\ other \in Fighter /\ turn # other
      /\ AllGood(Marked) /\ Marked[other] = fighter[other]
  BY <1>1, BlowFacts
<1>3. Marked[i].charging = fighter[i].charging /\ Typed(Marked[i])
  <2>1. Typed(fighter[i]) /\ Typed(Marked[i])
    BY <1>2 DEF AllGood, Good
  <2>2. Marked[i] = fighter[i] \/ Marked[i] = [fighter[i] EXCEPT !.hits = @ \cup {other}]
    BY <1>2 DEF Marked, AllGood
  <2> QED
    BY <2>1, <2>2 DEF Typed
<1>4. DOMAIN Marked = Fighter
  BY <1>2 DEF AllGood
<1>5. CASE KickGrounded \/ Evade
  BY <1>3, <1>5 DEF KickGrounded, Evade, Evaded, Changed
<1>6. CASE Parry
  <2>1. \/ fighter'[i].charging = Marked[i].charging
        \/ fighter'[i] = SetAction(Marked[i], "Stunned", ParryStun)
    BY <1>2, <1>3, <1>4, <1>6 DEF Parry, Typed
  <2> QED
    BY <1>3, <2>1, OthersChange DEF Changed
<1>7. CASE BlockHit
  BY <1>2, <1>3, <1>4, <1>7 DEF BlockHit, Typed, Changed
<1>8. CASE GuardBreak
  <2> DEFINE h == [Marked[other] EXCEPT !.guard = GuardLeft, !.guardWait = GuardBreakWait]
  <2>1. "action" \in DOMAIN h
    BY <1>2 DEF AllGood, Good, Typed
  <2>2. \/ fighter'[i] = Marked[i]
        \/ fighter'[i] = SetAction(h, "Stunned", GuardBreakStun[Profile])
    BY <1>2, <1>4, <1>8 DEF GuardBreak
  <2> HIDE DEF h
  <2>3. SetAction(h, "Stunned", GuardBreakStun[Profile]).action = "Stunned"
    BY <2>1 DEF SetAction
  <2> QED
    BY <1>3, <2>2, <2>3 DEF Changed
<1>9. CASE KickDown
  <2>1. \/ fighter'[i] = Marked[i]
        \/ fighter'[i] = SetAction(Marked[i], "Knockdown", KickKnockdown)
    BY <1>2, <1>4, <1>9 DEF KickDown
  <2> QED
    BY <1>3, <2>1, OthersChange DEF Changed
<1>10. CASE Hit
  BY <1>2, <1>3, <1>4, <1>10 DEF Hit, Typed, Changed
<1>11. CASE Kill
  <2>1. \/ fighter'[i] = Marked[i]
        \/ fighter'[i] = [Marked[i] EXCEPT !.kills = @ + 1]
        \/ fighter'[i] = Die(Marked[i])
    BY <1>2, <1>4, <1>11 DEF Kill
  <2> QED
    BY <1>3, <2>1, OthersChange DEF Changed, Typed
<1> QED
  BY <1>5, <1>6, <1>7, <1>8, <1>9, <1>10, <1>11

\* Every step of the world, for one fighter.
LEMMA FightersChange ==
  ASSUME Shape, MeetInv, AllGood(fighter), [Next]_vars, NEW i \in Fighter
  PROVE  Changed(fighter[i], fighter'[i])
<1>1. Typed(fighter[i]) /\ turn \in Fighter /\ DOMAIN fighter = Fighter
  BY DEF Shape, AllGood, Good
<1>2. CASE fighter'[i] = fighter[i]
  BY <1>2 DEF Changed
<1>3. ASSUME NEW j \in Fighter, RemovePlayer(j) PROVE Changed(fighter[i], fighter'[i])
  BY <1>1, <1>3, OthersChange DEF RemovePlayer, Changed
<1>4. CASE BeginStep
  BY <1>1, <1>4, OthersChange DEF BeginStep, Changed
<1>5. CASE StepOver
  <2>1. Typed(Elapse(fighter[i]))
    BY <1>1, ElapseGood DEF Good, AllGood
  <2>2. fighter'[i] \in {fighter[i], Elapse(fighter[i]), ResetFighter(Elapse(fighter[i]))}
    BY <1>1, <1>5 DEF StepOver
  <2> QED
    BY <1>1, <2>1, <2>2, OthersChange DEF Changed
<1>6. CASE ActDead
  <2>1. fighter'[i] \in {fighter[i], Respawn(fighter[i])}
    BY <1>1, <1>6 DEF ActDead
  <2> QED
    BY <1>1, <2>1, OthersChange DEF Changed
<1>7. ASSUME NEW input, ActLiving(input) PROVE Changed(fighter[i], fighter'[i])
  <2>1. fighter'[i] = IF i = turn THEN LivingTick(fighter[i], input) ELSE fighter[i]
    BY <1>1, <1>7 DEF ActLiving
  <2>2. fighter[turn].action # "Dead"
    BY <1>7 DEF ActLiving
  <2> QED
    BY <2>1, <2>2 DEF Changed
<1>8. CASE RollInto
  <2> DEFINE h == SetAction(fighter[i], "Knockdown", RollKnockdown)
  <2>1. turn # other
    BY <1>8 DEF RollInto, CanTouch
  <2>2. \/ fighter'[i] = fighter[i]
        \/ fighter'[i] = [fighter[i] EXCEPT !.rolled = @ \cup {other}]
        \/ fighter'[i] = h
    BY <1>1, <1>8, <2>1 DEF RollInto, RollOverGrounded, KnockDownByRoll
  <2>3. h.action = "Knockdown"
    BY <1>1, OthersChange
  <2> HIDE DEF h
  <2> QED
    BY <1>1, <2>2, <2>3 DEF Changed, Typed
<1>9. \/ fighter'[i] = fighter[i] \/ \E j \in Fighter : RemovePlayer(j)
      \/ BeginStep \/ StepOver \/ ActDead \/ (\E input : ActLiving(input)) \/ RollInto
      \/ KickGrounded \/ Evade \/ Parry \/ BlockHit \/ GuardBreak \/ KickDown \/ Hit \/ Kill
  BY Steps DEF vars, worldVars, AddPlayer, SkipAbsent, SkipRoller, RollPast, SkipAttacker, Miss
<1> QED
  BY <1>2, <1>3, <1>4, <1>5, <1>6, <1>7, <1>8, <1>9, BlowsChange

\* A light press that goes with one that outranks it is no attack from rest.
LEMMA DeniedAtRest ==
  ASSUME NEW f, Good(f), f.action = "Idle", NEW input, NEW edges,
         "attack" \in edges, edges \cap Outranking # {}
  PROVE  BeginRequestedAction(f, input, edges).action \notin LightPress \cup {"AttackRecovery"}
<1>1. Typed(f) /\ ~f.charging
  BY DEF Good, ChargeIsWindup
<1>2. BeginRequestedAction(f, input, edges) = ActFromIdle(f, input, edges)
  BY <1>1 DEF BeginRequestedAction, CanFeint
<1>3. {"KickWindup", "JumpAttackWindup"} \subseteq Windup
  BY DEF Windup
<1>4. \A n : /\ RaiseGuard(f).action = "Block"
             /\ \A a \in Windup : BeginSwing(Spend(f, n), a).action = a
             /\ Start(Spend(f, n), "Jump").action = "Jump"
             /\ BeginDodge(Spend(f, n)).action = "Dodge"
             /\ Start([Spend(f, n) EXCEPT !.dashWait = DashCooldown], "Dash").action = "Dash"
  <2> TAKE n
  <2>1. Starts(f) /\ Starts(Spend(f, n))
    BY <1>1, PaidStarts
  <2> QED
    BY <2>1 DEF Starts
<1>5. Chord(edges, "block") \/ Chord(edges, "dodge") \/ Chord(edges, "kick") \/ Chord(edges, "jump")
  BY DEF Chord, Outranking
<1>6. ActFromIdle(f, input, edges).action
        \in {"Idle", "Block", "Dodge", "Dash", "KickWindup", "JumpAttackWindup", "Jump"}
  BY <1>3, <1>4, <1>5 DEF ActFromIdle
<1> QED
  BY <1>2, <1>6 DEF LightPress

\* Nor is it remembered by a light recovery.
LEMMA DeniedInRecovery ==
  ASSUME NEW f, Good(f), f.action = "AttackRecovery", NEW input, NEW edges,
         "attack" \in edges, edges \cap Outranking # {},
         "attack" \in BeginRequestedAction(f, input, edges).buffered
  PROVE  "attack" \in f.buffered
<1>1. "buffered" \in DOMAIN f
  BY DEF Good, Typed
<1>2. BeginRequestedAction(f, input, edges) = BufferPress(f, edges)
  <2>1. edges \cap {"attack", "block", "dodge", "kick", "jump"} # {}
    OBVIOUS
  <2> QED
    BY <2>1 DEF BeginRequestedAction
<1>3. "block" \in edges \/ Chord(edges, "dodge") \/ Chord(edges, "kick") \/ Chord(edges, "jump")
  BY DEF Chord, Outranking
<1>4. \/ BufferPress(f, edges) = f
      \/ \E press \in {"block", "dodge", "jumpAttack", "jump", "kick"} :
           BufferPress(f, edges) = [f EXCEPT !.buffered = {press}]
  BY <1>3 DEF BufferPress, Chord
<1> QED
  BY <1>1, <1>2, <1>4

\* For all durations and costs: a charge that ends before its time, by a release, a feint, a
\* stun, a fall, a death or a new match, is no heavy attack (release_charge).
THEOREM EarlyReleases == Spec => EarlyReleaseIsNoHeavy
<1>1. Init => WorldTyped /\ AllGood(fighter)
  BY GoodInit
<1>2. Shape /\ MeetInv /\ WorldTyped /\ AllGood(fighter) /\ [Next]_vars
      => WorldTyped' /\ AllGood(fighter)'
  BY FightersNext, WorldNext
<1>3. Shape /\ MeetInv /\ AllGood(fighter) /\ [Next]_vars
      => [\A i \in Fighter :
            /\ fighter[i].charging /\ ~fighter'[i].charging
            /\ fighter[i].elapsed < Duration["HeavyAttackWindup"]
            => fighter'[i].action \notin {"HeavyAttackWindup", "HeavyAttackActive"}]_vars
  <2> SUFFICES ASSUME Shape, MeetInv, AllGood(fighter), [Next]_vars, NEW i \in Fighter,
                      fighter[i].charging, ~fighter'[i].charging,
                      fighter[i].elapsed < Duration["HeavyAttackWindup"]
               PROVE  fighter'[i].action \notin HeavyBlow
    BY DEF HeavyBlow
  <2> DEFINE f == fighter[i]
  <2>1. Good(f) /\ Typed(f) /\ DOMAIN fighter = Fighter
    BY DEF AllGood, Good
  <2>2. Changed(f, fighter'[i])
    BY FightersChange
  <2>3. {"Idle", "Stunned", "Knockdown", "Dead"} \cap HeavyBlow = {}
    BY DEF HeavyBlow
  <2> HIDE DEF f
  <2> QED
    BY <2>1, <2>2, <2>3, LostHold DEF f, Changed
<1> QED
  BY <1>1, <1>2, <1>3, ShapeInvariant, MeetInit, MeetNext, PTL DEF Spec, EarlyReleaseIsNoHeavy

\* For all durations and costs: a light press that goes with a press that outranks it is
\* no light attack of its own, neither from rest nor as a memory of a recovery, even when
\* the other press cannot be paid (begin_requested_action).
THEOREM DeniedPressesAreLost == Spec => DeniedPressIsLost
<1>1. Init => WorldTyped /\ AllGood(fighter)
  BY GoodInit
<1>2. Shape /\ MeetInv /\ WorldTyped /\ AllGood(fighter) /\ [Next]_vars
      => WorldTyped' /\ AllGood(fighter)'
  BY FightersNext, WorldNext
<1>3. Shape /\ AllGood(fighter) /\ [Next]_vars
      => [phase = "act" /\ "attack" \in Edges(turn) /\ Edges(turn) \cap Outranking # {} =>
            /\ fighter[turn].action = "Idle" =>
                 fighter'[turn].action \notin {"AttackWindup", "RunningAttackWindup",
                                               "HeavyAttackWindup"}
            /\ fighter[turn].action = "AttackRecovery" /\ "attack" \in fighter'[turn].buffered =>
                 "attack" \in fighter[turn].buffered]_vars
  <2> SUFFICES ASSUME Shape, AllGood(fighter), [Next]_vars, phase = "act",
                      "attack" \in Edges(turn), Edges(turn) \cap Outranking # {}
               PROVE  /\ fighter[turn].action = "Idle" =>
                           fighter'[turn].action \notin LightPress
                      /\ fighter[turn].action = "AttackRecovery"
                           /\ "attack" \in fighter'[turn].buffered =>
                           "attack" \in fighter[turn].buffered
    BY DEF LightPress
  <2> DEFINE f == fighter[turn]
  <2>1. turn \in Fighter /\ Good(f) /\ Typed(f) /\ DOMAIN fighter = Fighter
    BY DEF Shape, AllGood, Good
  <2>2. UNCHANGED fighter \/ ActDead \/ \E input : ActLiving(input)
    BY Steps
    DEF vars, worldVars, AddPlayer, RemovePlayer, BeginStep, StepOver, SkipAbsent, SkipRoller,
        RollPast, RollInto, SkipAttacker, Miss, KickGrounded, Evade, Parry, BlockHit,
        GuardBreak, KickDown, Hit, Kill, Blocked, Land, Meet, Striking
  <2>3. ~UNCHANGED fighter
    BY DEF Edges
  <2>4. ~ActDead
    <3> SUFFICES ASSUME ActDead PROVE f.action = "Dead"
      <4>1. ActDead => fighter'[turn] = IF f.respawnWait = 0 THEN Respawn(f) ELSE f
        BY <2>1 DEF ActDead
      <4>2. Respawn(f).down = {}
        BY <2>1 DEF Respawn, Rest, SetAction, Typed
      <4> QED
        BY <4>1, <4>2 DEF Edges
    <3> QED
      BY DEF ActDead
  <2>5. PICK input : ActLiving(input)
    BY <2>2, <2>3, <2>4
  <2> DEFINE edges == (input \cap Pressed) \ f.down
             begun == BeginRequestedAction(f, input, edges)
             aged  == AdvanceAction(begun, input)
             g     == LivingTick(f, input)
  <2>6. fighter'[turn] = g
    BY <2>1, <2>5 DEF ActLiving
  <2>7. g.action = aged.action /\ g.buffered = aged.buffered /\ g.down = input \cap Pressed
    BY <2>1, TickIs
  <2>8. Good(begun)
    BY <2>1, RequestGood
  <2> HIDE DEF g, begun
  <2>9. "attack" \in edges /\ edges \cap Outranking # {}
    BY <2>6, <2>7 DEF Edges
  <2> HIDE DEF edges
  <2>10. ASSUME f.action = "Idle" PROVE g.action \notin LightPress
    <3>1. begun.action \notin LightPress \cup {"AttackRecovery"}
      BY <2>1, <2>9, <2>10, DeniedAtRest DEF begun
    <3> QED
      BY <2>7, <2>8, <3>1, GrowthIs
  <2>11. ASSUME f.action = "AttackRecovery", "attack" \in g.buffered PROVE "attack" \in f.buffered
    <3>1. "attack" \in begun.buffered
      BY <2>7, <2>8, <2>11, GrowthIs
    <3> QED
      BY <2>1, <2>9, <2>11, <3>1, DeniedInRecovery DEF begun
  <2> QED
    BY <2>6, <2>10, <2>11
<1> QED
  BY <1>1, <1>2, <1>3, ShapeInvariant, MeetInit, MeetNext, PTL DEF Spec, DeniedPressIsLost
-----------------------------------------------------------------------------
(* The partner of the practice.  What it presses it can pay, because it looks at its   *)
(* stamina first; and a button comes up before it is pressed again, because outside of  *)
(* rest and guard the partner presses nothing, and its pause is longer than a step.     *)

Mind == [blockFor : Nat, nextIn : Nat, armed : BOOLEAN]

\* The buttons that begin something.
Hasty == {"attack", "heavy", "dodge", "kick", "jump"}

\* A fighter that remembers and charges nothing.
Calm(f) == Good(f) /\ f.buffered = {} /\ f.charging = FALSE

\* A button that is still down is not pressed yet again.
PausesWhileDown ==
  partner.action \in {"Idle", "Block"} /\ partner.down \cap Hasty # {} => mind.nextIn > 0

\* A jump that is to become an attack can pay it.
JumpIsPaid ==
  partner.action = "Jump" /\ mind.armed
    => partner.stamina >= Cost["jumpAttack"] /\ "attack" \notin partner.down

\* The inductive invariant of the partner.
PartnerInv == Calm(partner) /\ mind \in Mind /\ PausesWhileDown /\ JumpIsPaid

\* What the partner may press, and what it knows then.
Presses(input) ==
  \/ input \in {{"attack"}, {"attack", "move"}, {"heavy"}}
  \/ input = {"dodge"} /\ Has("dodge")
  \/ input = {"kick"} /\ Has("kick")
  \/ input = {"jump"} /\ Has("jump")
  \/ input = {"move", "run", "attack"} /\ Has("running")

\* The three kinds of decision: nothing is begun, something is, or a jump is used.
Waits(d) ==
  /\ d.input \in {{}, {"move"}, {"move", "run"}, {"block"}}
  /\ partner.action \notin {"Idle", "Block"} => d.input = {}
  /\ d.mind.armed = mind.armed

Begins(d) ==
  /\ partner.action \in {"Idle", "Block"} /\ Ready /\ Presses(d.input)
  /\ d.mind.nextIn \in Nat \ (0 .. 1)
  /\ d.mind.armed = (mind.armed \/ d.input = {"jump"})

Leaps(d) ==
  /\ partner.action = "Jump" /\ mind.armed
  /\ d.input = {"attack"} /\ d.mind.armed = FALSE

Decided(d) == d.mind \in Mind /\ (Waits(d) \/ Begins(d) \/ Leaps(d))

\* What a decision does to the cooldowns (createSparringAi).
LEMMA DecisionIs ==
  ASSUME mind \in Mind, NEW input
  PROVE  /\ Only(input).input = input /\ Only(input).mind = mind
         /\ \A act \in {"guard", "dodge", "retreat", "punish", "running", "kick", "light",
                        "jump", "heavy"} :
              LET d == Then(input, act)
              IN /\ d.input = input /\ d.mind \in Mind
                 /\ d.mind.nextIn \in Nat \ (0 .. 1) /\ d.mind.armed = mind.armed
  BY SparringAssumption DEF Only, Then, Mind

\* A press that is no jump (createSparringAi).
LEMMA ThenBegins ==
  ASSUME mind \in Mind, partner.action \in {"Idle", "Block"}, Ready,
         NEW input, Presses(input), "jump" \notin input,
         NEW act \in {"guard", "dodge", "retreat", "punish", "running", "kick", "light",
                     "jump", "heavy"}
  PROVE  Decided(Then(input, act))
<1> DEFINE d == Then(input, act)
<1>1. /\ d.input = input /\ d.mind \in Mind
      /\ d.mind.nextIn \in Nat \ (0 .. 1) /\ d.mind.armed = mind.armed
  BY DecisionIs
<1> HIDE DEF d
<1>2. mind.armed \in BOOLEAN /\ input # {"jump"}
  BY DEF Mind
<1>3. d.mind.armed = (mind.armed \/ d.input = {"jump"})
  BY <1>1, <1>2
<1> QED
  BY <1>1, <1>3 DEF d, Decided, Begins

\* The answer to a threat is a guard, a roll that can be paid, or steps.
LEMMA DefendDecides ==
  ASSUME mind \in Mind, partner.action \in {"Idle", "Block"}, Ready, NEW read
  PROVE  Decided(Defend(read))
<1> DEFINE guard == [input |-> {"block"},
                     mind |-> [mind EXCEPT !.blockFor = BlockTime, !.nextIn = Pause["guard"]]]
<1>1. Decided(guard)
  BY SparringAssumption DEF Decided, Waits, Mind
<1>2. Has("dodge") => Decided(Then({"dodge"}, "dodge"))
  <2>1. Has("dodge") => Presses({"dodge"})
    BY DEF Presses
  <2> QED
    BY <2>1, ThenBegins
<1>3. Decided(Then({"move"}, "retreat"))
  BY DecisionIs DEF Decided, Waits
<1> QED
  BY <1>1, <1>2, <1>3 DEF Defend

\* So are the attacks of a partner that is free to choose (createSparringAi).
LEMMA ChooseDecides ==
  ASSUME mind \in Mind, partner.action \in {"Idle", "Block"}, Ready, NEW cycle, NEW band
  PROVE  Decided(Choose(cycle, band))
<1> DEFINE leap == [input |-> {"jump"},
                    mind |-> [mind EXCEPT !.armed = TRUE, !.nextIn = Pause["jump"]]]
<1>1. Presses({"attack", "move"}) /\ Presses({"heavy"}) /\ (Has("kick") => Presses({"kick"}))
  BY DEF Presses
<1>2. Decided(Then({"attack", "move"}, "light")) /\ Decided(Then({"heavy"}, "heavy"))
  BY <1>1, ThenBegins
<1>3. Has("kick") => Decided(Then({"kick"}, "kick"))
  BY <1>1, ThenBegins
<1>4. Has("jump") => Decided(leap)
  BY SparringAssumption DEF Decided, Begins, Presses, Mind
<1> HIDE DEF leap
<1>5. \/ Choose(cycle, band) = Then({"attack", "move"}, "light")
      \/ Has("kick") /\ Choose(cycle, band) = Then({"kick"}, "kick")
      \/ Has("jump") /\ Choose(cycle, band) = leap
      \/ Choose(cycle, band) = Then({"heavy"}, "heavy")
  BY DEF Choose, leap
<1> QED
  BY <1>2, <1>3, <1>4, <1>5

\* Whatever it sees, the partner decides one of the three (createSparringAi).
LEMMA SampleDecides ==
  ASSUME mind \in Mind, NEW seen \in Seen, NEW band \in Band, NEW read, NEW cycle
  PROVE  Decided(Sample(seen, band, read, cycle))
<1>1. \A input \in {{}, {"move"}, {"move", "run"}, {"block"}} :
        input = {} \/ partner.action \in {"Idle", "Block"} => Decided(Only(input))
  BY DecisionIs DEF Decided, Waits
<1>2. ASSUME partner.action = "Jump", mind.armed
      PROVE  Decided([input |-> {"attack"}, mind |-> [mind EXCEPT !.armed = FALSE]])
  BY <1>2 DEF Decided, Leaps, Mind
<1>3. ASSUME partner.action \in {"Idle", "Block"}
      PROVE  Decided(Approach(seen, band, read, cycle))
  <2> DEFINE stroll == {"move"} \cup IF Has("sprint") THEN {"run"} ELSE {}
             step   == IF band = 44 THEN {"move"} ELSE {}
  <2>1. \A input \in {{}, {"move"}, {"move", "run"}, {"block"}} : Decided(Only(input))
    BY <1>1, <1>3
  <2>2. stroll \in {{"move"}, {"move", "run"}} /\ step \in {{}, {"move"}}
    OBVIOUS
  <2> HIDE DEF stroll, step
  <2>3. Decided(Only({"block"})) /\ Decided(Only(stroll)) /\ Decided(Only({"move"}))
        /\ Decided(Only(step))
    BY <2>1, <2>2
  <2>4. Ready => Decided(Defend(read)) /\ Decided(Choose(cycle, band))
    BY <1>3, DefendDecides, ChooseDecides
  <2>5. ASSUME Ready
        PROVE  /\ Decided(Then({"attack"}, "punish"))
               /\ Has("running") => Decided(Then({"move", "run", "attack"}, "running"))
               /\ Has("kick") => Decided(Then({"kick"}, "kick"))
    <3>1. /\ Presses({"attack"}) /\ (Has("kick") => Presses({"kick"}))
          /\ Has("running") => Presses({"move", "run", "attack"})
      BY DEF Presses
    <3>2. Decided(Then({"attack"}, "punish"))
      BY <1>3, <2>5, <3>1, ThenBegins
    <3>3. Has("running") => Decided(Then({"move", "run", "attack"}, "running"))
      BY <1>3, <2>5, <3>1, ThenBegins
    <3>4. Has("kick") => Decided(Then({"kick"}, "kick"))
      BY <1>3, <2>5, <3>1, ThenBegins
    <3> QED
      BY <3>2, <3>3, <3>4
  <2> QED
    BY <2>3, <2>4, <2>5 DEF Approach, stroll, step
<1> QED
  BY <1>1, <1>2, <1>3 DEF Sample

\* The first tick of what has just begun, if it lasts longer (advance_action).
Just(f, a) ==
  /\ f.action = a /\ f.elapsed = 0 /\ f.duration = Duration[a] /\ f.charging = FALSE
  /\ Duration[a] > 1

\* What a calm fighter does when time passes: it goes on, or to what follows, and only a
\* jump is a jump (advance_action).
LEMMA CalmGrows ==
  ASSUME NEW f, Calm(f), NEW input
  PROVE  LET g == AdvanceAction(f, input)
         IN /\ Calm(g) /\ g.stamina = f.stamina
            /\ g.action = "Jump" => f.action = "Jump"
            /\ \A a \in Action \ {"Idle", "Dead", "Block"} : Just(f, a) => g.action = a
<1> DEFINE g     == AdvanceAction(f, input)
           older == [f EXCEPT !.elapsed = @ + 1]
           age   == [f EXCEPT !.elapsed = BlockAge(@ + 1)]
           Same(h) == /\ h.charging = FALSE /\ h.buffered = {} /\ h.stamina = f.stamina
                      /\ h.action = "Jump" => f.action = "Jump"
<1>1. Typed(f) /\ f.buffered = {} /\ f.charging = FALSE /\ Good(g)
  BY AdvanceGood DEF Calm, Good
<1>2. /\ older.action = f.action /\ older.buffered = {} /\ older.charging = FALSE
      /\ older.stamina = f.stamina /\ older.elapsed = f.elapsed + 1
      /\ older.duration = f.duration /\ Typed(older)
  BY <1>1 DEF Typed
<1>3. Same(older) /\ Same(age) /\ Same(f)
  BY <1>1 DEF Typed
<1> HIDE DEF older, age
<1>4. \A h : Typed(h) /\ h.buffered = {} /\ h.charging = FALSE /\ h.stamina = f.stamina
        => \A a \in Action \ {"Jump"} : \A d : Same(SetAction(h, a, d))
  BY DEF SetAction, Typed
<1>5. Same(Rest(f)) /\ Same(Rest(older))
  BY <1>1, <1>2, <1>4 DEF Rest, Action
<1>6. Same(Complete(older))
  <2>1. FinishLightRecovery(older) = Rest(older)
    BY <1>2 DEF FinishLightRecovery
  <2>2. \A a \in DOMAIN Follow : Follow[a] \in Action \ {"Jump"}
    BY DEF Follow, Action, Timed, Active, Recovery
  <2>3. older.action \in DOMAIN Follow => Same(Start(older, Follow[older.action]))
    BY <1>2, <1>4, <2>2 DEF Start
  <2> QED
    BY <1>5, <2>1, <2>3 DEF Complete
<1>7. g \in {f, older, age, Rest(f), Complete(older)}
  BY DEF AdvanceAction, older, age
<1>8. Same(g)
  BY <1>3, <1>5, <1>6, <1>7
<1>9. ASSUME NEW a \in Action \ {"Idle", "Dead", "Block"}, Just(f, a) PROVE g.action = a
  <2>1. f.action = a /\ older.elapsed = 1 /\ f.duration > 1
    BY <1>2, <1>9 DEF Just
  <2>2. g = older
    BY <1>1, <1>9, <2>1 DEF AdvanceAction, older
  <2> QED
    BY <1>2, <2>1, <2>2
<1> HIDE DEF g, Same
<1>10. Calm(g) /\ g.stamina = f.stamina /\ (g.action = "Jump" => f.action = "Jump")
  BY <1>1, <1>8 DEF Same, Calm
<1> QED
  BY <1>9, <1>10 DEF g

\* Stamina is a number.
LEMMA CalmStamina ==
  ASSUME NEW f, Calm(f)
  PROVE  f.stamina \in Nat
<1>1. StaminaMax \in Nat /\ f.stamina \in 0 .. StaminaMax
  BY Parameters DEF Calm, Good, Typed
<1> QED
  BY <1>1

\* A step of the practice, from what the input makes the fighter begin (stepWorld).
LEMMA CalmTick ==
  ASSUME NEW f, Calm(f), NEW input,
         Calm(BeginRequestedAction(f, input, (input \cap Pressed) \ f.down))
  PROVE  LET b == BeginRequestedAction(f, input, (input \cap Pressed) \ f.down)
             q == PracticeTick(f, input)
         IN /\ Calm(q) /\ q.down = input \cap Pressed
            /\ q.action = "Jump" => b.action = "Jump" /\ q.stamina >= b.stamina
            /\ \A a \in Action \ {"Idle", "Dead", "Block"} : Just(b, a) => q.action = a
<1> DEFINE b == BeginRequestedAction(f, input, (input \cap Pressed) \ f.down)
           aged == AdvanceAction(b, input)
           moved == UpdateStamina(aged, input)
           held  == [moved EXCEPT !.down = input \cap Pressed]
           q == LivingTick(f, input)
<1>1. Good(f) /\ PracticeTick(f, input) = q
  BY SameTick DEF Calm, EarlyHeavyRelease
<1>2. /\ q.action = aged.action /\ q.charging = aged.charging
      /\ q.buffered = aged.buffered /\ q.down = input \cap Pressed /\ Good(q)
  BY <1>1, TickIs, LivingTickGood
<1>3. q = RegenerateGuard(held)
  BY DEF LivingTick
<1> HIDE DEF q, b
<1>4. /\ Calm(aged) /\ aged.stamina = b.stamina
      /\ aged.action = "Jump" => b.action = "Jump"
      /\ \A a \in Action \ {"Idle", "Dead", "Block"} : Just(b, a) => aged.action = a
  BY CalmGrows DEF b
<1> HIDE DEF aged
<1>5. aged.action = "Jump" => q.stamina >= aged.stamina
  <2>1. aged.stamina \in Nat /\ Typed(aged) /\ Typed(moved)
    <3>1. aged.stamina \in Nat /\ Good(aged)
      BY <1>4, CalmStamina DEF Calm
    <3>2. Good(moved)
      BY <3>1, StaminaGood
    <3> QED
      BY <3>1, <3>2 DEF Good
  <2>2. aged.action = "Jump" => moved.stamina >= aged.stamina
    BY <2>1 DEF UpdateStamina, Typed
  <2> HIDE DEF moved
  <2>3. q.stamina = moved.stamina
    BY <1>3, <2>1 DEF RegenerateGuard, Typed
  <2> QED
    BY <2>2, <2>3
<1>6. Calm(q)
  BY <1>2, <1>4 DEF Calm
<1>7. /\ q.action = "Jump" => b.action = "Jump" /\ q.stamina >= b.stamina
      /\ \A a \in Action \ {"Idle", "Dead", "Block"} : Just(b, a) => q.action = a
  BY <1>2, <1>4, <1>5
<1> QED
  BY <1>1, <1>2, <1>6, <1>7 DEF b

\* A windup, a roll or a jump that begins is calm and lasts (begin_light_attack).
LEMMA BegunIs ==
  ASSUME NEW f, Calm(f), NEW n \in Nat, CanSpend(f, n)
  PROVE  /\ \A a \in Windup : /\ Calm(BeginSwing(f, a)) /\ Just(BeginSwing(f, a), a)
                              /\ Calm(BeginSwing(Spend(f, n), a))
                              /\ Just(BeginSwing(Spend(f, n), a), a)
         /\ Calm(BeginDodge(Spend(f, n))) /\ Just(BeginDodge(Spend(f, n)), "Dodge")
         /\ Calm(Start(Spend(f, n), "Jump")) /\ Just(Start(Spend(f, n), "Jump"), "Jump")
         /\ Start(Spend(f, n), "Jump").stamina = f.stamina - n
<1> DEFINE paid == Spend(f, n)
<1>1. Typed(f) /\ f.buffered = {} /\ f.charging = FALSE
  BY DEF Calm, Good
<1>2. Typed(paid) /\ paid.buffered = {} /\ paid.charging = FALSE /\ paid.stamina = f.stamina - n
  <2>1. Typed(paid)
    BY <1>1, SpendTyped
  <2> QED
    BY <1>1, <2>1 DEF Spend, Typed
<1> HIDE DEF paid
<1>3. \A a \in Windup \cup {"Dodge", "Jump"} :
        a \in Action /\ a # "AttackRecovery" /\ Duration[a] > 1
  BY FighterAssumption, SparringAssumption DEF Action, Timed, Windup
<1>4. \A h : \A a \in Windup : Typed(h) /\ h.charging = FALSE
        => /\ BeginSwing(h, a).charging = FALSE /\ BeginSwing(h, a).buffered = {}
           /\ Just(BeginSwing(h, a), a)
  BY <1>3 DEF BeginSwing, Start, SetAction, Just, Typed
<1>5. /\ BeginDodge(paid).charging = FALSE /\ BeginDodge(paid).buffered = {}
      /\ Just(BeginDodge(paid), "Dodge")
  BY <1>2, <1>3 DEF BeginDodge, Start, SetAction, Just, Typed
<1>6. /\ Start(paid, "Jump").charging = FALSE /\ Start(paid, "Jump").buffered = {}
      /\ Just(Start(paid, "Jump"), "Jump") /\ Start(paid, "Jump").stamina = paid.stamina
  BY <1>2, <1>3 DEF Start, SetAction, Just, Typed
<1>7. \A a \in Windup : Good(BeginSwing(f, a)) /\ Good(BeginSwing(paid, a))
  BY <1>1, <1>2, BeginSwingGood
<1>8. Good(BeginDodge(paid)) /\ Good(Start(paid, "Jump"))
  <2>1. "Jump" \in Timed \ Windup
    BY DEF Timed, Windup
  <2> QED
    BY <1>2, <2>1, BeginDodgeGood, StartGood
<1> QED
  BY <1>1, <1>2, <1>4, <1>5, <1>6, <1>7, <1>8 DEF paid, Calm

\* From rest, what the partner presses begins what it is meant to begin, and a jump
\* leaves the stamina of the attack that is to follow (begin_requested_action).
LEMMA PressBegins ==
  ASSUME NEW f, Calm(f), f.action = "Idle", f.stamina = partner.stamina,
         f.down \cap Hasty = {}, NEW input, Presses(input)
  PROVE  LET b == BeginRequestedAction(f, input, (input \cap Pressed) \ f.down)
         IN /\ Calm(b) /\ Just(b, Asked(input))
            /\ Asked(input) \in Action \ {"Idle", "Dead", "Block"}
            /\ Asked(input) = "Jump" => b.stamina >= Cost["jumpAttack"]
<1> DEFINE edges == (input \cap Pressed) \ f.down
           b == BeginRequestedAction(f, input, edges)
<1>1. edges = input \cap Hasty
  BY DEF Presses, Pressed, Hasty
<1> HIDE DEF edges
<1>2. f.charging = FALSE /\ f.stamina \in Nat /\ 0 \in Nat
  BY Parameters DEF Calm, Good, Typed
<1>3. b = ActFromIdle(f, input, edges)
  BY <1>2 DEF BeginRequestedAction, CanFeint
<1> HIDE DEF b
<1>4. /\ Cost["dodge"] \in Nat /\ Cost["kick"] \in Nat /\ Cost["jump"] \in Nat
      /\ Cost["jumpAttack"] \in Nat /\ Cost["running"] \in Nat
      /\ Reserve["dodge"] >= Cost["dodge"] /\ Reserve["kick"] >= Cost["kick"]
      /\ Reserve["running"] >= Cost["running"]
      /\ Reserve["jump"] >= Cost["jump"] + Cost["jumpAttack"]
      /\ Reserve \in [{"dodge", "sprint", "any", "running", "kick", "jump"} -> Nat]
  BY Parameters, SparringAssumption
<1>5. Windup \cup {"Dodge", "Jump"} \subseteq Action \ {"Idle", "Dead", "Block"}
  BY DEF Windup, Action, Timed
<1>6. ASSUME input = {"attack"} \/ input = {"attack", "move"}
      PROVE  Asked(input) = "AttackWindup" /\ b = BeginSwing(f, "AttackWindup")
  BY <1>1, <1>3, <1>6 DEF Hasty, Asked, ActFromIdle, Chord, Running
<1>7. ASSUME input = {"heavy"}
      PROVE  Asked(input) = "HeavyAttackWindup" /\ b = BeginSwing(f, "HeavyAttackWindup")
  BY <1>1, <1>3, <1>7 DEF Hasty, Asked, ActFromIdle, Chord, Running
<1>8. ASSUME input = {"dodge"}, Has("dodge")
      PROVE  /\ Asked(input) = "Dodge" /\ b = BeginDodge(Spend(f, Cost["dodge"]))
             /\ CanSpend(f, Cost["dodge"])
  <2>1. CanSpend(f, Cost["dodge"])
    BY <1>2, <1>4, <1>8 DEF Has, CanSpend
  <2> QED
    BY <1>1, <1>3, <1>8, <2>1 DEF Hasty, Asked, ActFromIdle, Chord
<1>9. ASSUME input = {"kick"}, Has("kick")
      PROVE  /\ Asked(input) = "KickWindup"
             /\ b = BeginSwing(Spend(f, Cost["kick"]), "KickWindup")
             /\ CanSpend(f, Cost["kick"])
  <2>1. CanSpend(f, Cost["kick"])
    BY <1>2, <1>4, <1>9 DEF Has, CanSpend
  <2> QED
    BY <1>1, <1>3, <1>9, <2>1 DEF Hasty, Asked, ActFromIdle, Chord
<1>10. ASSUME input = {"jump"}, Has("jump")
       PROVE  /\ Asked(input) = "Jump" /\ b = Start(Spend(f, Cost["jump"]), "Jump")
              /\ CanSpend(f, Cost["jump"]) /\ f.stamina - Cost["jump"] >= Cost["jumpAttack"]
  <2>1. CanSpend(f, Cost["jump"]) /\ f.stamina - Cost["jump"] >= Cost["jumpAttack"]
    BY <1>2, <1>4, <1>10 DEF Has, CanSpend
  <2> QED
    BY <1>1, <1>3, <1>10, <2>1 DEF Hasty, Asked, ActFromIdle, Chord
<1>11. ASSUME input = {"move", "run", "attack"}, Has("running")
       PROVE  /\ Asked(input) = "RunningAttackWindup"
              /\ b = BeginSwing(Spend(f, Cost["running"]), "RunningAttackWindup")
              /\ CanSpend(f, Cost["running"])
  <2>1. CanSpend(f, Cost["running"])
    BY <1>2, <1>4, <1>11 DEF Has, CanSpend
  <2> QED
    BY <1>1, <1>3, <1>11, <2>1 DEF Hasty, Asked, ActFromIdle, Chord, Running
<1>12. CanSpend(f, 0) /\ "AttackWindup" \in Windup /\ "HeavyAttackWindup" \in Windup
       /\ "KickWindup" \in Windup /\ "RunningAttackWindup" \in Windup
  BY <1>2 DEF CanSpend, Windup
<1> HIDE DEF b
<1>13. /\ Calm(b) /\ Just(b, Asked(input)) /\ Asked(input) \in Windup \cup {"Dodge", "Jump"}
       /\ Asked(input) = "Jump" => b.stamina >= Cost["jumpAttack"]
  <2>1. CASE input = {"attack"} \/ input = {"attack", "move"}
    BY <1>2, <1>6, <1>12, <2>1, BegunIs
  <2>2. CASE input = {"heavy"}
    BY <1>2, <1>7, <1>12, <2>2, BegunIs
  <2>3. CASE input = {"dodge"} /\ Has("dodge")
    BY <1>4, <1>8, <2>3, BegunIs
  <2>4. CASE input = {"kick"} /\ Has("kick")
    BY <1>4, <1>9, <1>12, <2>4, BegunIs
  <2>5. CASE input = {"jump"} /\ Has("jump")
    BY <1>4, <1>10, <2>5, BegunIs
  <2>6. CASE input = {"move", "run", "attack"} /\ Has("running")
    BY <1>4, <1>11, <1>12, <2>6, BegunIs
  <2> QED
    BY <2>1, <2>2, <2>3, <2>4, <2>5, <2>6 DEF Presses
<1> QED
  BY <1>5, <1>13 DEF b, edges

\* From behind a guard it is a roll, or the guard comes down (begin_requested_action).
LEMMA PressBehindGuard ==
  ASSUME NEW f, Calm(f), f.action = "Block", NEW input, Presses(input), NEW edges
  PROVE  LET b == BeginRequestedAction(f, input, edges)
         IN Calm(b) /\ b.action # "Jump"
<1> DEFINE b == BeginRequestedAction(f, input, edges)
<1>1. f.charging = FALSE /\ Good(b) /\ Cost["dodge"] \in Nat /\ Typed(f) /\ f.buffered = {}
  BY RequestGood, Parameters DEF Calm, Good
<1>2. b = ActFromBlock(f, input, edges)
  BY <1>1 DEF BeginRequestedAction, CanFeint
<1>3. \/ b \in {f, Rest(f)}
      \/ CanSpend(f, Cost["dodge"]) /\ b = BeginDodge(Spend(f, Cost["dodge"]))
  BY <1>2 DEF ActFromBlock
<1> HIDE DEF b
<1>4. Rest(f).action = "Idle" /\ Rest(f).charging = FALSE /\ Rest(f).buffered = {}
  BY <1>1 DEF Rest, SetAction, Typed
<1>5. ASSUME b \in {f, Rest(f)} PROVE Calm(b) /\ b.action # "Jump"
  BY <1>1, <1>4, <1>5 DEF Calm
<1>6. ASSUME CanSpend(f, Cost["dodge"]), b = BeginDodge(Spend(f, Cost["dodge"]))
      PROVE  Calm(b) /\ b.action # "Jump"
  BY <1>1, <1>6, BegunIs DEF Just
<1> QED
  BY <1>3, <1>5, <1>6 DEF b

\* Without a press the fighter goes on, rests, or raises its guard.
LEMMA NothingBegins ==
  ASSUME NEW f, Calm(f), NEW input \in {{}, {"move"}, {"move", "run"}, {"block"}},
         f.action \notin {"Idle", "Block"} => input = {}, NEW edges, edges \subseteq input
  PROVE  LET b == BeginRequestedAction(f, input, edges)
         IN Calm(b) /\ (b = f \/ b.action # "Jump")
<1> DEFINE b == BeginRequestedAction(f, input, edges)
<1>1. f.charging = FALSE /\ Good(b) /\ Typed(f) /\ f.buffered = {}
  BY RequestGood DEF Calm, Good
<1>2. edges \cap Hasty = {} /\ "dash" \notin edges
  BY DEF Hasty
<1>3. CASE f.action \notin {"Idle", "Block"}
  <2>1. input = {} /\ edges = {}
    BY <1>3
  <2> QED
    BY <1>1, <1>3, <2>1 DEF BeginRequestedAction, CanFeint, Calm
<1>4. CASE f.action = "Idle"
  <2>1. b = ActFromIdle(f, input, edges)
    BY <1>1, <1>4 DEF BeginRequestedAction, CanFeint
  <2>2. b \in {f, RaiseGuard(f)}
    BY <1>2, <2>1 DEF ActFromIdle, Chord, Hasty
  <2> HIDE DEF b
  <2>3. /\ RaiseGuard(f).action = "Block" /\ RaiseGuard(f).charging = FALSE
        /\ RaiseGuard(f).buffered = {}
    BY <1>1 DEF RaiseGuard, SetAction, Typed
  <2> QED
    BY <1>1, <2>2, <2>3 DEF Calm, b
<1>5. CASE f.action = "Block"
  <2>1. b = ActFromBlock(f, input, edges)
    BY <1>1, <1>5 DEF BeginRequestedAction, CanFeint
  <2>2. b \in {f, Rest(f)}
    BY <1>2, <2>1 DEF ActFromBlock, Hasty
  <2> HIDE DEF b
  <2>3. Rest(f).action = "Idle" /\ Rest(f).charging = FALSE /\ Rest(f).buffered = {}
    BY <1>1 DEF Rest, SetAction, Typed
  <2> QED
    BY <1>1, <2>2, <2>3 DEF Calm, b
<1> QED
  BY <1>3, <1>4, <1>5

\* The second press of a jump begins the attack that it was for (begin_requested_action).
LEMMA LeapBegins ==
  ASSUME NEW f, Calm(f), f.action = "Jump", f.stamina >= Cost["jumpAttack"],
         "attack" \notin f.down
  PROVE  LET b == BeginRequestedAction(f, {"attack"}, ({"attack"} \cap Pressed) \ f.down)
         IN Calm(b) /\ Just(b, "JumpAttackWindup")
<1> DEFINE edges == ({"attack"} \cap Pressed) \ f.down
<1>1. "attack" \in edges
  BY DEF Pressed
<1> HIDE DEF edges
<1>2. f.charging = FALSE /\ CanSpend(f, Cost["jumpAttack"]) /\ Cost["jumpAttack"] \in Nat
      /\ "JumpAttackWindup" \in Windup
  BY Parameters DEF Calm, CanSpend, Windup
<1>3. BeginRequestedAction(f, {"attack"}, edges)
      = BeginSwing(Spend(f, Cost["jumpAttack"]), "JumpAttackWindup")
  BY <1>1, <1>2 DEF BeginRequestedAction, CanFeint
<1> QED
  BY <1>2, <1>3, BegunIs DEF edges

\* What a step of the partner takes from a fighter before it decides (stepWorld).
LEMMA WaitIs ==
  ASSUME NEW f, Calm(f)
  PROVE  /\ Calm(Wait(f)) /\ Wait(f).action = f.action
         /\ Wait(f).stamina = f.stamina /\ Wait(f).down = f.down
<1>1. Good(Wait(f)) /\ Wait(f) = Elapse(f) /\ Typed(f)
  BY SameClock, ElapseGood DEF Calm, Good
<1>2. /\ Elapse(f).action = f.action /\ Elapse(f).stamina = f.stamina
      /\ Elapse(f).down = f.down /\ Elapse(f).buffered = f.buffered
      /\ Elapse(f).charging = f.charging
  BY <1>1 DEF Elapse, Typed
<1> QED
  BY <1>1, <1>2 DEF Calm

\* The cooldowns after a step: the pause that a press sets has not run out.
LEMMA SoonerIs ==
  ASSUME NEW m \in Mind
  PROVE  /\ Sooner(m) \in Mind /\ Sooner(m).armed = m.armed
         /\ m.nextIn > 1 => Sooner(m).nextIn > 0
<1> DEFINE guard == IF m.blockFor > 0 THEN m.blockFor - 1 ELSE 0
           next  == IF m.nextIn > 0 THEN m.nextIn - 1 ELSE 0
<1>1. m.blockFor \in Nat /\ m.nextIn \in Nat /\ m.armed \in BOOLEAN
  BY DEF Mind
<1>2. guard \in Nat /\ next \in Nat /\ (m.nextIn > 1 => next > 0)
  BY <1>1
<1>3. Sooner(m) = [m EXCEPT !.blockFor = guard, !.nextIn = next]
  BY DEF Sooner
<1> HIDE DEF guard, next
<1> QED
  BY <1>1, <1>2, <1>3 DEF Mind

\* A living partner's step, by the three kinds of decision (createSparringAi, stepWorld).
LEMMA LivingSpar ==
  ASSUME PartnerInv, partner.action # "Dead", NEW d, Decided(d),
         intent' = d.input, mind' = Sooner(d.mind),
         partner' = PracticeTick(Wait(partner), d.input)
  PROVE  /\ PartnerInv'
         /\ partner.action = "Idle" /\ intent' \cap Hasty # {} => partner'.action = Asked(intent')
         /\ partner.action = "Jump" /\ mind.armed /\ ~mind'.armed
              => partner'.action = "JumpAttackWindup"
<1> DEFINE f == Wait(partner)
           edges == (d.input \cap Pressed) \ f.down
           b == BeginRequestedAction(f, d.input, edges)
<1>1. /\ Calm(f) /\ f.action = partner.action /\ f.stamina = partner.stamina
      /\ f.down = partner.down /\ f.stamina \in Nat
  BY WaitIs, CalmStamina DEF PartnerInv
<1>2. /\ mind' \in Mind /\ mind'.armed = d.mind.armed /\ d.mind.nextIn \in Nat
      /\ d.mind.nextIn > 1 => mind'.nextIn > 0
  BY SoonerIs DEF Decided, Mind
<1>3. mind \in Mind /\ mind.armed \in BOOLEAN /\ mind.nextIn \in Nat
  BY DEF PartnerInv, Mind
<1> HIDE DEF f, b
<1>4. ASSUME Calm(b)
      PROVE  /\ Calm(partner') /\ partner'.down = d.input \cap Pressed
             /\ partner'.action = "Jump" => b.action = "Jump" /\ partner'.stamina >= b.stamina
             /\ \A a \in Action \ {"Idle", "Dead", "Block"} : Just(b, a) => partner'.action = a
  BY <1>1, <1>4, CalmTick DEF f, b
<1> HIDE DEF edges
<1>5. CASE Waits(d)
  <2>1. edges \subseteq d.input
    BY DEF edges
  <2>2. Calm(b) /\ (b = f \/ b.action # "Jump")
    <3>1. /\ d.input \in {{}, {"move"}, {"move", "run"}, {"block"}}
          /\ f.action \notin {"Idle", "Block"} => d.input = {}
      BY <1>1, <1>5 DEF Waits
    <3> QED
      BY <1>1, <2>1, <3>1, NothingBegins DEF b
  <2>3. d.input \cap Hasty = {}
    BY <1>5 DEF Waits, Hasty
  <2>4. PausesWhileDown'
    BY <1>4, <2>2, <2>3 DEF PausesWhileDown
  <2>5. JumpIsPaid'
    <3> SUFFICES ASSUME partner'.action = "Jump", mind'.armed
                 PROVE  partner'.stamina >= Cost["jumpAttack"] /\ "attack" \notin partner'.down
      BY DEF JumpIsPaid
    <3>1. b = f /\ partner'.stamina >= f.stamina /\ f.action = "Jump"
      BY <1>4, <2>2
    <3>2. mind.armed /\ partner.stamina >= Cost["jumpAttack"]
      BY <1>1, <1>2, <1>5, <3>1 DEF Waits, PartnerInv, JumpIsPaid
    <3>3. partner'.stamina \in Nat /\ Cost["jumpAttack"] \in Nat
      BY <1>4, <2>2, Parameters, CalmStamina
    <3>4. "attack" \notin partner'.down
      BY <1>4, <2>2, <2>3 DEF Hasty
    <3> QED
      BY <1>1, <3>1, <3>2, <3>3, <3>4
  <2>6. mind'.armed = mind.armed
    BY <1>2, <1>5 DEF Waits
  <2> QED
    BY <1>2, <1>4, <2>2, <2>3, <2>4, <2>5, <2>6 DEF PartnerInv
<1>6. CASE Begins(d)
  <2>1. partner.action \in {"Idle", "Block"} /\ Presses(d.input) /\ mind.nextIn = 0
        /\ mind'.nextIn > 0 /\ (mind.armed => mind'.armed)
    BY <1>2, <1>3, <1>6 DEF Begins, Ready
  <2>2. f.down \cap Hasty = {}
    BY <1>1, <2>1 DEF PartnerInv, PausesWhileDown
  <2>3. ASSUME partner.action = "Idle"
        PROVE  /\ Calm(b) /\ partner'.action = Asked(d.input)
               /\ Asked(d.input) = "Jump" => b.stamina >= Cost["jumpAttack"]
    <3>1. /\ Calm(b) /\ Just(b, Asked(d.input))
          /\ Asked(d.input) \in Action \ {"Idle", "Dead", "Block"}
          /\ Asked(d.input) = "Jump" => b.stamina >= Cost["jumpAttack"]
      BY <1>1, <2>1, <2>2, <2>3, PressBegins DEF b, edges
    <3> QED
      BY <1>4, <3>1
  <2>4. ASSUME partner.action = "Block" PROVE Calm(b) /\ b.action # "Jump"
    BY <1>1, <2>1, <2>4, PressBehindGuard DEF b
  <2>5. Calm(b)
    BY <2>1, <2>3, <2>4
  <2>6. PausesWhileDown'
    BY <2>1 DEF PausesWhileDown
  <2>7. JumpIsPaid'
    <3> SUFFICES ASSUME partner'.action = "Jump"
                 PROVE  partner'.stamina >= Cost["jumpAttack"] /\ "attack" \notin partner'.down
      BY DEF JumpIsPaid
    <3>1. b.action = "Jump" /\ partner'.stamina >= b.stamina
      BY <1>4, <2>5
    <3>2. Asked(d.input) = "Jump" /\ b.stamina >= Cost["jumpAttack"]
      BY <2>1, <2>3, <2>4, <3>1
    <3>3. /\ partner'.stamina \in Nat /\ Cost["jumpAttack"] \in Nat /\ b.stamina \in Nat
      BY <1>4, <2>5, Parameters, CalmStamina
    <3>4. "jump" \in d.input
      BY <3>2 DEF Asked
    <3>5. "attack" \notin d.input
      BY <2>1, <3>4 DEF Presses
    <3> QED
      BY <1>4, <2>5, <3>1, <3>2, <3>3, <3>5
  <2> QED
    BY <1>2, <1>4, <2>1, <2>3, <2>5, <2>6, <2>7 DEF PartnerInv
<1>7. CASE Leaps(d)
  <2>1. /\ partner.action = "Jump" /\ mind.armed /\ d.input = {"attack"} /\ ~mind'.armed
    BY <1>2, <1>7 DEF Leaps
  <2>2. f.action = "Jump" /\ f.stamina >= Cost["jumpAttack"] /\ "attack" \notin f.down
    BY <1>1, <2>1 DEF PartnerInv, JumpIsPaid
  <2>3. Calm(b) /\ Just(b, "JumpAttackWindup")
    BY <1>1, <2>1, <2>2, LeapBegins DEF b, edges
  <2>4. "JumpAttackWindup" \in Action \ {"Idle", "Dead", "Block"}
    BY DEF Action, Timed, Windup
  <2>5. partner'.action = "JumpAttackWindup"
    BY <1>4, <2>3, <2>4
  <2> QED
    BY <1>2, <1>4, <2>1, <2>3, <2>5 DEF PartnerInv, PausesWhileDown, JumpIsPaid
<1> QED
  BY <1>5, <1>6, <1>7 DEF Decided

\* A step keeps the invariant and does what the properties ask (createSparringAi).
LEMMA PartnerStep ==
  ASSUME PartnerInv, [Spar \/ BeStruck]_sparringVars
  PROVE  /\ PartnerInv'
         /\ partner.action = "Idle" /\ intent' \cap Hasty # {} /\ mind' # mind
              => partner'.action = Asked(intent')
         /\ partner.action = "Jump" /\ mind.armed /\ ~mind'.armed
              => partner'.action = "JumpAttackWindup"
<1>1. Typed(partner) /\ mind \in Mind
  BY DEF PartnerInv, Calm, Good
<1>2. CASE Spar
  <2>1. PICK seen \in Seen, band \in Band, read \in 0 .. 2, cycle \in 0 .. 3 :
          LET d == Sample(seen, band, read, cycle)
              p == Wait(partner)
          IN /\ intent' = d.input /\ mind' = Sooner(d.mind)
             /\ partner' = IF p.action # "Dead" THEN PracticeTick(p, d.input)
                           ELSE IF p.respawnWait = 0 THEN ComeBack(p) ELSE p
    BY <1>2 DEF Spar
  <2> DEFINE d == Sample(seen, band, read, cycle)
             p == Wait(partner)
  <2>2. Decided(d)
    BY <1>1, SampleDecides
  <2>3. Calm(p) /\ p.action = partner.action
    BY WaitIs DEF PartnerInv
  <2>4. /\ intent' = d.input /\ mind' = Sooner(d.mind)
        /\ partner' = IF p.action # "Dead" THEN PracticeTick(p, d.input)
                      ELSE IF p.respawnWait = 0 THEN ComeBack(p) ELSE p
    BY <2>1
  <2> HIDE DEF d
  <2>5. CASE partner.action # "Dead"
    BY <2>2, <2>3, <2>4, <2>5, LivingSpar
  <2>6. CASE partner.action = "Dead"
    <3>1. mind' \in Mind
      BY <2>2, <2>4, SoonerIs DEF Decided
    <3> HIDE DEF p
    <3>2. Good(ComeBack(p)) /\ ComeBack(p) = Respawn(p) /\ Typed(p)
      BY <2>3, SameClock, RespawnGood DEF Calm, Good
    <3>3. /\ Respawn(p).action = "Idle" /\ Respawn(p).down = {}
          /\ Respawn(p).charging = FALSE /\ Respawn(p).buffered = {}
      BY <3>2 DEF Respawn, Rest, SetAction, Typed
    <3>4. CASE partner' = ComeBack(p)
      BY <2>6, <3>1, <3>2, <3>3, <3>4 DEF PartnerInv, Calm, PausesWhileDown, JumpIsPaid
    <3>5. CASE partner' = p
      BY <2>3, <2>6, <3>1, <3>5 DEF PartnerInv, PausesWhileDown, JumpIsPaid
    <3> QED
      BY <2>3, <2>4, <2>6, <3>4, <3>5
  <2> QED
    BY <2>5, <2>6
<1>3. CASE BeStruck
  <2> DEFINE dead == [partner EXCEPT !.action = "Dead", !.elapsed = 0, !.duration = 0,
                                     !.buffered = @ \ {"attack"}, !.respawnWait = 2]
  <2>1. mind' = mind
    BY <1>3 DEF BeStruck
  <2>2. ASSUME NEW fall \in {"Stunned", "Knockdown"}, partner' = Enter(partner, fall, 2)
        PROVE  Calm(partner') /\ partner'.action = fall
    <3>1. partner' = SetAction(partner, fall, 2) /\ Good(partner')
      BY <1>1, <2>2, SameAction, FallGood
    <3>2. /\ SetAction(partner, fall, 2).action = fall
          /\ SetAction(partner, fall, 2).charging = FALSE
          /\ SetAction(partner, fall, 2).buffered = {}
      BY <1>1 DEF SetAction, Typed
    <3> QED
      BY <3>1, <3>2 DEF Calm
  <2>3. ASSUME partner' = dead PROVE Calm(partner') /\ partner'.action = "Dead"
    <3>1. /\ Typed(dead) /\ dead.action = "Dead" /\ dead.buffered = {} /\ dead.charging = FALSE
          /\ dead.elapsed = 0
      BY <1>1 DEF PartnerInv, Calm, Typed, Action
    <3> HIDE DEF dead
    <3>2. Good(dead)
      BY <3>1 DEF Good, Lone, BufferWaits, ChargeIsWindup, WindupIsFresh, BufferIsPaid,
                  HoldWaits, Windup
    <3> QED
      BY <2>3, <3>1, <3>2 DEF Calm
  <2>4. Calm(partner') /\ partner'.action \in {"Stunned", "Knockdown", "Dead"}
    BY <1>3, <2>2, <2>3 DEF BeStruck
  <2> QED
    BY <1>1, <2>1, <2>4 DEF PartnerInv, PausesWhileDown, JumpIsPaid, Mind
<1>4. CASE UNCHANGED sparringVars
  BY <1>4 DEF sparringVars, PartnerInv, PausesWhileDown, JumpIsPaid
<1> QED
  BY <1>2, <1>3, <1>4

\* The invariant holds at first.
LEMMA PartnerStarts ==
  ASSUME SparringInit
  PROVE  PartnerInv
<1>1. Good(NewFighter) /\ NewFighter.buffered = {} /\ NewFighter.charging = FALSE
      /\ NewFighter.action = "Idle" /\ NewFighter.down = {}
  BY NewFighterGood DEF NewFighter
<1>2. Wary \in Mind
  BY DEF Wary, Mind
<1> QED
  BY <1>1, <1>2 DEF SparringInit, PartnerInv, Calm, PausesWhileDown, JumpIsPaid

\* What the partner of the practice starts it can carry out, whatever the fighters'
\* durations and costs, and however the player moves (createSparringAi, stepWorld).
THEOREM ThePartnerActs == SparringSpec => PartnerActs
<1>1. ASSUME PartnerInv, [Spar \/ BeStruck]_sparringVars
      PROVE  /\ PartnerInv'
             /\ partner.action = "Idle" /\ Decides
                /\ intent' \cap {"attack", "heavy", "dodge", "kick", "jump"} # {}
                  => partner'.action = Asked(intent')
             /\ partner.action = "Jump" /\ mind.armed /\ ~mind'.armed
                  => partner'.action = "JumpAttackWindup"
  BY <1>1, PartnerStep DEF Decides, Hasty
<1> QED
  BY <1>1, PartnerStarts, PTL
  DEF SparringSpec, PartnerActs, PartnerPressesAct, PartnerJumpAttacks
=============================================================================

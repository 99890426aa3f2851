----------------------------- MODULE JumpFlights -----------------------------
(***************************************************************************)
(* The flights of the inputs that are buffered through a recovery, and     *)
(* those of the jump attack and of what its defender does about it.        *)
(***************************************************************************)
EXTENDS StaminaFlights

JumpDeed(what) == Deed(what, "jump", "A")
Jumped == Done("jump", "A")
JumpStrike == <<JumpDeed("commit"), JumpDeed("recovery"), Done("idle", "A")>>

\* A light hit of A, which B alone pays for, and no parry.
VitalsAfter(hp) ==
  /\ Shows("A", "A", 100, 100) /\ HpIn(Story("A"), "B") = hp
  /\ Shows("B", "B", hp, 100) /\ ~ParryTold

\* A light of A into the recovery of which the script plays on; it throws if the page of
\* `witness` tells of no recovery.
commitLight(name, witness, next) ==
  \/ prepareHeavyCounterplayFlight(name, "light")
  \/ ActAfresh(name, "light", performArenaAttack("A"),
               StrikeStories("light", "A", {"hit", "parried"}))
  \/ Judge(name, "light", 1, HasTold(witness, LightRecovery), FALSE, next)

\* After its recovery A rolled, or jumped, and did nothing else before.
OnlyIdleBetween(story, from, to) ==
  \E i, j \in DOMAIN story :
     /\ i < j /\ story[i] = from /\ story[j] = to
     /\ \A k \in i + 1 .. j - 1 : story[k] = Done("idle", "A") \/ story[k][3] = "B"

OnlineUiRollBufferFlight ==
  \/ commitLight("uirollbuffer", "B", "wheel")
  \/ Act("uirollbuffer", "wheel", performArenaRecoveryBufferedRoll("A"),
         Maybe(RollStory("A")) \cup {RollStory("A") \o RollStory("A")})
  \/ Judge("uirollbuffer", "wheel", 1,
           /\ InTurn(<<LightRecovery, Done("rolled", "A")>>, Story("B"))
           /\ Heard("A", {"light", "wheelForward"}) /\ OneWheelForward
           /\ OnlyIdleBetween(Story("A"), LightRecovery, Done("roll", "A"))
           /\ VitalsAfter(66),
           FALSE, "accepted")

\* A held key must not jump twice.
OnlineUiJumpBufferFlight ==
  \/ commitLight("uijumpbuffer", "A", "space")
  \/ Act("uijumpbuffer", "space", performArenaRecoveryBufferedJump("A"),
         Maybe(JumpStory("A")) \cup {JumpStory("A") \o JumpStory("A")})
  \/ Judge("uijumpbuffer", "space", 1,
           /\ HeardTimes("A", "space") = 1
           /\ \A p \in FlightPages :
                /\ InTurn(<<LightRecovery, Jumped, Done("idle", "A")>>, Story(p))
                /\ Times(Story(p), Jumped) = 1
           /\ VitalsAfter(66),
           FALSE, "accepted")

OnlineUiJumpAttackBufferFlight ==
  \/ commitLight("uijumpattackbuffer", "A", "chord")
  \/ Act("uijumpattackbuffer", "chord", performArenaJumpAttackChord("A"),
         StrikeStories("jump", "A", {"hit", "parried"}) \cup {JumpStory("A") \o JumpStrike})
  \/ Judge("uijumpattackbuffer", "chord", 1,
           /\ HeardTimes("A", "space") = 1 /\ Times(hands["A"], "light") = 2
           /\ \A p \in FlightPages : InTurn(<<LightRecovery>> \o JumpStrike, Story(p))
           /\ OnlyIdleBetween(Story("A"), LightRecovery, JumpDeed("commit"))
           /\ VitalsAfter(24),
           FALSE, "accepted")
-----------------------------------------------------------------------------
OneChord == HeardTimes("A", "space") = 1 /\ HeardTimes("A", "light") = 1

\* The jump attack that hits, before the two that must be denied.
OnlineUiJumpAttackFlight ==
  \/ prepareHeavyCounterplayFlight("uijumpattack", "chord")
  \/ Act("uijumpattack", "chord", performArenaJumpAttackChord("A"),
         StrikeStories("jump", "A", {"hit", "parried"})
         \cup Maybe(JumpStory("A"))
         \cup {<<Jumped>> \o s : s \in StrikeStories("jump", "A", {"hit"})})
  \/ Judge("uijumpattack", "chord", 1,
           /\ OneChord /\ VitalsAfter(58)
           /\ \A p \in FlightPages : InTurn(JumpStrike, Story(p))
           /\ ~InTurn(<<Jumped, JumpDeed("commit")>>, Story("A")),
           FALSE, "drain")

\* Stamina for a jump, and not for a jump attack: run down, or waited for.
JumpOnlyStamina == StaminaTold("A") \in 14 .. 24 /\ IsIdle("A")

intoJumpOnlyStamina(stage, next) ==
  \/ /\ Look("uijumpattack", stage, JumpOnlyStamina, next)
     /\ StaminaTold("A") >= 14 => JumpOnlyStamina
  \/ /\ Act("uijumpattack", stage, performArenaRunHold("A"), Maybe(<<Done("ran", "A")>>))
     /\ StaminaTold("A") >= 14 /\ ~JumpOnlyStamina
  \/ Judge("uijumpattack", stage, 8, JumpOnlyStamina, TRUE, next)

JumpCommitTold(p) == Times(Story(p), JumpDeed("commit")) = 1

\* A jump that costs all there was, and a light in the air that must be denied.
M172AirborneDenialPhase ==
  \/ intoJumpOnlyStamina("drain", "airborne")
  \/ Act("uijumpattack", "airborne", performArenaJumpPress("A"), Maybe(<<Jumped>>))
  \/ Judge("uijumpattack", "airborne", 1,
           ToldSince("A", Jumped) /\ StaminaTold("A") < 12 /\ Heard("A", {"space"}),
           FALSE, "convert")
  \/ Act("uijumpattack", "convert", performArenaAttack("A"),
         {<< >>, JumpStrike, Denial("jump-attack") \o <<Done("idle", "A")>>,
          Denial("jump-attack") \o <<Done("idle", "A"), Done("eased", "A")>>,
          WrongDenial("jump-attack", JumpStrike)})
  \/ Judge("uijumpattack", "convert", 1,
           /\ DeniedInTurn("jump-attack") /\ HeardTimes("A", "light") >= 1
           /\ ~ToldSince("A", JumpDeed("commit")) /\ ~SpentSince("A"),
           FALSE, "landed")
  \/ Look("uijumpattack", "landed", IsIdle("A") /\ JumpCommitTold("B") /\ VitalsAfter(58),
          "drainAgain")

\* The chord that must become the jump alone.
M173JumpAttackChordDenialPhase ==
  \/ intoJumpOnlyStamina("drainAgain", "downgrade")
  \/ Act("uijumpattack", "downgrade", performArenaJumpAttackChord("A"),
         {<< >>, JumpStrike, JumpStory("A")}
         \cup {WrongDenial("jump-attack-chord", s) :
                 s \in {JumpStrike, <<Jumped>> \o JumpStrike, JumpStory("A")}})
  \/ Judge("uijumpattack", "downgrade", 1,
           /\ DeniedInTurn("jump-attack-chord") /\ ToldSince("A", Jumped) /\ OneChord
           /\ ~ToldSince("A", JumpDeed("commit")),
           FALSE, "replicated")
  \/ Look("uijumpattack", "replicated",
          /\ IsIdle("A") /\ ToldSince("B", Jumped) /\ ~ToldSince("B", JumpDeed("commit"))
          /\ VitalsAfter(58),
          "accepted")
-----------------------------------------------------------------------------
(***************************************************************************)
(* What a defender does about a jump attack, one flight each, and what it  *)
(* makes of one that whiffs; it throws on any damage that it must not see. *)
(***************************************************************************)
\* A jump attack that is not broken off in its windup is active before it meets anyone.
JumpOutcomes(outcomes) ==
  {IF s = << >> \/ \E o \in BreaksOff : JumpDeed(o) \in Range(s) THEN s
   ELSE InsertAt(s, 2, JumpDeed("active")) : s \in StrikeStories("jump", "A", outcomes)}

\* A roll of B that begins and ends anywhere in a strike; only one under way evades the
\* strike, or rolls over who makes it.
RollAmid(strike) ==
  {story \in
     UNION {{SubSeq(strike, 1, i) \o <<Done("roll", "B")>> \o SubSeq(strike, i + 1, j)
               \o <<Done("rolled", "B"), Done("idle", "B")>>
               \o SubSeq(strike, j + 1, Len(strike)) : j \in i .. Len(strike)} :
            i \in 0 .. Len(strike)} :
     \A d \in {JumpDeed("evaded"), JumpDeed("rolledOver")} \cap Range(strike) :
        InTurn(<<Done("roll", "B"), d, Done("rolled", "B")>>, story)}

GuardedJump ==
  LET outcomes == {"hit", "blocked", "parried"}
  IN JumpOutcomes({"hit"}) \cup {BlockStory("B") \o s : s \in JumpOutcomes(outcomes)}

\* What the two play, and what may come of it.
JumpDefense ==
  [uijumpattackblock |->
     [played |-> scrollWheelBack("B") \o scrollWheelBack("B") \o performArenaJumpAttackChord("A"),
      stories |-> GuardedJump],
   uijumpattackparry |->
     [played |-> performArenaJumpAttackChord("A") \o scrollWheelBack("B"),
      stories |-> GuardedJump],
   uijumpattackdodge |->
     [played |-> performArenaJumpAttackChord("A") \o scrollWheelForward("B"),
      stories |-> JumpOutcomes({"hit"})
                  \cup UNION {RollAmid(s) : s \in JumpOutcomes({"hit", "evaded", "rolledOver"})}]]

\* Before the exchange of the parry: how late a pointer and a wheel arrive.
calibrateNativeParryIngress ==
  \/ Act("uijumpattackparry", "calibrate", aimArena("A") \o scrollWheelBack("B"),
         Maybe(BlockStory("B")))
  \/ Judge("uijumpattackparry", "calibrate", 1,
           HeardTimes("A", "aim") >= 1 /\ HeardTimes("B", "wheelBack") >= 1, FALSE, "exchange")

JumpActiveTold(p) ==
  InTurn(<<JumpDeed("commit"), JumpDeed("active"), JumpDeed("recovery")>>, Story(p))

\* An overlap that asks only for a roll begun before the strike.
RollBegan(story, together) ==
  InTurn(<<Done("roll", "B"), JumpDeed("active")>>, story)

\* The page has seen the roll under way when it first saw the strike active: it ended
\* later, and began before, or came with the same snapshot (`together`).
intervalContains(story, together) ==
  /\ Done("rolled", "B") \in Range(story)
  /\ \/ InTurn(<<Done("roll", "B"), JumpDeed("active"), Done("rolled", "B")>>, story)
     \/ together /\ InTurn(<<JumpDeed("active"), Done("roll", "B"), JumpDeed("recovery")>>, story)

hasReplicatedDodgeOverlap(together) ==
  \A p \in FlightPages : intervalContains(Story(p), together[p])

\* The page of A may have missed the windup that the roll broke off.
rollCounter ==
  /\ HasTold("A", JumpDeed("rolledOver"))
  /\ InTurn(<<JumpDeed("commit"), JumpDeed("rolledOver")>>, Story("B"))

CounterplayResolved(name, together) ==
  CASE name = "uijumpattackblock" ->
         /\ \A p \in FlightPages :
              JumpActiveTold(p) /\ HasTold(p, JumpDeed("blocked")) /\ HpIn(Story(p), p) = 100
         /\ HpIn(Story("A"), "B") = 100 /\ GuardIn(Story("B"), "B") = 48
    [] name = "uijumpattackparry" ->
         /\ \A p \in FlightPages : InTurn(<<JumpDeed("commit"), JumpDeed("parried")>>, Story(p))
         /\ OwnVitalsAreFull
    [] name = "uijumpattackdodge" ->
         /\ \/ rollCounter
            \/ /\ \A p \in FlightPages : JumpActiveTold(p)
               /\ \/ \A p \in FlightPages : HasTold(p, JumpDeed("evaded"))
                  \/ hasReplicatedDodgeOverlap(together)
         /\ OwnVitalsAreFull

DefenseHeard(name) ==
  CASE name = "uijumpattackblock" ->
         HeardTimes("B", "wheelBack") >= 2 /\ HasTold("B", Done("block", "B"))
    [] name = "uijumpattackparry" -> HeardTimes("B", "wheelBack") >= 1
    [] name = "uijumpattackdodge" -> HeardTimes("B", "wheelForward") >= 1

OnlineUiJumpAttackCounterplayFlight(name) ==
  \/ prepareHeavyCounterplayFlight(
       name, IF name = "uijumpattackparry" THEN "calibrate" ELSE "exchange")
  \/ ActAfresh(name, "exchange", JumpDefense[name].played, JumpDefense[name].stories)
  \/ \E together \in [FlightPages -> BOOLEAN] :
       Judge(name, "exchange", 1,
             /\ CounterplayResolved(name, together) /\ OneChord /\ DefenseHeard(name)
             /\ name # "uijumpattackparry" => ~ParryTold,
             FALSE, "accepted")

JumpRecoveryTold(p) == InTurn(<<JumpDeed("commit"), JumpDeed("recovery")>>, Story(p))

OnlineUiJumpAttackWhiffPunishFlight ==
  \/ prepareHeavyCounterplayFlight("uijumpattackpunish", "whiff")
  \/ ActAfresh("uijumpattackpunish", "whiff", performArenaJumpAttackChord("A"),
               StrikeStories("jump", "A", {"hit"}))
  \/ Judge("uijumpattackpunish", "whiff", 1,
           Pristine /\ OneChord /\ \A p \in FlightPages : JumpRecoveryTold(p), FALSE, "punish")
  \/ Act("uijumpattackpunish", "punish", performArenaAttackHold("B"),
         StrikeStories("light", "B", {"hit", "blocked"}))
  \/ Judge("uijumpattackpunish", "punish", 1,
           Shows("A", "A", 66, 100) /\ Shows("B", "A", 66, 100) /\ Shows("B", "B", 100, 100),
           FALSE, "lifecycle")
  \/ Look("uijumpattackpunish", "lifecycle",
          /\ \A p \in FlightPages :
               /\ InTurn(<<JumpDeed("recovery"), Done("idle", "A")>>, Story(p))
               /\ Shows(p, "A", 66, 100) /\ Shows(p, "B", 100, 100)
               /\ HasTold(p, Deed("hit", "light", "B")) /\ ~HasTold(p, JumpDeed("hit"))
          /\ HeardTimes("B", "light") >= 1,
          "accepted")

\* First away from the defender, who must see no threat, and then at it.
OnlineUiJumpAttackTelegraphFlight ==
  \/ prepareHeavyCounterplayFlight("uijumpattacktelegraph", "offAxis")
  \/ ActAfresh("uijumpattacktelegraph", "offAxis", performArenaJumpAttackChord("A"),
               StrikeStories("jump", "A", {})
               \cup {<<Deed("threat", "jump", "A")>> \o JumpStrike})
  \/ Judge("uijumpattacktelegraph", "offAxis", 1,
           /\ InTurn(<<JumpDeed("recovery"), Done("idle", "A")>>, Story("A"))
           /\ ~ToldSince("B", Deed("threat", "jump", "A"))
           /\ \A p, f \in FlightPages : HpIn(Story(p), f) = 100,
           FALSE, "inAxis")
  \/ Act("uijumpattacktelegraph", "inAxis", performArenaJumpAttackChord("A"),
         {<< >>} \cup {<<Deed("threat", "jump", "A")>> \o s :
                         s \in StrikeStories("jump", "A", {"hit"})})
  \/ Judge("uijumpattacktelegraph", "inAxis", 1,
           /\ VitalsAfter(58) /\ Shows("B", "A", 100, 100)
           /\ ToldSince("B", Deed("threat", "jump", "A"))
           /\ Times(hands["A"], "space") = 2 /\ Times(hands["A"], "light") = 2
           /\ \A p \in FlightPages : HasTold(p, JumpDeed("hit")),
           FALSE, "accepted")
=============================================================================

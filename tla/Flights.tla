------------------------------ MODULE Flights ------------------------------
(***************************************************************************)
(* The dispatch of the browser flights, and what an accepted flight has    *)
(* shown.                                                                  *)
(***************************************************************************)
EXTENDS JumpFlights

FeedbackFlights == DOMAIN AfterHit
CounterplayFlights == DOMAIN JumpDefense

FlightNames ==
  {"uiidentity", "uiattackintent", "uiheavy", "uiheavyblock", "uiheavyparry",
   "uiheavydodge", "uidirectionallight", "uistaminaauth", "uistaminaexhaustion",
   "uistaminafeedback", "uistaminaconfirmed", "uirollbuffer", "uijumpbuffer",
   "uijumpattackbuffer", "uijumpattack", "uijumpattackpunish", "uijumpattacktelegraph"}
  \cup FeedbackFlights \cup CounterplayFlights

FlightInit ==
  /\ deeds = << >> /\ tellings = [p \in FlightPages |-> 0]
  /\ hands = [p \in FlightPages |-> << >>]
  /\ \E name \in FlightNames : flight = StartFlight(name)

runScenario ==
  \/ \E name \in FeedbackFlights : OnlineUiFlight(name)
  \/ OnlineUiHitTellFlight \/ OnlineUiVitalsFlight \/ OnlineUiIdentityFlight
  \/ OnlineUiRecoveryReadabilityFlight \/ OnlineUiRecoveryTellFlight
  \/ OnlineUiAttackIntentFlight \/ OnlineUiHeavyStrikeFlight
  \/ OnlineUiHeavyBlockFlight \/ OnlineUiHeavyParryFlight \/ OnlineUiHeavyDodgeFlight
  \/ OnlineUiDirectionalLightFlight
  \/ OnlineUiAuthoritativeStaminaFlight \/ RunOfStaminaFlight
  \/ OnlineUiStaminaExhaustionFlight \/ RetryOfExhaustionFlight
  \/ OnlineUiStaminaFeedbackFlight
  \/ OnlineUiConfirmedStaminaActionsFlight \/ ProofsOfConfirmedStamina
  \/ OnlineUiRollBufferFlight \/ OnlineUiJumpBufferFlight \/ OnlineUiJumpAttackBufferFlight
  \/ OnlineUiJumpAttackFlight \/ M172AirborneDenialPhase \/ M173JumpAttackChordDenialPhase
  \/ calibrateNativeParryIngress
  \/ \E name \in CounterplayFlights : OnlineUiJumpAttackCounterplayFlight(name)
  \/ OnlineUiJumpAttackWhiffPunishFlight \/ OnlineUiJumpAttackTelegraphFlight

FlightNext == runScenario \/ \E p \in Telling : Tell(p)

FlightSpec == FlightInit /\ [][FlightNext]_flightVars
-----------------------------------------------------------------------------
(***************************************************************************)
(* What a flight has shown when it accepts: that deeds came in one of      *)
(* these orders, that these came so often, and that B was left with so     *)
(* much HP.                                                                *)
(***************************************************************************)
Hit(k) == Deed("hit", k, "A")
Strike(k, met) == <<Deed("commit", k, "A"), Deed(met, k, "A")>>
ShownAny(orders, times, hp) == [orders |-> orders, times |-> times, hp |-> hp]
Shown(order, times, hp) == ShownAny({order}, times, hp)

PlainClaims ==
  [ui |-> Shown(Strike("light", "hit"), {<<Hit("light"), 1>>}, 66),
   uiidentity |-> Shown(<< >>, {}, 100),
   uiattackintent |-> Shown(<<LightCommit>>, {}, 0),
   uiheavy |-> Shown(Strike("heavy", "hit"), {}, 54),
   uiheavyblock |->
     Shown(Strike("heavy", "blocked"),
           {<<HeavyDeed("blocked"), 1>>, <<HeavyDeed("parried"), 0>>}, 100),
   uiheavyparry |-> Shown(Strike("heavy", "parried"), {<<HeavyDeed("parried"), 1>>}, 100),
   uiheavydodge |-> Shown(Strike("heavy", "evaded"), {<<HeavyDeed("parried"), 0>>}, 100),
   uidirectionallight |->
     Shown(Strike("directional", "hit"), {<<Hit("directional"), 1>>, <<Hit("light"), 0>>}, 66)]

StaminaClaims ==
  [uistaminaauth |->
     Shown(RollStory("A") \o <<Done("rested", "A")>> \o KickStory
             \o <<Done("rested", "A"), Done("ran", "A"), Done("rested", "A")>>,
           {<<Done("roll", "A"), 1>>, <<KickCommit, 1>>}, 100),
   uistaminaexhaustion |->
     Shown(<<Done("ran", "A"), Done("rested", "A"), Done("roll", "A")>>,
           {<<Done("roll", "A"), 1>>}, 100),
   uistaminafeedback |->
     Shown(<<Done("ran", "A")>> \o Denial("roll"), {<<Done("roll", "A"), 0>>}, 100),
   uistaminaconfirmed |->
     Shown(<<Done("ran", "A")>>,
           {<<d, 0>> : d \in (UNION {DeniedCase[k].accepted : k \in DOMAIN DeniedCase})
                               \ {LightCommit}},
           100)]

JumpClaims ==
  [uirollbuffer |->
     Shown(<<Hit("light"), LightRecovery, Done("roll", "A"), Done("rolled", "A")>>,
           {}, 66),
   uijumpbuffer |->
     Shown(<<Hit("light"), LightRecovery, Jumped, Done("idle", "A")>>, {<<Jumped, 1>>}, 66),
   uijumpattackbuffer |-> Shown(<<LightRecovery>> \o Strike("jump", "hit"), {<<Jumped, 0>>}, 24),
   uijumpattack |->
     Shown(Strike("jump", "hit") \o <<Jumped>> \o Denial("jump-attack"),
           {<<JumpDeed("commit"), 1>>, <<Jumped, 2>>,
            <<Deed("shown", "jump-attack-chord", "A"), 1>>}, 58),
   uijumpattackpunish |->
     Shown(<<JumpDeed("commit"), JumpDeed("recovery"), Deed("hit", "light", "B")>>,
           {<<JumpDeed("hit"), 0>>}, 100),
   uijumpattacktelegraph |->
     Shown(<<JumpDeed("recovery")>> \o Strike("jump", "hit"), {}, 58),
   uijumpattackblock |-> Shown(Strike("jump", "blocked"), {<<JumpDeed("parried"), 0>>}, 100),
   uijumpattackparry |-> Shown(Strike("jump", "parried"), {<<JumpDeed("blocked"), 0>>}, 100),
   uijumpattackdodge |-> ShownAny({Strike("jump", "evaded"), Strike("jump", "rolledOver"),
               <<Done("roll", "B"), JumpDeed("active"), Done("rolled", "B")>>,
               <<JumpDeed("active"), Done("roll", "B"), JumpDeed("recovery")>>},
              {<<JumpDeed("hit"), 0>>}, 100)]

Claim(name) ==
  IF name \in FeedbackFlights \ {"ui", "uifeedback"} THEN Shown(Strike("light", "hit"), {}, 0)
  ELSE IF name = "uifeedback" THEN PlainClaims["ui"]
  ELSE (PlainClaims @@ StaminaClaims @@ JumpClaims)[name]

\* A flight that accepts judges by late pages and by offsets into what they told; what it
\* has shown is nevertheless what the server did, as far as a page has told of it.
AcceptedIsTrue ==
  flight.stage = "accepted" =>
    LET happened == SubSeq(deeds, 1, Max({tellings["A"], tellings["B"]}))
        claim == Claim(flight.name)
    IN /\ \E order \in claim.orders : InTurn(order, happened)
       /\ \A c \in claim.times : Times(happened, c[1]) = c[2]
       /\ HpIn(happened, "B") = claim.hp \/ claim.hp = 0
=============================================================================

---------------------------- MODULE FlightScripts ----------------------------
(***************************************************************************)
(* The flights of one fight, one definition each: the gestures that they   *)
(* play, and the evidence on which they go on, try again, throw or accept. *)
(* A is the page that acts, or attacks; B is its peer.                     *)
(***************************************************************************)
EXTENDS FlightEvidence

(***************************************************************************)
(* Gestures: what the page of the driven browser hears.                    *)
(***************************************************************************)
setMovementKey(p, key) == << <<p, key>> >>
pulseMovementKey(p) == setMovementKey(p, "move")
pulseHeavyKey(p) == setMovementKey(p, "heavy")

scrollWheelForward(p) == << <<p, "wheelForward">> >>
scrollWheelBack(p) == << <<p, "wheelBack">> >>

aimArena(p) == << <<p, "aim">> >>
performArenaAttack(p) == << <<p, "light">> >>
performArenaAttackHold(p) == << <<p, "light">> >>
performArenaDirectionalLight(p) == << <<p, "strafe">>, <<p, "light">> >>
performArenaRunHold(p) == << <<p, "run">>, <<p, "move">> >>
performArenaRunningAttack(p) == << <<p, "run">>, <<p, "move">>, <<p, "light">> >>
performArenaRollAttackChord(p) == scrollWheelForward(p) \o performArenaAttackHold(p)
performArenaRecoveryBufferedRoll(p) == scrollWheelForward(p)
performArenaTimedPointerDodge(p) == scrollWheelForward(p)
performArenaJumpAttackChord(p) == << <<p, "space">>, <<p, "light">> >>
performArenaJumpPress(p) == << <<p, "space">> >>
performArenaRecoveryBufferedJump(p) == << <<p, "space">> >>
performArenaKickAttackChord(p) == << <<p, "kick">>, <<p, "light">> >>
performArenaRecoveryBufferedKick(p) == << <<p, "kick">> >>
-----------------------------------------------------------------------------
(***************************************************************************)
(* A hit of a light on both pages, and the flights that look further at    *)
(* it: at its feedback, its paint, its vitals and its recovery.            *)
(***************************************************************************)
LightHit == Deed("hit", "light", "A")

UiCombatEvidence ==
  /\ \E p \in FlightPages : HpIn(Story(p), p) = 66 /\ HpIn(Story(Peer(p)), Peer(p)) = 100
  /\ \E p \in FlightPages : HasTold(p, Deed("hit", "light", p))
  /\ \E p \in FlightPages : HasTold(p, Deed("hit", "light", Peer(p)))

FeedbackOnOppositePages ==
  \E p \in FlightPages : \A q \in FlightPages : HasTold(q, Deed("hit", "light", p))

OnlineUiFeedbackFlight(name) == name = "ui" \/ FeedbackOnOppositePages

\* The flights that go on from the hit, with what they look at then.
AfterHit ==
  [ui |-> "accepted", uifeedback |-> "accepted", uihittell |-> "paint", uivitals |-> "vitals",
   uirecovery |-> "recovery", uirecoverytell |-> "ring"]

OnlineUiFlight(name) ==
  \/ Go(name, "move", pulseMovementKey("A"), "hit")
  \/ Act(name, "hit", performArenaAttack("A"), StrikeStories("light", "A", {"hit"}))
  \/ Judge(name, "hit", 5, UiCombatEvidence, TRUE, "hud")
  \/ Look(name, "hud",
          /\ Heard("A", {"move", "light"})
          /\ \A p \in FlightPages : HpIn(Story(p), "A") = 100 /\ HpIn(Story(p), "B") = 66
          /\ \A p \in FlightPages : HasTold(p, LightHit)
          /\ HasTold("A", Deed("commit", "light", "A"))
          /\ OnlineUiFeedbackFlight(name),
          AfterHit[name])

OnlineUiHitTellFlight ==
  Look("uihittell", "paint", HasTold("A", LightHit) /\ ~HasTold("B", Deed("hit", "light", "B")),
       "accepted")

OnlineUiVitalsFlight ==
  Look("uivitals", "vitals", Shows("A", "B", 66, 100) /\ Shows("B", "A", 100, 100), "accepted")

OnlineUiIdentityFlight == Look("uiidentity", "move", Pristine, "accepted")

LightRecovery == Deed("recovery", "light", "A")

OnlineUiRecoveryReadabilityFlight ==
  \/ Look("uirecovery", "recovery",
          HasTold("B", LightRecovery) /\ ~HasTold("A", Deed("recovery", "light", "B")), "clear")
  \/ Look("uirecovery", "clear", Last(Story("B")) # LightRecovery, "accepted")

OnlineUiRecoveryTellFlight ==
  Look("uirecoverytell", "ring",
       HasTold("B", LightRecovery) /\ ~HasTold("A", Deed("recovery", "light", "B")), "accepted")

OnlineUiAttackIntentFlight ==
  \/ Go("uiattackintent", "move", pulseMovementKey("A"), "windup")
  \/ Act("uiattackintent", "windup", performArenaAttackHold("A"),
         StrikeStories("light", "A", {"hit"}))
  \/ Judge("uiattackintent", "windup", 3, HasTold("B", Deed("commit", "light", "A")), TRUE, "clear")
  \/ Look("uiattackintent", "clear",
          /\ Last(Story("B")) # Deed("commit", "light", "A")
          /\ Heard("A", {"move", "light"}) /\ ~HasTold("A", Deed("commit", "light", "B")),
          "accepted")
-----------------------------------------------------------------------------
(***************************************************************************)
(* The heavy strike, and what the defender does about it.                  *)
(***************************************************************************)
HeavyDeed(what) == Deed(what, "heavy", "A")

OnlineUiHeavyStrikeFlight ==
  \/ Go("uiheavy", "move", pulseMovementKey("A"), "strike")
  \/ Act("uiheavy", "strike", pulseHeavyKey("A"), StrikeStories("heavy", "A", {"hit"}))
  \/ Judge("uiheavy", "strike", 1,
           /\ Heard("A", {"move", "heavy"})
           /\ \A p \in FlightPages : HpIn(Story(p), "A") = 100 /\ HpIn(Story(p), "B") = 54
           /\ \A p \in FlightPages : HasTold(p, HeavyDeed("hit"))
           /\ HasTold("B", HeavyDeed("commit")) /\ HasTold("B", HeavyDeed("recovery"))
           /\ HasTold("A", HeavyDeed("commit")),
           FALSE, "accepted")

prepareHeavyCounterplayFlight(name, next) == Go(name, "move", pulseMovementKey("A"), next)

HeavyControlDelivered == Heard("A", {"move", "heavy"})

\* Bound: of the three strikes into the air and the three wheels, one each.
calibrateHeavyIngress(name) ==
  \/ Act(name, "whiff", pulseHeavyKey("A"), StrikeStories("heavy", "A", {}))
  \/ Judge(name, "whiff", 1,
           /\ InTurn(<<HeavyDeed("commit"), Done("idle", "A")>>, StoryMarked("A"))
           /\ OwnVitalsAreFull,
           FALSE, "wheel")
  \/ Act(name, "wheel", scrollWheelBack("B"), Maybe(BlockStory("B")))
  \/ Judge(name, "wheel", 1, ToldSince("B", Done("block", "B")) /\ OwnVitalsAreFull,
           FALSE, "exchange")

\* The wheel follows what the log of the server tells of the strike.
performHeavyCounterplayWindowWheel(name, outcomes) ==
  ActAfresh(name, "exchange", pulseHeavyKey("A") \o scrollWheelBack("B"),
            StrikeStories("heavy", "A", outcomes))

CommittedSince(k) ==
  \E i \in flight.base + 1 .. Len(deeds) : deeds[i] = Deed("commit", k, "A")

OneWheelBack == CommittedSince("heavy") /\ HeardTimes("B", "wheelBack") = 1

OnlineUiHeavyBlockFlight ==
  \/ prepareHeavyCounterplayFlight("uiheavyblock", "whiff")
  \/ calibrateHeavyIngress("uiheavyblock")
  \/ performHeavyCounterplayWindowWheel("uiheavyblock", {"hit", "blocked", "parried"})
  \/ Judge("uiheavyblock", "exchange", 3,
           /\ OneWheelBack /\ HeavyControlDelivered
           /\ Shows("A", "A", 100, 100) /\ HpIn(Story("A"), "B") = 100
           /\ HpIn(Story("B"), "B") = 100
           /\ \A p \in FlightPages : HasTold(p, HeavyDeed("blocked")) /\ GuardIn(Story(p), "B") = 36
           /\ ~ParryTold,
           OneWheelBack /\ Pristine /\ ~ParryTold, "accepted")

HeavyCommittedTold ==
  \/ HasTold("A", HeavyDeed("commit")) \/ HasTold("A", HeavyDeed("recovery"))
  \/ HasTold("B", HeavyDeed("commit")) \/ HasTold("B", HeavyDeed("recovery"))

\* After the calibration, which commits strikes, no attempt is a clean one.
OnlineUiHeavyParryFlight ==
  \/ prepareHeavyCounterplayFlight("uiheavyparry", "whiff")
  \/ calibrateHeavyIngress("uiheavyparry")
  \/ performHeavyCounterplayWindowWheel("uiheavyparry", {"hit", "blocked", "parried"})
  \/ Judge("uiheavyparry", "exchange", 3,
           /\ OneWheelBack /\ HeavyControlDelivered /\ OwnVitalsAreFull
           /\ \A p \in FlightPages : HasTold(p, HeavyDeed("parried")),
           OneWheelBack /\ Pristine /\ ~HeavyCommittedTold /\ ~ParryTold, "accepted")

\* A dodge that is told by no hit being told.
NoHitTold == \A p \in FlightPages : ~HasTold(p, HeavyDeed("hit"))

DodgeTold == \A p \in FlightPages : HasTold(p, HeavyDeed("evaded"))

OnlineUiHeavyDodgeFlight ==
  \/ prepareHeavyCounterplayFlight("uiheavydodge", "exchange")
  \/ Act("uiheavydodge", "exchange",
         pulseHeavyKey("A") \o setMovementKey("B", "aside") \o performArenaTimedPointerDodge("B"),
         StrikeStories("heavy", "A", {"hit", "evaded"}))
  \/ Judge("uiheavydodge", "exchange", 1,
           /\ CommittedSince("heavy") /\ HeavyControlDelivered
           /\ Heard("B", {"aside", "wheelForward"}) /\ OwnVitalsAreFull
           /\ DodgeTold /\ ~ParryTold,
           FALSE, "accepted")

OnlineUiDirectionalLightFlight ==
  \/ prepareHeavyCounterplayFlight("uidirectionallight", "strike")
  \/ Act("uidirectionallight", "strike", performArenaDirectionalLight("A"),
         StrikeStories("directional", "A", {"hit"}) \cup StrikeStories("light", "A", {"hit"}))
  \/ Judge("uidirectionallight", "strike", 1,
           /\ Heard("A", {"strafe", "light"})
           /\ Shows("A", "A", 100, 100) /\ HpIn(Story("A"), "B") = 66 /\ Shows("B", "B", 66, 100)
           /\ \A p \in FlightPages :
                \E k \in {"light", "directional"} : HasTold(p, Deed("hit", k, "A"))
           /\ HasTold("B", Deed("commit", "directional", "A"))
           /\ HasTold("B", Deed("recovery", "directional", "A"))
           /\ HasTold("A", Deed("commit", "directional", "A")),
           FALSE, "accepted")
=============================================================================

--------------------------- MODULE StaminaFlights ---------------------------
(***************************************************************************)
(* The flights that exhaust the stamina of A, whose gestures the server    *)
(* then must deny, and the page must show as denied.                       *)
(***************************************************************************)
EXTENDS FlightScripts

RollTold == ToldSince("A", Done("roll", "A")) \/ ToldSince("A", Done("rolled", "A"))
OneWheelForward == HeardTimes("A", "wheelForward") = 1
AtRest == StaminaTold("A") = 100 /\ IsIdle("A")

KickCommit == Deed("commit", "kick", "A")
KickStory == <<KickCommit, Deed("recovery", "kick", "A"), Done("idle", "A")>>
Rested(stories) == {story \o <<Done("rested", "A")>> : story \in stories}

\* The cost of a roll, of a kick and of a run, each from a stamina that is whole.
OnlineUiAuthoritativeStaminaFlight ==
  \/ Look("uistaminaauth", "move", StaminaTold("A") = 100, "roll")
  \/ Act("uistaminaauth", "roll", scrollWheelForward("A"),
         Maybe(RollStory("A")) \cup Rested({RollStory("A")}))
  \/ Judge("uistaminaauth", "roll", 1,
           /\ \E n \in flight.mark["A"] .. tellings["A"] : StaminaIn(SubSeq(deeds, 1, n), "A") = 72
           /\ ToldSince("A", Done("roll", "A")) /\ OneWheelForward /\ OwnVitalsAreFull,
           FALSE, "rollRecovered")
  \/ Look("uistaminaauth", "rollRecovered", AtRest, "kick")
  \/ Act("uistaminaauth", "kick", performArenaRecoveryBufferedKick("A"),
         Maybe(KickStory) \cup Rested({KickStory}))
  \/ Judge("uistaminaauth", "kick", 1,
           /\ \E n \in flight.mark["A"] .. tellings["A"] : StaminaIn(SubSeq(deeds, 1, n), "A") = 82
           /\ ToldSince("A", KickCommit) /\ Heard("A", {"kick"}) /\ OwnVitalsAreFull,
           FALSE, "kickRecovered")
  \/ Look("uistaminaauth", "kickRecovered", AtRest, "run")

RunOfStaminaFlight ==
  \/ Act("uistaminaauth", "run", performArenaRunHold("A"),
         {<< >>, <<Done("ran", "A")>>, <<Done("ran", "A"), Done("rested", "A")>>, KickStory})
  \/ Judge("uistaminaauth", "run", 1,
           /\ ToldSince("A", Done("ran", "A")) /\ StaminaTold("A") <= 92
           /\ Heard("A", {"run", "move"}) /\ ~ToldSince("A", KickCommit) /\ OwnVitalsAreFull,
           FALSE, "regenerated")
  \/ Look("uistaminaauth", "regenerated", StaminaTold("A") = 100 /\ OwnVitalsAreFull, "accepted")

\* The stamina that a script runs down before it asks for what it must not get.
Exhausted(below) == StaminaTold("A") < below /\ IsIdle("A")

drainBelow(name, stage, below, tries, next) ==
  \/ Act(name, stage, performArenaRunHold("A"), Maybe(<<Done("ran", "A")>>))
  \/ Judge(name, stage, tries, Exhausted(below), TRUE, next)

\* The denied wheel may still fire when the stamina comes back.
OnlineUiStaminaExhaustionFlight ==
  \/ Look("uistaminaexhaustion", "move", StaminaTold("A") = 100, "drain")
  \/ drainBelow("uistaminaexhaustion", "drain", 22, 5, "denied")
  \/ Act("uistaminaexhaustion", "denied", scrollWheelForward("A"),
         Rested({<< >>, RollStory("A")}))
  \/ Judge("uistaminaexhaustion", "denied", 1,
           OneWheelForward /\ ~RollTold /\ ~SpentSince("A"), FALSE, "regenerated")

RetryOfExhaustionFlight ==
  \/ Look("uistaminaexhaustion", "regenerated", AtRest /\ ~RollTold, "retry")
  \/ Act("uistaminaexhaustion", "retry", scrollWheelForward("A"), Maybe(RollStory("A")))
  \/ Judge("uistaminaexhaustion", "retry", 1,
           /\ StaminaTold("A") = 72 /\ ToldSince("A", Done("roll", "A")) /\ OneWheelForward
           /\ OwnVitalsAreFull,
           FALSE, "accepted")

\* A denial that is queued, submitted, rejected and shown, in this order; and one that
\* the page shows for what the server has granted.
Denial(action) == DeniedStory(action, "A")
WrongDenial(action, story) ==
  SubSeq(Denial(action), 1, 2) \o story \o SubSeq(Denial(action), 3, 4)
ShownSince(action) == ToldSince("A", Deed("shown", action, "A"))
DeniedInTurn(action) == InTurn(Denial(action), StoryMarked("A"))

OnlineUiStaminaFeedbackFlight ==
  \/ Look("uistaminafeedback", "move", StaminaTold("A") = 100, "drain")
  \/ drainBelow("uistaminafeedback", "drain", 22, 5, "denied")
  \/ Act("uistaminafeedback", "denied", scrollWheelForward("A"),
         {<< >>, RollStory("A"), Denial("roll"), WrongDenial("roll", RollStory("A"))})
  \/ Judge("uistaminafeedback", "denied", 1,
           /\ ShownSince("roll") /\ OneWheelForward /\ ~RollTold /\ ~SpentSince("A")
           /\ OwnVitalsAreFull,
           FALSE, "accepted")

(***************************************************************************)
(* The denials that an acknowledgement confirms.                           *)
(***************************************************************************)
LightCommit == Deed("commit", "light", "A")

\* The action cases: what is denied, by which gesture, and what would be its acceptance.
\* A chord settles: its light may come after all, for a browser serialises the two.
actionCases ==
  [roll |-> [action |-> "roll", played |-> scrollWheelForward("A"),
             accepted |-> {Done("roll", "A")}, settles |-> FALSE],
   rollLight |-> [action |-> "roll", played |-> performArenaRollAttackChord("A"),
                  accepted |-> {Done("roll", "A")}, settles |-> TRUE],
   kick |-> [action |-> "kick", played |-> performArenaRecoveryBufferedKick("A"),
             accepted |-> {KickCommit}, settles |-> FALSE],
   kickLight |-> [action |-> "kick", played |-> performArenaKickAttackChord("A"),
                  accepted |-> {KickCommit}, settles |-> TRUE]]

moreActionCases ==
  [jump |-> [action |-> "jump", played |-> performArenaJumpPress("A"),
             accepted |-> {Done("jump", "A"), Deed("commit", "jump", "A")}, settles |-> FALSE],
   running |-> [action |-> "running-attack", played |-> performArenaRunningAttack("A"),
                accepted |-> {Deed("commit", "running", "A"), LightCommit}, settles |-> FALSE]]

DeniedCase == actionCases @@ moreActionCases

ensureExhausted(name, next) ==
  \/ Look(name, "drain", TRUE, next) /\ Exhausted(8)
  \/ Act(name, "drain", performArenaRunHold("A"), Maybe(<<Done("ran", "A")>>)) /\ ~Exhausted(8)
  \/ Judge(name, "drain", 6, Exhausted(8), TRUE, next)

\* What may come of it: nothing, the denial, with or without a light, or its acceptance.
CaseStories(c) ==
  {<< >>, Denial(c.action)}
  \cup (IF c.settles THEN {Denial(c.action) \o <<LightCommit, Done("idle", "A")>>} ELSE {})
  \cup {WrongDenial(c.action, <<d, Done("idle", "A")>>) : d \in c.accepted}

\* Bound: a flight confirms two of its six cases, in any order.
DenialsShown == {i \in DOMAIN deeds : deeds[i][1] = "shown"}

OnlineUiConfirmedStaminaActionsFlight ==
  \/ Look("uistaminaconfirmed", "move", StaminaTold("A") = 100, "drain")
  \/ /\ \E k \in DOMAIN DeniedCase : ensureExhausted("uistaminaconfirmed", k)
     /\ Cardinality(DenialsShown) < 2
  \/ \E k \in DOMAIN DeniedCase :
       Act("uistaminaconfirmed", k, DeniedCase[k].played, CaseStories(DeniedCase[k]))

ConfirmDenial(k) ==
  Judge("uistaminaconfirmed", k, 1,
        /\ ShownSince(DeniedCase[k].action) /\ DeniedInTurn(DeniedCase[k].action)
        /\ \A i \in DOMAIN DeniedCase[k].played : HeardTimes("A", DeniedCase[k].played[i][2]) = 1
        /\ \A d \in DeniedCase[k].accepted : ~ToldSince("A", d)
        /\ k # "running" => ~SpentSince("A"),
        FALSE, IF DeniedCase[k].settles THEN "settle" ELSE "next")

ProofsOfConfirmedStamina ==
  \/ \E k \in DOMAIN DeniedCase : ConfirmDenial(k)
  \/ Look("uistaminaconfirmed", "settle", IsIdle("A"), "next")
  \/ Look("uistaminaconfirmed", "next", OwnVitalsAreFull, "accepted")
  \/ /\ Look("uistaminaconfirmed", "next", TRUE, "drain")
     /\ Cardinality(DenialsShown) < 2
=============================================================================

--------------------------- MODULE FlightEvidence ---------------------------
(***************************************************************************)
(* A browser flight (scripts/pvp_browser_flight_runner.mjs): a script      *)
(* plays gestures on the pages of two fighters, A who attacks and B who    *)
(* defends, the server answers them with deeds, the pages tell of the      *)
(* deeds late and each on its own, and the script judges by what they      *)
(* tell.  Sleeps and deadlines are not modelled: a script may judge at any *)
(* time.                                                                   *)
(***************************************************************************)
EXTENDS Naturals, Sequences, FiniteSetsExt, SequencesExt

CONSTANTS
  MostTries,   \* bound: the attempts of a retry loop, at least two
  MostLag      \* bound: how much a page may have left to tell when a script acts again

VARIABLES
  deeds,     \* what the server did, in order
  tellings,  \* how much of it each page has told
  hands,     \* the gestures that each page has heard
  flight     \* the flight, its stage and its attempt

flightVars == <<deeds, tellings, hands, flight>>

FlightPages == {"A", "B"}

\* Bound: in the flights of what A is denied the page of B, which does nothing, is silent.
AloneFlights ==
  {"uistaminaauth", "uistaminaexhaustion", "uistaminafeedback", "uistaminaconfirmed"}
Telling == IF flight.name \in AloneFlights THEN {"A"} ELSE FlightPages

Peer(p) == IF p = "A" THEN "B" ELSE "A"

\* A deed: what was done, with which strike or action, and by whom.
Deed(what, which, p) == <<what, which, p>>
Done(what, p) == Deed(what, "", p)

(***************************************************************************)
(* The evidence of a page: readUiEvidence, and what its observers kept.    *)
(***************************************************************************)
Story(p) == SubSeq(deeds, 1, tellings[p])
StoryMarked(p) == SubSeq(deeds, flight.mark[p] + 1, tellings[p])

HasTold(p, d) == d \in Range(Story(p))
ToldSince(p, d) == d \in Range(StoryMarked(p))

\* What has happened in this order in a story.
InTurn(ds, story) ==
  Len(ds) = FoldLeft(LAMBDA k, d : IF k < Len(ds) /\ d = ds[k + 1] THEN k + 1 ELSE k, 0, story)

Times(story, d) == Cardinality({i \in DOMAIN story : story[i] = d})

\* The gestures of this stage that the page has heard, and how often one of them.
HeardSince(p) == SubSeq(hands[p], flight.heard[p] + 1, Len(hands[p]))
Heard(p, gestures) == gestures \subseteq Range(hands[p])
HeardTimes(p, gesture) == Times(HeardSince(p), gesture)

\* What a strike costs the fighter whom it meets, and what it costs the guard.
StrikeHp ==
  [light |-> 34, directional |-> 34, heavy |-> 46, running |-> 30, jump |-> 42, kick |-> 0]
StrikeGuard ==
  [light |-> 38, directional |-> 38, heavy |-> 64, running |-> 34, jump |-> 52, kick |-> 30]

\* What the deeds of a fighter cost its stamina (a run, a bound: half of it).
StaminaCosts(p) ==
  { <<Done("roll", p), 28>>, <<Done("jump", p), 14>>, <<Deed("commit", "kick", p), 18>>,
    <<Deed("commit", "jump", p), 26>>, <<Deed("commit", "running", p), 10>>,
    <<Done("ran", p), 50>> }

Lowered(n, by) == IF by > n THEN 0 ELSE n - by

HpIn(story, p) ==
  FoldLeft(LAMBDA hp, d :
             IF d[1] = "hit" /\ d[3] # p THEN Lowered(hp, StrikeHp[d[2]])
             ELSE IF d = Done("back", p) THEN 100 ELSE hp, 100, story)

GuardIn(story, p) ==
  FoldLeft(LAMBDA guard, d :
             IF d[1] = "blocked" /\ d[3] # p THEN Lowered(guard, StrikeGuard[d[2]])
             ELSE IF d[1] = "broken" /\ d[3] # p THEN 0
             ELSE IF d \in {Done("back", p), Done("guarded", p)} THEN 100 ELSE guard, 100, story)

\* Stamina comes back whole, or (a bound) for one jump.
StaminaIn(story, p) ==
  FoldLeft(LAMBDA stamina, d :
             IF d = Done("rested", p) THEN 100
             ELSE IF d = Done("eased", p) THEN 20
             ELSE IF \E c \in StaminaCosts(p) : c[1] = d
                  THEN Lowered(stamina, (CHOOSE c \in StaminaCosts(p) : c[1] = d)[2])
             ELSE stamina, 100, story)

StaminaTold(p) == StaminaIn(Story(p), p)

\* Whether the page has told, since the mark, that its stamina fell.
SpentSince(p) ==
  \E c \in StaminaCosts(p) : ToldSince(p, c[1])

\* The vitals that a page shows: its own, and those of the other one.
Shows(p, f, hp, guard) == HpIn(Story(p), f) = hp /\ GuardIn(Story(p), f) = guard
Pristine == \A p, f \in FlightPages : Shows(p, f, 100, 100)
OwnVitalsAreFull == \A p \in FlightPages : Shows(p, p, 100, 100)

\* The last action that the page has of its own fighter.
IsIdle(p) ==
  LET acts == {"commit", "recovery", "roll", "rolled", "jump", "block", "idle"}
      own == SelectSeq(Story(p), LAMBDA d : d[3] = p /\ d[1] \in acts)
  IN own # << >> => Last(own) = Done("idle", p)

ParryTold ==
  \E k \in DOMAIN StrikeHp :
     HasTold("A", Deed("parried", k, "A")) \/ HasTold("B", Deed("parried", k, "A"))
-----------------------------------------------------------------------------
(***************************************************************************)
(* What the server may make of a strike: nothing, if the press is lost; or *)
(* it commits, and meets the other one in one of these ways or not at all. *)
(***************************************************************************)
BreaksOff == {"parried", "rolledOver"}

StrikeStories(k, p, outcomes) ==
  {<< >>} \cup
  {<<Deed("commit", k, p)>> \o met \o <<Done("idle", p)>> :
     met \in {<<Deed("recovery", k, p)>>}
             \cup {<<Deed(o, k, p), Deed("recovery", k, p)>> : o \in outcomes \ BreaksOff}
             \cup {<<Deed(o, k, p)>> : o \in outcomes \cap BreaksOff}}

\* A roll, a jump or a guard, if it comes to it.
Maybe(story) == {<< >>, story}
RollStory(p) == <<Done("roll", p), Done("rolled", p), Done("idle", p)>>
JumpStory(p) == <<Done("jump", p), Done("idle", p)>>
BlockStory(p) == <<Done("block", p), Done("idle", p)>>

\* The requests that the page queues and submits, and the server grants or denies.
DeniedStory(action, p) ==
  <<Deed("queued", action, p), Deed("submitted", action, p), Deed("rejected", action, p),
    Deed("shown", action, p)>>
-----------------------------------------------------------------------------
FlightEnds == {"accepted", "thrown"}

StartFlight(name) ==
  [name |-> name, stage |-> "move", judging |-> FALSE, attempt |-> 0,
   base |-> 0, mark |-> [p \in FlightPages |-> 0], heard |-> [p \in FlightPages |-> 0]]

At(name, stage, judging) ==
  flight.name = name /\ flight.stage = stage /\ flight.judging = judging

\* The offsets that a script takes before it acts.
Marked ==
  [flight EXCEPT !.base = Len(deeds), !.mark = tellings,
                 !.heard = [p \in FlightPages |-> Len(hands[p])]]

\* The page tells of more; it skips nothing and retracts nothing.
Tell(p) ==
  /\ flight.stage \notin FlightEnds
  /\ \E n \in tellings[p] + 1 .. Len(deeds) : tellings' = [tellings EXCEPT ![p] = n]
  /\ UNCHANGED <<deeds, hands, flight>>

\* The gestures that the pages hear, and what the server makes of them; of a gesture
\* that a page does not hear comes nothing.
PlayGestures(played, stories) ==
  \E lost \in 0 .. Len(played) :
    LET kept == IF lost = 0 THEN played ELSE RemoveAt(played, lost)
    IN /\ hands' = [p \in FlightPages |->
                      hands[p] \o [i \in DOMAIN SelectSeq(kept, LAMBDA g : g[1] = p) |->
                                     SelectSeq(kept, LAMBDA g : g[1] = p)[i][2]]]
       /\ IF lost = 0 THEN \E story \in stories : deeds' = deeds \o story
          ELSE UNCHANGED deeds

\* A script acts, with the offsets of this attempt, or of the stage's first one.
ActOn(base, played, stories) ==
  /\ \A p \in Telling : Len(deeds) - tellings[p] <= MostLag
  /\ PlayGestures(played, stories)
  /\ flight' = [base EXCEPT !.judging = TRUE, !.attempt = @ + 1]
  /\ UNCHANGED tellings

Act(name, stage, played, stories) ==
  /\ At(name, stage, FALSE)
  /\ ActOn(IF flight.attempt = 0 THEN Marked ELSE flight, played, stories)

ActAfresh(name, stage, played, stories) ==
  /\ At(name, stage, FALSE)
  /\ ActOn(Marked, played, stories)

\* A script plays gestures of which nothing comes, and goes on.
Go(name, stage, played, next) ==
  /\ At(name, stage, FALSE)
  /\ PlayGestures(played, {<< >>})
  /\ flight' = [flight EXCEPT !.stage = next]
  /\ UNCHANGED tellings

\* A script looks further at what it has.
Look(name, stage, good, next) ==
  /\ At(name, stage, FALSE)
  /\ flight' = [flight EXCEPT !.stage = IF good THEN next ELSE "thrown", !.attempt = 0]
  /\ UNCHANGED <<deeds, tellings, hands>>

\* A script judges: it goes on if the evidence is good, tries again if the attempt left
\* no trace and there are attempts left, and otherwise throws.
Judge(name, stage, tries, good, clean, next) ==
  /\ At(name, stage, TRUE)
  /\ flight' = CASE good -> [flight EXCEPT !.stage = next, !.judging = FALSE, !.attempt = 0]
                 [] ~good /\ clean /\ flight.attempt < Min({tries, MostTries}) ->
                      [flight EXCEPT !.judging = FALSE]
                 [] OTHER -> [flight EXCEPT !.stage = "thrown"]
  /\ UNCHANGED <<deeds, tellings, hands>>
=============================================================================

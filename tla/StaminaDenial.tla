--------------------------- MODULE StaminaDenial ---------------------------
(***************************************************************************)
(* The LOW STAMINA notice of web/online-game.mjs.  A press that the known  *)
(* stamina cannot pay for is not refused by the page: it is sent, and      *)
(* remembered as a pending denial that only the server's answer settles.   *)
(* Stamina is counted in coarse units and a step is one input: the page    *)
(* samples it, the server may miss it, takes a step, and the page may miss *)
(* the snapshot and the acknowledgement of that step.                      *)
(***************************************************************************)
EXTENDS Integers, FiniteSets

CONSTANTS
  PressCost,    \* the stamina of each press: a function of Presses
  MostStamina,  \* STAMINA_MAX
  ActionSteps,  \* the steps that a paid action lasts
  LongestGap    \* bound: the snapshots in a row that the page may miss

Presses == {"roll", "kick", "jump", "jump-attack", "jump-attack-chord", "running-attack"}

ASSUME DenialConstants ==
  /\ MostStamina \in Nat
  /\ PressCost \in [Presses -> 1 .. MostStamina]
  /\ PressCost["jump-attack-chord"] = PressCost["jump"] + PressCost["jump-attack"]
  /\ ActionSteps \in Nat /\ LongestGap \in Nat /\ LongestGap < ActionSteps

VARIABLES
  server,   \* external: the action of the own fighter, the steps it has left, its stamina
  client,   \* authoritativeStamina, local.action, the requests and Space
  denial,   \* pendingStaminaDenial
  verdict,  \* history: what became of the press that was submitted
  missed,   \* the snapshots missed in a row
  told      \* the press that the last step told LOW STAMINA of

denialVars == <<server, client, denial, verdict, missed, told>>

Requests == {"dodge", "kick", "jump", "attack", "run"}
NoDenial == [press |-> "none", baseline |-> 0, submitted |-> FALSE]
JumpAttacks == {"jump-attack", "jump-attack-chord"}

DenialInit ==
  /\ server \in [action : {"Idle"}, left : {0}, stamina : 0 .. MostStamina]
  /\ client = [stamina |-> server.stamina, action |-> "Idle", asks |-> {}, space |-> FALSE]
  /\ denial = NoDenial /\ verdict = "none" /\ missed = 0 /\ told = "none"

----------------------------------------------------------------------------
(* The presses *)

\* staminaDenialPresentation has something to say
Lacks(press, stamina) == stamina < PressCost[press]

QueueStaminaDenial(press, known) ==
  IF /\ known.action = (IF press = "jump-attack" THEN "Jump" ELSE "Idle")
     /\ Lacks(press, known.stamina)
  THEN /\ denial' = [press |-> press, baseline |-> known.stamina, submitted |-> FALSE]
       /\ verdict' = "none"
  ELSE UNCHANGED <<denial, verdict>>

Ask(buttons, space) ==
  /\ client' = [client EXCEPT !.asks = @ \cup buttons, !.space = space]
  /\ told' = "none"
  /\ UNCHANGED <<server, missed>>

WheelForward == Ask({"dodge"}, client.space) /\ QueueStaminaDenial("roll", client)
ShortRight == Ask({"kick"}, client.space) /\ QueueStaminaDenial("kick", client)
SpaceDown == ~client.space /\ Ask({"jump"}, TRUE) /\ QueueStaminaDenial("jump", client)
SpaceUp == client.space /\ Ask({}, FALSE) /\ UNCHANGED <<denial, verdict>>

\* onLight: "running" is a right hold with a direction key
Light(running) ==
  LET chord == client.space \/ "jump" \in client.asks IN
  \/ /\ client.action = "Jump"
     /\ Ask({"attack"}, client.space) /\ QueueStaminaDenial("jump-attack", client)
  \/ /\ client.action # "Jump" /\ denial = NoDenial /\ chord
     /\ Ask({"attack"}, client.space) /\ QueueStaminaDenial("jump-attack-chord", client)
  \/ /\ client.action # "Jump" /\ ~(denial = NoDenial /\ chord) /\ running
     /\ Ask({"attack", "run"}, client.space) /\ QueueStaminaDenial("running-attack", client)
  \/ /\ client.action # "Jump" /\ ~(denial = NoDenial /\ chord) /\ ~running
     /\ Ask({"attack"}, client.space) /\ UNCHANGED <<denial, verdict>>

\* releaseInputs: the page loses the focus, or a match is over
Release ==
  /\ client' = [client EXCEPT !.asks = {}, !.space = FALSE]
  /\ denial' = NoDenial /\ verdict' = "none" /\ told' = "none"
  /\ UNCHANGED <<server, missed>>

----------------------------------------------------------------------------
(* The server's step *)

\* apply_fresh_input: the first of the presses that the sample can mean and pay for
Begun(f, input) ==
  IF f.action = "Jump"
  THEN IF "attack" \in input /\ ~Lacks("jump-attack", f.stamina) THEN "jump-attack" ELSE "none"
  ELSE LET free == f.action = "Idle"
           pays(p, buttons) == free /\ buttons \subseteq input /\ ~Lacks(p, f.stamina)
       IN CASE pays("roll", {"dodge"}) -> "roll"
            [] {"dodge", "attack"} \subseteq input -> "none"
            [] pays("kick", {"kick"}) -> "kick"
            [] {"kick", "attack"} \subseteq input -> "none"
            [] pays("jump-attack-chord", {"jump", "attack"}) -> "jump-attack-chord"
            [] pays("jump", {"jump"}) -> "jump"
            [] {"jump", "attack"} \subseteq input -> "none"
            [] pays("running-attack", {"attack", "run"}) -> "running-attack"
            [] OTHER -> "none"

ActionOf(press) ==
  CASE press = "roll" -> "Dodge" [] press = "kick" -> "Kick" [] press = "jump" -> "Jump"
    [] press \in JumpAttacks -> "JumpAttack" [] press = "running-attack" -> "RunningAttack"

\* An action under way goes on or ends; stamina may come back while none was paid;
\* another fighter may strike this one down in any step.
Steps(f, input) ==
  LET press == Begun(f, input)
      begun == [action |-> ActionOf(press), left |-> ActionSteps,
                stamina |-> f.stamina - PressCost[press]]
      going == IF f.left > 1 THEN [f EXCEPT !.left = @ - 1]
               ELSE [f EXCEPT !.action = "Idle", !.left = 0]
  IN IF press # "none" THEN {begun}
     ELSE {going, [going EXCEPT !.stamina = IF @ < MostStamina THEN @ + 1 ELSE @]}

StruckDown(f) == [f EXCEPT !.action = "Stunned", !.left = ActionSteps]

----------------------------------------------------------------------------
(* The page's step: sample, send, hear *)

\* markStaminaDenialSubmitted: the sample carries the press
Included(press, input) ==
  CASE press = "roll" -> "dodge" \in input [] press = "kick" -> "kick" \in input
    [] press = "jump" -> "jump" \in input [] press = "jump-attack" -> "attack" \in input
    [] press = "jump-attack-chord" -> {"jump", "attack"} \subseteq input
    [] press = "running-attack" -> {"attack", "run"} \subseteq input
    [] OTHER -> FALSE

MarkSubmitted(d, input) ==
  [d EXCEPT !.submitted = d.submitted \/ Included(d.press, input)]

\* the press was begun, or a larger one that holds it
Grants(press, begun) ==
  \/ begun = press
  \/ press \in JumpAttacks \cup {"jump"} /\ begun \in JumpAttacks

\* staminaActionAccepted
Accepted(press, action) ==
  IF press = "jump" THEN action \in {"Jump", "JumpAttack"} ELSE action = ActionOf(press)

\* The form that judges by the stamina alone.
ToldByStamina(d, own) ==
  LET spentEnough == d.baseline - own.stamina >= PressCost[d.press] IN
  /\ ~(d.press # "running-attack" /\ spentEnough)
  /\ Lacks(d.press, own.stamina)

Told(d, own) ==
  LET spentEnough == d.baseline - own.stamina >= PressCost[d.press] IN
  /\ ~Accepted(d.press, own.action)
  /\ ~(d.press # "running-attack" /\ spentEnough)
  /\ Lacks(d.press, own.stamina)

\* confirmStaminaDenial, once the answer covers the submitted tick
Answered(d, covered) == d.press # "none" /\ d.submitted /\ covered

Judged(now, input, arrives, struck) ==
  LET fresh == now.submitted /\ ~denial.submitted IN
  CASE fresh /\ ~arrives -> "unseen"
    [] fresh /\ arrives -> IF ~Grants(now.press, Begun(server, input)) THEN "refused"
                           ELSE IF struck THEN "interrupted" ELSE "accepted"
    [] verdict = "unseen" /\ arrives -> "refused"
    [] verdict = "accepted" /\ struck -> "interrupted"
    [] OTHER -> verdict

Exchange(arrives, struck, hears) ==
  LET input == client.asks
      now == MarkSubmitted(denial, input)
      judged == Judged(now, input, arrives, struck)
      answered == hears /\ Answered(now, judged # "unseen")
  IN
  /\ hears \/ missed < LongestGap
  /\ \E next \in Steps(server, IF arrives THEN input ELSE {}) :
       server' = IF struck THEN StruckDown(next) ELSE next
  /\ client' = IF hears THEN [client EXCEPT !.asks = {}, !.stamina = server'.stamina,
                                        !.action = server'.action]
               ELSE [client EXCEPT !.asks = {}]
  /\ denial' = IF answered THEN NoDenial ELSE now
  /\ told' = IF answered /\ Told(now, server') THEN now.press ELSE "none"
  /\ verdict' = judged
  /\ missed' = IF hears THEN 0 ELSE missed + 1

DenialNext ==
  \/ WheelForward \/ ShortRight \/ SpaceDown \/ SpaceUp \/ Release
  \/ \E running \in BOOLEAN : Light(running)
  \/ \E arrives, struck, hears \in BOOLEAN : Exchange(arrives, struck, hears)

DenialSpec == DenialInit /\ [][DenialNext]_denialVars

----------------------------------------------------------------------------
\* docs/M168: LOW STAMINA is told only of a press that the server has taken and
\* refused.  A press that it granted is never told of, however the fighter's stamina
\* moved between the press and the answer, unless another fighter broke the action off
\* before the page saw it.
DenialIsTrue == told # "none" => verdict \in {"refused", "interrupted"}
=============================================================================

------------------------------ MODULE Controls ------------------------------
(***************************************************************************)
(* From the mouse and the keyboard to the input samples, in the browser:   *)
(* the recognisers of the two mouse buttons, the handlers that the online  *)
(* game and the offline practice install on the page, the requests that    *)
(* wait for the next sample, and the loop of animation frames that takes   *)
(* the samples.  Only the transitions between no button and some button    *)
(* are pointer events; in between there are mouse events alone.            *)
(***************************************************************************)
EXTENDS Integers, FiniteSets

Buttons == {"left", "middle", "right"}
Keys == {"move", "Space"}

\* Pointers of the charge: none, the mouse, and CHORDED_LEFT_POINTER_ID.
Pointers == {"none", "mouse", "chord"}

VARIABLES
  held,      \* external: the buttons that are down
  controls,  \* what the recognisers, the handlers and the requests remember
  loop,      \* the frame loop
  result     \* matchOver

controlVars == <<held, controls, loop, result>>

ReleasedControls ==
  [pointer   |-> "none",   \* createLeftButtonCharge: pointer, the charge is
   full      |-> FALSE,    \*   complete, committed
   committed |-> FALSE,
   right     |-> "up",     \* installRightButtonGesture: up, down or long (180 ms)
   keys      |-> {},       \* keys
   left      |-> FALSE,    \* leftButtonDown
   chord     |-> FALSE,    \* chordedLeftDown
   middle    |-> FALSE,    \* middleBlockHeld
   short     |-> FALSE,    \* shortBlockUntil is not past
   asked     |-> {},       \* the ...Requested flags
   strikes   |-> 0]        \* history: strikes since the left button went down

ReleaseInputs(c) == [ReleasedControls EXCEPT !.strikes = c.strikes]

\* Whether the page is the online game, or else the offline practice.
Online == loop.online
-----------------------------------------------------------------------------
\* isRunning.
IsRunning(c) == c.right = "long"

\* A light strike that starts on the run; in the air and with a jump it is none.
RunsIntoIt(c, airborne) ==
  /\ IsRunning(c) /\ "move" \in c.keys
  /\ Online => ~airborne /\ "jump" \notin c.asked /\ "Space" \notin c.keys

OnLight(c, airborne) ==
  [c EXCEPT !.asked = @ \cup {"attack"}
                        \cup IF RunsIntoIt(c, airborne) THEN {"running"} ELSE {},
            !.strikes = @ + 1]

OnHeavy(c) == [c EXCEPT !.asked = @ \cup {"heavy"}, !.strikes = @ + 1]

\* press: a press while another pointer holds the charge is refused.
ChargePress(c, pointer, immediate, airborne) ==
  IF c.pointer # "none" THEN c
  ELSE LET pressed == [c EXCEPT !.pointer = pointer, !.full = FALSE, !.committed = immediate]
       IN IF immediate THEN OnLight(pressed, airborne) ELSE pressed

\* commitLight.
CommitLight(c, airborne) ==
  IF c.pointer = "none" \/ c.committed THEN c
  ELSE OnLight([c EXCEPT !.committed = TRUE], airborne)

\* cancel.
ChargeCancel(c, pointer) ==
  IF c.pointer = pointer
  THEN [c EXCEPT !.pointer = "none", !.full = FALSE, !.committed = FALSE] ELSE c

\* A release that forgets that Space has committed the press.
ChargeReleaseAgain(c, pointer, airborne) ==
  IF c.pointer # pointer THEN c
  ELSE IF c.full THEN OnHeavy(ChargeCancel(c, pointer))
  ELSE OnLight(ChargeCancel(c, pointer), airborne)

\* release: a full charge is a heavy strike, a shorter one a light strike.
ChargeRelease(c, pointer, airborne) ==
  IF c.pointer # pointer THEN c
  ELSE LET up == ChargeCancel(c, pointer)
       IN IF c.committed THEN up
          ELSE IF c.full THEN OnHeavy(up) ELSE OnLight(up, airborne)

IsCharging(c) == c.pointer # "none" /\ ~c.committed

\* onPointerDown, onPointerUp and onPointerCancel of the right button.
RightDown(c) == IF c.right = "up" THEN [c EXCEPT !.right = "down"] ELSE c

RightUp(c) ==
  [c EXCEPT !.right = "up",
            !.asked = IF c.right = "down" THEN @ \cup {"kick"} ELSE @]
-----------------------------------------------------------------------------
\* A left press strikes at once in a jump: in one, asked for, or with Space held.
Immediate(c, airborne) == airborne \/ "jump" \in c.asked \/ "Space" \in c.keys

\* The pointerdown listener.
PointerDown(c, b, airborne) ==
  CASE b = "middle" -> [c EXCEPT !.middle = TRUE]
    [] b = "left" ->
         ChargePress([c EXCEPT !.left = TRUE], "mouse", Immediate(c, airborne), airborne)
    [] b = "right" -> RightDown(c)

\* The mousedown listener: a left press with the right button held.
MouseDown(c, b, buttons, airborne) ==
  IF b # "left" \/ "right" \notin buttons \/ c.pointer # "none" THEN c
  ELSE ChargePress([c EXCEPT !.left = TRUE, !.chord = TRUE], "chord",
                   Immediate(c, airborne), airborne)

\* onLeftPointerUp, and the right button's onPointerUp.
PointerUp(c, b, airborne) ==
  CASE b = "middle" -> [c EXCEPT !.middle = FALSE]
    [] b = "left" -> ChargeRelease([c EXCEPT !.left = FALSE], "mouse", airborne)
    [] b = "right" -> RightUp(c)

\* onChordedLeftMouseUp.
MouseUp(c, b, airborne) ==
  IF b # "left" \/ ~c.chord THEN c
  ELSE ChargeRelease([c EXCEPT !.chord = FALSE, !.left = FALSE], "chord", airborne)

\* A button goes down over the canvas.
PressButton(b, airborne) ==
  /\ b \in Buttons \ held
  /\ held' = held \cup {b}
  /\ LET fresh == IF b = "left" THEN [controls EXCEPT !.strikes = 0] ELSE controls
         first == held = {}
         pointed == IF first THEN PointerDown(fresh, b, airborne) ELSE fresh
     IN controls' = MouseDown(pointed, b, held', airborne)
  /\ UNCHANGED <<loop, result>>

\* A button comes up over the canvas, whose events the window hears too.
ReleaseButton(b, airborne) ==
  /\ b \in held
  /\ held' = held \ {b}
  /\ LET last == held' = {}
         pointed == IF last
                    THEN PointerUp(PointerUp(controls, b, airborne), b, airborne)
                    ELSE controls
     IN controls' = MouseUp(MouseUp(pointed, b, airborne), b, airborne)
  /\ UNCHANGED <<loop, result>>

\* pointercancel: its button is the left one, and with it the pointer ends.
CancelPointer ==
  /\ held # {}
  /\ held' = {}
  /\ controls' = [ChargeCancel(controls, "mouse") EXCEPT !.left = FALSE, !.right = "up"]
  /\ UNCHANGED <<loop, result>>

\* The wheel: up rolls, down is a short guard.
Wheel(up) ==
  /\ controls' = IF up THEN [controls EXCEPT !.asked = @ \cup {"roll"}]
                 ELSE [controls EXCEPT !.short = TRUE]
  /\ UNCHANGED <<held, loop, result>>

\* The keydown listener for Space and a movement key; a key that is held repeats. The
\* second tap of a movement key asks for a dash (createDirectionalDash).
KeyDown(k, repeat, airborne, dash) ==
  /\ k \in Keys
  /\ dash => k = "move" /\ ~repeat /\ k \notin controls.keys
  /\ LET c == [controls EXCEPT !.keys = @ \cup {k},
                               !.asked = @ \cup IF dash THEN {"dash"} ELSE {}]
         jumps == [c EXCEPT !.asked = @ \cup {"jump"}]
     IN controls' = IF k # "Space" \/ repeat THEN c
                    ELSE IF Online /\ ~c.left THEN jumps ELSE CommitLight(jumps, airborne)
  /\ UNCHANGED <<held, loop, result>>

\* KeyE.
PressHeavyKey ==
  /\ controls' = [controls EXCEPT !.asked = @ \cup {"heavy"}]
  /\ UNCHANGED <<held, loop, result>>

KeyUp(k) ==
  /\ k \in controls.keys
  /\ controls' = [controls EXCEPT !.keys = @ \ {k}]
  /\ UNCHANGED <<held, loop, result>>

\* The page loses the focus; what comes up meanwhile, the page does not hear.
Blur ==
  /\ held' \in SUBSET held
  /\ controls' = ReleaseInputs(controls)
  /\ UNCHANGED <<loop, result>>
-----------------------------------------------------------------------------
\* Time: a hold becomes long, a charge full, a short guard ends.
HoldMatures ==
  /\ controls.right = "down"
  /\ controls' = [controls EXCEPT !.right = "long"]
  /\ UNCHANGED <<held, loop, result>>

ChargeFills ==
  /\ controls.pointer # "none" /\ ~controls.full
  /\ controls' = [controls EXCEPT !.full = TRUE]
  /\ UNCHANGED <<held, loop, result>>

ShortBlockEnds ==
  /\ controls.short
  /\ controls' = [controls EXCEPT !.short = FALSE]
  /\ UNCHANGED <<held, loop, result>>
-----------------------------------------------------------------------------
\* The frame loop: the callbacks that wait, whether animationFrameId names one, the
\* parity of predictionStep; whether the game has its connection and has started; as
\* history, whether a frame was asked for before it had.
NewLoop(online) ==
  [online |-> online, frames |-> 0, id |-> FALSE, odd |-> FALSE, started |-> FALSE,
   hidden |-> FALSE, early |-> FALSE]

\* The practice starts as its script runs, the online game when it has its connection.
StartGame ==
  /\ ~loop.started
  /\ loop' = [loop EXCEPT !.started = TRUE, !.frames = @ + 1, !.id = TRUE]
  /\ UNCHANGED <<held, controls, result>>

\* requestAnimationFrame unless one is waiting.
Schedule(l) ==
  IF l.id THEN l
  ELSE [l EXCEPT !.frames = @ + 1, !.id = TRUE, !.early = @ \/ ~l.started]

\* handleVisibilityChange.
VisibilityChange ==
  /\ Online \/ loop.started
  /\ controls' = ReleaseInputs(controls)
  /\ held' \in SUBSET held
  /\ loop' = IF loop.hidden
             THEN Schedule([loop EXCEPT !.hidden = FALSE])
             ELSE [loop EXCEPT !.hidden = TRUE, !.id = FALSE,
                               !.frames = IF loop.id THEN @ - 1 ELSE @,
                               !.early = @ /\ loop.started]
  /\ UNCHANGED result

\* playerInput.
PracticeSample(c) ==
  (c.asked \ {"running"})
    \cup (IF IsCharging(c) THEN {"attack", "heavy"} ELSE {})
    \cup (IF c.middle \/ c.short THEN {"block"} ELSE {})
    \cup (IF IsRunning(c) \/ "running" \in c.asked THEN {"run"} ELSE {})
    \cup (c.keys \cap {"move"})

\* sampleInput: while a result is shown nothing is pressed.
OnlineSample(c) == IF result THEN {} ELSE PracticeSample(c)

\* A step that changes the parity only as it sends.
PredictionStepOutOfPhase ==
  /\ controls' = IF loop.odd /\ loop.started THEN [controls EXCEPT !.asked = {}] ELSE controls
  /\ loop' = IF loop.odd THEN [loop EXCEPT !.odd = FALSE] ELSE loop

\* A step of simulatePrediction: every second one sends its sample, and the requests
\* are served.
PredictionStep ==
  /\ controls' = IF loop.odd /\ loop.started THEN [controls EXCEPT !.asked = {}] ELSE controls
  /\ loop' = [loop EXCEPT !.odd = ~@]

\* A step of simulateStep: playerInput serves them every time.
PracticeStep ==
  /\ controls' = [controls EXCEPT !.asked = {}]
  /\ UNCHANGED loop

\* A frame with a step; the frame asks for the next one.
Frame ==
  /\ ~loop.hidden /\ loop.frames > 0
  /\ IF Online THEN PredictionStep ELSE PracticeStep
  /\ UNCHANGED <<held, result>>

\* observeCombatState: the result of a match is shown, and the next match begins.
ObserveMatch ==
  /\ Online /\ loop.started
  /\ result' = ~result
  /\ controls' = IF result' THEN ReleaseInputs(controls) ELSE controls
  /\ UNCHANGED <<held, loop>>
-----------------------------------------------------------------------------
ControlsInit ==
  /\ held = {}
  /\ controls = ReleasedControls
  /\ loop \in {NewLoop(online) : online \in BOOLEAN}
  /\ result = FALSE

\* What a page hears while it is shown.
Hands ==
  \/ CancelPointer
  \/ PressHeavyKey
  \/ \E up \in BOOLEAN : Wheel(up)
  \/ \E k \in Keys : KeyUp(k)
  \/ \E airborne \in BOOLEAN, b \in Buttons :
        PressButton(b, airborne) \/ ReleaseButton(b, airborne)
  \/ \E k \in Keys, repeat, airborne, dash \in BOOLEAN : KeyDown(k, repeat, airborne, dash)

ControlsNext ==
  \/ ~loop.hidden /\ Hands
  \/ Blur
  \/ HoldMatures
  \/ ChargeFills
  \/ ShortBlockEnds
  \/ StartGame
  \/ VisibilityChange
  \/ Frame
  \/ ObserveMatch

\* Animation frames come while the page is shown.
ControlsSpec == ControlsInit /\ [][ControlsNext]_controlVars /\ WF_controlVars(Frame)
-----------------------------------------------------------------------------
\* One press of the left button strikes at most once: whichever of Space, a second
\* listener for the same event, a chord with the right button or a lost release comes
\* between (createLeftButtonCharge, onLeftPointerUp, onChordedLeftMouseUp).
OnePressOneStrike == controls.strikes <= 1

\* While the game is shown it has its frame loop, and never more than one; but an
\* online game that was hidden and shown again while it waited for its connection runs
\* two (start, handleVisibilityChange).
OneFrameLoop ==
  loop.started /\ ~loop.hidden => loop.frames = IF loop.early THEN 2 ELSE 1

\* What the hands ask for is sampled or withdrawn, however often the page is hidden in
\* between: the loop does not die with a request (frame, releaseInputs).
RequestsAreServed == loop.started /\ controls.asked # {} ~> controls.asked = {}

\* The loop of a page that is hidden and shown again is neither lost nor doubled, and
\* what was asked of it is done (frame, handleVisibilityChange).
LoopServes == []OneFrameLoop /\ RequestsAreServed

\* docs/R1_LMB_CHARGED_HEAVY_AND_LATENCY.md: holding the right button is "run/sprint
\* while physically held".
RunsWhilePhysicallyHeld ==
  "run" \in OnlineSample(controls) \ controls.asked
    => "right" \in held \/ "running" \in controls.asked
=============================================================================

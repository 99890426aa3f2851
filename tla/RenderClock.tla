---------------------------- MODULE RenderClock ----------------------------
(***************************************************************************)
(* The clock by which web/online-game.mjs paints the rivals: a little       *)
(* behind the newest snapshot, running on between two snapshots, and never  *)
(* leaping when a burst of them arrives (src/browser/smooth-motion.mjs).    *)
(* Every quantity is an age, counted back from the server's time, so that   *)
(* the state stays finite; a unit of time is one server tick, and the paint *)
(* is counted in fractions of it, of which the catch-up makes Rate where    *)
(* time makes Fraction.                                                     *)
(*                                                                          *)
(* The model begins with the first snapshot: until then sample answers its  *)
(* placeholder, tick 0, and keeps nothing.                                  *)
(***************************************************************************)
EXTENDS Integers

CONSTANTS
  Behind,       \* interpolationMs
  MaxAdvance,   \* maxAdvanceMs
  MaxFrameStep, \* maxFrameStepMs
  Rate,         \* maxCatchUpRate, as Rate / Fraction
  Fraction,
  Stall,        \* bound: the age that the newest snapshot may reach
  LongestFrame, \* bound: the time between two frames
  Furthest      \* bound: the age of a paint that frames too slow for it may still grow

ASSUME ClockAssumption ==
  /\ Behind \in Nat /\ MaxAdvance \in Nat /\ Stall \in Nat /\ Furthest \in Nat
  /\ MaxFrameStep \in Nat \ {0} /\ LongestFrame \in Nat \ {0}
  /\ Fraction \in Nat \ {0} /\ Rate \in Fraction .. (2 * Fraction)

VARIABLES
  age,      \* of networkClient.latestServerTick
  delay,    \* history: the age that the newest snapshot had when it came
  anchor,   \* of latestTick: [age, elapsed since arrivalMs], or NoAnchor
  paint,    \* of previousRenderTick, in fractions, or NoPaint
  since,    \* the time since previousFrameMs
  gap       \* targetGapTicks, in fractions

clockVars == <<age, delay, anchor, paint, since, gap>>

NoAnchor == [age |-> -1, elapsed |-> 0]
NoPaint == -1

Smaller(a, b) == IF a < b THEN a ELSE b
Larger(a, b) == IF a > b THEN a ELSE b

\* A paint that follows no faster than time goes.
NoCatchUp(time) == Fraction * Smaller(time, MaxFrameStep)

\* How far a frame may move the paint after this time (maxTicks).
MaxTicks(time) == Rate * Smaller(time, MaxFrameStep)

\* Frames that gain on the server: a longer one is cut to maxFrameStepMs, and the
\* rate makes up for the cut as far as it reaches.
FrameGains(time) == Fraction * time < Rate * MaxFrameStep

ClockInit ==
  /\ age = 0 /\ delay = 0 /\ since = 0 /\ gap = 0
  /\ anchor = NoAnchor /\ paint = NoPaint

\* The server's time goes on.
ServerTicks ==
  /\ age < Stall /\ since < LongestFrame
  /\ paint < Fraction * Furthest \/ FrameGains(since + 1)
  /\ age' = age + 1
  /\ anchor' = IF anchor = NoAnchor THEN anchor
               ELSE [age |-> anchor.age + 1, elapsed |-> Smaller(anchor.elapsed + 1, MaxAdvance)]
  /\ IF paint = NoPaint THEN UNCHANGED <<paint, since>>
     ELSE paint' = paint + Fraction /\ since' = since + 1
  /\ UNCHANGED <<delay, gap>>

\* A snapshot comes that is newer than any before, as late as it likes.
SnapshotComes(late) ==
  /\ late < age
  /\ age' = late /\ delay' = late
  /\ UNCHANGED <<anchor, paint, since, gap>>

\* sample, once in every frame that is painted
ClockFrame ==
  LET now == IF anchor = NoAnchor \/ age < anchor.age THEN [age |-> age, elapsed |-> 0] ELSE anchor
      proposed == Fraction * (now.age - now.elapsed + Behind)
      result == IF paint = NoPaint THEN proposed
                ELSE Smaller(paint, Larger(proposed, paint - MaxTicks(since)))
  IN /\ anchor' = now
     /\ paint' = result
     /\ gap' = Larger(0, result - proposed)
     /\ since' = 0
     /\ UNCHANGED <<age, delay>>

\* The page is hidden or shown: handleVisibilityChange; or the tick wraps, which anchors anew.
ClockReset ==
  /\ anchor' = NoAnchor /\ paint' = NoPaint /\ gap' = 0 /\ since' = 0
  /\ UNCHANGED <<age, delay>>

ClockNext ==
  \/ ServerTicks \/ ClockFrame \/ ClockReset
  \/ \E late \in 0 .. Stall : SnapshotComes(late)

\* Time goes on, and the browser paints.
ClockSpec ==
  ClockInit /\ [][ClockNext]_clockVars /\ WF_clockVars(ServerTicks) /\ WF_clockVars(ClockFrame)

----------------------------------------------------------------------------
Steady == delay = 0 /\ age <= MaxAdvance /\ anchor # NoAnchor /\ FrameGains(since)

\* Once the snapshots come without delay again and no frame takes longer than the
\* rate reaches, the paint makes up what a burst or long frames had left it behind,
\* though it never leaps and counts no frame for more than maxFrameStepMs, and
\* stays with the snapshots up to the time between two such frames.
PaintCatchesUp == <>[]Steady => <>[](gap < Rate * MaxFrameStep)
=============================================================================

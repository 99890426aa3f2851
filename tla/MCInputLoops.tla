--------------------------- MODULE MCInputLoops ----------------------------
(* The gestures of the page and the loops that serve it, which share no      *)
(* state with one another: a behaviour runs the one that `part` names.       *)
EXTENDS Controls, RenderClock, InputWindowTrace, InputConnection

CONSTANTS attack, heavy, dodge

VARIABLE part

pageVars == <<controlVars, clockVars, traceVars, vars>>

Part == {"controls", "clock", "ingress", "acks"}

\* A part that is not run starts in one of its states.
BrowserInit ==
  /\ part \in Part
  /\ ControlsInit /\ ClockInit /\ TraceInit /\ Init
  /\ part # "controls" => Online

In(name, Step) == part = name /\ Step /\ UNCHANGED part

PageControls(Step) ==
  /\ In("controls", Step)
  /\ UNCHANGED <<clockVars, traceVars, vars>>

PageClock(Step) ==
  /\ In("clock", Step)
  /\ UNCHANGED <<controlVars, traceVars, vars>>

ServerIngress ==
  /\ In("ingress", TraceNext)
  /\ UNCHANGED <<controlVars, clockVars, vars>>

ServerAcks(Step) ==
  /\ In("acks", Step)
  /\ UNCHANGED <<controlVars, clockVars, traceVars>>

BrowserNext ==
  \/ PageControls(ControlsNext) \/ PageClock(ClockNext) \/ ServerIngress
  \/ ServerAcks(Next)

\* The fairness of the parts' own specifications.
BrowserSpec ==
  /\ BrowserInit /\ [][BrowserNext]_<<pageVars, part>>
  /\ WF_pageVars(PageControls(Frame))
  /\ WF_pageVars(PageClock(ServerTicks)) /\ WF_pageVars(PageClock(ClockFrame))
  /\ WF_pageVars(ServerAcks(WorldStep)) /\ WF_pageVars(ServerAcks(SnapshotTick))
-----------------------------------------------------------------------------
\* Bound: what is held and asked for between two samples, one guard at a time and
\* nothing beside it, and hands that wait for the game to start.
FewRequests ==
  /\ controls.short \/ controls.middle => controls.keys = {} /\ controls.asked = {}
  /\ ~(controls.short /\ controls.middle)
  /\ loop.started \/ controls = ReleasedControls
  /\ Cardinality(held) + Cardinality(controls.keys) <= 2
  /\ Cardinality(controls.asked) <= 1 \/ controls.asked = {"jump", "attack"}
=============================================================================

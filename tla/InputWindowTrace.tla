-------------------------- MODULE InputWindowTrace --------------------------
(***************************************************************************)
(* An InputIngressWindow under the samples of one client, in any order and *)
(* any number of times, and the ledger of unwrapped ticks it implements.   *)
(* A sample is never half a cycle away from the newest one: half a cycle   *)
(* is two years of play at 30 samples a second.                            *)
(***************************************************************************)
EXTENDS InputWindow

CONSTANT LastTick     \* bound: the last client tick, counted without wrapping

ASSUME LastTickAssumption == LastTick \in Nat

VARIABLES
  ingress,     \* ingress of the handler
  clientTick,  \* history: the newest tick, counted without wrapping
  accepted     \* whether the last sample was accepted

traceVars == <<ingress, clientTick, accepted>>

TraceInit ==
  /\ ingress = NewWindow
  /\ clientTick = NoTick
  /\ accepted = FALSE

TickOf(t) == t % TickModulus

\* One sample reaches the window.
IngestSample(t) ==
  /\ clientTick # NoTick =>
       2 * t < 2 * clientTick + TickModulus /\ 2 * t > 2 * clientTick - TickModulus
  /\ ingress' = Ingest(ingress, TickOf(t))
  /\ accepted' = Accepts(ingress, TickOf(t))
  /\ clientTick' = IF clientTick = NoTick \/ t > clientTick THEN t ELSE clientTick

TraceNext == \E t \in 0 .. LastTick : IngestSample(t)

TraceSpec == TraceInit /\ [][TraceNext]_traceVars

\* The ticks that the slots stand for, read back from the newest one.
Remembered ==
  IF clientTick = NoTick
  THEN {}
  ELSE {t \in (clientTick - HistoryTicks) .. clientTick :
          ingress.seen[SlotIndex(TickOf(t))]}

Ledger == INSTANCE TickLedger WITH Tick <- 0 .. LastTick, newest <- clientTick,
                                   seen <- Remembered

\* The window accepts exactly the ticks that a ledger of all accepted ticks would
\* accept: across the wrap of u32, with two ticks sharing a slot, and after a jump
\* longer than the ring (ingest, advance_newest).
ImplementsLedger == Ledger!Spec
=============================================================================

---------------------------- MODULE InputWindow ----------------------------
(***************************************************************************)
(* The InputIngressWindow of a connection: it accepts each client tick at  *)
(* most once, with a ring of slots indexed by the low bits of a wrapping   *)
(* u32 tick.  A connection owns one, so a window is a value.               *)
(***************************************************************************)
EXTENDS Integers

CONSTANTS
  TickModulus,    \* 2^32 in the program
  SlotCount,      \* the power of two above HistoryTicks, 256 in the program
  HistoryTicks,   \* INPUT_HISTORY_TICKS, 180 in the program
  NoTick          \* newest_tick is None

ASSUME WindowAssumption ==
  /\ HistoryTicks \in Nat /\ HistoryTicks >= 1
  /\ SlotCount \in Nat /\ SlotCount > HistoryTicks
  /\ TickModulus \in Nat /\ TickModulus % SlotCount = 0 /\ TickModulus >= 2 * SlotCount
  /\ NoTick \notin Int

WireTick == 0 .. (TickModulus - 1)

Slot == 0 .. (SlotCount - 1)

Window == [newest : WireTick \cup {NoTick}, seen : [Slot -> BOOLEAN]]

NewWindow == [newest |-> NoTick, seen |-> [slot \in Slot |-> FALSE]]

TickDistance(newer, older) == (newer - older) % TickModulus

IsTickNewer(candidate, reference) ==
  candidate # reference /\ 2 * TickDistance(candidate, reference) < TickModulus

SlotIndex(tick) == tick % SlotCount

\* The slots of the ticks up to the new one, but for the new one itself.
SkippedSlots(newest, tick) ==
  {SlotIndex(newest + k) : k \in 1 .. (TickDistance(tick, newest) - 1)}

\* The slots of the ticks that enter the window.
EnteringSlots(newest, tick) ==
  {SlotIndex(newest + k) : k \in 1 .. TickDistance(tick, newest)}

\* advance_newest: every tick that enters the window clears the slot it shares
\* with a tick that has left it.
AdvanceNewest(window, tick) ==
  [newest |-> tick,
   seen   |-> [slot \in Slot |->
                 /\ window.seen[slot]
                 /\ window.newest # NoTick =>
                      /\ TickDistance(tick, window.newest) < SlotCount
                      /\ slot \notin EnteringSlots(window.newest, tick)]]

\* The window once it has noticed a tick.
Noticed(window, tick) ==
  IF window.newest = NoTick \/ IsTickNewer(tick, window.newest)
  THEN AdvanceNewest(window, tick)
  ELSE window

\* The body of the loop of ingest: is the sample accepted, and the window after.
Accepts(window, tick) ==
  /\ TickDistance(Noticed(window, tick).newest, tick) <= HistoryTicks
  /\ ~Noticed(window, tick).seen[SlotIndex(tick)]

Ingest(window, tick) ==
  IF Accepts(window, tick)
  THEN [Noticed(window, tick) EXCEPT !.seen[SlotIndex(tick)] = TRUE]
  ELSE Noticed(window, tick)
=============================================================================

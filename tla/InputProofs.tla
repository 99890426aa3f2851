---------------------------- MODULE InputProofs ----------------------------
(***************************************************************************)
(* The input path, for any history, ring and cycle of ticks, any number of *)
(* samples and any redundancy.                                             *)
(***************************************************************************)
EXTENDS InputWindowTrace, InputConnection, SequenceTheorems, WellFoundedInduction, TLAPS

(***************************************************************************)
(* Ticks of the wire.                                                      *)
(***************************************************************************)

\* Division by a positive number, as the arithmetic of the lemmas below needs it.
LEMMA DivisionOf ==
  ASSUME NEW a \in Int, NEW b \in Int, b > 0
  PROVE  /\ a \div b \in Int
         /\ a % b \in 0 .. b - 1
         /\ a = b * (a \div b) + (a % b)
  BY Z3

\* The only multiple of b nearer to zero than b is zero.
LEMMA SmallMultiple ==
  ASSUME NEW b \in Int, b > 0, NEW q \in Int, -b < b * q, b * q < b
  PROVE  q = 0
<1>1. CASE q >= 1
  BY <1>1, b * q >= b, Z3
<1>2. CASE q <= -1
  BY <1>2, b * q <= -b, Z3
<1> QED BY <1>1, <1>2

\* The remainder is the only number below b that a differs from by a multiple of b.
LEMMA RemainderIs ==
  ASSUME NEW b \in Int, b > 0, NEW q \in Int, NEW r \in 0 .. b - 1, NEW a \in Int, a = b * q + r
  PROVE  a % b = r
<1> DEFINE p == a \div b
<1>1. p \in Int /\ a % b \in 0 .. b - 1 /\ a = b * p + (a % b)
  BY DivisionOf
<1> HIDE DEF p
<1>2. b * (q - p) = (a % b) - r
  BY <1>1
<1>3. q - p = 0
  BY <1>1, <1>2, SmallMultiple
<1> QED BY <1>2, <1>3, <1>1

\* Two numbers with one remainder are b apart, or the same.
LEMMA SameRemainder ==
  ASSUME NEW b \in Int, b > 0, NEW a \in Int, NEW c \in Int, a % b = c % b, -b < a - c, a - c < b
  PROVE  a = c
<1> DEFINE p == a \div b
           q == c \div b
<1>1. p \in Int /\ a % b \in 0 .. b - 1 /\ a = b * p + (a % b)
  BY DivisionOf
<1>2. q \in Int /\ c = b * q + (c % b)
  BY DivisionOf
<1> HIDE DEF p, q
<1>3. b * (p - q) = a - c
  BY <1>1, <1>2
<1>4. p - q = 0
  BY <1>1, <1>2, <1>3, SmallMultiple
<1> QED BY <1>3, <1>4, <1>1, <1>2

\* Whole cycles do not change a remainder.
LEMMA CyclesDropOut ==
  ASSUME NEW b \in Int, b > 0, NEW a \in Int, NEW k \in Int
  PROVE  (a + b * k) % b = a % b
<1> DEFINE p == a \div b
<1>1. p \in Int /\ a % b \in 0 .. b - 1 /\ a = b * p + (a % b)
  BY DivisionOf
<1> HIDE DEF p
<1>0. b * (p + k) = b * p + b * k
  BY <1>1
<1> DEFINE r == a % b
<1>2. a + b * k = b * (p + k) + r /\ r \in 0 .. b - 1
  BY <1>0, <1>1
<1> HIDE DEF r
<1>3. p + k \in Int /\ a + b * k \in Int
  BY <1>1
<1> DEFINE whole == a + b * k
           cycles == p + k
<1>4. whole \in Int /\ cycles \in Int /\ whole = b * cycles + r
  BY <1>2, <1>3
<1> HIDE DEF whole, cycles
<1>5. whole % b = r
  BY <1>2, <1>4, RemainderIs
<1> QED BY <1>5 DEF r, whole

\* What the window is assumed to be.
LEMMA Sizes ==
  /\ HistoryTicks \in Nat /\ SlotCount \in Nat /\ TickModulus \in Nat
  /\ HistoryTicks >= 1 /\ SlotCount > HistoryTicks /\ TickModulus >= 2 * SlotCount
  /\ SlotCount > 0 /\ TickModulus > 0 /\ SlotCount \in Int /\ TickModulus \in Int
  /\ NoTick \notin Int
BY WindowAssumption

\* The cycle of ticks is a whole number of turns of the ring.
LEMMA CycleIsWholeRings ==
  \E rings \in Int : TickModulus = SlotCount * rings
<1>1. TickModulus = SlotCount * (TickModulus \div SlotCount) + (TickModulus % SlotCount)
  BY Sizes, DivisionOf
<1>2. TickModulus \div SlotCount \in Int
  BY Sizes, DivisionOf
<1>3. TickModulus % SlotCount = 0
  BY WindowAssumption
<1> DEFINE r == TickModulus \div SlotCount
<1> HIDE DEF r
<1>4. r \in Int /\ TickModulus = SlotCount * r
  BY <1>1, <1>2, <1>3, Sizes DEF r
<1> QED BY <1>4

\* The slot of a tick of the wire, and of those after it, is that of the unwrapped tick.
LEMMA SlotOfTick ==
  ASSUME NEW t \in Int, NEW k \in Int
  PROVE  SlotIndex(TickOf(t) + k) = (t + k) % SlotCount
<1>1. PICK rings \in Int : TickModulus = SlotCount * rings
  BY CycleIsWholeRings
<1> DEFINE p == t \div TickModulus
<1>2. p \in Int /\ t % TickModulus \in Int /\ t = TickModulus * p + (t % TickModulus)
  BY Sizes, DivisionOf
<1> HIDE DEF p
<1>3. TickModulus * p = SlotCount * (rings * p) /\ rings * p \in Int
  BY <1>1, <1>2, Sizes
<1>4. t + k = ((t % TickModulus) + k) + SlotCount * (rings * p)
  BY <1>2, <1>3, Sizes
<1> DEFINE u == (t % TickModulus) + k
           turns == rings * p
<1>5. u \in Int /\ turns \in Int /\ t + k = u + SlotCount * turns
  BY <1>2, <1>3, <1>4
<1> HIDE DEF u, turns
<1>6. (u + SlotCount * turns) % SlotCount = u % SlotCount
  BY <1>5, CyclesDropOut, Sizes
<1>7. (t + k) % SlotCount = u % SlotCount
  BY <1>5, <1>6
<1> QED BY <1>7 DEF u, SlotIndex, TickOf

\* The slot of a tick.
LEMMA TheSlot ==
  ASSUME NEW t \in Int
  PROVE  /\ SlotIndex(TickOf(t)) = t % SlotCount
         /\ t % SlotCount \in Slot
         /\ TickOf(t) \in WireTick /\ TickOf(t) \in Int
<1>1. SlotIndex(TickOf(t) + 0) = (t + 0) % SlotCount
  BY SlotOfTick
<1>2. t % SlotCount \in Slot /\ TickOf(t) \in WireTick
  BY DivisionOf, Sizes DEF Slot, WireTick, TickOf
<1>3. TickOf(t) \in Int
  BY <1>2, Sizes DEF WireTick
<1> QED BY <1>1, <1>2, <1>3

\* Two ticks of one slot are a turn of the ring apart, or the same.
LEMMA SlotsApart ==
  ASSUME NEW s \in Int, NEW t \in Int, s % SlotCount = t % SlotCount,
         -SlotCount < s - t, s - t < SlotCount
  PROVE  s = t
BY SameRemainder, Sizes

\* The distance on the wire of ticks less than a cycle apart (tick_distance).
LEMMA DistanceIs ==
  ASSUME NEW x \in Int, NEW y \in Int, -TickModulus < x - y, x - y < TickModulus
  PROVE  TickDistance(TickOf(x), TickOf(y)) = IF x >= y THEN x - y ELSE TickModulus + (x - y)
<1> DEFINE p == x \div TickModulus
           q == y \div TickModulus
<1>1. /\ p \in Int /\ x % TickModulus \in Int /\ x = TickModulus * p + (x % TickModulus)
      /\ q \in Int /\ y % TickModulus \in Int /\ y = TickModulus * q + (y % TickModulus)
  BY Sizes, DivisionOf
<1> HIDE DEF p, q
<1>2. (x % TickModulus) - (y % TickModulus) = (x - y) + TickModulus * (q - p)
  BY <1>1, Sizes
<1>3. ((x % TickModulus) - (y % TickModulus)) % TickModulus = (x - y) % TickModulus
  <2> DEFINE d == x - y
             turns == q - p
             u == (x % TickModulus) - (y % TickModulus)
  <2>1. d \in Int /\ turns \in Int /\ u = d + TickModulus * turns
    BY <1>1, <1>2
  <2> HIDE DEF d, turns, u
  <2>2. (d + TickModulus * turns) % TickModulus = d % TickModulus
    BY <2>1, CyclesDropOut, Sizes
  <2>3. u % TickModulus = d % TickModulus
    BY <2>1, <2>2
  <2> QED BY <2>3 DEF d, u
<1>4. CASE x >= y
  <2>1. x - y \in 0 .. TickModulus - 1 /\ x - y = TickModulus * 0 + (x - y)
    BY <1>4, Sizes
  <2>2. (x - y) % TickModulus = x - y
    BY <2>1, RemainderIs, Sizes
  <2> QED BY <2>2, <1>3, <1>4 DEF TickDistance, TickOf
<1>5. CASE x < y
  <2> DEFINE r == TickModulus + (x - y)
  <2>1. r \in 0 .. TickModulus - 1 /\ x - y = TickModulus * (-1) + r
    BY <1>5, Sizes
  <2> HIDE DEF r
  <2>2. (x - y) % TickModulus = r
    BY <2>1, RemainderIs, Sizes
  <2> QED BY <2>2, <1>3, <1>5 DEF TickDistance, TickOf, r
<1> QED BY <1>4, <1>5

\* Within half a cycle, newer on the wire is later (is_tick_newer).
LEMMA NewerIsLater ==
  ASSUME NEW t \in Int, NEW c \in Int, 2 * t < 2 * c + TickModulus, 2 * t > 2 * c - TickModulus
  PROVE  IsTickNewer(TickOf(t), TickOf(c)) <=> t > c
<1>1. TickDistance(TickOf(t), TickOf(c)) = IF t >= c THEN t - c ELSE TickModulus + (t - c)
  BY DistanceIs, Sizes
<1>2. TickOf(t) = TickOf(c) <=> t = c
  <2>1. ASSUME t % TickModulus = c % TickModulus
        PROVE  t = c
    <3>1. -TickModulus < t - c /\ t - c < TickModulus
      BY Sizes
    <3> QED BY <2>1, <3>1, SameRemainder, Sizes
  <2> QED BY <2>1 DEF TickOf
<1> QED BY <1>1, <1>2, Sizes DEF IsTickNewer

-----------------------------------------------------------------------------
(***************************************************************************)
(* A window as a value, and the unwrapped tick it is at.                   *)
(***************************************************************************)

At(w, c) ==
  /\ w \in Window
  /\ IF c = NoTick THEN w = NewWindow ELSE c \in Int /\ w.newest = TickOf(c)

Near(t, c) == c # NoTick => 2 * t < 2 * c + TickModulus /\ 2 * t > 2 * c - TickModulus

Latest(c, t) == IF c = NoTick \/ t > c THEN t ELSE c

\* The ticks within the history whose slots are set.
Held(w, c) ==
  IF c = NoTick THEN {} ELSE {s \in (c - HistoryTicks) .. c : w.seen[s % SlotCount]}

\* The newest tick after a sample.
LEMMA TopIs ==
  ASSUME NEW w, NEW c, At(w, c), NEW t \in Int, Near(t, c)
  PROVE  /\ Latest(c, t) \in Int /\ Latest(c, t) # NoTick
         /\ t <= Latest(c, t) /\ 2 * (Latest(c, t) - t) < TickModulus
         /\ c # NoTick =>
              c \in Int /\ c <= Latest(c, t) /\ 2 * (Latest(c, t) - c) < TickModulus
<1>1. CASE c = NoTick
  BY <1>1, Sizes DEF At, Near, Latest
<1>2. CASE c # NoTick
  BY <1>2, Sizes DEF At, Near, Latest
<1> QED BY <1>1, <1>2

\* A window moves on for a later tick and for no other.
LEMMA NoticedIs ==
  ASSUME NEW w, NEW c, At(w, c), NEW t \in Int, Near(t, c)
  PROVE  Noticed(w, TickOf(t)) =
           IF c = NoTick \/ t > c
           THEN AdvanceNewest(w, TickOf(t))
           ELSE w
<1>1. CASE c = NoTick
  BY <1>1 DEF At, Noticed, NewWindow
<1>2. CASE c # NoTick
  <2>1. c \in Int /\ w.newest = TickOf(c) /\ w.newest # NoTick
    BY <1>2, Sizes, TheSlot DEF At
  <2>2. IsTickNewer(TickOf(t), TickOf(c)) <=> t > c
    BY <1>2, <2>1, NewerIsLater, Sizes DEF Near
  <2> QED BY <1>2, <2>1, <2>2 DEF Noticed
<1> QED BY <1>1, <1>2

\* A window that has noticed a tick is a window at the newest tick.
LEMMA NoticedIsAWindow ==
  ASSUME NEW w, NEW c, At(w, c), NEW t \in Int, Near(t, c)
  PROVE  /\ Noticed(w, TickOf(t)) \in Window
         /\ Noticed(w, TickOf(t)).newest = TickOf(Latest(c, t))
<1>1. TickOf(t) \in WireTick
  BY TheSlot
<1>2. CASE c = NoTick \/ t > c
  <2>1. Noticed(w, TickOf(t)) = AdvanceNewest(w, TickOf(t))
    BY <1>2, NoticedIs
  <2>2. AdvanceNewest(w, TickOf(t)) \in Window
    BY <1>1 DEF At, AdvanceNewest, Window
  <2>3. AdvanceNewest(w, TickOf(t)).newest = TickOf(Latest(c, t))
    BY <1>2 DEF AdvanceNewest, Latest
  <2> QED BY <2>1, <2>2, <2>3
<1>3. CASE ~(c = NoTick \/ t > c)
  BY <1>3, NoticedIs DEF At, Latest
<1> QED BY <1>2, <1>3

\* Of the ticks within the new window, a slot tells the same as before: the ticks that
\* enter have theirs cleared, and none of those that stay shares one of them.
LEMMA NoticedKeeps ==
  ASSUME NEW w, NEW c, At(w, c), NEW t \in Int, Near(t, c),
         NEW s \in (Latest(c, t) - HistoryTicks) .. Latest(c, t)
  PROVE  Noticed(w, TickOf(t)).seen[s % SlotCount] <=> s \in Held(w, c)
<1> DEFINE slot == s % SlotCount
<1>1. s \in Int /\ slot \in Slot /\ slot = s % SlotCount
  BY TopIs, TheSlot, Sizes
<1> HIDE DEF slot
<1>2. CASE c = NoTick
  <2>1. w = NewWindow /\ Held(w, c) = {}
    BY <1>2 DEF At, Held
  <2>2. ~w.seen[slot]
    BY <2>1, <1>1 DEF NewWindow
  <2>3. ~AdvanceNewest(w, TickOf(t)).seen[slot]
    BY <2>2, <1>1 DEF AdvanceNewest
  <2> QED BY <1>1, <1>2, <2>1, <2>3, NoticedIs
<1>3. CASE c # NoTick /\ t > c
  <2>0. /\ c \in Int /\ t \in Int /\ Latest(c, t) = t
        /\ t - c < TickModulus /\ w.newest = TickOf(c)
    <3>1. c \in Int /\ t \in Int /\ 2 * (Latest(c, t) - c) < TickModulus
      BY <1>3, TopIs
    <3>2. Latest(c, t) = t /\ w.newest = TickOf(c)
      BY <1>3 DEF At, Latest
    <3> QED BY <1>3, <3>1, <3>2, Sizes
  <2>1. w.newest # NoTick
    BY <2>0, TheSlot, Sizes
  <2>2. TickDistance(TickOf(t), TickOf(c)) = t - c
    BY <1>3, <2>0, DistanceIs, Sizes
  <2>3. slot \in EnteringSlots(w.newest, TickOf(t)) <=>
          \E k \in 1 .. (t - c) : slot = (c + k) % SlotCount
    <3>1. \A k \in 1 .. (t - c) :
            SlotIndex(w.newest + k) = (c + k) % SlotCount
      BY <2>0, SlotOfTick
    <3> QED BY <2>2, <3>1, <2>0 DEF EnteringSlots
  <2>4. Noticed(w, TickOf(t)).seen[slot] <=>
          /\ w.seen[slot]
          /\ t - c < SlotCount
          /\ slot \notin EnteringSlots(w.newest, TickOf(t))
    BY <1>1, <1>3, <2>1, <2>2, <2>0, NoticedIs DEF AdvanceNewest
  <2>5. CASE s > c
    <3>1. s - c \in 1 .. (t - c) /\ c + (s - c) = s
      BY <1>1, <2>0, <2>5
    <3>2. slot \in EnteringSlots(w.newest, TickOf(t))
      BY <1>1, <2>3, <3>1
    <3>3. s \notin Held(w, c)
      BY <1>1, <2>0, <2>5 DEF Held
    <3> QED BY <1>1, <2>4, <3>2, <3>3
  <2>6. CASE s <= c
    <3>1. s \in (c - HistoryTicks) .. c
      BY <1>1, <1>3, <2>0, <2>6, Sizes
    <3>2. s \in Held(w, c) <=> w.seen[slot]
      BY <1>1, <1>3, <3>1 DEF Held
    <3>3. t - c < SlotCount
      BY <1>1, <2>0, <2>6, Sizes
    <3>4. ASSUME NEW k \in 1 .. (t - c), slot = (c + k) % SlotCount
          PROVE  FALSE
      <4> DEFINE e == c + k
      <4>1. e \in Int /\ e > s /\ e - s < SlotCount /\ s - e < 0 /\ s - e > -SlotCount
        BY <1>1, <2>0, <2>6, Sizes
      <4> HIDE DEF e
      <4>2. s % SlotCount = e % SlotCount
        BY <1>1, <3>4 DEF e
      <4>3. s = e
        BY <1>1, <4>1, <4>2, SlotsApart, Sizes
      <4> QED BY <1>1, <4>1, <4>3
    <3> QED BY <1>1, <2>3, <2>4, <3>2, <3>3, <3>4
  <2> QED BY <1>1, <2>0, <2>5, <2>6
<1>4. CASE c # NoTick /\ ~(t > c)
  <2>1. Noticed(w, TickOf(t)) = w /\ Latest(c, t) = c
    BY <1>4, NoticedIs DEF Latest
  <2> QED BY <1>1, <1>4, <2>1 DEF Held
<1> QED BY <1>2, <1>3, <1>4

\* A sample is accepted when it is within the window and not remembered (ingest).
LEMMA AcceptsIs ==
  ASSUME NEW w, NEW c, At(w, c), NEW t \in Int, Near(t, c)
  PROVE  Accepts(w, TickOf(t)) <=> t \notin Held(w, c) /\ Latest(c, t) - t <= HistoryTicks
<1>1. Latest(c, t) \in Int /\ t \in Int /\ t <= Latest(c, t) /\ Latest(c, t) - t < TickModulus
  BY TopIs, Sizes
<1>2. TickDistance(Noticed(w, TickOf(t)).newest, TickOf(t)) = Latest(c, t) - t
  BY <1>1, NoticedIsAWindow, DistanceIs, Sizes
<1>3. CASE Latest(c, t) - t <= HistoryTicks
  <2>1. t \in (Latest(c, t) - HistoryTicks) .. Latest(c, t)
    BY <1>1, <1>3, Sizes
  <2>2. Noticed(w, TickOf(t)).seen[t % SlotCount] <=> t \in Held(w, c)
    BY <2>1, NoticedKeeps
  <2> QED BY <1>1, <1>2, <1>3, <2>2, TheSlot DEF Accepts
<1>4. CASE ~(Latest(c, t) - t <= HistoryTicks)
  BY <1>2, <1>4 DEF Accepts
<1> QED BY <1>3, <1>4

\* A window remembers what it remembered, and the sample.
LEMMA IngestedIs ==
  ASSUME NEW w, NEW c, At(w, c), NEW t \in Int, Near(t, c),
         NEW s \in (Latest(c, t) - HistoryTicks) .. Latest(c, t)
  PROVE  Ingest(w, TickOf(t)).seen[s % SlotCount] <=> s \in Held(w, c) \/ s = t
<1> DEFINE noticed == Noticed(w, TickOf(t))
<1>1. Latest(c, t) \in Int /\ t \in Int /\ t <= Latest(c, t) /\ s \in Int /\ s % SlotCount \in Slot
  BY TopIs, TheSlot, Sizes
<1>2. noticed.seen[s % SlotCount] <=> s \in Held(w, c)
  BY NoticedKeeps
<1>3. /\ noticed.seen \in [Slot -> BOOLEAN]
      /\ noticed \in [newest : WireTick \cup {NoTick}, seen : [Slot -> BOOLEAN]]
  BY NoticedIsAWindow DEF Window
<1> HIDE DEF noticed
<1>4. CASE Accepts(w, TickOf(t))
  <2>1. Ingest(w, TickOf(t)) = [noticed EXCEPT !.seen[t % SlotCount] = TRUE]
    BY <1>1, <1>4, TheSlot DEF Ingest, noticed
  <2>2. Ingest(w, TickOf(t)).seen = [noticed.seen EXCEPT ![t % SlotCount] = TRUE]
    BY <1>3, <2>1
  <2>3. Ingest(w, TickOf(t)).seen[s % SlotCount] <=>
          noticed.seen[s % SlotCount] \/ s % SlotCount = t % SlotCount
    BY <1>1, <1>3, <2>2
  <2>4. Latest(c, t) - t <= HistoryTicks
    BY <1>4, AcceptsIs
  <2>5. s % SlotCount = t % SlotCount => s = t
    BY <1>1, <2>4, SlotsApart, Sizes
  <2> QED BY <1>2, <2>3, <2>5
<1>5. CASE ~Accepts(w, TickOf(t))
  <2>1. Ingest(w, TickOf(t)) = noticed
    BY <1>5 DEF Ingest, noticed
  <2>2. s = t => s \in Held(w, c)
    <3>1. Latest(c, t) - t <= HistoryTicks \/ s # t
      BY <1>1, Sizes
    <3> QED BY <1>5, <3>1, AcceptsIs
  <2> QED BY <1>2, <2>1, <2>2
<1> QED BY <1>4, <1>5

\* The window after a sample is at the newest tick.
LEMMA IngestedIsAt ==
  ASSUME NEW w, NEW c, At(w, c), NEW t \in Int, Near(t, c)
  PROVE  At(Ingest(w, TickOf(t)), Latest(c, t))
<1> DEFINE noticed == Noticed(w, TickOf(t))
           slot == SlotIndex(TickOf(t))
<1>1. noticed \in Window /\ noticed.newest = TickOf(Latest(c, t)) /\ slot \in Slot
  BY NoticedIsAWindow, TheSlot
<1>2. \/ Ingest(w, TickOf(t)) = noticed
      \/ Ingest(w, TickOf(t)) = [noticed EXCEPT !.seen[slot] = TRUE]
  BY DEF Ingest
<1> HIDE DEF noticed, slot
<1>3. Ingest(w, TickOf(t)) \in Window /\ Ingest(w, TickOf(t)).newest = TickOf(Latest(c, t))
  BY <1>1, <1>2 DEF Window
<1> QED BY <1>3, TopIs DEF At

\* What a window remembers after a sample, as the ledger says it.
LEMMA HeldAfter ==
  ASSUME NEW w, NEW c, At(w, c), NEW t \in Int, Near(t, c)
  PROVE  Held(Ingest(w, TickOf(t)), Latest(c, t)) =
           {s \in Held(w, c) \cup {t} : Latest(c, t) - s <= HistoryTicks}
<1> DEFINE after == Held(Ingest(w, TickOf(t)), Latest(c, t))
<1>1. Latest(c, t) \in Int /\ Latest(c, t) # NoTick /\ t <= Latest(c, t)
  BY TopIs
<1>2. ASSUME NEW s \in Held(w, c)
      PROVE  s \in Int /\ s <= Latest(c, t)
  <2>1. c # NoTick
    BY DEF Held
  <2> QED BY <2>1, TopIs, Sizes DEF Held
<1>3. after = {s \in (Latest(c, t) - HistoryTicks) .. Latest(c, t) :
                 Ingest(w, TickOf(t)).seen[s % SlotCount]}
  BY <1>1 DEF Held
<1> HIDE DEF after
<1>4. ASSUME NEW s \in after
      PROVE  s \in Held(w, c) \cup {t} /\ Latest(c, t) - s <= HistoryTicks
  BY <1>1, <1>3, IngestedIs, Sizes
<1>5. ASSUME NEW s \in Held(w, c) \cup {t}, Latest(c, t) - s <= HistoryTicks
      PROVE  s \in after
  <2>1. s \in (Latest(c, t) - HistoryTicks) .. Latest(c, t)
    BY <1>1, <1>2, <1>5, Sizes
  <2> QED BY <1>3, <1>5, <2>1, IngestedIs
<1> QED BY <1>4, <1>5 DEF after

\* What a window remembers, by the slots of the ticks on the wire.
LEMMA HeldBySlots ==
  ASSUME NEW w, NEW c, At(w, c)
  PROVE  Held(w, c) = IF c = NoTick THEN {}
                      ELSE {t \in (c - HistoryTicks) .. c : w.seen[SlotIndex(TickOf(t))]}
<1>1. ASSUME c # NoTick, NEW t \in (c - HistoryTicks) .. c
      PROVE  SlotIndex(TickOf(t)) = t % SlotCount
  BY <1>1, Sizes, TheSlot DEF At
<1> QED BY <1>1 DEF Held
-----------------------------------------------------------------------------
(***************************************************************************)
(* The window implements the ledger.                                       *)
(***************************************************************************)

\* The window is at the newest tick of the history.
Sync == At(ingress, clientTick)

\* A sample is an offer to the ledger.
LEMMA SampleIsOffered ==
  ASSUME Sync, NEW t \in 0 .. LastTick, IngestSample(t)
  PROVE  Sync' /\ Ledger!Offer(t)
<1>1. t \in Int /\ At(ingress, clientTick) /\ Near(t, clientTick)
  BY LastTickAssumption DEF Sync, IngestSample, Near
<1>2. ingress' = Ingest(ingress, TickOf(t)) /\ clientTick' = Latest(clientTick, t)
  BY DEF IngestSample, Latest
<1>3. At(ingress', clientTick')
  BY <1>1, <1>2, IngestedIsAt
<1>4. Remembered = Held(ingress, clientTick)
  BY <1>1, HeldBySlots DEF Remembered
<1>5. Remembered' = Held(ingress', clientTick')
  BY <1>3, HeldBySlots DEF Remembered
<1>6. Ledger!Newer(t) = Latest(clientTick, t)
  BY DEF Ledger!Newer, Latest
<1>7. accepted' = (t \notin Remembered /\ Latest(clientTick, t) - t <= HistoryTicks)
  <2>1. Accepts(ingress, TickOf(t)) \in BOOLEAN
    BY DEF Accepts
  <2>2. Accepts(ingress, TickOf(t)) <=>
          t \notin Remembered /\ Latest(clientTick, t) - t <= HistoryTicks
    BY <1>1, <1>4, AcceptsIs
  <2> QED BY <2>1, <2>2 DEF IngestSample
<1>8. Remembered' = {s \in Remembered \cup {t} : Latest(clientTick, t) - s <= HistoryTicks}
  BY <1>1, <1>2, <1>4, <1>5, HeldAfter
<1> QED BY <1>2, <1>3, <1>6, <1>7, <1>8 DEF Ledger!Offer, Sync

\* However long the history, the ring and the cycle are, the window accepts exactly the
\* ticks that a ledger of unwrapped ticks accepts (ingest, advance_newest).
THEOREM TheWindowIsALedger == TraceSpec => ImplementsLedger
<1>1. TraceInit => Sync
  <2>1. NewWindow \in Window
    BY DEF NewWindow, Window
  <2> QED BY <2>1 DEF TraceInit, Sync, At
<1>2. Sync /\ [TraceNext]_traceVars => Sync'
  <2>1. ASSUME Sync, UNCHANGED traceVars
        PROVE  Sync'
    BY <2>1 DEF Sync, traceVars
  <2> QED BY <2>1, SampleIsOffered DEF TraceNext
<1>3. TraceInit => Ledger!Init
  BY DEF TraceInit, Ledger!Init, Remembered
<1>4. Sync /\ [TraceNext]_traceVars => [Ledger!Next]_<<clientTick, Remembered, accepted>>
  <2>1. ASSUME Sync, TraceNext
        PROVE  Ledger!Next
    BY <2>1, SampleIsOffered DEF TraceNext, Ledger!Next
  <2>2. ASSUME UNCHANGED traceVars
        PROVE  UNCHANGED <<clientTick, Remembered, accepted>>
    BY <2>2 DEF traceVars, Remembered
  <2> QED BY <2>1, <2>2
<1> QED BY <1>1, <1>2, <1>3, <1>4, PTL DEF TraceSpec, ImplementsLedger, Ledger!Spec
-----------------------------------------------------------------------------
(***************************************************************************)
(* The batches: a sample is accepted at most once.                         *)
(***************************************************************************)

\* What the connection is assumed to be.
LEMMA ConnectionSizes ==
  /\ Attack # Heavy
  /\ Gesture \subseteq SUBSET InputButton
  /\ Redundancy \in Nat /\ Redundancy > 0 /\ MaxAcks \in Nat /\ MaxAcks > 0
  /\ PublishEvery \in Nat /\ PublishEvery > 0 /\ 2 * PublishEvery <= TickModulus
  /\ FirstTick \in Int
  /\ LastInput \in Nat /\ 2 * LastInput < TickModulus
  /\ NoSample \notin Int
BY ConnectionAssumption DEF WireTick

\* Of a set of numbers one is the least.
LEMMA LeastOf ==
  ASSUME NEW S \in SUBSET Nat, S # {}
  PROVE  \E m \in S : \A k \in S : m <= k
<1>1. PICK m \in S : \A k \in S : <<k, m>> \notin OpToRel(<, Nat)
  BY WFMin, NatLessThanWellFounded, Zenon
<1>2. \A k \in S : ~(k < m)
  BY <1>1, Zenon DEF OpToRel
<1> QED BY <1>2

\* A window that remembers the samples of a set, as far as its history goes, in so far as
\* they may still be accepted.
KnowsFrom(w, c, samples) ==
  /\ At(w, c)
  /\ c = NoTick => samples = {}
  /\ c # NoTick => c - FirstTick \in SampleNumber
  /\ samples \subseteq SampleNumber
  /\ \A n \in samples :
       FirstTick + n <= c /\ (c - (FirstTick + n) <= HistoryTicks => FirstTick + n \in Held(w, c))

Knows(w, samples) == \E c \in Int \cup {NoTick} : KnowsFrom(w, c, samples)

\* A sample that is accepted is new, and the window knows it from then on (ingest).
LEMMA IngestKnows ==
  ASSUME NEW w, NEW samples, Knows(w, samples), NEW n \in SampleNumber
  PROVE  /\ Accepts(w, Wire(n)) => n \notin samples
         /\ Knows(Ingest(w, Wire(n)), samples \cup {n})
         /\ Ingest(w, Wire(n)).newest \in Int
<1>1. PICK c \in Int \cup {NoTick} : KnowsFrom(w, c, samples)
  BY DEF Knows
<1> DEFINE t == FirstTick + n
           top == Latest(c, t)
           after == Ingest(w, Wire(n))
<1>2. t \in Int /\ n \in Int /\ 1 <= n /\ n <= LastInput /\ TickOf(t) = Wire(n)
  BY ConnectionSizes DEF SampleNumber, TickOf, Wire
<1>3. At(w, c) /\ Near(t, c)
  <2>1. ASSUME c # NoTick
        PROVE  c \in Int /\ 1 <= c - FirstTick /\ c - FirstTick <= LastInput
    BY <1>1, <2>1, ConnectionSizes DEF KnowsFrom, SampleNumber
  <2>2. ASSUME c # NoTick
        PROVE  2 * t < 2 * c + TickModulus /\ 2 * t > 2 * c - TickModulus
    BY <1>2, <2>1, <2>2, ConnectionSizes, Sizes
  <2> QED BY <1>1, <2>2 DEF KnowsFrom, Near
<1>4. top \in Int /\ top # NoTick /\ t <= top
  BY <1>2, <1>3, TopIs
<1>5. top - FirstTick \in SampleNumber
  BY <1>1, <1>2, ConnectionSizes DEF KnowsFrom, Latest, SampleNumber
<1>6. At(after, top)
  BY <1>2, <1>3, IngestedIsAt
<1>7. Held(after, top) = {s \in Held(w, c) \cup {t} : top - s <= HistoryTicks}
  BY <1>2, <1>3, HeldAfter
<1>8. Accepts(w, Wire(n)) <=> t \notin Held(w, c) /\ top - t <= HistoryTicks
  BY <1>2, <1>3, AcceptsIs
<1> HIDE DEF after
<1>9. ASSUME NEW m \in samples
      PROVE  /\ m \in Int /\ FirstTick + m <= c /\ c \in Int /\ c <= top
             /\ c - (FirstTick + m) <= HistoryTicks => FirstTick + m \in Held(w, c)
  BY <1>1, <1>2, ConnectionSizes DEF KnowsFrom, SampleNumber, Latest
<1> HIDE DEF top
<1>10. ASSUME n \in samples
       PROVE  ~Accepts(w, Wire(n))
  BY <1>2, <1>4, <1>8, <1>9, <1>10, ConnectionSizes, Sizes
<1>11. ASSUME NEW m \in samples \cup {n}
       PROVE  /\ FirstTick + m <= top
              /\ top - (FirstTick + m) <= HistoryTicks => FirstTick + m \in Held(after, top)
  <2>1. CASE m \in samples
    <3>1. FirstTick + m <= top
      BY <1>4, <1>9, <2>1, ConnectionSizes
    <3>2. ASSUME top - (FirstTick + m) <= HistoryTicks
          PROVE  FirstTick + m \in Held(w, c)
      BY <1>4, <1>9, <2>1, <3>2, ConnectionSizes, Sizes
    <3> QED BY <1>7, <3>1, <3>2
  <2>2. CASE m = n
    BY <1>4, <1>7, <2>2
  <2> QED BY <2>1, <2>2
<1>12. KnowsFrom(after, top, samples \cup {n})
  BY <1>1, <1>4, <1>5, <1>6, <1>11 DEF KnowsFrom
<1>13. after.newest \in Int
  BY <1>4, <1>6, TheSlot DEF At
<1> QED BY <1>4, <1>10, <1>12, <1>13 DEF Knows, after

\* A window knows the less as well.
LEMMA KnowsFewer ==
  ASSUME NEW w, NEW samples, NEW fewer \in SUBSET samples, Knows(w, samples)
  PROVE  Knows(w, fewer)
BY DEF Knows, KnowsFrom

\* The samples of a datagram.
LEMMA PacketIs ==
  ASSUME NEW n \in SampleNumber
  PROVE  /\ DOMAIN PacketSamples(n) = 1 .. Len(PacketSamples(n))
         /\ Len(PacketSamples(n)) \in Nat
         /\ Len(PacketSamples(n)) > 0
         /\ \A k \in DOMAIN PacketSamples(n) :
              PacketSamples(n)[k] = n + 1 - k /\ PacketSamples(n)[k] \in 1 .. n
<1> DEFINE size == IF n < Redundancy THEN n ELSE Redundancy
<1>1. size \in Nat /\ size > 0 /\ size <= n /\ n \in Nat
  BY ConnectionSizes DEF SampleNumber
<1>2. PacketSamples(n) = [k \in 1 .. size |-> n + 1 - k]
  BY DEF PacketSamples
<1> HIDE DEF size
<1>3. PacketSamples(n) \in Seq(Int) /\ Len(PacketSamples(n)) = size
  BY <1>1, <1>2
<1> QED BY <1>1, <1>2, <1>3

\* The windows of the loop over a datagram, as far as its first k samples.
WindowsTo(n, k, f) ==
  f = [j \in 0 .. k |->
         IF j = 0 THEN window ELSE Ingest(f[j - 1], Wire(PacketSamples(n)[j]))]

\* The loop over a datagram has its windows: what it ends with is by induction, as the
\* least of its lengths that would have none does not exist.
LEMMA WindowsExist ==
  ASSUME NEW n \in SampleNumber, NEW k \in Nat
  PROVE  \E f : WindowsTo(n, k, f)
<1> DEFINE Bad == {j \in Nat : ~\E f : WindowsTo(n, j, f)}
<1>1. SUFFICES ASSUME Bad # {}
               PROVE  FALSE
  OBVIOUS
<1>2. PICK j \in Bad : \A i \in Bad : j <= i
  BY <1>1, LeastOf
<1>3. CASE j = 0
  <2> DEFINE f == [i \in 0 .. 0 |-> window]
  <2>1. f = [i \in 0 .. 0 |->
               IF i = 0 THEN window ELSE Ingest(f[i - 1], Wire(PacketSamples(n)[i]))]
    OBVIOUS
  <2>2. WindowsTo(n, 0, f)
    BY <2>1 DEF WindowsTo
  <2> QED BY <1>2, <1>3, <2>2
<1>4. CASE j > 0
  <2>1. j - 1 \in Nat /\ j \in Nat /\ j - 1 \notin Bad
    BY <1>2, <1>4
  <2>2. PICK f : WindowsTo(n, j - 1, f)
    BY <2>1
  <2> DEFINE last == Ingest(f[j - 1], Wire(PacketSamples(n)[j]))
             g == [i \in 0 .. j |-> IF i < j THEN f[i] ELSE last]
  <2>3. ASSUME NEW i \in 0 .. j
        PROVE  g[i] = IF i = 0 THEN window ELSE Ingest(g[i - 1], Wire(PacketSamples(n)[i]))
    <3>1. CASE i < j
      <4>1. i \in 0 .. (j - 1)
        BY <2>1, <3>1
      <4>2. f[i] = IF i = 0 THEN window ELSE Ingest(f[i - 1], Wire(PacketSamples(n)[i]))
        BY <2>2, <4>1 DEF WindowsTo
      <4>3. g[i] = f[i]
        BY <3>1
      <4>4. i # 0 => g[i - 1] = f[i - 1]
        BY <2>1, <4>1
      <4> HIDE DEF g
      <4> QED BY <4>2, <4>3, <4>4
    <3>2. CASE i = j
      <4>1. g[i] = last /\ i # 0
        BY <1>4, <2>1, <3>2
      <4>2. g[i - 1] = f[j - 1]
        BY <2>1, <3>2
      <4> HIDE DEF g
      <4> QED BY <3>2, <4>1, <4>2
    <3> QED BY <2>1, <3>1, <3>2
  <2>4. WindowsTo(n, j, g)
    <3>1. g = [i \in 0 .. j |-> g[i]]
      OBVIOUS
    <3> HIDE DEF g
    <3> QED BY <2>3, <3>1 DEF WindowsTo
  <2> QED BY <1>2, <2>4
<1> QED BY <1>2, <1>3, <1>4

\* The loop, one sample after the other.
LEMMA WindowsStep ==
  ASSUME NEW n \in SampleNumber
  PROVE  /\ Windows(n)[0] = window
         /\ \A k \in 1 .. Len(PacketSamples(n)) :
              Windows(n)[k] = Ingest(Windows(n)[k - 1], Wire(PacketSamples(n)[k]))
<1> DEFINE size == Len(PacketSamples(n))
           f == Windows(n)
<1>1. size \in Nat
  BY PacketIs
<1>2. \E g : WindowsTo(n, size, g)
  BY <1>1, WindowsExist
<1>3. f = CHOOSE g : WindowsTo(n, size, g)
  BY DEF Windows, WindowsTo
<1> HIDE DEF f
<1>4. WindowsTo(n, size, f)
  BY <1>2, <1>3
<1>5. \A k \in 0 .. size :
        f[k] = IF k = 0 THEN window ELSE Ingest(f[k - 1], Wire(PacketSamples(n)[k]))
  BY <1>4 DEF WindowsTo
<1> HIDE DEF size
<1> QED BY <1>1, <1>5 DEF f, size

\* After each sample of a datagram the window knows it.
LEMMA LoopKnows ==
  ASSUME Knows(window, received), NEW n \in SampleNumber, NEW k \in 0 .. Len(PacketSamples(n))
  PROVE  Knows(Windows(n)[k], received \cup {PacketSamples(n)[j] : j \in 1 .. k})
<1> DEFINE S(j) == received \cup {PacketSamples(n)[i] : i \in 1 .. j}
           Bad == {j \in 0 .. Len(PacketSamples(n)) : ~Knows(Windows(n)[j], S(j))}
<1>1. SUFFICES ASSUME Bad # {}
               PROVE  FALSE
  OBVIOUS
<1>2. Len(PacketSamples(n)) \in Nat /\ Bad \in SUBSET Nat
  BY PacketIs
<1>3. PICK j \in Bad : \A i \in Bad : j <= i
  BY <1>1, <1>2, LeastOf
<1>4. CASE j = 0
  <2>1. Windows(n)[0] = window /\ S(0) = received
    BY WindowsStep
  <2> QED BY <1>3, <1>4, <2>1
<1>5. CASE j > 0
  <2>1. j \in 0 .. Len(PacketSamples(n)) /\ j \in Nat /\ j - 1 \notin Bad
    <3>1. j \in 0 .. Len(PacketSamples(n)) /\ j \in Nat
      BY <1>2
    <3> HIDE DEF Bad
    <3> QED BY <1>3, <1>5, <3>1
  <2>10. j - 1 \in 0 .. Len(PacketSamples(n)) /\ j \in 1 .. Len(PacketSamples(n))
    BY <1>2, <1>5, <2>1
  <2>2. Knows(Windows(n)[j - 1], S(j - 1))
    BY <2>1, <2>10
  <2>3. PacketSamples(n)[j] \in SampleNumber
    BY <2>10, PacketIs, ConnectionSizes DEF SampleNumber
  <2>4. Windows(n)[j] = Ingest(Windows(n)[j - 1], Wire(PacketSamples(n)[j]))
    BY <2>10, WindowsStep
  <2>5. S(j) = S(j - 1) \cup {PacketSamples(n)[j]}
    <3>1. 1 .. j = (1 .. (j - 1)) \cup {j}
      BY <2>1, <2>10
    <3> QED BY <3>1
  <2> HIDE DEF S
  <2>6. Knows(Windows(n)[j], S(j))
    BY <2>2, <2>3, <2>4, <2>5, IngestKnows
  <2> QED BY <1>3, <2>6
<1> QED BY <1>2, <1>3, <1>4, <1>5

\* A batch has samples that were not accepted before, and from then on they are known.
LEMMA BatchIsNew ==
  ASSUME Knows(window, received), NEW n \in SampleNumber
  PROVE  /\ AcceptedSamples(n) \subseteq 1 .. n
         /\ AcceptedSamples(n) \cap received = {}
         /\ Knows(Windows(n)[Len(PacketSamples(n))], received \cup AcceptedSamples(n))
         /\ Windows(n)[Len(PacketSamples(n))].newest \in Int
<1> DEFINE samples == PacketSamples(n)
           size == Len(PacketSamples(n))
           S(j) == received \cup {samples[i] : i \in 1 .. j}
<1>1. /\ size \in Nat /\ size > 0 /\ DOMAIN samples = 1 .. size
      /\ \A k \in 1 .. size : samples[k] = n + 1 - k /\ samples[k] \in 1 .. n
  BY PacketIs
<1>2. AcceptedSamples(n) = {samples[k] : k \in
        {j \in 1 .. size : Accepts(Windows(n)[j - 1], Wire(samples[j]))}}
  BY <1>1 DEF AcceptedSamples
<1>3. \A j \in 0 .. size : Knows(Windows(n)[j], S(j))
  BY LoopKnows
<1>4. ASSUME NEW x \in 1 .. n
      PROVE  x \in SampleNumber
  BY <1>4, ConnectionSizes DEF SampleNumber
<1>5. Windows(n)[size] = Ingest(Windows(n)[size - 1], Wire(samples[size]))
  BY <1>1, WindowsStep
<1>12. \A j \in 0 .. size : received \subseteq S(j)
  OBVIOUS
<1>7. AcceptedSamples(n) \subseteq S(size)
  BY <1>2
<1> HIDE DEF samples, size, S
<1>6. ASSUME NEW j \in 1 .. size, Accepts(Windows(n)[j - 1], Wire(samples[j]))
      PROVE  samples[j] \notin received
  <2>1. Knows(Windows(n)[j - 1], S(j - 1))
    BY <1>1, <1>3
  <2>2. samples[j] \in SampleNumber
    BY <1>1, <1>4
  <2>3. samples[j] \notin S(j - 1)
    BY <1>6, <2>1, <2>2, IngestKnows
  <2> QED BY <1>1, <1>12, <2>3
<1>8. Knows(Windows(n)[size], received \cup AcceptedSamples(n))
  <2>1. Knows(Windows(n)[size], S(size))
    BY <1>1, <1>3
  <2>2. received \cup AcceptedSamples(n) \in SUBSET S(size)
    BY <1>1, <1>7, <1>12
  <2> QED BY <2>1, <2>2, KnowsFewer
<1>9. Windows(n)[size].newest \in Int
  <2>1. Knows(Windows(n)[size - 1], S(size - 1))
    BY <1>1, <1>3
  <2>2. samples[size] \in SampleNumber
    BY <1>1, <1>4
  <2> QED BY <1>5, <2>1, <2>2, IngestKnows
<1>10. AcceptedSamples(n) \subseteq 1 .. n
  BY <1>1, <1>2
<1>11. AcceptedSamples(n) \cap received = {}
  BY <1>2, <1>6
<1> QED BY <1>8, <1>9, <1>10, <1>11 DEF samples, size
-----------------------------------------------------------------------------
(***************************************************************************)
(* The latch: the inductive invariant.                                     *)
(***************************************************************************)

Types ==
  /\ sampled \in Seq(Gesture) /\ Len(sampled) <= LastInput
  /\ wasDown \subseteq InputButton
  /\ alive \in BOOLEAN /\ over \in BOOLEAN
  /\ latest.newest \in SampleNumber \cup {NoSample} /\ latest \in Intent
  /\ DOMAIN pending \subseteq InputButton
  /\ pendingAcks \in Seq([input : SampleNumber, at : WireTick]) /\ Len(pendingAcks) <= MaxAcks
  /\ taken \in Seq(SampleNumber)
  /\ struck \subseteq Press /\ spent \subseteq Press

\* Whatever the server holds of a sample, it has accepted.
Sources ==
  /\ received \subseteq DOMAIN sampled
  /\ latest.action \in received \cup {NoSample}
  /\ \A b \in DOMAIN pending : pending[b] \in received
  /\ \A i \in 1 .. Len(pendingAcks) : pendingAcks[i].input \in received
  /\ answered \subseteq received
  /\ \A press \in struck : press[2] \in received
  /\ swallowed \subseteq received

\* The frame is of the last tick that publishes.
Published == tick \in WireTick /\ frameTick = tick - (tick % PublishEvery)

\* What waits in the latch was accepted since the last step.
PendingIsUnsafe ==
  alive /\ ~over =>
    \A b \in DOMAIN pending :
      /\ pending[b] \notin answered
      /\ \A i \in 1 .. Len(pendingAcks) :
           pendingAcks[i].input = pending[b] => pendingAcks[i].at = tick

\* A press that has acted is down until its life ends, and nothing latches it again.
StruckIsDown ==
  \A press \in struck :
    /\ latest.action = press[2] /\ press[1] \in Bits(latest) => press[1] \in wasDown
    /\ press[1] \in DOMAIN pending => pending[press[1]] # press[2]

\* A rematch leaves nothing of what was received before it.
SwallowedIsGone ==
  /\ latest.action \notin swallowed
  /\ \A b \in DOMAIN pending : pending[b] \notin swallowed

ConnectionInv ==
  /\ Types
  /\ Knows(window, received)
  /\ Sources
  /\ Published
  /\ PendingIsUnsafe
  /\ StruckIsDown
  /\ SwallowedIsGone
  /\ ReleasedHoldIsForgotten

\* A sample is a number of a place.
LEMMA Numbers ==
  ASSUME Types
  PROVE  /\ DOMAIN sampled \subseteq SampleNumber
         /\ DOMAIN sampled = 1 .. Len(sampled) /\ Len(sampled) \in Nat
         /\ \A n \in DOMAIN sampled : sampled[n] \in SUBSET InputButton
         /\ NoSample \notin DOMAIN sampled
         /\ DOMAIN pendingAcks = 1 .. Len(pendingAcks) /\ Len(pendingAcks) \in Nat
BY ConnectionSizes DEF Types, SampleNumber

\* The newest of a set of samples is one of them.
LEMMA NewestIsOne ==
  ASSUME NEW S \in SUBSET SampleNumber, S # {}, NEW newest \in Int
  PROVE  NewestOf(S, newest) \in S
<1> DEFINE D == {TickDistance(newest, Wire(m)) : m \in S}
<1>1. ASSUME NEW m \in S
      PROVE  TickDistance(newest, Wire(m)) \in Nat
  <2>1. m \in Int
    BY DEF SampleNumber
  <2>2. Wire(m) \in Int
    BY <2>1, ConnectionSizes, Sizes DEF Wire
  <2>3. newest - Wire(m) \in Int
    BY <2>2
  <2> QED BY <2>3, DivisionOf, Sizes DEF TickDistance
<1>2. D \in SUBSET Nat /\ D # {}
  BY <1>1
<1>3. PICK d \in D : \A e \in D : d <= e
  BY <1>2, LeastOf
<1>4. PICK n \in S : d = TickDistance(newest, Wire(n))
  BY <1>3
<1>5. \A m \in S : TickDistance(newest, Wire(n)) <= TickDistance(newest, Wire(m))
  BY <1>3, <1>4
<1> HIDE DEF D
<1> QED BY <1>5 DEF NewestOf

\* What a batch is coalesced into comes from its samples.
LEMMA CoalesceIs ==
  ASSUME NEW S \in SUBSET SampleNumber, S # {}, NEW newest \in Int
  PROVE  /\ Coalesce(S, newest).newest \in S
         /\ Coalesce(S, newest).action \in S \cup {NoSample}
         /\ Coalesce(S, newest) \in Intent
<1> DEFINE acting == {n \in S : sampled[n] # {}}
<1>1. NewestOf(S, newest) \in S
  BY NewestIsOne
<1>2. acting # {} => NewestOf(acting, newest) \in acting
  BY NewestIsOne
<1>3. /\ Coalesce(S, newest) =
           [newest |-> NewestOf(S, newest),
            action |-> IF acting = {} THEN NoSample ELSE NewestOf(acting, newest)]
  BY DEF Coalesce
<1> HIDE DEF acting
<1>4. acting \subseteq S
  BY DEF acting
<1> QED BY <1>1, <1>2, <1>3, <1>4 DEF Intent

\* The frame never lies ahead of the tick.
LEMMA FrameIsNotNewer ==
  ASSUME Published
  PROVE  frameTick \in WireTick /\ ~IsTickNewer(frameTick, tick)
<1> DEFINE rest == tick % PublishEvery
<1>1. tick \in Int /\ 0 <= tick /\ tick < TickModulus
  BY Sizes DEF Published, WireTick
<1>2. rest \in 0 .. PublishEvery - 1 /\ tick \div PublishEvery \in Int
  BY <1>1, DivisionOf, ConnectionSizes
<1>3. frameTick = tick - rest
  BY DEF Published
<1> HIDE DEF rest
<1>4. rest <= tick
  <2>1. tick = PublishEvery * (tick \div PublishEvery) + rest
    BY <1>1, DivisionOf, ConnectionSizes DEF rest
  <2>2. CASE tick < PublishEvery
    <3>1. tick \in 0 .. PublishEvery - 1 /\ tick = PublishEvery * 0 + tick
      BY <1>1, <2>2, ConnectionSizes
    <3>2. tick % PublishEvery = tick
      BY <1>1, <3>1, RemainderIs, ConnectionSizes
    <3> QED BY <1>1, <3>2 DEF rest
  <2>3. CASE tick >= PublishEvery
    BY <1>1, <1>2, <2>3, ConnectionSizes
  <2> QED BY <1>1, <2>2, <2>3, ConnectionSizes
<1>5. frameTick \in WireTick
  BY <1>1, <1>2, <1>3, <1>4, Sizes DEF WireTick
<1>6. CASE rest = 0
  <2>1. frameTick = tick
    BY <1>1, <1>3, <1>6
  <2> QED BY <1>5, <2>1 DEF IsTickNewer
<1>7. CASE rest > 0
  <2> DEFINE back == TickModulus - rest
  <2>1. back \in 0 .. TickModulus - 1 /\ frameTick - tick = TickModulus * (-1) + back
    BY <1>1, <1>2, <1>3, <1>7, ConnectionSizes, Sizes
  <2>2. frameTick - tick \in Int
    BY <1>1, <1>2, <1>3
  <2> HIDE DEF back
  <2>3. (frameTick - tick) % TickModulus = back
    BY <2>1, <2>2, RemainderIs, Sizes
  <2>4. ~(2 * back < TickModulus)
    BY <1>2, ConnectionSizes, Sizes DEF back
  <2> QED BY <1>5, <2>3, <2>4 DEF IsTickNewer, TickDistance
<1> QED BY <1>2, <1>5, <1>6, <1>7, ConnectionSizes

\* A step moves the tick, and the frame with every third.
LEMMA TickPublishes ==
  ASSUME Published, Tick
  PROVE  Published' /\ tick' \in WireTick /\ frameTick' \in WireTick
<1>1. tick \in Int /\ 0 <= tick /\ tick < TickModulus
  BY Sizes DEF Published, WireTick
<1>2. tick' = (tick + 1) % TickModulus
  BY DEF Tick
<1>3. tick' \in WireTick /\ tick' \in Int
  BY <1>1, <1>2, DivisionOf, Sizes DEF WireTick
<1>4. CASE tick' % PublishEvery = 0
  BY <1>3, <1>4 DEF Tick, Published
<1>5. CASE tick' % PublishEvery # 0
  <2>1. tick' # 0
    <3>1. 0 % PublishEvery = 0
      <4>1. 0 \in 0 .. PublishEvery - 1 /\ 0 = PublishEvery * 0 + 0
        BY ConnectionSizes
      <4> QED BY <4>1, RemainderIs, ConnectionSizes
    <3> QED BY <1>5, <3>1
  <2>2. tick' = tick + 1
    <3>1. CASE tick + 1 < TickModulus
      <4>1. tick + 1 \in 0 .. TickModulus - 1 /\ tick + 1 = TickModulus * 0 + (tick + 1)
        BY <1>1, <3>1, Sizes
      <4> QED BY <1>1, <1>2, <4>1, RemainderIs, Sizes
    <3>2. CASE tick + 1 = TickModulus
      <4>1. 0 \in 0 .. TickModulus - 1 /\ tick + 1 = TickModulus * 1 + 0
        BY <1>1, <3>2, Sizes
      <4>2. (tick + 1) % TickModulus = 0
        BY <1>1, <4>1, RemainderIs, Sizes
      <4> QED BY <1>2, <2>1, <4>2
    <3> QED BY <1>1, <3>1, <3>2, Sizes
  <2>3. tick' % PublishEvery = (tick % PublishEvery) + 1
    <3> DEFINE p == tick \div PublishEvery
               rest == tick % PublishEvery
    <3>1. p \in Int /\ rest \in 0 .. PublishEvery - 1 /\ tick = PublishEvery * p + rest
      BY <1>1, DivisionOf, ConnectionSizes
    <3> HIDE DEF p, rest
    <3>2. CASE rest = PublishEvery - 1
      <4>1. PublishEvery * (p + 1) = PublishEvery * p + PublishEvery
        BY <3>1, ConnectionSizes
      <4>2. tick + 1 = PublishEvery * (p + 1) + 0 /\ p + 1 \in Int
        BY <3>1, <3>2, <4>1, ConnectionSizes
      <4>3. 0 \in 0 .. PublishEvery - 1
        BY ConnectionSizes
      <4>4. (tick + 1) % PublishEvery = 0
        BY <1>1, <4>2, <4>3, RemainderIs, ConnectionSizes
      <4> QED BY <1>5, <2>2, <4>4
    <3>3. CASE rest < PublishEvery - 1
      <4>1. rest + 1 \in 0 .. PublishEvery - 1 /\ tick + 1 = PublishEvery * p + (rest + 1)
        BY <1>1, <3>1, <3>3, ConnectionSizes
      <4>2. (tick + 1) % PublishEvery = rest + 1
        BY <1>1, <3>1, <4>1, RemainderIs, ConnectionSizes
      <4> QED BY <2>2, <4>2 DEF rest
    <3> QED BY <3>1, <3>2, <3>3, ConnectionSizes
  <2>4. frameTick' = frameTick /\ frameTick = tick - (tick % PublishEvery)
    BY <1>5 DEF Tick, Published
  <2>5. tick % PublishEvery \in Int
    BY <1>1, DivisionOf, ConnectionSizes
  <2>6. frameTick' = tick' - (tick' % PublishEvery)
    BY <1>1, <2>2, <2>3, <2>4, <2>5
  <2> QED BY <1>3, <2>6, FrameIsNotNewer, <2>4 DEF Published
<1>6. frameTick' \in WireTick
  <2>1. frameTick \in WireTick
    BY FrameIsNotNewer
  <2> QED BY <1>3, <2>1 DEF Tick
<1> QED BY <1>3, <1>4, <1>5, <1>6
-----------------------------------------------------------------------------
(***************************************************************************)
(* Every action keeps the invariant.                                       *)
(***************************************************************************)

\* The queue of acknowledgements after a batch: its own, and some of those before.
LEMMA RecordAckIs ==
  ASSUME Types, Published, NEW input \in SampleNumber
  PROVE  /\ RecordAck(input) \in Seq([input : SampleNumber, at : WireTick])
         /\ Len(RecordAck(input)) <= MaxAcks
         /\ \A i \in 1 .. Len(RecordAck(input)) :
              \/ RecordAck(input)[i] = [input |-> input, at |-> tick]
              \/ \E j \in 1 .. Len(pendingAcks) : RecordAck(input)[i] = pendingAcks[j]
<1> DEFINE Ack == [input : SampleNumber, at : WireTick]
           new == [input |-> input, at |-> tick]
           rest == IF Len(pendingAcks) = MaxAcks THEN Tail(pendingAcks) ELSE pendingAcks
<1>1. new \in Ack
  BY DEF Published
<1>2. pendingAcks \in Seq(Ack) /\ Len(pendingAcks) <= MaxAcks /\ Len(pendingAcks) \in Nat
  BY DEF Types
<1> HIDE DEF Ack, new
<1>3. /\ rest \in Seq(Ack) /\ Len(rest) < MaxAcks
      /\ \A i \in 1 .. Len(rest) : \E j \in 1 .. Len(pendingAcks) : rest[i] = pendingAcks[j]
  <2>1. CASE Len(pendingAcks) = MaxAcks
    <3>1. pendingAcks # << >>
      BY <1>2, <2>1, ConnectionSizes
    <3>2. /\ Tail(pendingAcks) \in Seq(Ack)
          /\ Len(Tail(pendingAcks)) = Len(pendingAcks) - 1
          /\ \A i \in 1 .. Len(Tail(pendingAcks)) : Tail(pendingAcks)[i] = pendingAcks[i + 1]
      BY <1>2, <3>1, HeadTailProperties
    <3> QED BY <1>2, <2>1, <3>2, ConnectionSizes
  <2>2. CASE Len(pendingAcks) # MaxAcks
    BY <1>2, <2>2, ConnectionSizes
  <2> QED BY <2>1, <2>2
<1> HIDE DEF rest
<1>4. /\ Append(rest, new) \in Seq(Ack)
      /\ Len(Append(rest, new)) = Len(rest) + 1
      /\ Append(rest, new)[Len(rest) + 1] = new
      /\ \A i \in 1 .. Len(rest) : Append(rest, new)[i] = rest[i]
      /\ Len(rest) \in Nat
  BY <1>1, <1>3, AppendProperties
<1>5. RecordAck(input) = Append(rest, new)
  BY DEF RecordAck, rest, new
<1>6. ASSUME NEW i \in 1 .. Len(RecordAck(input))
      PROVE  \/ RecordAck(input)[i] = new
             \/ \E j \in 1 .. Len(pendingAcks) : RecordAck(input)[i] = pendingAcks[j]
  <2>1. i \in 1 .. Len(rest) \/ i = Len(rest) + 1
    BY <1>4, <1>5
  <2> QED BY <1>3, <1>4, <1>5, <2>1
<1> QED BY <1>3, <1>4, <1>5, <1>6, ConnectionSizes DEF Ack, new

\* What the latch holds after a batch is what it held, but for a hold that has ended, and
\* the actions of the batch.
LEMMA LatchIs ==
  ASSUME NEW intent, NEW b \in DOMAIN Latch(intent)
  PROVE  \/ /\ b \in DOMAIN pending /\ Latch(intent)[b] = pending[b]
            /\ b \in {Attack, Heavy} /\ Charging(Bits(latest)) => Charging(Bits(intent))
         \/ b \in Bits(intent) /\ Latch(intent)[b] = intent.action
<1> DEFINE released == IF Charging(Bits(latest)) /\ ~Charging(Bits(intent))
                       THEN {Attack, Heavy} ELSE {}
           kept == DOMAIN pending \ released
           rising == Bits(intent) \ (Bits(latest) \ released)
<1>1. Latch(intent) =
        [a \in kept \cup rising |-> IF a \in kept THEN pending[a] ELSE intent.action]
  BY DEF Latch
<1>2. b \in kept \cup rising /\ Latch(intent)[b] = IF b \in kept THEN pending[b] ELSE intent.action
  BY <1>1
<1>3. b \in kept /\ b \in {Attack, Heavy} /\ Charging(Bits(latest)) => Charging(Bits(intent))
  OBVIOUS
<1> QED BY <1>2, <1>3

\* An input datagram.
LEMMA ReceiveInputKeeps ==
  ASSUME ConnectionInv, NEW n \in SampleNumber, ReceiveInput(n)
  PROVE  ConnectionInv'
<1> DEFINE intent == Coalesce(AcceptedSamples(n), window'.newest)
<1>1. /\ n \in DOMAIN sampled
      /\ window' = Windows(n)[Len(PacketSamples(n))]
      /\ UNCHANGED <<sampled, wasDown, alive, over, tick, frameTick, answered, struck, spent,
                     swallowed>>
  BY DEF ReceiveInput, clientVars, stateVars, strikeVars
<1>2. /\ DOMAIN sampled \subseteq SampleNumber /\ NoSample \notin DOMAIN sampled
      /\ DOMAIN sampled = 1 .. Len(sampled) /\ Len(sampled) \in Nat
      /\ \A m \in DOMAIN sampled : sampled[m] \in SUBSET InputButton
  BY Numbers DEF ConnectionInv
<1>3. /\ AcceptedSamples(n) \subseteq DOMAIN sampled
      /\ AcceptedSamples(n) \cap received = {}
      /\ Knows(window', received \cup AcceptedSamples(n))
      /\ window'.newest \in Int
  <2>1. Knows(window, received)
    BY DEF ConnectionInv
  <2>2. 1 .. n \subseteq DOMAIN sampled
    BY <1>1, <1>2
  <2> QED BY <1>1, <2>1, <2>2, BatchIsNew
<1>4. Published'
  BY <1>1 DEF ConnectionInv, Published
<1>5. CASE AcceptedSamples(n) = {}
  <2>1. UNCHANGED <<pendingAcks, latest, pending, received, taken>>
    BY <1>5 DEF ReceiveInput, latchVars, batchVars
  <2>2. Knows(window', received')
    BY <1>3, <1>5, <2>1
  <2>3. Types' /\ Sources' /\ PendingIsUnsafe' /\ SwallowedIsGone'
    BY <1>1, <2>1 DEF ConnectionInv, Types, Sources, PendingIsUnsafe, SwallowedIsGone
  <2>4. StruckIsDown' /\ ReleasedHoldIsForgotten'
    BY <1>1, <2>1 DEF ConnectionInv, StruckIsDown, ReleasedHoldIsForgotten, Bits, Charging
  <2> QED BY <1>4, <2>2, <2>3, <2>4 DEF ConnectionInv
<1>6. CASE AcceptedSamples(n) # {}
  <2>1. /\ intent.newest \in AcceptedSamples(n) /\ intent \in Intent
        /\ intent.action \in AcceptedSamples(n) \cup {NoSample}
    BY <1>2, <1>3, <1>6, CoalesceIs
  <2>2. /\ pendingAcks' = RecordAck(intent.newest)
        /\ received' = received \cup AcceptedSamples(n)
        /\ taken' = Append(taken, intent.newest)
        /\ over => latest' = latest /\ pending' = pending
        /\ ~over => latest' = intent /\ pending' = Latch(intent)
    BY <1>6 DEF ReceiveInput, latchVars
  <2> HIDE DEF intent
  <2>3. intent.newest \in SampleNumber
    BY <1>2, <1>3, <2>1
  <2>4. /\ pendingAcks' \in Seq([input : SampleNumber, at : WireTick])
        /\ Len(pendingAcks') <= MaxAcks
        /\ \A i \in 1 .. Len(pendingAcks') :
             \/ pendingAcks'[i] = [input |-> intent.newest, at |-> tick]
             \/ \E j \in 1 .. Len(pendingAcks) : pendingAcks'[i] = pendingAcks[j]
    BY <2>2, <2>3, RecordAckIs DEF ConnectionInv
  <2>5. taken' \in Seq(SampleNumber)
    BY <2>2, <2>3 DEF ConnectionInv, Types
  <2>6. ASSUME ~over, NEW b \in DOMAIN pending'
        PROVE  \/ /\ b \in DOMAIN pending /\ pending'[b] = pending[b]
                  /\ b \in {Attack, Heavy} /\ Charging(Bits(latest)) => Charging(Bits(intent))
               \/ /\ b \in Bits(intent) /\ pending'[b] = intent.action
                  /\ intent.action \in AcceptedSamples(n)
    <3>1. b \in Bits(intent) => intent.action # NoSample
      BY DEF Bits
    <3> QED BY <2>1, <2>2, <2>6, <3>1, LatchIs
  <2>7. Bits(intent) \subseteq InputButton
    BY <1>2, <1>3, <2>1 DEF Bits
  <2>8. Types'
    <3>1. CASE over
      BY <1>1, <2>2, <2>4, <2>5, <3>1 DEF ConnectionInv, Types
    <3>2. CASE ~over
      <4>1. DOMAIN pending' \subseteq InputButton
        BY <2>6, <2>7, <3>2 DEF ConnectionInv, Types
      <4>2. latest' \in Intent /\ latest'.newest \in SampleNumber \cup {NoSample}
        BY <2>1, <2>2, <2>3, <3>2
      <4> QED BY <1>1, <2>4, <2>5, <4>1, <4>2 DEF ConnectionInv, Types
    <3> QED BY <3>1, <3>2
  <2>9. Knows(window', received')
    BY <1>3, <2>2
  <2>10. Sources'
    <3>1. received' \subseteq DOMAIN sampled'
      BY <1>1, <1>3, <2>2 DEF ConnectionInv, Sources
    <3>2. latest'.action \in received' \cup {NoSample}
      BY <2>1, <2>2 DEF ConnectionInv, Sources
    <3>3. \A b \in DOMAIN pending' : pending'[b] \in received'
      BY <2>1, <2>2, <2>6 DEF ConnectionInv, Sources
    <3>4. \A i \in 1 .. Len(pendingAcks') : pendingAcks'[i].input \in received'
      BY <2>1, <2>2, <2>4 DEF ConnectionInv, Sources
    <3> QED BY <1>1, <2>2, <3>1, <3>2, <3>3, <3>4 DEF ConnectionInv, Sources
  <2>11. PendingIsUnsafe'
    <3>1. SUFFICES ASSUME alive', ~over', NEW b \in DOMAIN pending'
                   PROVE  /\ pending'[b] \notin answered'
                          /\ \A i \in 1 .. Len(pendingAcks') :
                               pendingAcks'[i].input = pending'[b] => pendingAcks'[i].at = tick'
      BY DEF PendingIsUnsafe
    <3>2. alive /\ ~over /\ tick' = tick /\ answered' = answered
      BY <1>1, <3>1
    <3>3. /\ answered \subseteq received
          /\ \A j \in 1 .. Len(pendingAcks) : pendingAcks[j].input \in received
      BY DEF ConnectionInv, Sources
    <3>4. CASE b \in DOMAIN pending /\ pending'[b] = pending[b]
      <4>1. pending[b] \in received /\ pending[b] # intent.newest
        BY <1>3, <2>1, <3>4 DEF ConnectionInv, Sources
      <4>2. /\ pending[b] \notin answered
            /\ \A j \in 1 .. Len(pendingAcks) :
                 pendingAcks[j].input = pending[b] => pendingAcks[j].at = tick
        BY <3>2, <3>4 DEF ConnectionInv, PendingIsUnsafe
      <4> QED BY <2>4, <3>2, <3>4, <4>1, <4>2
    <3>5. CASE pending'[b] = intent.action /\ intent.action \in AcceptedSamples(n)
      BY <1>3, <2>4, <3>2, <3>3, <3>5
    <3> QED BY <2>6, <3>2, <3>4, <3>5
  <2>12. StruckIsDown'
    <3>1. CASE over
      BY <1>1, <2>2, <3>1 DEF ConnectionInv, StruckIsDown, Bits
    <3>2. CASE ~over
      <4>1. \A press \in struck : press[2] \in received /\ press[2] # NoSample
        BY <1>2 DEF ConnectionInv, Sources
      <4>2. \A press \in struck : press[2] # intent.action
        BY <1>3, <2>1, <4>1
      <4>3. \A press \in struck :
              press[1] \in DOMAIN pending' => pending'[press[1]] # press[2]
        BY <2>6, <3>2, <4>2 DEF ConnectionInv, StruckIsDown
      <4> QED BY <1>1, <2>2, <3>2, <4>2, <4>3 DEF StruckIsDown
    <3> QED BY <3>1, <3>2
  <2>13. SwallowedIsGone'
    <3>1. swallowed \subseteq received /\ NoSample \notin received
      BY <1>2 DEF ConnectionInv, Sources
    <3>2. intent.action \notin swallowed
      BY <1>3, <2>1, <3>1
    <3> QED BY <1>1, <2>2, <2>6, <3>2 DEF ConnectionInv, SwallowedIsGone
  <2>14. ReleasedHoldIsForgotten'
    <3>1. CASE over
      BY <1>1, <2>2, <3>1 DEF ConnectionInv, ReleasedHoldIsForgotten, Bits, Charging
    <3>2. CASE ~over
      <4>1. ASSUME NEW b \in DOMAIN pending', b \in {Attack, Heavy},
                   Charging(sampled[pending'[b]])
            PROVE  Charging(Bits(intent))
        <5>1. CASE /\ b \in DOMAIN pending /\ pending'[b] = pending[b]
                   /\ Charging(Bits(latest)) => Charging(Bits(intent))
          BY <4>1, <5>1 DEF ConnectionInv, ReleasedHoldIsForgotten
        <5>2. CASE pending'[b] = intent.action /\ b \in Bits(intent)
          <6>1. Bits(intent) = sampled[intent.action]
            BY <5>2 DEF Bits
          <6> QED BY <4>1, <5>2, <6>1
        <5> QED BY <2>6, <3>2, <4>1, <5>1, <5>2
      <4>2. Bits(latest)' = Bits(intent) /\ sampled' = sampled
        BY <1>1, <2>2, <3>2 DEF Bits
      <4> QED BY <4>1, <4>2 DEF ReleasedHoldIsForgotten, Charging
    <3> QED BY <3>1, <3>2
  <2> QED BY <1>4, <2>8, <2>9, <2>10, <2>11, <2>12, <2>13, <2>14 DEF ConnectionInv
<1> QED BY <1>5, <1>6

\* A new sample is behind all those that the server has seen.
LEMMA SendInputKeeps ==
  ASSUME ConnectionInv, NEW bits \in Gesture, SendInput(bits)
  PROVE  ConnectionInv'
<1>1. /\ sampled' = Append(sampled, bits) /\ Len(sampled) < LastInput
      /\ UNCHANGED <<window, pendingAcks, latest, pending, wasDown, alive, over, tick, frameTick,
                     received, taken, answered, struck, spent, swallowed>>
  BY DEF SendInput, inputVars, latchVars, stateVars, batchVars, strikeVars
<1>2. /\ sampled \in Seq(Gesture) /\ Len(sampled) \in Nat /\ DOMAIN sampled = 1 .. Len(sampled)
      /\ DOMAIN sampled \subseteq SampleNumber
  BY Numbers DEF ConnectionInv, Types
<1>3. /\ sampled' \in Seq(Gesture) /\ Len(sampled') = Len(sampled) + 1
      /\ \A m \in DOMAIN sampled : sampled'[m] = sampled[m]
      /\ DOMAIN sampled \subseteq DOMAIN sampled'
  BY <1>1, <1>2
<1>4. Types' /\ Published'
  BY <1>1, <1>2, <1>3, ConnectionSizes DEF ConnectionInv, Types, Published
<1>5. Knows(window', received')
  BY <1>1 DEF ConnectionInv
<1>6. Sources' /\ PendingIsUnsafe' /\ SwallowedIsGone'
  BY <1>1, <1>3 DEF ConnectionInv, Sources, PendingIsUnsafe, SwallowedIsGone
<1>7. Bits(latest)' = Bits(latest)
  BY <1>1, <1>3 DEF ConnectionInv, Sources, Bits
<1>8. \A b \in DOMAIN pending : sampled'[pending[b]] = sampled[pending[b]]
  BY <1>3 DEF ConnectionInv, Sources
<1>9. StruckIsDown' /\ ReleasedHoldIsForgotten'
  BY <1>1, <1>7, <1>8 DEF ConnectionInv, StruckIsDown, ReleasedHoldIsForgotten, Charging
<1> QED BY <1>4, <1>5, <1>6, <1>9 DEF ConnectionInv

\* What the actions of a step come from.
LEMMA StrikesAre ==
  ASSUME NEW press \in Strikes
  PROVE  /\ press[1] \in StepInput /\ press[1] \notin wasDown
         /\ press = <<press[1], press[2]>>
         /\ \/ press[1] \in DOMAIN pending /\ press[2] = pending[press[1]]
            \/ press[1] \in Bits(latest) /\ press[2] = latest.action /\ latest.action # NoSample
BY DEF Strikes, Edges, StepInput, Bits

\* No press of a step has acted before in this life, or was received before a rematch.
LEMMA StrikesAreNew ==
  ASSUME ConnectionInv, NEW press \in Strikes
  PROVE  press \notin struck /\ press[2] \notin swallowed
BY StrikesAre DEF ConnectionInv, StruckIsDown, SwallowedIsGone

\* A step of a living fighter takes what the latch holds.
LEMMA StepLivingKeeps ==
  ASSUME ConnectionInv, StepLiving
  PROVE  ConnectionInv'
<1>1. /\ Tick /\ wasDown' = StepInput /\ pending' = NoPresses /\ struck' = struck \cup Strikes
      /\ alive' \in BOOLEAN /\ over' \in BOOLEAN
      /\ UNCHANGED <<sampled, window, pendingAcks, latest, received, taken, answered, spent,
                     swallowed>>
  BY DEF StepLiving, clientVars, inputVars, batchVars
<1>2. Published' /\ tick' \in WireTick
  BY <1>1, TickPublishes DEF ConnectionInv
<1>3. DOMAIN pending' = {}
  BY <1>1 DEF NoPresses
<1>4. Bits(latest) \subseteq InputButton /\ Bits(latest)' = Bits(latest)
  BY <1>1, Numbers DEF ConnectionInv, Sources, Bits
<1>5. ASSUME NEW press \in Strikes
      PROVE  press \in Press /\ press[2] \in received
  <2>1. press[1] \in InputButton
    BY <1>4, StrikesAre DEF ConnectionInv, Types
  <2>2. press[2] \in received
    BY StrikesAre DEF ConnectionInv, Sources
  <2>3. received \subseteq SampleNumber
    BY Numbers DEF ConnectionInv, Sources
  <2> QED BY <2>1, <2>2, <2>3, StrikesAre DEF Press
<1>6. StepInput \subseteq InputButton
  BY <1>4 DEF StepInput, ConnectionInv, Types
<1>7. Types'
  BY <1>1, <1>3, <1>5, <1>6 DEF ConnectionInv, Types
<1>8. Sources'
  BY <1>1, <1>3, <1>5 DEF ConnectionInv, Sources
<1>9. Knows(window', received')
  BY <1>1 DEF ConnectionInv
<1>10. PendingIsUnsafe' /\ SwallowedIsGone' /\ ReleasedHoldIsForgotten'
  BY <1>1, <1>3 DEF ConnectionInv, PendingIsUnsafe, SwallowedIsGone, ReleasedHoldIsForgotten
<1>11. StruckIsDown'
  BY <1>1, <1>3, <1>4 DEF StruckIsDown, StepInput
<1> QED BY <1>2, <1>7, <1>8, <1>9, <1>10, <1>11 DEF ConnectionInv

\* A step that leaves the fighter of this connection alone.
LEMMA IdleStepKeeps ==
  ASSUME ConnectionInv, StepDead \/ StepOver
  PROVE  ConnectionInv'
<1>1. /\ Tick /\ ~(alive' /\ ~over')
      /\ alive' \in BOOLEAN /\ over' \in BOOLEAN
      /\ UNCHANGED <<sampled, window, pendingAcks, latest, pending, wasDown, received, taken,
                     answered, struck, spent, swallowed>>
  BY DEF StepDead, StepOver, clientVars, inputVars, latchVars, batchVars, strikeVars, ConnectionInv,
         Types
<1>2. Published'
  BY <1>1, TickPublishes DEF ConnectionInv
<1>3. Types' /\ Sources' /\ Knows(window', received')
  BY <1>1 DEF ConnectionInv, Types, Sources
<1>4. PendingIsUnsafe' /\ SwallowedIsGone'
  BY <1>1 DEF ConnectionInv, PendingIsUnsafe, SwallowedIsGone
<1>5. StruckIsDown' /\ ReleasedHoldIsForgotten'
  BY <1>1 DEF ConnectionInv, StruckIsDown, ReleasedHoldIsForgotten, Bits, Charging
<1> QED BY <1>2, <1>3, <1>4, <1>5 DEF ConnectionInv

\* A new life, after a death or with a rematch.
LEMMA NewLifeKeeps ==
  ASSUME ConnectionInv, StepRespawn \/ StepRematch
  PROVE  ConnectionInv'
<1>1. /\ Tick /\ NewLife /\ alive' \in BOOLEAN /\ over' \in BOOLEAN
      /\ UNCHANGED <<sampled, window, pendingAcks, received, taken, answered>>
      /\ \/ latest' = latest /\ swallowed' = swallowed
         \/ latest' = NeutralIntent /\ swallowed' = received
  BY DEF StepRespawn, StepRematch, clientVars, inputVars, batchVars
<1>2. wasDown' = {} /\ DOMAIN pending' = {} /\ struck' = {} /\ spent' = spent \cup struck
  BY <1>1 DEF NewLife, NoPresses
<1>3. Published'
  BY <1>1, TickPublishes DEF ConnectionInv
<1>4. latest'.newest \in SampleNumber \cup {NoSample} /\ latest' \in Intent
  BY <1>1 DEF ConnectionInv, Types, NeutralIntent, Intent
<1>5. Types'
  BY <1>1, <1>2, <1>4 DEF ConnectionInv, Types
<1>6. latest'.action \in {latest.action, NoSample} /\ NoSample \notin received
  BY <1>1, Numbers DEF ConnectionInv, Sources, NeutralIntent
<1>7. Sources'
  BY <1>1, <1>2, <1>6 DEF ConnectionInv, Sources
<1>8. SwallowedIsGone'
  BY <1>1, <1>2, <1>6 DEF ConnectionInv, SwallowedIsGone, NeutralIntent
<1>9. PendingIsUnsafe' /\ StruckIsDown' /\ ReleasedHoldIsForgotten'
  BY <1>2 DEF PendingIsUnsafe, StruckIsDown, ReleasedHoldIsForgotten
<1> QED BY <1>1, <1>3, <1>5, <1>7, <1>8, <1>9 DEF ConnectionInv

\* The inputs that the frame reflects are counted from the oldest.
LEMMA SafeCountIs ==
  ASSUME Types
  PROVE  /\ SafeCount \in 0 .. Len(pendingAcks)
         /\ \A i \in 1 .. SafeCount : Safe(pendingAcks[i].at)
<1> DEFINE Stops == {k \in 0 .. Len(pendingAcks) :
                       k < Len(pendingAcks) => ~Safe(pendingAcks[k + 1].at)}
<1>1. Len(pendingAcks) \in Nat
  BY Numbers
<1>2. Len(pendingAcks) \in Stops /\ Stops \in SUBSET Nat
  BY <1>1
<1>3. PICK k \in Stops : \A j \in Stops : k <= j
  BY <1>2, LeastOf
<1>4. ASSUME NEW i \in 1 .. k
      PROVE  Safe(pendingAcks[i].at)
  <2>1. i - 1 \in 0 .. Len(pendingAcks) /\ i - 1 < k /\ i - 1 < Len(pendingAcks) /\ (i - 1) + 1 = i
    BY <1>1, <1>2, <1>3
  <2>2. i - 1 \notin Stops
    <3>1. k \in Int /\ i \in Int
      BY <1>2, <1>3
    <3> HIDE DEF Stops
    <3> QED BY <1>3, <2>1, <3>1
  <2> QED BY <2>1, <2>2
<1>5. /\ k \in 0 .. Len(pendingAcks)
      /\ \A i \in 1 .. k : Safe(pendingAcks[i].at)
      /\ k < Len(pendingAcks) => ~Safe(pendingAcks[k + 1].at)
  BY <1>3, <1>4
<1> HIDE DEF Stops
<1> QED BY <1>5 DEF SafeCount

\* An acknowledgement.
LEMMA SnapshotTickKeeps ==
  ASSUME ConnectionInv, SnapshotTick
  PROVE  ConnectionInv'
<1> DEFINE Ack == [input : SampleNumber, at : WireTick]
           last == pendingAcks[SafeCount]
<1>1. /\ SafeCount > 0
      /\ answered' = answered \cup {last.input}
      /\ pendingAcks' = SubSeq(pendingAcks, SafeCount + 1, Len(pendingAcks))
      /\ UNCHANGED <<sampled, window, latest, pending, wasDown, alive, over, tick, frameTick,
                     received, taken, struck, spent, swallowed>>
  BY DEF SnapshotTick, clientVars, latchVars, stateVars, batchVars, strikeVars
<1>2. /\ SafeCount \in 1 .. Len(pendingAcks) /\ Len(pendingAcks) \in Nat
      /\ Safe(last.at)
      /\ pendingAcks \in Seq(Ack) /\ Len(pendingAcks) <= MaxAcks
  BY <1>1, SafeCountIs, Numbers DEF ConnectionInv, Types
<1>3. last \in Ack /\ last.input \in received
  <2>1. \A i \in 1 .. Len(pendingAcks) : pendingAcks[i].input \in received
    BY DEF ConnectionInv, Sources
  <2>2. last.input \in received
    BY <1>2, <2>1
  <2>3. last \in Ack
    BY <1>2, ElementOfSeq
  <2> QED BY <2>2, <2>3
<1>4. last.at # tick
  BY <1>2, FrameIsNotNewer DEF ConnectionInv, Safe
<1> DEFINE count == SafeCount
<1> HIDE DEF Ack, count
<1>5. /\ pendingAcks' \in Seq(Ack) /\ Len(pendingAcks') <= MaxAcks
      /\ \A i \in 1 .. Len(pendingAcks') :
           \E j \in 1 .. Len(pendingAcks) : pendingAcks'[i] = pendingAcks[j]
  <2>1. count \in 1 .. Len(pendingAcks)
        /\ pendingAcks' = SubSeq(pendingAcks, count + 1, Len(pendingAcks))
    BY <1>1, <1>2 DEF count
  <2>2. count + 1 \in 1 .. Len(pendingAcks) + 1 /\ Len(pendingAcks) \in 0 .. Len(pendingAcks)
    BY <1>2, <2>1
  <2>3. /\ pendingAcks' \in Seq(Ack)
        /\ Len(pendingAcks') = IF count + 1 <= Len(pendingAcks)
                               THEN Len(pendingAcks) - (count + 1) + 1 ELSE 0
        /\ \A i \in 1 .. Len(pendingAcks) - (count + 1) + 1 :
             pendingAcks'[i] = pendingAcks[(count + 1) + i - 1]
    BY <1>2, <2>1, <2>2, SubSeqProperties
  <2>4. ASSUME NEW i \in 1 .. Len(pendingAcks')
        PROVE  \E j \in 1 .. Len(pendingAcks) : pendingAcks'[i] = pendingAcks[j]
    <3>1. /\ i \in 1 .. Len(pendingAcks) - (count + 1) + 1
          /\ (count + 1) + i - 1 \in 1 .. Len(pendingAcks)
      BY <1>2, <2>1, <2>3
    <3> QED BY <2>3, <3>1
  <2>5. Len(pendingAcks') <= MaxAcks
    BY <1>2, <2>1, <2>3, ConnectionSizes
  <2> QED BY <2>3, <2>4, <2>5
<1> HIDE DEF last
<1>6. Types'
  BY <1>1, <1>5 DEF ConnectionInv, Types, Ack
<1>7. Sources'
  BY <1>1, <1>3, <1>5 DEF ConnectionInv, Sources
<1>8. PendingIsUnsafe'
  <2>1. ASSUME alive, ~over, NEW b \in DOMAIN pending
        PROVE  pending[b] \notin answered'
    <3>1. last.input = pending[b] => last.at = tick
      BY <1>2, <2>1 DEF ConnectionInv, PendingIsUnsafe, last
    <3> QED BY <1>1, <1>4, <2>1, <3>1 DEF ConnectionInv, PendingIsUnsafe
  <2>2. ASSUME alive, ~over, NEW b \in DOMAIN pending, NEW i \in 1 .. Len(pendingAcks'),
               pendingAcks'[i].input = pending[b]
        PROVE  pendingAcks'[i].at = tick
    <3>1. PICK j \in 1 .. Len(pendingAcks) : pendingAcks'[i] = pendingAcks[j]
      BY <1>5
    <3> QED BY <2>2, <3>1 DEF ConnectionInv, PendingIsUnsafe
  <2> QED BY <1>1, <2>1, <2>2 DEF PendingIsUnsafe
<1>9. Published' /\ Knows(window', received') /\ SwallowedIsGone'
  BY <1>1 DEF ConnectionInv, Published, SwallowedIsGone
<1>10. StruckIsDown' /\ ReleasedHoldIsForgotten'
  BY <1>1 DEF ConnectionInv, StruckIsDown, ReleasedHoldIsForgotten, Bits, Charging
<1> QED BY <1>6, <1>7, <1>8, <1>9, <1>10 DEF ConnectionInv

\* The invariant holds at first.
LEMMA ConnectionStarts ==
  ASSUME Init
  PROVE  ConnectionInv
<1>1. Knows(NewWindow, {})
  <2>1. NewWindow \in Window
    BY DEF NewWindow, Window
  <2>2. KnowsFrom(NewWindow, NoTick, {})
    BY <2>1, Sizes DEF KnowsFrom, At
  <2> QED BY <2>2 DEF Knows
<1>2. Types
  <2>1. latest \in Intent /\ latest.newest \in SampleNumber \cup {NoSample}
    BY DEF Init, NeutralIntent, Intent
  <2>2. DOMAIN pending = {}
    BY DEF Init, NoPresses
  <2>3. Len(sampled) <= LastInput /\ Len(pendingAcks) <= MaxAcks
    BY ConnectionSizes DEF Init
  <2>4. sampled \in Seq(Gesture) /\ pendingAcks \in Seq([input : SampleNumber, at : WireTick])
    BY DEF Init
  <2>5. taken \in Seq(SampleNumber)
    BY DEF Init
  <2>6. wasDown \subseteq InputButton /\ DOMAIN pending \subseteq InputButton
    BY <2>2 DEF Init
  <2>7. alive \in BOOLEAN /\ over \in BOOLEAN /\ struck \subseteq Press /\ spent \subseteq Press
    BY DEF Init
  <2> QED BY <2>1, <2>3, <2>4, <2>5, <2>6, <2>7 DEF Types
<1>4. Sources
  BY DEF Init, Sources, NeutralIntent, NoPresses
<1>3. Published
  <2>1. 0 \in 0 .. PublishEvery - 1 /\ 0 = PublishEvery * 0 + 0
    BY ConnectionSizes
  <2>2. 0 % PublishEvery = 0
    BY <2>1, RemainderIs, ConnectionSizes
  <2> QED BY <2>2, Sizes DEF Init, Published, WireTick
<1> QED
  BY <1>1, <1>2, <1>3, <1>4
  DEF Init, ConnectionInv, PendingIsUnsafe, StruckIsDown, SwallowedIsGone,
      ReleasedHoldIsForgotten, NoPresses

\* Every step keeps the invariant.
LEMMA ConnectionKept ==
  ASSUME ConnectionInv, [Next]_vars
  PROVE  ConnectionInv'
<1>1. CASE UNCHANGED vars
  <2>1. UNCHANGED <<sampled, window, pendingAcks, latest, pending, wasDown, alive, over, tick,
                    frameTick, received, taken, answered, struck, spent, swallowed>>
    BY <1>1 DEF vars, clientVars, inputVars, latchVars, stateVars, batchVars, strikeVars
  <2>2. Types' /\ Sources' /\ PendingIsUnsafe' /\ SwallowedIsGone' /\ Published'
    BY <2>1 DEF ConnectionInv, Types, Sources, PendingIsUnsafe, SwallowedIsGone, Published
  <2>3. StruckIsDown' /\ ReleasedHoldIsForgotten' /\ Knows(window', received')
    BY <2>1 DEF ConnectionInv, StruckIsDown, ReleasedHoldIsForgotten, Bits, Charging
  <2> QED BY <2>2, <2>3 DEF ConnectionInv
<1>2. CASE Next
  BY <1>2, SendInputKeeps, ReceiveInputKeeps, StepLivingKeeps, IdleStepKeeps, NewLifeKeeps,
     SnapshotTickKeeps
  DEF Next, WorldStep
<1> QED BY <1>1, <1>2

\* The invariant of the connection.
LEMMA ConnectionInvariant == Spec => []ConnectionInv
BY ConnectionStarts, ConnectionKept, PTL DEF Spec

\* An input that the client is told was processed has been taken: nothing of it waits in the
\* latch of a living fighter (take_safe_input_ack, latch_action_edges).
THEOREM NothingAckedWaits == Spec => []AckedInputIsTaken
<1>1. ConnectionInv => AckedInputIsTaken
  <2> SUFFICES ASSUME ConnectionInv
               PROVE  AckedInputIsTaken
    OBVIOUS
  <2>1. window \in Window
    BY DEF ConnectionInv, Knows, KnowsFrom, At
  <2>2. received \subseteq SampleNumber
    BY Numbers DEF ConnectionInv, Sources
  <2>3. tick \in WireTick /\ frameTick \in WireTick
    BY FrameIsNotNewer DEF ConnectionInv, Published
  <2>4. TypeOK
    BY <2>1, <2>2, <2>3 DEF ConnectionInv, Types, Sources, TypeOK
  <2> QED BY <2>4 DEF ConnectionInv, PendingIsUnsafe, AckedInputIsTaken
<1> QED BY <1>1, ConnectionInvariant, PTL

\* A charge that has ended leaves nothing of its hold in the latch (latch_action_edges).
THEOREM NoHoldIsLeft == Spec => []ReleasedHoldIsForgotten
<1>1. ConnectionInv => ReleasedHoldIsForgotten
  BY DEF ConnectionInv
<1> QED BY <1>1, ConnectionInvariant, PTL

\* However often a sample is sent, and however late its copies are, each of its presses
\* starts one action in a life of the fighter, and none in a later match (ingest,
\* latch_action_edges, step_by_into, reset_match).
THEOREM APressActsOnce == Spec => PressesActOnce
<1>1. ConnectionInv /\ [Next]_vars => [Acts => Strikes \cap struck = {}]_vars
  BY StrikesAreNew
<1>2. ConnectionInv /\ [Next]_vars =>
        [Acts => \A press \in Strikes : press[2] \notin swallowed]_vars
  BY StrikesAreNew
<1> QED
  BY <1>1, <1>2, ConnectionInvariant, PTL
  DEF Spec, PressesActOnce, PressStrikesOncePerLife, NoStrikeAcrossMatches
====

------------------------ MODULE ReliableCatchupProofs -----------------------
(***************************************************************************)
(* The ordered stream, for any number of frames, deaths and entities, any  *)
(* history of deaths, and any row of catch-ups under way.                  *)
(***************************************************************************)
EXTENDS ReliableCatchup, SnapshotSessionProofs, WellFoundedInduction

(***************************************************************************)
(* What is under way.                                                      *)
(***************************************************************************)

SnapshotPayload ==
  [kind : {"snapshot"}, sequence : SequenceNumber, baseline : AckNumber, full : BOOLEAN,
   records : Records, tick : Nat]

KillEvent == [kind : {"kill"}, sequence : Nat]

Payload == SnapshotPayload \cup KillEvent

Pipes ==
  /\ stream \in Seq(Payload) /\ queue \in Seq(Payload)
  /\ heard \in Seq(Nat)

\* A payload that is queued is the last under way.
LEMMA QueuedIsLast ==
  ASSUME NEW s \in Seq(Payload), NEW q \in Seq(Payload), NEW p \in Payload
  PROVE  s \o Append(q, p) = Append(s \o q, p)
<1>1. Append(q, p) = q \o << p >> /\ Append(s \o q, p) = (s \o q) \o << p >>
  BY AppendIsConcat, ConcatProperties
<1>2. << p >> \in Seq(Payload)
  OBVIOUS
<1> QED BY <1>1, <1>2, ConcatAssociative

\* The writer changes nothing about what is under way.
LEMMA WrittenStays ==
  ASSUME NEW s \in Seq(Payload), NEW q \in Seq(Payload), q # << >>
  PROVE  Append(s, Head(q)) \o Tail(q) = s \o q
<1>1. /\ Head(q) \in Payload /\ Tail(q) \in Seq(Payload) /\ << Head(q) >> \in Seq(Payload)
      /\ << Head(q) >> \o Tail(q) = q
  BY HeadTailProperties
<1>2. Append(s, Head(q)) = s \o << Head(q) >>
  BY <1>1, AppendIsConcat
<1> QED BY <1>1, <1>2, ConcatAssociative

\* What is read is the first under way.
LEMMA ReadIsFirst ==
  ASSUME NEW s \in Seq(Payload), NEW q \in Seq(Payload), s # << >>
  PROVE  /\ Tail(s) \o q = Tail(s \o q)
         /\ s \o q # << >> /\ s \o q \in Seq(Payload)
         /\ Head(s) = (s \o q)[1] /\ Head(s) \in Payload
<1>1. /\ s \o q \in Seq(Payload) /\ Len(s \o q) = Len(s) + Len(q)
      /\ \A i \in 1 .. Len(s) : (s \o q)[i] = s[i]
      /\ Len(s) >= 1
  BY ConcatProperties
<1>2. s \o q # << >> /\ Head(s) = (s \o q)[1] /\ Head(s) \in Payload
  BY <1>1, HeadTailProperties
<1>3. Tail(s) \o q = Tail(s \o q)
  <2>1. /\ Tail(s) \in Seq(Payload) /\ Len(Tail(s)) = Len(s) - 1
        /\ \A i \in 1 .. Len(s) - 1 : Tail(s)[i] = s[i + 1]
    BY HeadTailProperties
  <2>2. /\ Tail(s \o q) \in Seq(Payload) /\ Len(Tail(s \o q)) = Len(s) + Len(q) - 1
        /\ \A i \in 1 .. Len(s) + Len(q) - 1 : Tail(s \o q)[i] = (s \o q)[i + 1]
    BY <1>1, <1>2, HeadTailProperties
  <2>3. Tail(s) \o q \in Seq(Payload) /\ Len(Tail(s) \o q) = Len(s) - 1 + Len(q)
    BY <2>1, ConcatProperties
  <2>4. ASSUME NEW i \in 1 .. Len(s) + Len(q) - 1
        PROVE  (Tail(s) \o q)[i] = Tail(s \o q)[i]
    BY <1>1, <2>1, <2>2
  <2> QED BY <2>2, <2>3, <2>4, SeqEqual
<1> QED BY <1>1, <1>2, <1>3
-----------------------------------------------------------------------------
(***************************************************************************)
(* The row of replicas.                                                    *)
(***************************************************************************)

IsRow(row, held, F) ==
  row = [k \in 0 .. Len(F) |-> IF k = 0 THEN held ELSE WithPayload(row[k - 1], F[k])]

\* A row goes on with what is queued.
LEMMA RowGrows ==
  ASSUME NEW row, NEW held, NEW F \in Seq(Payload), NEW p \in Payload, IsRow(row, held, F)
  PROVE  \E longer :
           /\ IsRow(longer, held, Append(F, p))
           /\ \A k \in 0 .. Len(F) : longer[k] = row[k]
           /\ longer[Len(F) + 1] = WithPayload(row[Len(F)], p)
<1> DEFINE n == Len(F)
           G == Append(F, p)
           last == WithPayload(row[n], p)
           longer == [k \in 0 .. n + 1 |-> IF k <= n THEN row[k] ELSE last]
<1>1. /\ n \in Nat /\ Len(G) = n + 1 /\ G[n + 1] = p
      /\ \A k \in 1 .. n : G[k] = F[k]
  BY AppendProperties
<1>2. \A k \in 0 .. n : row[k] = IF k = 0 THEN held ELSE WithPayload(row[k - 1], F[k])
  BY DEF IsRow
<1> HIDE DEF G
<1>3. ASSUME NEW k \in 0 .. n + 1
      PROVE  longer[k] = IF k = 0 THEN held ELSE WithPayload(longer[k - 1], G[k])
  <2>1. CASE k <= n
    <3>1. k \in 0 .. n /\ longer[k] = row[k] /\ (k # 0 => longer[k - 1] = row[k - 1] /\ G[k] = F[k])
      BY <1>1, <2>1
    <3> HIDE DEF longer
    <3> QED BY <1>2, <3>1
  <2>2. CASE k = n + 1
    <3>1. longer[k] = last /\ k # 0 /\ longer[k - 1] = row[n] /\ G[k] = p
      BY <1>1, <2>2
    <3> HIDE DEF longer
    <3> QED BY <3>1
  <2> QED BY <1>1, <2>1, <2>2
<1>4. longer = [k \in 0 .. n + 1 |-> longer[k]]
  OBVIOUS
<1>5. \A k \in 0 .. n : longer[k] = row[k]
  BY <1>1
<1>6. longer[n + 1] = last
  BY <1>1
<1> HIDE DEF longer
<1>7. IsRow(longer, held, G)
  BY <1>1, <1>3, <1>4 DEF IsRow
<1> QED BY <1>5, <1>6, <1>7 DEF G

\* A row goes on from its second place when its first payload is read.
LEMMA RowShrinks ==
  ASSUME NEW row, NEW held, NEW F \in Seq(Payload), F # << >>, IsRow(row, held, F)
  PROVE  \E shorter :
           /\ IsRow(shorter, WithPayload(held, F[1]), Tail(F))
           /\ \A k \in 0 .. Len(F) - 1 : shorter[k] = row[k + 1]
<1> DEFINE n == Len(F)
           G == Tail(F)
           shorter == [k \in 0 .. n - 1 |-> row[k + 1]]
<1>1. /\ n \in Nat /\ n >= 1 /\ Len(G) = n - 1
      /\ \A k \in 1 .. n - 1 : G[k] = F[k + 1]
  BY HeadTailProperties
<1>2. \A k \in 0 .. n : row[k] = IF k = 0 THEN held ELSE WithPayload(row[k - 1], F[k])
  BY DEF IsRow
<1> HIDE DEF G
<1>3. ASSUME NEW k \in 0 .. n - 1
      PROVE  shorter[k] = IF k = 0 THEN WithPayload(held, F[1])
                          ELSE WithPayload(shorter[k - 1], G[k])
  <2>1. k + 1 \in 0 .. n /\ k + 1 # 0 /\ (k + 1) - 1 = k
    BY <1>1
  <2>2. row[k + 1] = WithPayload(row[k], F[k + 1])
    BY <1>2, <2>1
  <2>3. shorter[k] = row[k + 1]
    OBVIOUS
  <2>4. CASE k = 0
    <3>1. row[0] = held /\ F[k + 1] = F[1]
      BY <1>1, <1>2, <2>4
    <3> HIDE DEF shorter
    <3> QED BY <2>2, <2>3, <2>4, <3>1
  <2>5. CASE k # 0
    <3>1. shorter[k - 1] = row[k] /\ G[k] = F[k + 1]
      BY <1>1, <2>5
    <3> HIDE DEF shorter
    <3> QED BY <2>2, <2>3, <2>5, <3>1
  <2> QED BY <2>4, <2>5
<1>4. shorter = [k \in 0 .. n - 1 |-> shorter[k]]
  OBVIOUS
<1>5. \A k \in 0 .. n - 1 : shorter[k] = row[k + 1]
  OBVIOUS
<1> HIDE DEF shorter
<1>6. IsRow(shorter, WithPayload(held, F[1]), G)
  BY <1>1, <1>3, <1>4 DEF IsRow
<1> QED BY <1>5, <1>6 DEF G

\* Of a set of numbers one is the least.
LEMMA LeastOf ==
  ASSUME NEW S \in SUBSET Nat, S # {}
  PROVE  \E m \in S : \A k \in S : m <= k
<1>1. PICK m \in S : \A k \in S : <<k, m>> \notin OpToRel(<, Nat)
  BY WFMin, NatLessThanWellFounded, Zenon
<1>2. \A k \in S : ~(k < m)
  BY <1>1, Zenon DEF OpToRel
<1> QED BY <1>2

\* There is one row: where two would first differ they go on from the same.
LEMMA RowIsOne ==
  ASSUME NEW row, NEW other, NEW held, NEW F \in Seq(Payload), IsRow(row, held, F),
         IsRow(other, held, F)
  PROVE  row = other
<1> DEFINE n == Len(F)
           Differ == {k \in 0 .. n : row[k] # other[k]}
<1>1. n \in Nat
  OBVIOUS
<1>2. \A k \in 0 .. n : row[k] = IF k = 0 THEN held ELSE WithPayload(row[k - 1], F[k])
  BY DEF IsRow
<1>3. \A k \in 0 .. n : other[k] = IF k = 0 THEN held ELSE WithPayload(other[k - 1], F[k])
  BY DEF IsRow
<1>4. row = [k \in 0 .. n |-> row[k]] /\ other = [k \in 0 .. n |-> other[k]]
  BY DEF IsRow
<1>5. ASSUME Differ # {}
      PROVE  FALSE
  <2>0. Differ \in SUBSET Nat
    BY <1>1
  <2>1. PICK k \in Differ : \A j \in Differ : k <= j
    BY <1>5, <2>0, LeastOf
  <2>2. k \in 0 .. n /\ row[k] # other[k]
    BY <2>1
  <2>3. CASE k = 0
    BY <1>2, <1>3, <2>2, <2>3
  <2>4. CASE k # 0
    <3>1. k - 1 \in 0 .. n /\ ~(k <= k - 1)
      BY <1>1, <2>2, <2>4
    <3>2. row[k - 1] = other[k - 1]
      BY <2>1, <3>1
    <3> QED BY <1>2, <1>3, <2>2, <2>4, <3>2
  <2> QED BY <2>3, <2>4
<1>6. \A k \in 0 .. n : row[k] = other[k]
  BY <1>5
<1> HIDE DEF n
<1> QED BY <1>4, <1>6

\* The row of the model is the one that there is.
LEMMA ReplicaRowIs ==
  ASSUME InFlight \in Seq(Payload), NEW row, IsRow(row, HeldReplica, InFlight)
  PROVE  ReplicaRow = row
<1> DEFINE found == ReplicaRow
<1>1. found = CHOOSE f : IsRow(f, HeldReplica, InFlight)
  BY DEF ReplicaRow, IsRow
<1> HIDE DEF found
<1>2. IsRow(found, HeldReplica, InFlight)
  BY <1>1
<1>3. found = row
  BY <1>2, RowIsOne
<1> QED BY <1>3 DEF found
-----------------------------------------------------------------------------
(***************************************************************************)
(* The session of the catch-ups.                                           *)
(***************************************************************************)

NewestOf(session) == session.history[Len(session.history)]

\* The last catch-up is the newest of the history, and can become the baseline of the next.
Current(session, last) ==
  /\ SessionInv(session)
  /\ last \in 0 .. LastCatchup /\ session.next = last + 1
  /\ Len(session.history) >= 1
  /\ Chains(session, NewestOf(session))
  /\ session.acked = NoSequence \/ session.acked < last

\* The numbers of the catch-ups do not wrap within the bound.
LEMMA CatchupNumbers ==
  /\ LastCatchup \in Nat /\ LastCatchup + 1 < NoSequence /\ NoSequence \in Nat
  /\ HistoryLimit \in Nat /\ HistoryLimit >= 1 /\ HistoryLimit < NoSequence
BY CatchupAssumption, NoSequenceAssumption, HistoryLimitAssumption DEF SequenceNumber

\* The last catch-up is what the next one is built on.
LEMMA NewestIsBaseline ==
  ASSUME NEW session, NEW last, Current(session, last)
  PROVE  /\ HasBaseline(session, last) /\ CanAdvance(session, last)
         /\ last \in SequenceNumber /\ last \in AckNumber
         /\ NewestOf(session) \in HistoryEntry
         /\ AdvanceAcknowledged(session, last).acked = last
         /\ BaselineFor(session, last) =
              ApplyRecords(IF NewestOf(session).full THEN EmptyView ELSE session.state,
                           NewestOf(session).records)
<1> DEFINE h == session.history
           n == Len(h)
           index == HistoryIndex(h, last)
<1>1. /\ n \in Nat /\ n >= 1 /\ n <= HistoryLimit /\ h \in Seq(HistoryEntry)
      /\ \A i \in 1 .. n : h[i].sequence = SequenceBack(session.next, n + 1 - i)
  BY DEF Current, SessionInv, Session, HistoryContiguous
<1>2. /\ last \in Nat /\ last + 1 < NoSequence /\ session.next = last + 1
      /\ last \in SequenceNumber /\ last \in AckNumber /\ last # NoSequence
  BY CatchupNumbers DEF Current, SequenceNumber, AckNumber
<1>3. h[n].sequence = last
  <2>1. n \in 1 .. n /\ n + 1 - n = 1
    BY <1>1
  <2>2. h[n].sequence = SequenceBack(session.next, 1)
    BY <1>1, <2>1
  <2> QED BY <1>2, <2>2 DEF SequenceBack
<1>4. \A i \in 1 .. n : h[i].sequence = last => i = n
  <2> SUFFICES ASSUME NEW i \in 1 .. n, h[i].sequence = last
               PROVE  i = n
    OBVIOUS
  <2>1. SequenceBack(session.next, n + 1 - i) = last
    BY <1>1
  <2>2. n + 1 - i \in 1 .. n /\ n < NoSequence /\ i \in Int
    BY <1>1, CatchupNumbers
  <2> DEFINE m == n + 1 - i
  <2>3. m = 1
    <3>1. SequenceBack(last + 1, m) = last /\ m \in 1 .. n
      BY <1>2, <2>1, <2>2
    <3> HIDE DEF m, n
    <3> QED BY <1>1, <1>2, <2>2, <3>1, CatchupNumbers DEF SequenceBack
  <2> QED BY <1>1, <2>2, <2>3
<1>5. /\ index \in 0 .. n
      /\ index # 0 => h[index].sequence = last
      /\ index = 0 <=> \A i \in 1 .. n : h[i].sequence # last
  BY <1>2, HistoryIndexExact DEF Current
<1> HIDE DEF index
<1>6. index = n
  BY <1>1, <1>3, <1>4, <1>5
<1>7. last # session.acked
  BY <1>2 DEF Current
<1>8. CanAdvance(session, last)
  BY <1>1, <1>2, <1>6, <1>7 DEF CanAdvance, Current, NewestOf, index
<1>9. HasBaseline(session, last)
  BY <1>2, <1>8 DEF HasBaseline
<1>10. /\ AdvanceAcknowledged(session, last).acked = last
       /\ AdvanceAcknowledged(session, last).state =
            ApplyRecords(IF h[index].full THEN EmptyView ELSE session.state, h[index].records)
       /\ h[index] \in HistoryEntry
  BY <1>2, <1>8, AdvanceFacts DEF Current, index
<1> QED BY <1>2, <1>6, <1>8, <1>9, <1>10 DEF BaselineFor, NewestOf

\* The records of a full snapshot are whole entities: whatever they are applied to, they
\* give the same.
LEMMA FullIsWhole ==
  ASSUME NEW frame \in View, NEW admitted \in SUBSET DueIds(frame, EmptyView), NEW view \in View
  PROVE  LET records == PlanRecords(frame, EmptyView, admitted)
         IN ApplySnapshotInPlace(view, TRUE, records) = ApplyRecords(EmptyView, records)
<1> DEFINE records == PlanRecords(frame, EmptyView, admitted)
<1>1. admitted \in SUBSET NetId
  BY DEF DueIds
<1>2. DOMAIN records = admitted
  BY <1>1, EmptyViewType, PlanRecordsType
<1>3. ASSUME NEW id \in admitted
      PROVE  PatchEntity(view[id], records[id]) = PatchEntity(EmptyView[id], records[id])
  <2>1. id \in NetId /\ EmptyView[id] = Absent
    BY <1>1 DEF EmptyView
  <2>2. frame[id] # Absent /\ frame[id] \in WireEntity
    BY <2>1 DEF DueIds, View
  <2>3. records[id] = BuildDelta(frame[id], Absent)
    BY <2>1, <2>2 DEF PlanRecords
  <2>4. records[id] = frame[id] /\ records[id] # Removed
    BY <2>2, <2>3, BuildDeltaType
  <2> HIDE DEF records
  <2>5. DOMAIN records[id] = Field
    BY <2>2, <2>4 DEF WireEntity
  <2> QED BY <2>4, <2>5 DEF PatchEntity
<1> HIDE DEF records
<1>4. ASSUME NEW id \in NetId, id \notin admitted
      PROVE  EmptyView[id] = Absent
  BY DEF EmptyView
<1>5. ApplySnapshotInPlace(view, TRUE, records) = ApplyRecords(EmptyView, records)
  BY <1>2, <1>3, <1>4 DEF ApplySnapshotInPlace, ApplyRecords
<1> QED BY <1>5 DEF records

\* A delta applies in place as the server applies it.
LEMMA DeltaInPlace ==
  ASSUME NEW view, NEW records
  PROVE  ApplySnapshotInPlace(view, FALSE, records) = ApplyRecords(view, records)
BY DEF ApplySnapshotInPlace, ApplyRecords

\* A catch-up is built on the last one, or is full, and is what the next is built on.
LEMMA CatchupChains ==
  ASSUME Current(catchups, lastCatchup), NEW frame \in View,
         NEW admitted \in Admissible(frame, BaselineFor(catchups, CatchupAck)),
         catchups.next <= LastCatchup,
         lastCatchup' = NextEntry(catchups, CatchupAck, frame, admitted).sequence,
         catchups' = BuildFromFrame(catchups, CatchupAck, frame, admitted)
  PROVE  LET entry == NextEntry(catchups, CatchupAck, frame, admitted)
         IN /\ Current(catchups', lastCatchup')
            /\ entry \in HistoryEntry
            /\ entry.full \/ entry.baseline = lastCatchup
            /\ BaselineFor(catchups', lastCatchup') =
                 ApplySnapshotInPlace(BaselineFor(catchups, lastCatchup), entry.full,
                                      entry.records)
<1> DEFINE entry == NextEntry(catchups, CatchupAck, frame, admitted)
           advanced == AdvanceAcknowledged(catchups, CatchupAck)
<1>1. CatchupAck \in AckNumber /\ CatchupAck \in {NoSequence, lastCatchup}
  BY NewestIsBaseline DEF CatchupAck, AckNumber
<1>2. admitted \in SUBSET NetId
  BY DEF Admissible, DueIds
<1>3. SessionInv(catchups)
  BY DEF Current
<1>4. entry \in HistoryEntry /\ BaselineFor(catchups, CatchupAck) \in View
  BY <1>1, <1>2, <1>3, NextEntryType
<1>5. /\ entry.sequence = catchups.next
      /\ entry.full = ~HasBaseline(catchups, CatchupAck)
      /\ entry.baseline = IF HasBaseline(catchups, CatchupAck) THEN CatchupAck ELSE NoSequence
      /\ entry.records = PlanRecords(frame, BaselineFor(catchups, CatchupAck), admitted)
  BY DEF NextEntry
<1>6. /\ SessionInv(catchups')
      /\ catchups'.next = SequenceAfter(catchups.next)
      /\ catchups'.acked = advanced.acked
      /\ catchups'.state = advanced.state
      /\ \E evicted \in {0, 1} :
           /\ Len(catchups'.history) = Len(advanced.history) + 1 - evicted
           /\ \A i \in 1 .. Len(catchups'.history) :
                catchups'.history[i] = IF i + evicted <= Len(advanced.history)
                                       THEN advanced.history[i + evicted]
                                       ELSE entry
  BY <1>1, <1>2, <1>3, BuildFacts, SMTT(30)
<1>7. /\ lastCatchup \in Nat /\ catchups.next = lastCatchup + 1
      /\ lastCatchup' = lastCatchup + 1 /\ lastCatchup' \in 0 .. LastCatchup
      /\ catchups'.next = lastCatchup' + 1
  BY <1>5, <1>6, CatchupNumbers DEF Current, SequenceAfter
<1>8. Len(catchups'.history) >= 1 /\ NewestOf(catchups') = entry
  <2>1. SessionInv(advanced) /\ Len(advanced.history) \in Nat
    BY <1>1, <1>3, AdvanceFacts DEF SessionInv, Session
  <2>2. advanced \in Session /\ advanced.history \in Seq(HistoryEntry)
    BY <2>1 DEF SessionInv, Session
  <2>3. catchups'.history = EvictOldest(Append(advanced.history, entry))
    <3>1. catchups' = [advanced EXCEPT !.next = SequenceAfter(@),
                                       !.history = EvictOldest(Append(@, entry))]
      BY DEF BuildFromFrame
    <3> HIDE DEF advanced, entry
    <3>2. advanced = [next |-> advanced.next, history |-> advanced.history,
                      acked |-> advanced.acked, state |-> advanced.state]
      BY <2>2 DEF Session
    <3> QED BY <3>1, <3>2
  <2> HIDE DEF advanced, entry
  <2>4. /\ Append(advanced.history, entry) \in Seq(HistoryEntry)
        /\ Len(Append(advanced.history, entry)) = Len(advanced.history) + 1
        /\ Append(advanced.history, entry)[Len(advanced.history) + 1] = entry
    BY <1>4, <2>2, AppendProperties
  <2> DEFINE longer == Append(advanced.history, entry)
  <2> HIDE DEF longer
  <2>5. CASE Len(longer) > HistoryLimit
    <3>1. longer # << >> /\ catchups'.history = Tail(longer) /\ longer \in Seq(HistoryEntry)
      BY <2>1, <2>3, <2>4, <2>5 DEF EvictOldest, longer
    <3>2. /\ Len(Tail(longer)) = Len(longer) - 1
          /\ \A j \in 1 .. Len(Tail(longer)) : Tail(longer)[j] = longer[j + 1]
      BY <3>1, HeadTailProperties
    <3>3. Len(longer) = Len(advanced.history) + 1 /\ longer[Len(advanced.history) + 1] = entry
      BY <2>4 DEF longer
    <3> QED BY <2>1, <2>5, <3>1, <3>2, <3>3, CatchupNumbers DEF NewestOf
  <2>6. CASE ~(Len(longer) > HistoryLimit)
    BY <2>1, <2>3, <2>4, <2>6 DEF EvictOldest, NewestOf, longer
  <2> QED BY <2>5, <2>6
<1>9. CASE CatchupAck = lastCatchup
  <2>1. HasBaseline(catchups, CatchupAck) /\ advanced.acked = lastCatchup
    BY <1>9, NewestIsBaseline
  <2>2. ~entry.full /\ entry.baseline = lastCatchup /\ entry.full = FALSE
    BY <1>5, <1>9, <2>1
  <2>3. advanced.state = BaselineFor(catchups, lastCatchup)
    BY <1>9, <2>1 DEF BaselineFor
  <2> HIDE DEF entry, advanced
  <2>4. Current(catchups', lastCatchup')
    BY <1>6, <1>7, <1>8, <2>1, <2>2 DEF Current, Chains
  <2>5. BaselineFor(catchups', lastCatchup') = ApplyRecords(catchups'.state, entry.records)
    <3>1. BaselineFor(catchups', lastCatchup') =
            ApplyRecords(IF NewestOf(catchups').full THEN EmptyView ELSE catchups'.state,
                         NewestOf(catchups').records)
      BY <2>4, NewestIsBaseline
    <3> QED BY <1>8, <2>2, <3>1
  <2>6. BaselineFor(catchups', lastCatchup') =
          ApplySnapshotInPlace(BaselineFor(catchups, lastCatchup), entry.full, entry.records)
    <3>1. BaselineFor(catchups', lastCatchup') =
            ApplyRecords(BaselineFor(catchups, lastCatchup), entry.records)
      BY <1>6, <2>3, <2>5
    <3> QED BY <2>2, <3>1, DeltaInPlace
  <2> QED BY <1>4, <2>2, <2>4, <2>6 DEF entry
<1>10. CASE CatchupAck = NoSequence
  <2>1. ~HasBaseline(catchups, CatchupAck)
    BY <1>10 DEF HasBaseline
  <2>2. entry.full = TRUE /\ BaselineFor(catchups, CatchupAck) = EmptyView
    BY <1>5, <2>1 DEF BaselineFor
  <2>3. entry.records = PlanRecords(frame, EmptyView, admitted)
        /\ admitted \in SUBSET DueIds(frame, EmptyView)
    BY <1>5, <2>2 DEF Admissible
  <2>4. advanced = catchups
    BY <1>10 DEF AdvanceAcknowledged, CanAdvance
  <2>5. BaselineFor(catchups, lastCatchup) \in View
    <3>1. lastCatchup \in AckNumber
      BY NewestIsBaseline
    <3> QED BY <1>2, <1>3, <3>1, NextEntryType
  <2> HIDE DEF entry, advanced
  <2>6. Current(catchups', lastCatchup')
    <3>1. Chains(catchups', NewestOf(catchups'))
      BY <1>8, <2>2 DEF Chains
    <3>2. catchups.acked = NoSequence \/ catchups.acked < lastCatchup'
      <4>1. catchups.acked \in Int
        BY <1>3, CatchupNumbers DEF SessionInv, Session, AckNumber, SequenceNumber
      <4> QED BY <1>7, <4>1 DEF Current
    <3> QED BY <1>6, <1>7, <1>8, <2>4, <3>1, <3>2 DEF Current
  <2>7. BaselineFor(catchups', lastCatchup') = ApplyRecords(EmptyView, entry.records)
    <3>1. BaselineFor(catchups', lastCatchup') =
            ApplyRecords(IF NewestOf(catchups').full THEN EmptyView ELSE catchups'.state,
                         NewestOf(catchups').records)
      BY <2>6, NewestIsBaseline
    <3> QED BY <1>8, <2>2, <3>1
  <2>8. BaselineFor(catchups', lastCatchup') =
          ApplySnapshotInPlace(BaselineFor(catchups, lastCatchup), entry.full, entry.records)
    <3>1. ApplySnapshotInPlace(BaselineFor(catchups, lastCatchup), TRUE,
                               PlanRecords(frame, EmptyView, admitted))
            = ApplyRecords(EmptyView, PlanRecords(frame, EmptyView, admitted))
      BY <2>3, <2>5, FullIsWhole, ZenonT(30)
    <3> QED BY <2>2, <2>3, <2>7, <3>1, ZenonT(30)
  <2> QED BY <1>4, <2>2, <2>6, <2>8 DEF entry
<1> QED BY <1>1, <1>9, <1>10
-----------------------------------------------------------------------------
(***************************************************************************)
(* The chain, and the deaths, of a row of payloads.                        *)
(***************************************************************************)

ChainOf(held, F, end) ==
  \E row :
    /\ IsRow(row, held, F)
    /\ \A k \in 1 .. Len(F) :
         F[k].kind = "snapshot" => F[k].full \/ F[k].baseline = row[k - 1].sequence
    /\ row[Len(F)] = end

\* A payload that continues the end of a chain is its new end.
LEMMA ChainGrows ==
  ASSUME NEW held, NEW F \in Seq(Payload), NEW end, ChainOf(held, F, end), NEW p \in Payload,
         p.kind = "snapshot" => p.full \/ p.baseline = end.sequence
  PROVE  ChainOf(held, Append(F, p), WithPayload(end, p))
<1>1. PICK row :
        /\ IsRow(row, held, F)
        /\ \A k \in 1 .. Len(F) :
             F[k].kind = "snapshot" => F[k].full \/ F[k].baseline = row[k - 1].sequence
        /\ row[Len(F)] = end
  BY DEF ChainOf
<1>2. PICK longer :
        /\ IsRow(longer, held, Append(F, p))
        /\ \A k \in 0 .. Len(F) : longer[k] = row[k]
        /\ longer[Len(F) + 1] = WithPayload(row[Len(F)], p)
  BY <1>1, RowGrows
<1> DEFINE n == Len(F)
           G == Append(F, p)
<1>3. /\ n \in Nat /\ Len(G) = n + 1 /\ G[n + 1] = p
      /\ \A k \in 1 .. n : G[k] = F[k]
  BY AppendProperties
<1> HIDE DEF G
<1>4. ASSUME NEW k \in 1 .. n + 1, G[k].kind = "snapshot"
      PROVE  G[k].full \/ G[k].baseline = longer[k - 1].sequence
  <2>1. CASE k <= n
    <3>1. k \in 1 .. n /\ k - 1 \in 0 .. n
      BY <1>3, <2>1
    <3> QED BY <1>1, <1>2, <1>3, <1>4, <3>1
  <2>2. CASE k = n + 1
    <3>1. k - 1 = n /\ n \in 0 .. n
      BY <1>3, <2>2
    <3> QED BY <1>1, <1>2, <1>3, <1>4, <2>2, <3>1
  <2> QED BY <1>3, <2>1, <2>2
<1>5. IsRow(longer, held, G) /\ longer[Len(G)] = WithPayload(end, p)
  BY <1>1, <1>2, <1>3 DEF G
<1> QED BY <1>3, <1>4, <1>5 DEF ChainOf, G

\* What is read continues what is held, and what comes after it continues what it gives.
LEMMA ChainShrinks ==
  ASSUME NEW held, NEW F \in Seq(Payload), NEW end, ChainOf(held, F, end), F # << >>
  PROVE  /\ ChainOf(WithPayload(held, F[1]), Tail(F), end)
         /\ F[1].kind = "snapshot" => F[1].full \/ F[1].baseline = held.sequence
<1>1. PICK row :
        /\ IsRow(row, held, F)
        /\ \A k \in 1 .. Len(F) :
             F[k].kind = "snapshot" => F[k].full \/ F[k].baseline = row[k - 1].sequence
        /\ row[Len(F)] = end
  BY DEF ChainOf
<1>2. PICK shorter :
        /\ IsRow(shorter, WithPayload(held, F[1]), Tail(F))
        /\ \A k \in 0 .. Len(F) - 1 : shorter[k] = row[k + 1]
  BY <1>1, RowShrinks
<1> DEFINE n == Len(F)
           G == Tail(F)
<1>3. /\ n \in Nat /\ n >= 1 /\ Len(G) = n - 1
      /\ \A k \in 1 .. n - 1 : G[k] = F[k + 1]
  BY HeadTailProperties
<1> HIDE DEF G
<1>4. ASSUME NEW k \in 1 .. n - 1, G[k].kind = "snapshot"
      PROVE  G[k].full \/ G[k].baseline = shorter[k - 1].sequence
  <2>1. k + 1 \in 1 .. n /\ (k + 1) - 1 = k /\ k - 1 \in 0 .. n - 1 /\ (k - 1) + 1 = k
    BY <1>3
  <2>2. F[k + 1].full \/ F[k + 1].baseline = row[k].sequence
    BY <1>1, <1>3, <1>4, <2>1
  <2>3. shorter[k - 1] = row[k]
    BY <1>2, <2>1
  <2> QED BY <1>3, <2>2, <2>3
<1>5. shorter[n - 1] = end
  <2>1. n - 1 \in 0 .. n - 1 /\ (n - 1) + 1 = n
    BY <1>3
  <2> QED BY <1>1, <1>2, <2>1
<1>6. ChainOf(WithPayload(held, F[1]), G, end)
  BY <1>2, <1>3, <1>4, <1>5 DEF ChainOf, G
<1>7. F[1].kind = "snapshot" => F[1].full \/ F[1].baseline = held.sequence
  <2>1. 1 \in 1 .. n /\ 1 - 1 = 0 /\ 0 \in 0 .. n
    BY <1>3
  <2>2. row[0] = held
    BY <1>1, <2>1 DEF IsRow
  <2> QED BY <1>1, <2>1, <2>2
<1> QED BY <1>6, <1>7 DEF G

KillsIn(F) == {i \in 1 .. Len(F) : F[i].kind = "kill"}

\* KillsInOrder, of values.
InOrder(said, F, next, first) ==
  /\ \A i, j \in 1 .. Len(said) : i < j => said[i] < said[j]
  /\ \A i, j \in KillsIn(F) : i < j => F[i].sequence < F[j].sequence
  /\ \A i \in 1 .. Len(said), j \in KillsIn(F) : said[i] < F[j].sequence
  /\ \A i \in 1 .. Len(said) : said[i] < next
  /\ \A i \in KillsIn(F) : F[i].sequence < next
  /\ \A k \in 0 .. next - 1 :
       \/ k < first
       \/ \E i \in 1 .. Len(said) : said[i] = k
       \/ \E i \in KillsIn(F) : F[i].sequence = k

\* A snapshot among the payloads changes nothing about the deaths.
LEMMA SnapshotQueued ==
  ASSUME NEW said \in Seq(Nat), NEW F \in Seq(Payload), NEW next \in Nat, NEW first \in Nat,
         InOrder(said, F, next, first), NEW p \in Payload, p.kind = "snapshot"
  PROVE  InOrder(said, Append(F, p), next, first)
<1> DEFINE G == Append(F, p)
<1>1. /\ Len(F) \in Nat /\ Len(G) = Len(F) + 1 /\ G[Len(F) + 1] = p
      /\ \A k \in 1 .. Len(F) : G[k] = F[k]
  BY AppendProperties
<1> HIDE DEF G
<1>2. KillsIn(G) = KillsIn(F)
  BY <1>1 DEF KillsIn
<1>3. \A i \in KillsIn(F) : G[i] = F[i]
  BY <1>1 DEF KillsIn
<1> QED BY <1>2, <1>3 DEF InOrder, G

\* A death that is queued is later than all before it, and what lies between is evicted.
LEMMA KillQueued ==
  ASSUME NEW said \in Seq(Nat), NEW F \in Seq(Payload), NEW next \in Nat, NEW first \in Nat,
         InOrder(said, F, next, first), NEW n \in Nat, next <= n,
         \A k \in next .. n - 1 : k < first
  PROVE  InOrder(said, Append(F, KillPayload(n)), n + 1, first)
<1> DEFINE p == KillPayload(n)
           G == Append(F, p)
           size == Len(F)
<1>1. p \in Payload /\ p.kind = "kill" /\ p.sequence = n
  BY DEF KillPayload, Payload, KillEvent
<1>2. /\ size \in Nat /\ Len(G) = size + 1 /\ G[size + 1] = p
      /\ \A k \in 1 .. size : G[k] = F[k]
  BY <1>1, AppendProperties
<1> HIDE DEF G, p
<1>3. KillsIn(G) = KillsIn(F) \cup {size + 1}
  BY <1>1, <1>2 DEF KillsIn
<1>4. \A i \in KillsIn(F) : G[i] = F[i] /\ i \in Int /\ i < size + 1 /\ F[i] \in Payload
  BY <1>2 DEF KillsIn
<1>5. \A i \in KillsIn(F) : F[i].sequence \in Int /\ F[i].sequence < n
  <2>1. \A i \in KillsIn(F) : F[i].sequence \in Nat
    BY <1>4 DEF KillsIn, Payload, KillEvent, SnapshotPayload
  <2> QED BY <2>1 DEF InOrder
<1>6. \A i \in 1 .. Len(said) : said[i] \in Nat /\ said[i] < n
  BY DEF InOrder
<1>7. /\ \A i, j \in 1 .. Len(said) : i < j => said[i] < said[j]
      /\ \A i \in 1 .. Len(said) : said[i] < n + 1
  BY <1>6 DEF InOrder
<1>8. \A i, j \in KillsIn(G) : i < j => G[i].sequence < G[j].sequence
  <2> SUFFICES ASSUME NEW i \in KillsIn(G), NEW j \in KillsIn(G), i < j
               PROVE  G[i].sequence < G[j].sequence
    OBVIOUS
  <2>1. i \in KillsIn(F)
    BY <1>2, <1>3, <1>4
  <2>2. CASE j \in KillsIn(F)
    BY <1>4, <2>1, <2>2 DEF InOrder
  <2>3. CASE j = size + 1
    BY <1>1, <1>2, <1>4, <1>5, <2>1, <2>3
  <2> QED BY <1>3, <2>2, <2>3
<1>9. \A i \in 1 .. Len(said), j \in KillsIn(G) : said[i] < G[j].sequence
  BY <1>1, <1>2, <1>3, <1>4, <1>6 DEF InOrder
<1>10. \A i \in KillsIn(G) : G[i].sequence < n + 1
  <2> SUFFICES ASSUME NEW i \in KillsIn(G) PROVE G[i].sequence < n + 1
    OBVIOUS
  <2>1. CASE i \in KillsIn(F)
    BY <1>4, <1>5, <2>1
  <2>2. CASE i = size + 1
    BY <1>1, <1>2, <2>2
  <2> QED BY <1>3, <2>1, <2>2
<1>11. ASSUME NEW k \in 0 .. (n + 1) - 1
       PROVE  \/ k < first
              \/ \E i \in 1 .. Len(said) : said[i] = k
              \/ \E i \in KillsIn(G) : G[i].sequence = k
  <2>1. k \in 0 .. next - 1 \/ k \in next .. n - 1 \/ k = n
    OBVIOUS
  <2>2. CASE k \in 0 .. next - 1
    BY <1>3, <1>4, <2>2 DEF InOrder
  <2>3. CASE k \in next .. n - 1
    BY <2>3
  <2>4. CASE k = n
    BY <1>1, <1>2, <1>3, <2>4
  <2> QED BY <2>1, <2>2, <2>3, <2>4
<1> QED BY <1>7, <1>8, <1>9, <1>10, <1>11 DEF InOrder, G, p

\* Reading a payload moves its death, if it has one, from the stream to the client.
LEMMA KillRead ==
  ASSUME NEW said \in Seq(Nat), NEW F \in Seq(Payload), F # << >>, NEW next \in Nat,
         NEW first \in Nat, InOrder(said, F, next, first)
  PROVE  /\ F[1].kind = "kill" =>
              /\ Append(said, F[1].sequence) \in Seq(Nat)
              /\ InOrder(Append(said, F[1].sequence), Tail(F), next, first)
         /\ F[1].kind = "snapshot" => InOrder(said, Tail(F), next, first)
<1> DEFINE n == Len(F)
           G == Tail(F)
           m == Len(said)
<1>1. /\ n \in Nat /\ n >= 1 /\ Len(G) = n - 1
      /\ \A k \in 1 .. n - 1 : G[k] = F[k + 1]
      /\ \A k \in 1 .. n : F[k] \in Payload
  BY HeadTailProperties
<1>2. m \in Nat /\ \A i \in 1 .. m : said[i] \in Nat
  OBVIOUS
<1> HIDE DEF G
<1>3. \A i \in KillsIn(G) : i + 1 \in KillsIn(F) /\ G[i] = F[i + 1] /\ i \in Int /\ i >= 1
  BY <1>1 DEF KillsIn
<1>4. \A i \in KillsIn(F) : i # 1 => i - 1 \in KillsIn(G) /\ G[i - 1] = F[i]
  BY <1>1 DEF KillsIn
<1>5. \A i \in KillsIn(F) : F[i].sequence \in Nat /\ i \in Int
  BY <1>1 DEF KillsIn, Payload, KillEvent, SnapshotPayload
<1>6. \A i, j \in KillsIn(G) : i < j => G[i].sequence < G[j].sequence
  <2> SUFFICES ASSUME NEW i \in KillsIn(G), NEW j \in KillsIn(G), i < j
               PROVE  G[i].sequence < G[j].sequence
    OBVIOUS
  <2>1. i + 1 \in KillsIn(F) /\ j + 1 \in KillsIn(F) /\ i + 1 < j + 1
    BY <1>3
  <2> QED BY <1>3, <2>1 DEF InOrder
<1>7. \A i \in KillsIn(G) : G[i].sequence < next
  BY <1>3 DEF InOrder
<1>8. CASE F[1].kind = "kill"
  <2> DEFINE x == F[1].sequence
             longer == Append(said, x)
  <2>1. 1 \in KillsIn(F) /\ x \in Nat
    BY <1>1, <1>5, <1>8 DEF KillsIn
  <2>2. /\ longer \in Seq(Nat) /\ Len(longer) = m + 1 /\ longer[m + 1] = x
        /\ \A i \in 1 .. m : longer[i] = said[i]
    BY <1>2, <2>1, AppendProperties
  <2> HIDE DEF longer, x
  <2>3. \A i \in 1 .. m : said[i] < x
    BY <2>1 DEF InOrder, x
  <2>4. \A i, j \in 1 .. Len(longer) : i < j => longer[i] < longer[j]
    <3> SUFFICES ASSUME NEW i \in 1 .. m + 1, NEW j \in 1 .. m + 1, i < j
                 PROVE  longer[i] < longer[j]
      BY <2>2
    <3>1. i \in 1 .. m
      BY <1>2
    <3>2. CASE j \in 1 .. m
      BY <2>2, <3>1, <3>2 DEF InOrder
    <3>3. CASE j = m + 1
      BY <2>2, <2>3, <3>1, <3>3
    <3> QED BY <1>2, <3>2, <3>3
  <2>5. \A i \in KillsIn(G) : x < G[i].sequence
    <3> SUFFICES ASSUME NEW i \in KillsIn(G)
                 PROVE  x < G[i].sequence
      OBVIOUS
    <3>1. i + 1 \in KillsIn(F) /\ 1 < i + 1 /\ G[i] = F[i + 1]
      BY <1>3
    <3> QED BY <2>1, <3>1 DEF InOrder, x
  <2>6. \A i \in 1 .. Len(longer), j \in KillsIn(G) : longer[i] < G[j].sequence
    <3> SUFFICES ASSUME NEW i \in 1 .. m + 1, NEW j \in KillsIn(G)
                 PROVE  longer[i] < G[j].sequence
      BY <2>2
    <3>1. CASE i \in 1 .. m
      <4>1. j + 1 \in KillsIn(F) /\ G[j] = F[j + 1]
        BY <1>3
      <4> QED BY <2>2, <3>1, <4>1 DEF InOrder
    <3>2. CASE i = m + 1
      BY <2>2, <2>5, <3>2
    <3> QED BY <1>2, <3>1, <3>2
  <2>7. \A i \in 1 .. Len(longer) : longer[i] < next
    <3>1. x < next
      BY <2>1 DEF InOrder, x
    <3>2. \A i \in 1 .. m : said[i] < next
      BY DEF InOrder
    <3>3. \A i \in 1 .. m + 1 : i \in 1 .. m \/ i = m + 1
      BY <1>2
    <3> QED BY <2>2, <3>1, <3>2, <3>3
  <2>8. ASSUME NEW k \in 0 .. next - 1
        PROVE  \/ k < first
               \/ \E i \in 1 .. Len(longer) : longer[i] = k
               \/ \E i \in KillsIn(G) : G[i].sequence = k
    <3>1. \/ k < first
          \/ \E i \in 1 .. m : said[i] = k
          \/ \E i \in KillsIn(F) : F[i].sequence = k
      BY DEF InOrder
    <3>2. ASSUME NEW i \in 1 .. m, said[i] = k
          PROVE  \E j \in 1 .. Len(longer) : longer[j] = k
      <4>1. i \in 1 .. Len(longer) /\ longer[i] = k
        BY <1>2, <2>2, <3>2, SMTT(30)
      <4> QED BY <4>1
    <3>3. ASSUME NEW i \in KillsIn(F), F[i].sequence = k
          PROVE  \/ \E j \in 1 .. Len(longer) : longer[j] = k
                 \/ \E j \in KillsIn(G) : G[j].sequence = k
      <4>1. CASE i = 1
        <5>1. m + 1 \in 1 .. Len(longer) /\ longer[m + 1] = k
          BY <1>2, <2>2, <3>3, <4>1 DEF x
        <5> QED BY <5>1
      <4>2. CASE i # 1
        BY <1>4, <3>3, <4>2
      <4> QED BY <4>1, <4>2
    <3> QED BY <3>1, <3>2, <3>3
  <2>9. InOrder(longer, G, next, first)
    BY <1>6, <1>7, <2>4, <2>6, <2>7, <2>8 DEF InOrder
  <2>10. F[1].kind # "snapshot"
    BY <1>8
  <2> QED BY <2>2, <2>9, <2>10 DEF longer, x, G
<1>9. CASE F[1].kind = "snapshot"
  <2>1. 1 \notin KillsIn(F)
    BY <1>9 DEF KillsIn
  <2>2. \A i \in 1 .. m, j \in KillsIn(G) : said[i] < G[j].sequence
    BY <1>3 DEF InOrder
  <2>3. ASSUME NEW k \in 0 .. next - 1
        PROVE  \/ k < first
               \/ \E i \in 1 .. m : said[i] = k
               \/ \E i \in KillsIn(G) : G[i].sequence = k
    BY <1>4, <2>1 DEF InOrder
  <2>4. InOrder(said, G, next, first)
    BY <1>6, <1>7, <2>2, <2>3 DEF InOrder
  <2>5. F[1].kind # "kill"
    BY <1>9
  <2> QED BY <2>4, <2>5 DEF G
<1>10. F[1].kind \in {"kill", "snapshot"}
  BY <1>1 DEF Payload, KillEvent, SnapshotPayload
<1> QED BY <1>8, <1>9, <1>10
-----------------------------------------------------------------------------
(***************************************************************************)
(* The client's merge.                                                     *)
(***************************************************************************)

\* A record that is not of a removal leaves an entity.
LEMMA PatchedIsPresent ==
  ASSUME NEW before \in WireEntity \cup {Absent}, NEW record \in Record, record # Removed
  PROVE  PatchEntity(before, record) # Absent
<1>1. \A f \in DOMAIN record : record[f] \in Value
  BY RecordFields
<1>2. \A f \in Field : DefaultEntity[f] \in Value
  BY RecordsAssumption DEF DefaultEntity
<1>3. before # Absent => \A f \in Field : before[f] \in Value
  BY DEF WireEntity
<1>4. PatchEntity(before, record) \in WireEntity
  BY <1>1, <1>2, <1>3 DEF PatchEntity, WireEntity
<1> QED BY <1>4, RecordsAssumption

\* A snapshot applied in place to a view gives a view.
LEMMA InPlaceType ==
  ASSUME NEW view \in View, NEW records \in Records, NEW full
  PROVE  ApplySnapshotInPlace(view, full, records) \in View
<1>1. \A id \in DOMAIN records : id \in NetId /\ records[id] \in Record
  BY RecordsFields
<1>2. \A id \in NetId : view[id] \in WireEntity \cup {Absent}
  BY DEF View
<1>3. ASSUME NEW id \in NetId
      PROVE  (IF id \in DOMAIN records THEN PatchEntity(view[id], records[id])
              ELSE IF full THEN Absent ELSE view[id]) \in WireEntity \cup {Absent}
  <2>1. CASE id \in DOMAIN records
    BY <1>1, <1>2, <2>1, PatchEntityType
  <2>2. CASE id \notin DOMAIN records
    BY <1>2, <2>2
  <2> QED BY <2>1, <2>2
<1> QED BY <1>3 DEF ApplySnapshotInPlace, View

\* Who is merged is in the replica.
LEMMA MergedArePresent ==
  ASSUME replica.view \in View, NEW payload \in SnapshotPayload
  PROVE  /\ MergedBy(payload) \subseteq Present(ReplicaAfter(payload))
         /\ ReplicaAfter(payload) \in View
<1>1. payload.records \in Records
  BY DEF SnapshotPayload
<1>2. \A id \in DOMAIN payload.records : id \in NetId /\ payload.records[id] \in Record
  BY <1>1, RecordsFields
<1>3. ASSUME NEW id \in MergedBy(payload)
      PROVE  id \in Present(ReplicaAfter(payload))
  <2>1. /\ id \in NetId /\ id \in DOMAIN payload.records
        /\ payload.records[id] \in Record /\ payload.records[id] # Removed
    BY <1>2 DEF MergedBy
  <2>2. replica.view[id] \in WireEntity \cup {Absent}
    BY <2>1 DEF View
  <2>3. PatchEntity(replica.view[id], payload.records[id]) # Absent
    BY <2>1, <2>2, PatchedIsPresent
  <2> QED BY <2>1, <2>3 DEF Present, ReplicaAfter, ApplySnapshotInPlace
<1>4. ReplicaAfter(payload) \in View
  BY <1>1, InPlaceType DEF ReplicaAfter
<1> QED BY <1>3, <1>4

\* Whom a catch-up does not have and the map still has is there from a later tick.
LEMMA OmittedAreNewer ==
  ASSUME replica.view \in View, told \subseteq replica.known, NEW payload \in SnapshotPayload,
         MergeReliable(payload), NEW id \in told, id \in NetId,
         ReplicaAfter(payload)[id] = Absent, clientMap'[id] # Absent
  PROVE  HeldNewer(id, payload.tick) /\ id \in Omitted(payload) /\ entityTick'[id] = entityTick[id]
<1>1. id \in Omitted(payload)
  BY DEF Omitted, Present
<1>2. id \notin MergedBy(payload)
  BY MergedArePresent DEF Present
<1>3. clientMap'[id] = IF id \in RemovedBy(payload) THEN Absent ELSE clientMap[id]
  BY <1>2 DEF MergeReliable, MergeView
<1>4. id \notin RemovedBy(payload) /\ clientMap[id] # Absent
  BY <1>3
<1>5. HeldNewer(id, payload.tick)
  BY <1>1, <1>4 DEF RemovedBy
<1>6. entityTick'[id] = entityTick[id]
  BY <1>2, <1>4 DEF MergeReliable, MergeTicks
<1> QED BY <1>1, <1>5, <1>6

\* Whom the catch-ups put into the map stays known as long as it is there.
LEMMA ToldStayKnown ==
  ASSUME replica.view \in View, told \subseteq replica.known, NEW payload \in SnapshotPayload,
         MergeReliable(payload)
  PROVE  told' \subseteq replica'.known
<1>1. replica'.known = KnownAfter(payload)
  BY DEF MergeReliable
<1>2. ASSUME NEW id \in told'
      PROVE  id \in KnownAfter(payload)
  <2>1. id \in told \cup MergedBy(payload) /\ id \in NetId /\ clientMap'[id] # Absent
    BY <1>2 DEF MergeReliable, Present
  <2>2. CASE ReplicaAfter(payload)[id] # Absent
    BY <2>1, <2>2 DEF KnownAfter, Present
  <2>3. CASE ReplicaAfter(payload)[id] = Absent
    <3>1. id \in told
      BY <2>1, <2>3, MergedArePresent DEF Present
    <3> QED BY <2>1, <2>3, <3>1, OmittedAreNewer DEF KnownAfter
  <2> QED BY <2>2, <2>3
<1> QED BY <1>1, <1>2
-----------------------------------------------------------------------------
(***************************************************************************)
(* The invariant.                                                          *)
(***************************************************************************)

Counters ==
  /\ firstKill \in Nat /\ nextKill \in Nat /\ cursor \in Nat
  /\ firstKill <= nextKill /\ cursor <= nextKill
  /\ frames \in Seq(PublishedFrame) /\ Len(frames) >= 1

\* What the server builds the next catch-up on.
Built == [view |-> BaselineFor(catchups, lastCatchup), sequence |-> lastCatchup]

CatchupInv ==
  /\ Pipes /\ Counters
  /\ Current(catchups, lastCatchup)
  /\ InOrder(heard, InFlight, cursor, firstKill)
  /\ ChainOf(HeldReplica, InFlight, Built)
  /\ replica.view \in View /\ told \subseteq replica.known

\* What is under way is a row of payloads.
LEMMA UnderWay ==
  ASSUME Pipes
  PROVE  /\ InFlight \in Seq(Payload) /\ Len(InFlight) = Len(stream) + Len(queue)
  BY ConcatProperties DEF Pipes, InFlight

\* A step that leaves alone what the invariant reads.
LEMMA SameParts ==
  ASSUME CatchupInv,
         UNCHANGED <<serverVars, cursor, chainVars, writerVars, heard, replica>>,
         told' \subseteq told
  PROVE  CatchupInv'
<1>1. Pipes' /\ Counters'
  BY DEF CatchupInv, Pipes, Counters, serverVars, writerVars
<1>2. Current(catchups', lastCatchup') /\ Built' = Built
  BY DEF CatchupInv, chainVars, Built
<1>3. InFlight' = InFlight /\ HeldReplica' = HeldReplica
  BY DEF InFlight, HeldReplica, writerVars
<1>4. /\ InOrder(heard', InFlight', cursor', firstKill')
      /\ ChainOf(HeldReplica', InFlight', Built')
  <2>1. heard' = heard /\ cursor' = cursor /\ firstKill' = firstKill
    BY DEF serverVars
  <2> QED BY <1>2, <1>3, <2>1 DEF CatchupInv
<1>5. replica'.view \in View /\ told' \subseteq replica'.known
  BY DEF CatchupInv
<1> QED BY <1>1, <1>2, <1>4, <1>5 DEF CatchupInv

\* The connection begins with the first snapshot on the stream.
LEMMA CatchupInvInit ==
  ASSUME CatchupInit
  PROVE  CatchupInv
<1> DEFINE view == frames[1]
           due == DueIds(view, EmptyView)
           entry == NextEntry(NewSession, NoSequence, view, due)
           p == CatchupPayload(entry, 1)
<1>1. /\ view \in PublishedFrame /\ view \in View /\ frames \in Seq(PublishedFrame)
      /\ Len(frames) = 1
  <2>1. PICK first \in PublishedFrame : frames = << first >>
    BY DEF CatchupInit
  <2>2. view = first /\ frames \in Seq(PublishedFrame) /\ Len(frames) = 1
    BY <2>1
  <2> QED BY <2>2 DEF PublishedFrame
<1>2. due \in SUBSET NetId /\ NoSequence \in AckNumber
  BY DEF DueIds, AckNumber
<1>3. /\ ~HasBaseline(NewSession, NoSequence)
      /\ AdvanceAcknowledged(NewSession, NoSequence) = NewSession
      /\ BaselineFor(NewSession, NoSequence) = EmptyView
  BY DEF HasBaseline, CanAdvance, AdvanceAcknowledged, BaselineFor
<1>4. /\ entry \in HistoryEntry /\ entry.sequence = 0 /\ entry.full = TRUE
      /\ entry.records = PlanRecords(view, EmptyView, due)
  <2>1. entry \in HistoryEntry
    BY <1>1, <1>2, NewSessionFacts, NextEntryType
  <2> QED BY <1>3, <2>1 DEF NextEntry, NewSession
<1>5. /\ SessionInv(catchups) /\ catchups.next = SequenceAfter(0)
      /\ catchups.acked = NoSequence
  <2> DEFINE built == BuildFromFrame(NewSession, NoSequence, view, due)
  <2>1. /\ SessionInv(built) /\ built.next = SequenceAfter(NewSession.next)
        /\ built.acked = NewSession.acked
    BY <1>1, <1>2, <1>3, NewSessionFacts, BuildFacts
  <2>2. catchups = built
    BY DEF CatchupInit
  <2> HIDE DEF built
  <2>3. NewSession.next = 0 /\ NewSession.acked = NoSequence
    BY DEF NewSession
  <2> QED BY <2>1, <2>2, <2>3
<1>6. catchups.history = << entry >>
  <2>1. catchups = [NewSession EXCEPT !.next = SequenceAfter(@),
                                      !.history = EvictOldest(Append(@, entry))]
    BY <1>3 DEF CatchupInit, BuildFromFrame
  <2> HIDE DEF entry
  <2>2. catchups.history = EvictOldest(Append(<< >>, entry))
    BY <2>1 DEF NewSession
  <2>3. Append(<< >>, entry) = << entry >> /\ Len(<< entry >>) = 1
    OBVIOUS
  <2> QED BY <2>2, <2>3, CatchupNumbers DEF EvictOldest
<1> HIDE DEF entry
<1>7. Current(catchups, lastCatchup) /\ NewestOf(catchups) = entry /\ lastCatchup = 0
  <2>1. lastCatchup = 0 /\ catchups.next = 1 /\ 0 \in 0 .. LastCatchup
    BY <1>5, CatchupNumbers DEF CatchupInit, SequenceAfter
  <2>2. Len(catchups.history) = 1 /\ NewestOf(catchups) = entry
    BY <1>6 DEF NewestOf
  <2> QED BY <1>4, <1>5, <2>1, <2>2 DEF Current, Chains
<1>8. stream = << p >> /\ queue = << >> /\ heard = << >>
  BY DEF CatchupInit, FirstCatchup, entry
<1>9. p \in Payload /\ p.kind = "snapshot" /\ p.full = TRUE /\ p.sequence = 0
      /\ p.records = entry.records
  BY <1>4 DEF CatchupPayload, Payload, SnapshotPayload, HistoryEntry
<1> HIDE DEF p
<1>10. Pipes /\ InFlight = << p >> /\ InFlight = Append(<< >>, p)
  BY <1>8, <1>9 DEF Pipes, InFlight
<1>11. InOrder(heard, InFlight, cursor, firstKill)
  <2>1. cursor = 0 /\ Len(heard) = 0
    BY <1>8 DEF CatchupInit
  <2>2. KillsIn(InFlight) = {}
    BY <1>9, <1>10 DEF KillsIn
  <2> QED BY <2>1, <2>2 DEF InOrder
<1>12. HeldReplica = [view |-> EmptyView, sequence |-> NoSequence]
  BY DEF CatchupInit, HeldReplica
<1>13. ChainOf(HeldReplica, << >>, HeldReplica)
  <2> DEFINE row == [k \in 0 .. 0 |-> HeldReplica]
  <2>1. IsRow(row, HeldReplica, << >>)
    BY DEF IsRow
  <2>2. row[Len(<< >>)] = HeldReplica
    OBVIOUS
  <2> HIDE DEF row
  <2> QED BY <2>1, <2>2 DEF ChainOf
<1>14. WithPayload(HeldReplica, p) = Built
  <2>1. BaselineFor(catchups, lastCatchup) = ApplyRecords(EmptyView, entry.records)
    BY <1>4, <1>7, NewestIsBaseline
  <2>2. ApplySnapshotInPlace(EmptyView, TRUE, entry.records) =
          ApplyRecords(EmptyView, entry.records)
    <3>1. due \in SUBSET DueIds(view, EmptyView)
      OBVIOUS
    <3> HIDE DEF due, view
    <3> QED BY <1>1, <1>4, <3>1, EmptyViewType, FullIsWhole
  <2> QED BY <1>7, <1>9, <1>12, <2>1, <2>2 DEF WithPayload, Built
<1>15. ChainOf(HeldReplica, InFlight, Built)
  <2>1. << >> \in Seq(Payload)
    OBVIOUS
  <2> QED BY <1>9, <1>10, <1>13, <1>14, <2>1, ChainGrows
<1>16. Counters
  BY <1>1 DEF CatchupInit, Counters
<1>17. replica.view \in View /\ told \subseteq replica.known
  BY EmptyViewType DEF CatchupInit
<1> QED BY <1>7, <1>10, <1>11, <1>15, <1>16, <1>17 DEF CatchupInv

\* Deaths and frames.
LEMMA ClockStepKeeps ==
  ASSUME CatchupInv, NEW n \in 0 .. 1, ClockStep(n)
  PROVE  CatchupInv'
<1>1. /\ firstKill' \in Nat /\ nextKill' \in Nat /\ firstKill <= firstKill'
      /\ firstKill' <= nextKill' /\ nextKill <= nextKill'
  BY CatchupAssumption DEF CatchupInv, Counters, ClockStep, RecordDeaths
<1>2. UNCHANGED <<sendVars, writerVars, clientVars>>
  BY DEF ClockStep
<1>3. frames' \in Seq(PublishedFrame) /\ Len(frames') >= 1
  <2>1. frames \in Seq(PublishedFrame) /\ Len(frames) \in Nat /\ Len(frames) >= 1
    BY DEF CatchupInv, Counters
  <2>2. CASE UNCHANGED frames
    BY <2>1, <2>2
  <2>3. ASSUME NEW view \in PublishedFrame, frames' = Append(frames, view)
        PROVE  frames' \in Seq(PublishedFrame) /\ Len(frames') >= 1
    BY <2>1, <2>3, AppendProperties
  <2> QED BY <2>2, <2>3 DEF ClockStep
<1>4. /\ UNCHANGED <<cursor, catchups, lastCatchup, stream, queue, heard, replica, told>>
  BY <1>2 DEF sendVars, chainVars, writerVars, clientVars
<1>5. Counters' /\ Pipes'
  BY <1>1, <1>3, <1>4 DEF CatchupInv, Counters, Pipes
<1>6. InFlight' = InFlight /\ HeldReplica' = HeldReplica /\ Built' = Built
  BY <1>4 DEF InFlight, HeldReplica, Built
<1>7. InOrder(heard', InFlight', cursor', firstKill')
  <2>1. \A k \in 0 .. cursor - 1 : k < firstKill => k < firstKill'
    BY <1>1 DEF CatchupInv, Counters
  <2>2. heard' = heard /\ cursor' = cursor
    BY <1>4
  <2> QED BY <1>6, <2>1, <2>2 DEF CatchupInv, InOrder
<1>8. ChainOf(HeldReplica', InFlight', Built')
  BY <1>6 DEF CatchupInv
<1> QED BY <1>4, <1>5, <1>7, <1>8 DEF CatchupInv

\* A payload that finds a place is the last under way.
LEMMA QueueGrows ==
  ASSUME CatchupInv, NEW p \in Payload, queue' = Append(queue, p), UNCHANGED <<stream, heard>>
  PROVE  Pipes' /\ InFlight' = Append(InFlight, p)
<1>1. stream \in Seq(Payload) /\ queue \in Seq(Payload) /\ heard \in Seq(Nat)
  BY DEF CatchupInv, Pipes
<1>2. queue' \in Seq(Payload)
  BY <1>1, AppendProperties
<1>3. stream \o Append(queue, p) = Append(stream \o queue, p)
  BY <1>1, QueuedIsLast
<1>4. Pipes'
  BY <1>1, <1>2 DEF Pipes
<1>5. InFlight' = Append(InFlight, p)
  BY <1>3 DEF InFlight
<1> QED BY <1>4, <1>5

\* A death is queued.
LEMMA QueueKillKeeps ==
  ASSUME CatchupInv, QueueKill
  PROVE  CatchupInv'
<1>1. PICK k \in KillForCursor : SendKill(k)
  BY DEF QueueKill
<1>2. /\ k \in Nat /\ cursor <= k /\ k < nextKill
      /\ \A j \in cursor .. k - 1 : j < firstKill
  <2>1. /\ firstKill \in Nat /\ nextKill \in Nat /\ cursor \in Nat
        /\ firstKill <= nextKill /\ cursor <= nextKill
    BY DEF CatchupInv, Counters
  <2>2. CASE cursor >= firstKill /\ cursor < nextKill
    BY <1>1, <2>1, <2>2 DEF KillForCursor
  <2>3. CASE ~(cursor >= firstKill /\ cursor < nextKill)
    <3>1. cursor # nextKill /\ firstKill # nextKill /\ k = firstKill
      BY <1>1, <2>3 DEF KillForCursor
    <3> QED BY <2>1, <2>3, <3>1
  <2> QED BY <2>2, <2>3
<1> DEFINE p == KillPayload(k)
<1>3. p \in Payload /\ p.kind = "kill"
  BY <1>2 DEF KillPayload, Payload, KillEvent
<1>4. /\ queue' = Append(queue, p) /\ cursor' = k + 1
      /\ UNCHANGED <<stream, heard, replica, told, firstKill, nextKill, frames, catchups,
                     lastCatchup>>
  BY <1>1 DEF SendKill, QueueKill, serverVars, chainVars, clientVars
<1>5. Pipes' /\ InFlight' = Append(InFlight, p)
  <2> HIDE DEF p
  <2> QED BY <1>3, <1>4, QueueGrows
<1>6. InFlight \in Seq(Payload)
  BY UnderWay DEF CatchupInv
<1>7. InOrder(heard', InFlight', cursor', firstKill')
  <2>1. /\ heard \in Seq(Nat) /\ cursor \in Nat /\ firstKill \in Nat
        /\ InOrder(heard, InFlight, cursor, firstKill)
    BY DEF CatchupInv, Pipes, Counters
  <2>2. InOrder(heard, Append(InFlight, KillPayload(k)), k + 1, firstKill)
    BY <1>2, <1>6, <2>1, KillQueued
  <2>3. heard' = heard /\ firstKill' = firstKill
    BY <1>4
  <2> QED BY <1>4, <1>5, <2>2, <2>3
<1>8. ChainOf(HeldReplica', InFlight', Built')
  <2> HIDE DEF p
  <2>1. ChainOf(HeldReplica, Append(InFlight, p), WithPayload(Built, p))
    BY <1>3, <1>6, ChainGrows DEF CatchupInv
  <2>2. WithPayload(Built, p) = Built
    BY <1>3 DEF WithPayload
  <2>3. HeldReplica' = HeldReplica /\ Built' = Built
    BY <1>4 DEF HeldReplica, Built
  <2> QED BY <1>5, <2>1, <2>2, <2>3
<1>9. Counters'
  BY <1>2, <1>4 DEF CatchupInv, Counters
<1>10. Current(catchups', lastCatchup') /\ replica'.view \in View /\ told' \subseteq replica'.known
  BY <1>4 DEF CatchupInv
<1> QED BY <1>5, <1>7, <1>8, <1>9, <1>10 DEF CatchupInv

\* A catch-up is queued, and counts as sent.
LEMMA QueueCatchupKeeps ==
  ASSUME CatchupInv, QueueCatchup
  PROVE  CatchupInv'
<1> DEFINE frame == frames[serverTick]
<1>1. PICK admitted \in Admissible(frame, BaselineFor(catchups, CatchupAck)) :
        LET entry == NextEntry(catchups, CatchupAck, frame, admitted)
        IN /\ catchups.next <= LastCatchup
           /\ EnqueueCatchup(entry)
           /\ catchups' = BuildFromFrame(catchups, CatchupAck, frame, admitted)
           /\ catchupTick' = serverTick
           /\ deltas' = IF entry.full THEN 0 ELSE deltas + 1
  BY DEF QueueCatchup, SendCatchup
<1>2. frame \in View /\ serverTick \in Nat
  <2>1. frames \in Seq(PublishedFrame) /\ Len(frames) >= 1 /\ Len(frames) \in Nat
    BY DEF CatchupInv, Counters
  <2>2. frames[Len(frames)] \in PublishedFrame
    BY <2>1
  <2> QED BY <2>1, <2>2 DEF serverTick, PublishedFrame
<1> DEFINE entry == NextEntry(catchups, CatchupAck, frame, admitted)
           p == CatchupPayload(entry, serverTick)
<1>3. queue' = Append(queue, p) /\ lastCatchup' = entry.sequence
  BY <1>1 DEF EnqueueCatchup
<1>4. UNCHANGED <<stream, heard, replica, told, firstKill, nextKill, frames, cursor>>
  BY DEF QueueCatchup, serverVars, clientVars
<1>5. /\ Current(catchups', lastCatchup') /\ entry \in HistoryEntry
      /\ entry.full \/ entry.baseline = lastCatchup
      /\ BaselineFor(catchups', lastCatchup') =
           ApplySnapshotInPlace(BaselineFor(catchups, lastCatchup), entry.full, entry.records)
  <2>1. Current(catchups, lastCatchup)
    BY DEF CatchupInv
  <2> HIDE DEF frame
  <2> QED BY <1>1, <1>2, <1>3, <2>1, CatchupChains
<1> HIDE DEF entry, frame
<1>6. /\ p \in Payload /\ p.kind = "snapshot" /\ p.full = entry.full
      /\ p.baseline = entry.baseline /\ p.records = entry.records
      /\ p.sequence = entry.sequence
  BY <1>2, <1>5 DEF CatchupPayload, Payload, SnapshotPayload, HistoryEntry
<1> HIDE DEF p
<1>7. Pipes' /\ InFlight' = Append(InFlight, p)
  BY <1>3, <1>4, <1>6, QueueGrows
<1>8. InFlight \in Seq(Payload)
  BY UnderWay DEF CatchupInv
<1>9. InOrder(heard', InFlight', cursor', firstKill')
  <2>1. /\ heard \in Seq(Nat) /\ cursor \in Nat /\ firstKill \in Nat
        /\ InOrder(heard, InFlight, cursor, firstKill)
    BY DEF CatchupInv, Pipes, Counters
  <2>2. InOrder(heard, Append(InFlight, p), cursor, firstKill)
    BY <1>6, <1>8, <2>1, SnapshotQueued
  <2>3. heard' = heard /\ firstKill' = firstKill /\ cursor' = cursor
    BY <1>4
  <2> QED BY <1>7, <2>2, <2>3
<1>10. ChainOf(HeldReplica', InFlight', Built')
  <2>1. ChainOf(HeldReplica, InFlight, Built)
    BY DEF CatchupInv
  <2>2. p.full \/ p.baseline = Built.sequence
    BY <1>5, <1>6 DEF Built
  <2>3. ChainOf(HeldReplica, Append(InFlight, p), WithPayload(Built, p))
    BY <1>6, <1>8, <2>1, <2>2, ChainGrows
  <2>4. WithPayload(Built, p) = Built'
    BY <1>3, <1>5, <1>6 DEF WithPayload, Built
  <2>5. HeldReplica' = HeldReplica
    BY <1>4 DEF HeldReplica
  <2> QED BY <1>7, <2>3, <2>4, <2>5
<1>11. Counters'
  BY <1>4 DEF CatchupInv, Counters
<1>12. replica'.view \in View /\ told' \subseteq replica'.known
  BY <1>4 DEF CatchupInv
<1> QED BY <1>5, <1>7, <1>9, <1>10, <1>11, <1>12 DEF CatchupInv

\* The writer.
LEMMA WriteKeeps ==
  ASSUME CatchupInv, WriteReliable
  PROVE  CatchupInv'
<1>1. /\ queue # << >> /\ queue' = Tail(queue) /\ stream' = Append(stream, Head(queue))
      /\ UNCHANGED <<heard, replica, told, firstKill, nextKill, frames, cursor, catchups,
                     lastCatchup>>
  BY DEF WriteReliable, serverVars, sendVars, chainVars, clientVars
<1>2. stream \in Seq(Payload) /\ queue \in Seq(Payload) /\ heard \in Seq(Nat)
  BY DEF CatchupInv, Pipes
<1>3. Head(queue) \in Payload /\ queue' \in Seq(Payload) /\ stream' \in Seq(Payload)
  BY <1>1, <1>2, HeadTailProperties, AppendProperties
<1>4. InFlight' = InFlight
  BY <1>1, <1>2, WrittenStays DEF InFlight
<1>5. HeldReplica' = HeldReplica /\ Built' = Built
  BY <1>1 DEF HeldReplica, Built
<1>6. Pipes' /\ Counters'
  BY <1>1, <1>2, <1>3 DEF CatchupInv, Pipes, Counters
<1>7. InOrder(heard', InFlight', cursor', firstKill')
  <2>1. heard' = heard /\ cursor' = cursor /\ firstKill' = firstKill
    BY <1>1
  <2> QED BY <1>4, <2>1 DEF CatchupInv
<1>8. ChainOf(HeldReplica', InFlight', Built')
  BY <1>4, <1>5 DEF CatchupInv
<1>9. /\ Current(catchups', lastCatchup') /\ replica'.view \in View
      /\ told' \subseteq replica'.known
  BY <1>1 DEF CatchupInv
<1> QED BY <1>6, <1>7, <1>8, <1>9 DEF CatchupInv

\* What the client reads continues its replica.
LEMMA WhatIsRead ==
  ASSUME CatchupInv, stream # << >>
  PROVE  /\ Head(stream) \in Payload
         /\ Head(stream).kind = "snapshot" => /\ Head(stream) \in SnapshotPayload
                                              /\ Continues(Head(stream))
         /\ Head(stream).kind \in {"kill", "snapshot"}
<1>1. stream \in Seq(Payload) /\ queue \in Seq(Payload)
  BY DEF CatchupInv, Pipes
<1>2. /\ InFlight # << >> /\ InFlight \in Seq(Payload)
      /\ Head(stream) = InFlight[1] /\ Head(stream) \in Payload
  BY <1>1, ReadIsFirst DEF InFlight
<1>3. InFlight[1].kind = "snapshot" =>
        InFlight[1].full \/ InFlight[1].baseline = HeldReplica.sequence
  <2>1. ChainOf(HeldReplica, InFlight, Built)
    BY DEF CatchupInv
  <2> QED BY <1>2, <2>1, ChainShrinks
<1>4. HeldReplica.sequence = replica.sequence
  BY DEF HeldReplica
<1>5. /\ Head(stream).kind = "snapshot" => Head(stream) \in SnapshotPayload
      /\ Head(stream).kind \in {"kill", "snapshot"}
  BY <1>2 DEF Payload, SnapshotPayload, KillEvent
<1> QED BY <1>2, <1>3, <1>4, <1>5 DEF Continues

\* The client reads.
LEMMA ReceiveKeeps ==
  ASSUME CatchupInv, ReceiveReliable
  PROVE  CatchupInv'
<1> DEFINE p == Head(stream)
<1>1. /\ stream # << >> /\ stream' = Tail(stream)
      /\ UNCHANGED <<queue, firstKill, nextKill, frames, cursor, catchups, lastCatchup>>
  BY DEF ReceiveReliable, serverVars, sendVars, chainVars
<1>2. stream \in Seq(Payload) /\ queue \in Seq(Payload) /\ heard \in Seq(Nat)
  BY DEF CatchupInv, Pipes
<1>3. /\ Tail(stream) \o queue = Tail(InFlight)
      /\ InFlight # << >> /\ InFlight \in Seq(Payload)
      /\ p = InFlight[1] /\ p \in Payload
  BY <1>1, <1>2, ReadIsFirst DEF InFlight
<1>4. InFlight' = Tail(InFlight) /\ stream' \in Seq(Payload)
  BY <1>1, <1>2, <1>3, HeadTailProperties DEF InFlight
<1>5. Built' = Built /\ Counters' /\ Current(catchups', lastCatchup')
  BY <1>1 DEF CatchupInv, Counters, Built
<1>6. /\ ChainOf(WithPayload(HeldReplica, p), Tail(InFlight), Built)
      /\ cursor \in Nat /\ firstKill \in Nat /\ InOrder(heard, InFlight, cursor, firstKill)
  <2>1. ChainOf(HeldReplica, InFlight, Built)
    BY DEF CatchupInv
  <2> HIDE DEF p
  <2> QED BY <1>3, <2>1, ChainShrinks DEF CatchupInv, Counters
<1>7. cursor' = cursor /\ firstKill' = firstKill
  BY <1>1
<1>8. CASE p.kind = "kill"
  <2>1. HearKill(p)
    BY <1>8 DEF ReceiveReliable
  <2> HIDE DEF p
  <2>2. heard' = Append(heard, p.sequence) /\ UNCHANGED <<replica, told>>
    BY <2>1 DEF HearKill
  <2>3. heard' \in Seq(Nat) /\ InOrder(heard', Tail(InFlight), cursor, firstKill)
    BY <1>2, <1>3, <1>6, <1>8, <2>2, KillRead
  <2>4. HeldReplica' = WithPayload(HeldReplica, p)
    BY <1>8, <2>2 DEF HeldReplica, WithPayload
  <2>5. Pipes'
    BY <1>1, <1>2, <1>4, <2>3 DEF Pipes
  <2>6. InOrder(heard', InFlight', cursor', firstKill') /\ ChainOf(HeldReplica', InFlight', Built')
    BY <1>4, <1>5, <1>6, <1>7, <2>3, <2>4
  <2> QED BY <1>5, <2>2, <2>5, <2>6 DEF CatchupInv
<1>9. CASE p.kind = "snapshot"
  <2>1. p \in SnapshotPayload /\ MergeReliable(p)
    BY <1>1, <1>9, WhatIsRead DEF ReceiveReliable
  <2> HIDE DEF p
  <2>2. /\ UNCHANGED heard
        /\ replica' = [view |-> ReplicaAfter(p), known |-> KnownAfter(p),
                       sequence |-> p.sequence]
    BY <2>1 DEF MergeReliable
  <2>3. replica.view \in View /\ told \subseteq replica.known
    BY DEF CatchupInv
  <2>4. replica'.view \in View /\ told' \subseteq replica'.known
    BY <2>1, <2>2, <2>3, MergedArePresent, ToldStayKnown
  <2>5. InOrder(heard, Tail(InFlight), cursor, firstKill)
    BY <1>2, <1>3, <1>6, <1>9, KillRead
  <2>6. HeldReplica' = WithPayload(HeldReplica, p)
    BY <1>9, <2>2 DEF HeldReplica, WithPayload, ReplicaAfter
  <2>7. Pipes'
    BY <1>1, <1>2, <1>4, <2>2 DEF Pipes
  <2>8. InOrder(heard', InFlight', cursor', firstKill') /\ ChainOf(HeldReplica', InFlight', Built')
    BY <1>4, <1>5, <1>6, <1>7, <2>2, <2>5, <2>6
  <2> QED BY <1>5, <2>4, <2>7, <2>8 DEF CatchupInv
<1>10. p.kind \in {"kill", "snapshot"}
  BY <1>1, WhatIsRead
<1> QED BY <1>8, <1>9, <1>10

\* Every step of the clock, the handler, the pipes and the client keeps the invariant.
LEMMA CatchupInvNext ==
  ASSUME CatchupInv, [CatchupNext]_catchupVars
  PROVE  CatchupInv'
<1>1. ASSUME NEW n \in 0 .. 1, ClockStep(n) PROVE CatchupInv'
  BY <1>1, ClockStepKeeps
<1>2. CASE HandlerTick
  <2>1. CASE MissKill
    BY <2>1, SameParts DEF MissKill, clientVars
  <2>2. CASE LeaveTick
    BY <2>2, SameParts DEF LeaveTick, clientVars
  <2> QED BY <1>2, <2>1, <2>2, QueueKillKeeps, QueueCatchupKeeps DEF HandlerTick
<1>3. CASE WriteReliable
  BY <1>3, WriteKeeps
<1>4. CASE ReceiveReliable
  BY <1>4, ReceiveKeeps
<1>5. ASSUME NEW t, NEW ids, NEW full, NEW base, ReceiveRealtime(t, base, ids, full)
      PROVE  CatchupInv'
  BY <1>5, SameParts DEF ReceiveRealtime, sendVars
<1>6. CASE UNCHANGED catchupVars
  BY <1>6, SameParts DEF catchupVars, sendVars, clientVars
<1> QED BY <1>1, <1>2, <1>3, <1>4, <1>5, <1>6 DEF CatchupNext

\* The client's replica follows the catch-ups of the server whatever the queue and the
\* budget did to them: every delta under way continues it.
THEOREM TheReplicaFollows == CatchupSpec => []ReplicaFollowsSession
<1>1. CatchupInit => CatchupInv
  BY CatchupInvInit
<1>2. CatchupInv /\ [CatchupNext]_catchupVars => CatchupInv'
  BY CatchupInvNext
<1>3. CatchupInv => ReplicaFollowsSession
  <2> SUFFICES ASSUME CatchupInv PROVE ReplicaFollowsSession
    OBVIOUS
  <2>1. PICK row :
          /\ IsRow(row, HeldReplica, InFlight)
          /\ \A k \in 1 .. Len(InFlight) :
               InFlight[k].kind = "snapshot" =>
                 InFlight[k].full \/ InFlight[k].baseline = row[k - 1].sequence
          /\ row[Len(InFlight)] = Built
    BY DEF CatchupInv, ChainOf
  <2>2. ReplicaRow = row
    BY <2>1, UnderWay, ReplicaRowIs DEF CatchupInv
  <2> QED BY <2>1, <2>2 DEF ReplicaFollowsSession, Following, Built
<1> QED BY <1>1, <1>2, <1>3, PTL DEF CatchupSpec

\* A client is told the deaths once, in order, and all but those that the history had
\* evicted before their turn.
THEOREM DeathsAreToldInOrder == CatchupSpec => []KillsInOrder
<1>1. CatchupInit => CatchupInv
  BY CatchupInvInit
<1>2. CatchupInv /\ [CatchupNext]_catchupVars => CatchupInv'
  BY CatchupInvNext
<1>3. CatchupInv => KillsInOrder
  <2>1. KillsIn(InFlight) = KillsUnderWay
    BY DEF KillsIn, KillsUnderWay
  <2> QED BY <2>1 DEF CatchupInv, InOrder, KillsInOrder
<1> QED BY <1>1, <1>2, <1>3, PTL DEF CatchupSpec

\* An entity that a catch-up put into the map is gone with the first catch-up that does
\* not have it, unless the map has it from a later tick.
THEOREM OmissionsAreReconciled == CatchupSpec => OmissionReconciled
<1> DEFINE Reconciled ==
             ReadsCatchup =>
               \A id \in told \cap Present(clientMap') :
                 replica'.view[id] = Absent => entityTick'[id] > Head(stream).tick
<1>1. CatchupInit => CatchupInv
  BY CatchupInvInit
<1>2. CatchupInv /\ [CatchupNext]_catchupVars => CatchupInv'
  BY CatchupInvNext
<1>3. CatchupInv /\ [CatchupNext]_catchupVars => [Reconciled]_catchupVars
  <2> SUFFICES ASSUME CatchupInv, CatchupNext, ReadsCatchup,
                      NEW id \in told \cap Present(clientMap'), replica'.view[id] = Absent
               PROVE  entityTick'[id] > Head(stream).tick
    OBVIOUS
  <2> DEFINE p == Head(stream)
  <2>1. stream # << >> /\ stream' = Tail(stream) /\ p.kind = "snapshot" /\ stream' # stream
    <3>1. stream \in Seq(Payload)
      BY DEF CatchupInv, Pipes
    <3>2. stream # << >> /\ stream' = Tail(stream) /\ p.kind = "snapshot"
      BY DEF ReadsCatchup
    <3>3. Len(stream) \in Nat /\ Len(Tail(stream)) = Len(stream) - 1
      <4>1. stream # << >>
        BY <3>2
      <4> QED BY <3>1, <4>1, HeadTailProperties
    <3>4. Tail(stream) # stream
      BY <3>3
    <3> QED BY <3>2, <3>4
  <2>2. ReceiveReliable
    <3>1. ASSUME NEW n, ClockStep(n) PROVE FALSE
      BY <2>1, <3>1 DEF ClockStep, writerVars
    <3>2. ~HandlerTick
      BY <2>1 DEF HandlerTick, QueueKill, MissKill, QueueCatchup, LeaveTick, writerVars
    <3>3. ~WriteReliable
      <4>1. stream \in Seq(Payload) /\ queue \in Seq(Payload)
        BY DEF CatchupInv, Pipes
      <4>2. ASSUME WriteReliable PROVE FALSE
        <5>1. queue # << >> /\ stream' = Append(stream, Head(queue))
          BY <4>2 DEF WriteReliable
        <5>2. Len(stream') = Len(stream) + 1
          BY <4>1, <5>1, HeadTailProperties, AppendProperties
        <5>3. Len(stream') = Len(stream) - 1 /\ Len(stream) \in Nat
          BY <2>1, <4>1, HeadTailProperties
        <5> QED BY <5>2, <5>3
      <4> QED BY <4>2
    <3>4. ASSUME NEW t, NEW base, NEW ids, NEW full, ReceiveRealtime(t, base, ids, full)
          PROVE  FALSE
      BY <2>1, <3>4 DEF ReceiveRealtime, writerVars
    <3> QED BY <3>1, <3>2, <3>3, <3>4 DEF CatchupNext
  <2>3. p \in SnapshotPayload /\ MergeReliable(p)
    BY <2>1, <2>2, WhatIsRead DEF ReceiveReliable
  <2>4. /\ replica.view \in View /\ told \subseteq replica.known
        /\ id \in told /\ id \in NetId /\ clientMap'[id] # Absent
    BY DEF CatchupInv, Present
  <2> HIDE DEF p
  <2>5. ReplicaAfter(p)[id] = Absent
    BY <2>3 DEF MergeReliable
  <2>6. HeldNewer(id, p.tick) /\ entityTick'[id] = entityTick[id]
    BY <2>3, <2>4, <2>5, OmittedAreNewer
  <2> QED BY <2>6 DEF HeldNewer, p
<1> QED BY <1>1, <1>2, <1>3, PTL DEF CatchupSpec, OmissionReconciled
=============================================================================

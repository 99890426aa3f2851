----------------------- MODULE SnapshotSessionProofs -----------------------
(***************************************************************************)
(* Facts about the records of a snapshot and about the history of a        *)
(* session, for every set of entities, fields and values, every size of    *)
(* the sequence space and every length of the history.                     *)
(***************************************************************************)
EXTENDS SnapshotSession, SequenceTheorems, TLAPS

(***************************************************************************)
(* Records.                                                                *)
(***************************************************************************)

\* The delta of an entity is a record of the wire and is not a removal.
LEMMA BuildDeltaType ==
  ASSUME NEW state \in WireEntity, NEW before \in WireEntity \cup {Absent}
  PROVE  /\ BuildDelta(state, before) \in Record
         /\ BuildDelta(state, before) # Removed
         /\ before = Absent => BuildDelta(state, before) = state
<1> DEFINE Partial == UNION {[mask -> Value] : mask \in SUBSET Field}
<1>1. CASE before = Absent
  <2>1. state \in Partial
    BY DEF WireEntity
  <2> QED
    BY <1>1, <2>1, RecordsAssumption DEF BuildDelta, Record
<1>2. CASE before # Absent
  <2> DEFINE mask == {g \in Field : state[g] # before[g]}
  <2>1. BuildDelta(state, before) \in [mask -> Value]
    BY <1>2 DEF BuildDelta, WireEntity
  <2>2. [mask -> Value] \in {[m -> Value] : m \in SUBSET Field}
    OBVIOUS
  <2>3. BuildDelta(state, before) \in Partial
    BY <2>1, <2>2
  <2> QED
    BY <1>2, <2>3, RecordsAssumption DEF Record
<1> QED
  BY <1>1, <1>2

\* A record is a removal or sets some of the fields to values.
LEMMA RecordFields ==
  ASSUME NEW record \in Record, record # Removed
  PROVE  /\ DOMAIN record \subseteq Field
         /\ \A f \in DOMAIN record : record[f] \in Value
  BY DEF Record

\* Applying a record to an entity gives an entity or removes it.
LEMMA PatchEntityType ==
  ASSUME NEW before \in WireEntity \cup {Absent}, NEW record \in Record
  PROVE  PatchEntity(before, record) \in WireEntity \cup {Absent}
<1>1. CASE record = Removed
  BY <1>1 DEF PatchEntity
<1>2. CASE record # Removed
  <2>1. \A f \in DOMAIN record : record[f] \in Value
    BY <1>2, RecordFields
  <2>2. \A f \in Field : before # Absent => before[f] \in Value
    BY DEF WireEntity
  <2>3. \A f \in Field : DefaultEntity[f] \in Value
    BY RecordsAssumption DEF DefaultEntity
  <2>4. PatchEntity(before, record) \in WireEntity
    BY <1>2, <2>1, <2>2, <2>3 DEF PatchEntity, WireEntity
  <2> QED
    BY <2>4
<1> QED
  BY <1>1, <1>2

LEMMA RecordsFields ==
  ASSUME NEW records \in Records
  PROVE  /\ DOMAIN records \subseteq NetId
         /\ \A id \in DOMAIN records : records[id] \in Record
  BY DEF Records

LEMMA EmptyViewType == EmptyView \in View
  BY DEF EmptyView, View

\* Applying the records of a snapshot to a view gives a view.
LEMMA ApplyRecordsType ==
  ASSUME NEW view \in View, NEW records \in Records
  PROVE  ApplyRecords(view, records) \in View
<1>1. \A id \in NetId : view[id] \in WireEntity \cup {Absent}
  BY DEF View
<1>2. \A id \in DOMAIN records :
        id \in NetId => PatchEntity(view[id], records[id]) \in WireEntity \cup {Absent}
  BY <1>1, RecordsFields, PatchEntityType
<1> QED
  BY <1>1, <1>2 DEF ApplyRecords, View

\* The planner produces records of the wire, one for each admitted entity.
LEMMA PlanRecordsType ==
  ASSUME NEW frame \in View, NEW baseline \in View, NEW admitted \in SUBSET NetId
  PROVE  /\ PlanRecords(frame, baseline, admitted) \in Records
         /\ DOMAIN PlanRecords(frame, baseline, admitted) = admitted
<1> DEFINE record(id) == IF frame[id] = Absent THEN Removed
                         ELSE BuildDelta(frame[id], baseline[id])
<1>1. \A id \in admitted : record(id) \in Record
  <2> TAKE id \in admitted
  <2>1. CASE frame[id] = Absent
    BY <2>1 DEF Record
  <2>2. CASE frame[id] # Absent
    <3>1. frame[id] \in WireEntity /\ baseline[id] \in WireEntity \cup {Absent}
      BY <2>2 DEF View
    <3>2. BuildDelta(frame[id], baseline[id]) \in Record
      BY <3>1, BuildDeltaType
    <3> QED
      BY <2>2, <3>2
  <2> QED
    BY <2>1, <2>2
<1>2. PlanRecords(frame, baseline, admitted) = [id \in admitted |-> record(id)]
  BY DEF PlanRecords
<1> HIDE DEF record
<1>3. [id \in admitted |-> record(id)] \in [admitted -> Record]
  BY <1>1
<1>4. [admitted -> Record] \in {[ids -> Record] : ids \in SUBSET NetId}
  OBVIOUS
<1> QED
  BY <1>2, <1>3, <1>4 DEF Records

\* A delta applied to the entity it was built on gives the entity it was built
\* for; a whole record gives it whatever it is applied to.
LEMMA PatchOfDelta ==
  ASSUME NEW state \in WireEntity, NEW before \in WireEntity \cup {Absent},
         NEW base \in WireEntity \cup {Absent},
         base = before \/ before = Absent
  PROVE  PatchEntity(base, BuildDelta(state, before)) = state
<1> DEFINE delta == BuildDelta(state, before)
<1>1. delta # Removed
  BY BuildDeltaType
<1>2. CASE before = Absent
  <2>1. delta = state /\ DOMAIN delta = Field
    BY <1>2, BuildDeltaType DEF WireEntity
  <2>2. PatchEntity(base, delta) = [f \in Field |-> delta[f]]
    BY <1>1, <2>1 DEF PatchEntity
  <2> QED
    BY <2>1, <2>2 DEF WireEntity
<1>3. CASE before # Absent
  <2>1. base = before
    BY <1>3
  <2>2. delta = [f \in {g \in Field : state[g] # before[g]} |-> state[f]]
    BY <1>3 DEF BuildDelta
  <2>3. \A f \in Field : (IF f \in DOMAIN delta THEN delta[f] ELSE before[f]) = state[f]
    BY <2>2
  <2>4. PatchEntity(base, delta) = [f \in Field |-> state[f]]
    BY <1>1, <1>3, <2>1, <2>3 DEF PatchEntity
  <2> QED
    BY <2>4 DEF WireEntity
<1> QED
  BY <1>2, <1>3

\* What is admitted to a snapshot is shown as it is in the frame, on the
\* baseline of the snapshot; what is neither admitted nor due is too.
THEOREM PlannedRecordsShowFrame ==
  ASSUME NEW frame \in View, NEW baseline \in View, NEW admitted \in SUBSET NetId,
         NEW id \in NetId, id \in admitted \/ id \notin DueIds(frame, baseline)
  PROVE  ApplyRecords(baseline, PlanRecords(frame, baseline, admitted))[id] = frame[id]
<1> DEFINE records == PlanRecords(frame, baseline, admitted)
<1>1. DOMAIN records = admitted
  BY PlanRecordsType
<1>2. CASE id \notin admitted
  BY <1>1, <1>2 DEF ApplyRecords, DueIds
<1>3. CASE id \in admitted
  <2>1. ApplyRecords(baseline, records)[id] = PatchEntity(baseline[id], records[id])
    BY <1>1, <1>3 DEF ApplyRecords
  <2>2. CASE frame[id] = Absent
    <3>1. records[id] = Removed
      BY <1>3, <2>2 DEF PlanRecords
    <3> QED
      BY <2>1, <2>2, <3>1 DEF PatchEntity
  <2>3. CASE frame[id] # Absent
    <3>1. frame[id] \in WireEntity /\ baseline[id] \in WireEntity \cup {Absent}
      BY <2>3 DEF View
    <3>2. records[id] = BuildDelta(frame[id], baseline[id])
      BY <1>3, <2>3 DEF PlanRecords
    <3> QED
      BY <2>1, <3>1, <3>2, PatchOfDelta
  <2> QED
    BY <2>2, <2>3
<1> QED
  BY <1>2, <1>3
-----------------------------------------------------------------------------
(***************************************************************************)
(* Sequence numbers and the history.                                       *)
(***************************************************************************)

\* What every operation of a session preserves.
SessionInv(session) ==
  /\ session \in Session
  /\ Len(session.history) <= HistoryLimit
  /\ HistoryContiguous(session)

LEMMA SequenceBackType ==
  ASSUME NEW s \in SequenceNumber, NEW k \in 0 .. NoSequence
  PROVE  SequenceBack(s, k) \in SequenceNumber
  BY NoSequenceAssumption DEF SequenceBack, SequenceNumber

LEMMA SequenceAfterType ==
  ASSUME NEW s \in SequenceNumber
  PROVE  SequenceAfter(s) \in SequenceNumber
  BY NoSequenceAssumption DEF SequenceAfter, SequenceNumber

\* The distance from the oldest of n consecutive numbers is the place in the row.
LEMMA OffsetOfConsecutive ==
  ASSUME NEW next \in SequenceNumber, NEW n \in 1 .. (NoSequence - 1), NEW i \in 1 .. n
  PROVE  SequenceOffset(SequenceBack(next, n), SequenceBack(next, n + 1 - i)) = i - 1
  BY NoSequenceAssumption DEF SequenceOffset, SequenceBack, SequenceNumber

\* history_index finds a number exactly when the history holds it, across the
\* wrap of the sequence numbers and without a search (M92).
THEOREM HistoryIndexExact ==
  ASSUME NEW session, SessionInv(session), NEW s \in AckNumber
  PROVE  LET h == session.history IN
         /\ HistoryIndex(h, s) \in 0 .. Len(h)
         /\ HistoryIndex(h, s) # 0 => h[HistoryIndex(h, s)].sequence = s
         /\ HistoryIndex(h, s) = 0 <=> \A i \in 1 .. Len(h) : h[i].sequence # s
<1> DEFINE h == session.history
           n == Len(h)
<1>1. h \in Seq(HistoryEntry) /\ n \in Nat /\ n < NoSequence
  BY HistoryLimitAssumption, NoSequenceAssumption DEF SessionInv, Session
<1>2. session.next \in SequenceNumber
  BY DEF SessionInv, Session
<1>3. \A i \in 1 .. n : h[i].sequence = SequenceBack(session.next, n + 1 - i)
  BY DEF SessionInv, HistoryContiguous
<1> HIDE DEF h
<1>4. \A i \in 1 .. n : h[i].sequence \in SequenceNumber
  <2>1. \A i \in 1 .. n : h[i] \in HistoryEntry
    BY <1>1, ElementOfSeq
  <2> QED
    BY <2>1 DEF HistoryEntry
<1>5. CASE n = 0
  <2>1. h = << >>
    BY <1>1, <1>5, EmptySeq
  <2> QED
    BY <1>5, <2>1 DEF HistoryIndex, h
<1>6. CASE n # 0
  <2>1. h # << >> /\ n \in 1 .. (NoSequence - 1) /\ 1 \in 1 .. n
    BY <1>1, <1>6, EmptySeq, NoSequenceAssumption
  <2>2. h[1].sequence = SequenceBack(session.next, n)
    <3>1. h[1].sequence = SequenceBack(session.next, n + 1 - 1)
      BY <1>3, <2>1
    <3> QED
      BY <3>1, <1>1
  <2>3. \A i \in 1 .. n : SequenceOffset(h[1].sequence, h[i].sequence) = i - 1
    BY <1>2, <1>3, <2>1, <2>2, OffsetOfConsecutive
  <2> DEFINE offset == SequenceOffset(h[1].sequence, s)
  <2>4. CASE s = NoSequence
    <3>1. HistoryIndex(h, s) = 0
      BY <2>4 DEF HistoryIndex
    <3>2. \A i \in 1 .. n : h[i].sequence # s
      BY <1>4, <2>4, NoSequenceAssumption DEF SequenceNumber
    <3> QED
      BY <1>1, <3>1, <3>2 DEF h
  <2>5. CASE s # NoSequence
    <3>1. s \in SequenceNumber
      BY <2>5 DEF AckNumber
    <3>2. offset \in Nat
      BY <3>1, <1>4, <2>1, NoSequenceAssumption DEF SequenceOffset, SequenceNumber
    <3>3. HistoryIndex(h, s) = IF offset < n /\ h[offset + 1].sequence = s
                               THEN offset + 1 ELSE 0
      BY <2>1, <2>5 DEF HistoryIndex
    <3> HIDE DEF offset
    <3>4. offset < n => offset + 1 \in 1 .. n
      BY <1>1, <3>2
    <3>5. HistoryIndex(h, s) \in 0 .. n
      BY <1>1, <3>3, <3>4
    <3>6. HistoryIndex(h, s) # 0 => h[HistoryIndex(h, s)].sequence = s
      BY <3>3
    <3>7. ASSUME NEW i \in 1 .. n, h[i].sequence = s
          PROVE  HistoryIndex(h, s) # 0
      <4>1. offset = i - 1
        BY <2>3, <3>7 DEF offset
      <4>2. offset < n /\ offset + 1 = i
        BY <1>1, <4>1
      <4> QED
        BY <1>1, <3>3, <3>7, <4>2
    <3>8. HistoryIndex(h, s) = 0 <=> \A i \in 1 .. n : h[i].sequence # s
      BY <3>3, <3>4, <3>5, <3>6, <3>7
    <3> QED
      BY <3>5, <3>6, <3>8 DEF h
  <2> QED
    BY <2>4, <2>5
<1> QED
  BY <1>5, <1>6

\* Acknowledging a retained snapshot keeps what came after it.
LEMMA AdvanceFacts ==
  ASSUME NEW session, SessionInv(session), NEW ack \in AckNumber
  PROVE  LET advanced == AdvanceAcknowledged(session, ack)
             index    == HistoryIndex(session.history, ack)
             h        == session.history
         IN /\ SessionInv(advanced)
            /\ advanced.next = session.next
            /\ ~CanAdvance(session, ack) => advanced = session
            /\ CanAdvance(session, ack) =>
                 /\ index \in 1 .. Len(h)
                 /\ h[index] \in HistoryEntry
                 /\ h[index].sequence = ack
                 /\ advanced.acked = ack
                 /\ advanced.state =
                      ApplyRecords(IF h[index].full THEN EmptyView ELSE session.state,
                                   h[index].records)
                 /\ Len(advanced.history) = Len(h) - index
                 /\ \A i \in 1 .. (Len(h) - index) : advanced.history[i] = h[index + i]
<1> DEFINE advanced == AdvanceAcknowledged(session, ack)
           h        == session.history
           index    == HistoryIndex(h, ack)
           n        == Len(h)
<1>1. CASE ~CanAdvance(session, ack)
  BY <1>1 DEF AdvanceAcknowledged
<1>2. CASE CanAdvance(session, ack)
  <2>1. h \in Seq(HistoryEntry) /\ n \in Nat /\ n <= HistoryLimit
    BY DEF SessionInv, Session
  <2>2. index \in 1 .. n
    <3>1. index \in 0 .. n
      BY HistoryIndexExact
    <3>2. index # 0
      BY <1>2 DEF CanAdvance
    <3> QED
      BY <2>1, <3>1, <3>2
  <2>3. h[index].sequence = ack
    BY <2>1, <2>2, HistoryIndexExact
  <2> HIDE DEF index
  <2>4. h[index] \in HistoryEntry
    BY <2>1, <2>2, ElementOfSeq
  <2> DEFINE rest  == SubSeq(h, index + 1, n)
             state == ApplyRecords(IF h[index].full THEN EmptyView ELSE session.state,
                                   h[index].records)
  <2>5. /\ session = [next |-> session.next, history |-> h,
                       acked |-> session.acked, state |-> session.state]
        /\ session.next \in SequenceNumber
        /\ session.state \in View
    BY DEF SessionInv, Session
  <2>6. advanced = [next |-> session.next, history |-> rest, acked |-> ack, state |-> state]
    BY <1>2, <2>3, <2>5 DEF AdvanceAcknowledged, index
  <2>7. state \in View
    <3>1. h[index].records \in Records
      BY <2>4 DEF HistoryEntry
    <3> QED
      BY <2>5, <3>1, EmptyViewType, ApplyRecordsType
  <2>8. /\ rest \in Seq(HistoryEntry)
        /\ Len(rest) = n - index
        /\ \A i \in 1 .. (n - index) : rest[i] = h[index + i]
    <3>1. \A i \in (index + 1) .. n : h[i] \in HistoryEntry
      BY <2>1, <2>2, ElementOfSeq
    <3>2. index + 1 \in Int /\ n \in Int
      BY <2>1, <2>2
    <3>3. /\ rest \in Seq(HistoryEntry)
          /\ Len(rest) = IF index + 1 <= n THEN n - (index + 1) + 1 ELSE 0
          /\ \A i \in 1 .. n - (index + 1) + 1 : rest[i] = h[index + 1 + i - 1]
      BY <3>1, <3>2, SubSeqProperties
    <3>4. Len(rest) = n - index
      BY <2>1, <2>2, <3>3
    <3>5. ASSUME NEW i \in 1 .. (n - index)
          PROVE  rest[i] = h[index + i]
      <4>1. i \in 1 .. n - (index + 1) + 1 /\ index + 1 + i - 1 = index + i
        BY <2>1, <2>2
      <4> QED
        BY <3>3, <4>1
    <3> QED
      BY <3>3, <3>4, <3>5
  <2> HIDE DEF rest, state, n, h
  <2>9. ASSUME NEW i \in 1 .. Len(rest)
        PROVE  rest[i].sequence = SequenceBack(session.next, Len(rest) + 1 - i)
    <3>1. index + i \in 1 .. n /\ i \in 1 .. (n - index)
      BY <2>1, <2>2, <2>8
    <3>2. h[index + i].sequence = SequenceBack(session.next, n + 1 - (index + i))
      BY <3>1 DEF SessionInv, HistoryContiguous, h, n
    <3>3. n + 1 - (index + i) = Len(rest) + 1 - i
      BY <2>1, <2>2, <2>8
    <3> QED
      BY <2>8, <3>1, <3>2, <3>3
  <2>10. SessionInv(advanced)
    <3>1. advanced \in Session
      BY <2>5, <2>6, <2>7, <2>8 DEF Session
    <3>2. Len(rest) <= HistoryLimit
      BY <2>1, <2>2, <2>8, HistoryLimitAssumption
    <3> QED
      BY <2>6, <2>9, <3>1, <3>2 DEF SessionInv, HistoryContiguous
  <2> QED
    BY <1>2, <2>2, <2>3, <2>4, <2>6, <2>8, <2>10 DEF index, h, n, state
<1> QED
  BY <1>1, <1>2

\* The baseline of the next snapshot is a view, and its entry is well formed.
LEMMA NextEntryType ==
  ASSUME NEW session, SessionInv(session), NEW ack \in AckNumber,
         NEW frame \in View, NEW admitted \in SUBSET NetId
  PROVE  /\ BaselineFor(session, ack) \in View
         /\ NextEntry(session, ack, frame, admitted) \in HistoryEntry
<1>1. BaselineFor(session, ack) \in View
  <2>1. AdvanceAcknowledged(session, ack) \in Session
    BY AdvanceFacts DEF SessionInv
  <2>2. AdvanceAcknowledged(session, ack).state \in View
    BY <2>1 DEF Session
  <2> QED
    BY <2>2, EmptyViewType DEF BaselineFor
<1>2. PlanRecords(frame, BaselineFor(session, ack), admitted) \in Records
  BY <1>1, PlanRecordsType
<1>3. session.next \in SequenceNumber
  BY DEF SessionInv, Session
<1>4. HasBaseline(session, ack) \in BOOLEAN
  BY DEF HasBaseline
<1> QED
  BY <1>1, <1>2, <1>3, <1>4 DEF NextEntry, HistoryEntry, AckNumber

\* The number before the next one, k + 1 allocations back, is k back from here.
LEMMA BackFromAfter ==
  ASSUME NEW s \in SequenceNumber, NEW k \in 0 .. (NoSequence - 1)
  PROVE  SequenceBack(SequenceAfter(s), k + 1) = SequenceBack(s, k)
  BY NoSequenceAssumption DEF SequenceAfter, SequenceBack, SequenceNumber

\* The history after a snapshot: what the acknowledgement left of it, without
\* the oldest entry when the limit is reached, and the new entry at the end.
LEMMA BuildFacts ==
  ASSUME NEW session, SessionInv(session), NEW ack \in AckNumber,
         NEW frame \in View, NEW admitted \in SUBSET NetId
  PROVE  LET advanced == AdvanceAcknowledged(session, ack)
             built    == BuildFromFrame(session, ack, frame, admitted)
             entry    == NextEntry(session, ack, frame, admitted)
             n        == Len(advanced.history)
         IN /\ SessionInv(built)
            /\ built.next = SequenceAfter(session.next)
            /\ built.acked = advanced.acked
            /\ built.state = advanced.state
            /\ \E evicted \in {0, 1} :
                 /\ Len(built.history) = n + 1 - evicted
                 /\ \A i \in 1 .. Len(built.history) :
                      built.history[i] = IF i + evicted <= n
                                         THEN advanced.history[i + evicted]
                                         ELSE entry
<1> DEFINE advanced == AdvanceAcknowledged(session, ack)
           built    == BuildFromFrame(session, ack, frame, admitted)
           entry    == NextEntry(session, ack, frame, admitted)
           n        == Len(advanced.history)
           longer   == Append(advanced.history, entry)
           history  == EvictOldest(longer)
<1>1. SessionInv(advanced) /\ advanced.next = session.next
  BY AdvanceFacts
<1>2. entry \in HistoryEntry /\ entry.sequence = session.next
  BY NextEntryType DEF NextEntry
<1> HIDE DEF advanced, entry
<1>3. /\ advanced = [next |-> advanced.next, history |-> advanced.history,
                      acked |-> advanced.acked, state |-> advanced.state]
      /\ advanced.history \in Seq(HistoryEntry)
      /\ advanced.next \in SequenceNumber
      /\ advanced.acked \in AckNumber
      /\ advanced.state \in View
      /\ n \in Nat /\ n <= HistoryLimit
  BY <1>1 DEF SessionInv, Session
<1>4. built = [next |-> SequenceAfter(advanced.next), history |-> history,
               acked |-> advanced.acked, state |-> advanced.state]
  <2>1. built = [advanced EXCEPT !.next = SequenceAfter(advanced.next), !.history = history]
    BY DEF BuildFromFrame, advanced, entry
  <2> HIDE DEF built, history
  <2> QED
    BY <1>3, <2>1
<1>5. /\ longer \in Seq(HistoryEntry)
      /\ longer # << >>
      /\ Len(longer) = n + 1
      /\ \A i \in 1 .. n : longer[i] = advanced.history[i]
      /\ longer[n + 1] = entry
  BY <1>2, <1>3, AppendProperties
<1> HIDE DEF longer
<1>6. PICK evicted \in {0, 1} :
         /\ history \in Seq(HistoryEntry)
         /\ Len(history) = n + 1 - evicted
         /\ Len(history) <= HistoryLimit
         /\ \A i \in 1 .. Len(history) : history[i] = longer[i + evicted]
  <2>1. CASE n + 1 > HistoryLimit
    <3>1. history = Tail(longer)
      BY <1>5, <2>1 DEF EvictOldest
    <3>2. /\ history \in Seq(HistoryEntry)
          /\ Len(history) = n
          /\ \A i \in 1 .. Len(history) : history[i] = longer[i + 1]
      BY <1>3, <1>5, <3>1, HeadTailProperties
    <3> QED
      BY <1>3, <3>2, HistoryLimitAssumption
  <2>2. CASE ~(n + 1 > HistoryLimit)
    <3>1. history = longer
      BY <1>5, <2>2 DEF EvictOldest
    <3>2. \A i \in 1 .. Len(history) : history[i] = longer[i + 0]
      BY <1>3, <1>5, <3>1
    <3> QED
      BY <1>3, <1>5, <2>2, <3>1, <3>2, HistoryLimitAssumption
  <2> QED
    BY <2>1, <2>2
<1> HIDE DEF history
<1>7. ASSUME NEW i \in 1 .. Len(history)
      PROVE  history[i] = IF i + evicted <= n THEN advanced.history[i + evicted] ELSE entry
  <2>1. history[i] = longer[i + evicted] /\ i + evicted \in 1 .. (n + 1)
    BY <1>3, <1>6
  <2>2. CASE i + evicted <= n
    BY <1>3, <1>5, <2>1, <2>2
  <2>3. CASE ~(i + evicted <= n)
    <3>1. i + evicted = n + 1
      BY <1>3, <2>1, <2>3
    <3> QED
      BY <1>5, <2>1, <2>3, <3>1
  <2> QED
    BY <2>2, <2>3
<1>8. ASSUME NEW i \in 1 .. Len(history)
      PROVE  history[i].sequence =
               SequenceBack(SequenceAfter(advanced.next), Len(history) + 1 - i)
  <2> DEFINE k == n + 1 - (i + evicted)
  <2>1. k \in 0 .. (NoSequence - 1) /\ Len(history) + 1 - i = k + 1
    BY <1>3, <1>6, HistoryLimitAssumption, NoSequenceAssumption
  <2>2. SequenceBack(SequenceAfter(advanced.next), k + 1) = SequenceBack(advanced.next, k)
    BY <1>3, <2>1, BackFromAfter
  <2>3. CASE i + evicted <= n
    <3>1. i + evicted \in 1 .. n
      BY <1>3, <1>6, <2>3
    <3>2. advanced.history[i + evicted].sequence = SequenceBack(advanced.next, k)
      BY <1>1, <3>1 DEF SessionInv, HistoryContiguous
    <3> QED
      BY <1>7, <2>1, <2>2, <2>3, <3>2
  <2>4. CASE ~(i + evicted <= n)
    <3>1. k = 0
      BY <1>3, <1>6, <2>4
    <3>2. SequenceBack(advanced.next, k) = advanced.next
      BY <1>3, <3>1, NoSequenceAssumption DEF SequenceBack, SequenceNumber
    <3> QED
      BY <1>1, <1>2, <1>7, <2>1, <2>2, <2>4, <3>2
  <2> QED
    BY <2>3, <2>4
<1>9. SessionInv(built)
  <2>1. SequenceAfter(advanced.next) \in SequenceNumber
    BY <1>3, SequenceAfterType
  <2>2. built \in Session
    BY <1>3, <1>4, <1>6, <2>1 DEF Session
  <2> QED
    BY <1>4, <1>6, <1>8, <2>2 DEF SessionInv, HistoryContiguous
<1> QED
  BY <1>1, <1>4, <1>6, <1>7, <1>9 DEF advanced, entry

\* A session that has sent nothing satisfies the invariant.
LEMMA NewSessionFacts == SessionInv(NewSession)
<1>1. NewSession.history = << >> /\ Len(NewSession.history) = 0
  BY DEF NewSession
<1>2. NewSession \in Session
  BY <1>1, EmptyViewType, NoSequenceAssumption
  DEF NewSession, Session, SequenceNumber, AckNumber
<1> QED
  BY <1>1, <1>2, HistoryLimitAssumption DEF SessionInv, HistoryContiguous
=============================================================================

--------------------- MODULE RealtimeReplicationProofs ---------------------
(***************************************************************************)
(* The safety properties of the realtime channel, for every set of         *)
(* entities, fields and values and every length of history and session.    *)
(* The invariants of RealtimeReplication are not inductive by themselves:  *)
(* IInv adds what the history, the datagrams and the two ends of the       *)
(* acknowledgement have to do with one another.                            *)
(***************************************************************************)
EXTENDS RealtimeReplication, SnapshotSessionProofs

\* The session allocates 0, 1, ... in turn; what the history holds is what was
\* sent under the same number.
HistoryInv ==
  /\ SessionInv(session)
  /\ session.next \in 1 .. (LastSnapshot + 1)
  /\ Len(session.history) <= session.next
  /\ \A i \in 1 .. Len(session.history) :
       sent[session.history[i].sequence] = Datagram(session.history[i])

\* The acknowledged snapshot was applied by the client, is older than the whole
\* history and produces the acknowledged state.
AckedInv ==
  session.acked # NoSequence =>
    /\ session.acked \in applied
    /\ session.acked + Len(session.history) < session.next
    /\ session.state = meant[session.acked]

\* A delta was built on an applied snapshot, a full snapshot holds whole
\* entities, and meant is what the records make of the baseline.
SentInv ==
  \A s \in DOMAIN sent :
    /\ ~sent[s].full => sent[s].baseline \in applied
    /\ sent[s].full => \A id \in DOMAIN sent[s].records :
                          \/ sent[s].records[id] = Removed
                          \/ DOMAIN sent[s].records[id] = Field
    /\ meant[s] = ApplyRecords(IF sent[s].full THEN EmptyView
                               ELSE meant[sent[s].baseline], sent[s].records)

\* Whatever number is on its way back to the server, or arrived there, is that
\* of a snapshot the client applied, the first one before any other.
AckInv ==
  /\ sent[0].full
  /\ acksSent \subseteq applied \cup {NoSequence}
  /\ acknowledged \in applied \cup {NoSequence}
  /\ ready <=> acknowledged # NoSequence
  /\ applied # {} => 0 \in applied
  /\ session.next > 1 => 0 \in applied
  /\ clientAck \in applied \cup {NoSequence}
  /\ clientAck = NoSequence => 0 \notin applied /\ clientView = EmptyView
  /\ latest # NoSequence => clientAck = latest
  /\ latest = NoSequence => clientAck \in {0, NoSequence}

IInv ==
  /\ TypeOK
  /\ HistoryInv
  /\ AckedInv
  /\ SentInv
  /\ AckInv
  /\ LinkedClientMatches
-----------------------------------------------------------------------------
(***************************************************************************)
(* Lemmas.                                                                 *)
(***************************************************************************)

\* The numbers of a session do not reach the reserved one.
LEMMA Numbers ==
  /\ NoSequence \in Nat /\ LastSnapshot \in Nat
  /\ LastSnapshot + 1 < NoSequence
  /\ 2 * LastSnapshot < NoSequence
  BY NoSequenceAssumption, LastSnapshotAssumption DEF SequenceNumber

\* In a session shorter than half a cycle, newer is greater.
LEMMA NewerIsGreater ==
  ASSUME NEW a \in 0 .. LastSnapshot, NEW b \in 0 .. LastSnapshot
  PROVE  IsSequenceNewer(a, b) <=> a > b
  BY Numbers DEF IsSequenceNewer, WrappingSub

LEMMA SentNumbers ==
  ASSUME TypeOK, HistoryInv
  PROVE  /\ DOMAIN sent \subseteq 0 .. LastSnapshot
         /\ NoSequence \notin DOMAIN sent
         /\ applied \subseteq 0 .. LastSnapshot
         /\ NoSequence \notin applied
         /\ 0 \in DOMAIN sent
  BY Numbers DEF TypeOK, HistoryInv

\* The history holds the last numbers that were sent.
LEMMA HistoryNumbers ==
  ASSUME TypeOK, HistoryInv, NEW i \in 1 .. Len(session.history)
  PROVE  /\ session.history[i].sequence = session.next - (Len(session.history) + 1 - i)
         /\ session.history[i].sequence \in DOMAIN sent
<1>1. Len(session.history) \in Nat /\ Len(session.history) <= session.next
  BY DEF HistoryInv, SessionInv, Session
<1>2. session.history[i].sequence = SequenceBack(session.next, Len(session.history) + 1 - i)
  BY DEF HistoryInv, SessionInv, HistoryContiguous
<1>3. session.next \in 1 .. (LastSnapshot + 1)
  BY DEF HistoryInv
<1>4. session.history[i].sequence = session.next - (Len(session.history) + 1 - i)
  BY <1>1, <1>2, <1>3, Numbers DEF SequenceBack
<1> QED
  BY <1>1, <1>3, <1>4, Numbers DEF TypeOK

\* The two ways of applying a snapshot agree: in place on the client's map, and
\* on the baseline of the server.
LEMMA ApplyFullInPlace ==
  ASSUME NEW view \in View, NEW records \in Records,
         \A id \in DOMAIN records : records[id] = Removed \/ DOMAIN records[id] = Field
  PROVE  ApplySnapshotInPlace(view, TRUE, records) = ApplyRecords(EmptyView, records)
<1>1. \A id \in DOMAIN records :
        id \in NetId => PatchEntity(view[id], records[id]) = PatchEntity(EmptyView[id], records[id])
  BY DEF PatchEntity
<1> QED
  BY <1>1 DEF ApplySnapshotInPlace, ApplyRecords, EmptyView

LEMMA ApplyDeltaInPlace ==
  ASSUME NEW view, NEW records
  PROVE  ApplySnapshotInPlace(view, FALSE, records) = ApplyRecords(view, records)
  BY DEF ApplySnapshotInPlace, ApplyRecords

\* Advancing the acknowledged state in place ends in the view that the
\* acknowledged snapshot was built to produce.
LEMMA AdvanceReconstructs ==
  ASSUME IInv, NEW ack \in applied
  PROVE  LET advanced == AdvanceAcknowledged(session, ack)
         IN /\ advanced.acked # NoSequence =>
                 /\ advanced.acked \in applied
                 /\ advanced.acked + Len(advanced.history) < session.next
                 /\ advanced.state = meant[advanced.acked]
            /\ Forward(session.acked, advanced.acked)
            /\ HasBaseline(session, ack) => advanced.acked = ack
            /\ Len(advanced.history) <= session.next
            /\ \A i \in 1 .. Len(advanced.history) :
                 sent[advanced.history[i].sequence] = Datagram(advanced.history[i])
<1> DEFINE advanced == AdvanceAcknowledged(session, ack)
           h        == session.history
           index    == HistoryIndex(h, ack)
<1>1. SessionInv(session) /\ ack \in AckNumber /\ ack # NoSequence /\ ack \in DOMAIN sent
  BY SentNumbers, Numbers, SMTT(30) DEF IInv, HistoryInv, TypeOK, AckNumber, SequenceNumber
<1>2. CASE ~CanAdvance(session, ack)
  <2>1. advanced = session
    BY <1>1, <1>2, AdvanceFacts
  <2>2. HasBaseline(session, ack) => session.acked = ack
    BY <1>2 DEF HasBaseline
  <2> QED
    BY <2>1, <2>2 DEF IInv, AckedInv, HistoryInv, Forward
<1>3. CASE CanAdvance(session, ack)
  <2>1. /\ index \in 1 .. Len(h)
        /\ h[index] \in HistoryEntry
        /\ h[index].sequence = ack
        /\ advanced.acked = ack
        /\ advanced.state = ApplyRecords(IF h[index].full THEN EmptyView ELSE session.state,
                                         h[index].records)
        /\ Len(advanced.history) = Len(h) - index
        /\ \A i \in 1 .. (Len(h) - index) : advanced.history[i] = h[index + i]
    BY <1>1, <1>3, AdvanceFacts
  <2>2. Chains(session, h[index])
    BY <1>3 DEF CanAdvance
  <2> HIDE DEF index, advanced
  <2>3. Len(h) \in Nat /\ Len(h) <= session.next /\ session.next \in Nat
    BY Numbers DEF IInv, HistoryInv, SessionInv, Session
  <2>4. ack = session.next - (Len(h) + 1 - index)
    BY <2>1, HistoryNumbers DEF IInv
  <2>5. sent[ack] = Datagram(h[index])
    BY <2>1 DEF IInv, HistoryInv
  <2>6. /\ sent[ack].full = h[index].full
        /\ sent[ack].baseline = h[index].baseline
        /\ sent[ack].records = h[index].records
    BY <2>5 DEF Datagram
  <2>7. advanced.state = meant[ack]
    <3>1. meant[ack] = ApplyRecords(IF sent[ack].full THEN EmptyView
                                    ELSE meant[sent[ack].baseline], sent[ack].records)
      BY <1>1 DEF IInv, SentInv
    <3>2. CASE h[index].full
      BY <2>1, <2>6, <3>1, <3>2
    <3>3. CASE ~h[index].full
      <4>1. session.acked = sent[ack].baseline
        BY <2>2, <2>6, <3>3 DEF Chains
      <4>2. sent[ack].baseline \in applied
        BY <1>1, <2>6, <3>3 DEF IInv, SentInv
      <4>3. session.state = meant[sent[ack].baseline]
        BY <4>1, <4>2, SentNumbers DEF IInv, AckedInv
      <4> QED
        BY <2>1, <2>6, <3>1, <3>3, <4>3
    <3> QED
      BY <3>2, <3>3
  <2>8. Forward(session.acked, ack)
    <3>1. CASE session.acked = NoSequence
      BY <3>1 DEF Forward
    <3>2. CASE session.acked # NoSequence
      <4>1. session.acked \in Nat /\ session.acked + Len(h) < session.next
        BY <3>2, SentNumbers, Numbers DEF IInv, AckedInv
      <4>2. ack > session.acked
        BY <2>1, <2>3, <2>4, <4>1
      <4> QED
        BY <4>2 DEF Forward
    <3> QED
      BY <3>1, <3>2
  <2>9. \A i \in 1 .. Len(advanced.history) :
          sent[advanced.history[i].sequence] = Datagram(advanced.history[i])
    <3> SUFFICES ASSUME NEW i \in 1 .. Len(advanced.history)
                 PROVE  sent[advanced.history[i].sequence] = Datagram(advanced.history[i])
      OBVIOUS
    <3>1. i \in 1 .. (Len(h) - index) /\ index + i \in 1 .. Len(h)
      BY <2>1, <2>3
    <3> QED
      BY <2>1, <3>1 DEF IInv, HistoryInv
  <2>10. Len(advanced.history) <= session.next /\ ack + Len(advanced.history) < session.next
    BY <2>1, <2>3, <2>4
  <2> QED
    BY <2>1, <2>7, <2>8, <2>9, <2>10 DEF advanced
<1> QED
  BY <1>2, <1>3

\* The baseline of the next snapshot is the view that the client was meant to
\* show when it acknowledged.
LEMMA BaselineMeant ==
  ASSUME IInv, NEW ack \in applied, HasBaseline(session, ack)
  PROVE  BaselineFor(session, ack) = meant[ack]
<1>1. AdvanceAcknowledged(session, ack).acked = ack
  BY AdvanceReconstructs
<1>2. ack # NoSequence
  BY SentNumbers DEF IInv
<1>3. AdvanceAcknowledged(session, ack).state = meant[ack]
  BY <1>1, <1>2, AdvanceReconstructs
<1> QED
  BY <1>3 DEF BaselineFor
-----------------------------------------------------------------------------
(***************************************************************************)
(* The initial state.                                                      *)
(***************************************************************************)

\* A snapshot without a baseline holds whole entities.
LEMMA FullRecordsAreWhole ==
  ASSUME NEW view \in View, NEW admitted \in SUBSET NetId, NEW id \in admitted
  PROVE  LET record == PlanRecords(view, EmptyView, admitted)[id]
         IN record = Removed \/ DOMAIN record = Field
<1>1. CASE view[id] = Absent
  BY <1>1 DEF PlanRecords
<1>2. CASE view[id] # Absent
  <2>1. PlanRecords(view, EmptyView, admitted)[id] = BuildDelta(view[id], Absent)
    BY <1>2 DEF PlanRecords, EmptyView
  <2>2. BuildDelta(view[id], Absent) = view[id] /\ view[id] \in WireEntity
    BY <1>2 DEF BuildDelta, View
  <2> QED
    BY <2>1, <2>2 DEF WireEntity
<1> QED
  BY <1>1, <1>2

LEMMA InitIInv == Init => IInv
<1> SUFFICES ASSUME Init
             PROVE  IInv
  OBVIOUS
<1> DEFINE due   == DueIds(frame, EmptyView)
           entry == FirstEntry(frame)
<1>1. frame \in View /\ EmptyView \in View /\ due \in SUBSET NetId
  BY EmptyViewType DEF Init, Frame, DueIds
<1>2. NoSequence \in AckNumber /\ NewSession.next = 0 /\ NewSession.acked = NoSequence
  BY DEF AckNumber, NewSession
<1>3. ~HasBaseline(NewSession, NoSequence) /\ ~CanAdvance(NewSession, NoSequence)
  BY DEF HasBaseline, CanAdvance
<1>4. AdvanceAcknowledged(NewSession, NoSequence) = NewSession
  BY <1>3 DEF AdvanceAcknowledged
<1>5. /\ entry \in HistoryEntry
      /\ entry.sequence = 0
      /\ entry.full = TRUE
      /\ entry.records = PlanRecords(frame, EmptyView, due)
  <2>1. NextEntry(NewSession, NoSequence, frame, due) \in HistoryEntry
    BY <1>1, <1>2, NewSessionFacts, NextEntryType
  <2>2. BaselineFor(NewSession, NoSequence) = EmptyView
    BY <1>3 DEF BaselineFor
  <2> QED
    BY <1>2, <1>3, <2>1, <2>2 DEF FirstEntry, NextEntry
<1>6. Len(NewSession.history) = 0
  BY DEF NewSession
<1>7. /\ SessionInv(session)
      /\ session.next = SequenceAfter(0)
      /\ session.acked = NoSequence
      /\ \E evicted \in {0, 1} :
           /\ Len(session.history) = 0 + 1 - evicted
           /\ \A i \in 1 .. Len(session.history) :
                session.history[i] = IF i + evicted <= 0
                                     THEN NewSession.history[i + evicted]
                                     ELSE entry
  <2> DEFINE built == BuildFromFrame(NewSession, NoSequence, frame, due)
  <2>1. /\ SessionInv(built)
        /\ built.next = SequenceAfter(NewSession.next)
        /\ built.acked = NewSession.acked
        /\ \E evicted \in {0, 1} :
             /\ Len(built.history) = Len(NewSession.history) + 1 - evicted
             /\ \A i \in 1 .. Len(built.history) :
                  built.history[i] = IF i + evicted <= Len(NewSession.history)
                                     THEN NewSession.history[i + evicted]
                                     ELSE NextEntry(NewSession, NoSequence, frame, due)
    BY <1>1, <1>2, <1>4, NewSessionFacts, BuildFacts
  <2>2. session = built
    BY DEF Init
  <2> HIDE DEF built
  <2> QED
    BY <1>2, <1>6, <2>1, <2>2 DEF FirstEntry
<1> HIDE DEF entry
<1>8. session.next = 1 /\ Len(session.history) \in {0, 1}
  BY <1>7, Numbers DEF SequenceAfter
<1>9. \A i \in 1 .. Len(session.history) : session.history[i] = entry
  BY <1>7, <1>8
<1>10. /\ DOMAIN sent = {0} /\ sent[0] = Datagram(entry)
       /\ DOMAIN meant = {0} /\ meant[0] = ApplyRecords(EmptyView, entry.records)
  BY DEF Init, entry
<1>11. /\ sent[0].full = TRUE /\ sent[0].records = entry.records
       /\ sent[0] \in Snapshot
  BY <1>5, <1>10 DEF Datagram, Snapshot, HistoryEntry
<1>12. TypeOK
  <2>1. entry.records \in Records
    BY <1>5 DEF HistoryEntry
  <2>2. meant[0] \in View
    BY <1>1, <1>10, <2>1, ApplyRecordsType
  <2>3. DOMAIN sent = 0 .. (session.next - 1)
    BY <1>8, <1>10
  <2> QED
    BY <1>1, <1>2, <1>7, <1>10, <1>11, <2>2, <2>3 DEF Init, TypeOK, SessionInv
<1>13. HistoryInv
  BY <1>5, <1>7, <1>8, <1>9, <1>10, Numbers DEF HistoryInv
<1>14. AckedInv
  BY <1>7 DEF AckedInv
<1>15. SentInv
  <2>1. DOMAIN entry.records = due
    BY <1>1, <1>5, PlanRecordsType
  <2>2. \A id \in DOMAIN entry.records :
          entry.records[id] = Removed \/ DOMAIN entry.records[id] = Field
    BY <1>1, <1>5, <2>1, FullRecordsAreWhole
  <2> QED
    BY <1>10, <1>11, <2>2 DEF SentInv
<1>16. AckInv
  BY <1>8, <1>11 DEF Init, AckInv
<1>17. LinkedClientMatches
  BY DEF Init, LinkedClientMatches
<1> QED
  BY <1>12, <1>13, <1>14, <1>15, <1>16, <1>17 DEF IInv
-----------------------------------------------------------------------------
(***************************************************************************)
(* The steps, one lemma per action.                                        *)
(***************************************************************************)

LEMMA WorldChangesStep == IInv /\ WorldChanges => IInv'
<1> SUFFICES ASSUME IInv, WorldChanges
             PROVE  IInv'
  OBVIOUS
<1>1. /\ frame' \in Frame
      /\ UNCHANGED serverVars /\ UNCHANGED channelVars
      /\ UNCHANGED clientVars /\ UNCHANGED ghostVars
  BY DEF WorldChanges
<1>2. TypeOK'
  BY <1>1 DEF IInv, TypeOK, serverVars, channelVars, clientVars, ghostVars
<1>3. HistoryInv'
  BY <1>1 DEF IInv, HistoryInv, serverVars, channelVars, clientVars, ghostVars
<1>4. AckedInv'
  BY <1>1 DEF IInv, AckedInv, serverVars, channelVars, clientVars, ghostVars
<1>5. SentInv'
  BY <1>1 DEF IInv, SentInv, serverVars, channelVars, clientVars, ghostVars
<1>6. AckInv'
  BY <1>1 DEF IInv, AckInv, serverVars, channelVars, clientVars, ghostVars
<1>7. LinkedClientMatches'
  BY <1>1 DEF IInv, LinkedClientMatches, serverVars, channelVars, clientVars, ghostVars
<1> QED
  BY <1>2, <1>3, <1>4, <1>5, <1>6, <1>7 DEF IInv

LEMMA SendInputStep == IInv /\ SendInput => IInv'
<1> SUFFICES ASSUME IInv, SendInput
             PROVE  IInv'
  OBVIOUS
<1>1. /\ UNCHANGED <<frame, session, acknowledged, ready, sent, clientView, latest,
                      clientAck, meant, applied, linked, merged>>
      /\ acksSent' = acksSent \cup {clientAck}
  BY DEF SendInput, serverVars, clientVars, ghostVars
<1>2. TypeOK'
  BY <1>1 DEF IInv, TypeOK
<1>3. AckInv'
  BY <1>1 DEF IInv, AckInv
<1> QED
  BY <1>1, <1>2, <1>3 DEF IInv, HistoryInv, AckedInv, SentInv, LinkedClientMatches

LEMMA ReceiveInputStep ==
  ASSUME IInv, NEW ack \in AckNumber, ReceiveInput(ack)
  PROVE  IInv'
<1>1. UNCHANGED <<frame, session, sent, acksSent, clientView, latest, clientAck,
                  meant, applied, linked, merged>>
  BY DEF ReceiveInput, channelVars, clientVars, ghostVars
<1>2. \/ UNCHANGED <<acknowledged, ready>>
      \/ acknowledged' = ack /\ ready' = TRUE /\ ack \in applied
  <2>1. CASE AcceptsAck(ack)
    <3>1. ack # NoSequence
      BY <2>1, Numbers DEF AcceptsAck
    <3>2. ack \in applied
      BY <3>1 DEF ReceiveInput, IInv, AckInv
    <3> QED
      BY <2>1, <3>2 DEF ReceiveInput
  <2>2. CASE ~AcceptsAck(ack)
    BY <2>2 DEF ReceiveInput
  <2> QED
    BY <2>1, <2>2
<1>3. TypeOK'
  BY <1>1, <1>2 DEF IInv, TypeOK
<1>4. AckInv'
  BY <1>1, <1>2, SentNumbers DEF IInv, AckInv
<1> QED
  BY <1>1, <1>3, <1>4 DEF IInv, HistoryInv, AckedInv, SentInv, LinkedClientMatches

\* What the client shows after the first snapshot.
LEMMA ReceiveBaselineStep == IInv /\ ReceiveBaseline => IInv'
<1> SUFFICES ASSUME IInv, ReceiveBaseline
             PROVE  IInv'
  OBVIOUS
<1>1. /\ UNCHANGED <<frame, session, acknowledged, ready, sent, acksSent, latest,
                      meant, linked, merged>>
      /\ applied' = applied \cup {0}
      /\ 0 \notin applied
      /\ clientView' = ApplySnapshotInPlace(clientView, sent[0].full, sent[0].records)
  BY DEF ReceiveBaseline, serverVars, channelVars
<1>2. applied = {} /\ clientAck = NoSequence /\ clientAck' = 0 /\ clientView = EmptyView
  BY <1>1 DEF ReceiveBaseline, IInv, AckInv
<1>3. 0 \in DOMAIN sent /\ sent[0].full = TRUE /\ sent[0].records \in Records
  BY SentNumbers DEF IInv, AckInv, TypeOK, Snapshot
<1>4. clientView' = meant'[0]
  <2>1. clientView' = ApplyRecords(EmptyView, sent[0].records)
    BY <1>1, <1>2, <1>3, EmptyViewType, ApplyFullInPlace DEF IInv, SentInv
  <2>2. meant[0] = ApplyRecords(EmptyView, sent[0].records)
    BY <1>3 DEF IInv, SentInv
  <2> QED
    BY <1>1, <2>1, <2>2
<1>5. TypeOK'
  <2>1. clientView' \in View
    BY <1>1, <1>3, <1>4 DEF IInv, TypeOK
  <2>2. 0 \in AckNumber
    BY Numbers DEF AckNumber, SequenceNumber
  <2> QED
    BY <1>1, <1>2, <1>3, <2>1, <2>2 DEF IInv, TypeOK
<1>6. HistoryInv'
  BY <1>1 DEF IInv, HistoryInv
<1>7. AckedInv'
  BY <1>1 DEF IInv, AckedInv
<1>8. SentInv'
  BY <1>1 DEF IInv, SentInv
<1>9. AckInv'
  BY <1>1, <1>2, Numbers DEF IInv, AckInv
<1>10. LinkedClientMatches'
  BY <1>2, <1>4 DEF LinkedClientMatches
<1> QED
  BY <1>5, <1>6, <1>7, <1>8, <1>9, <1>10 DEF IInv

\* A catch-up changes only the entities that are in merged afterwards.
LEMMA MergeCatchupStep ==
  ASSUME IInv, NEW records \in Records, MergeCatchup(records)
  PROVE  IInv'
<1>1. /\ UNCHANGED <<frame, session, acknowledged, ready, sent, acksSent, latest,
                      clientAck, meant, applied, linked>>
      /\ 0 \in applied
      /\ clientView' = ApplyRecords(clientView, records)
      /\ merged' = merged \cup DOMAIN records
  BY DEF MergeCatchup, serverVars, channelVars
<1>2. clientView' \in View
  BY <1>1, ApplyRecordsType DEF IInv, TypeOK
<1>3. TypeOK'
  BY <1>1, <1>2 DEF IInv, TypeOK, Records
<1>4. HistoryInv'
  BY <1>1 DEF IInv, HistoryInv
<1>5. AckedInv'
  BY <1>1 DEF IInv, AckedInv
<1>6. SentInv'
  BY <1>1 DEF IInv, SentInv
<1>7. AckInv'
  BY <1>1 DEF IInv, AckInv
<1>8. LinkedClientMatches'
  <2>1. \A id \in NetId \ DOMAIN records : clientView'[id] = clientView[id]
    BY <1>1 DEF ApplyRecords
  <2> QED
    BY <1>1, <2>1 DEF IInv, LinkedClientMatches
<1> QED
  BY <1>3, <1>4, <1>5, <1>6, <1>7, <1>8 DEF IInv

LEMMA ReceiveSnapshotStep ==
  ASSUME IInv, NEW s \in SequenceNumber, ReceiveSnapshot(s)
  PROVE  IInv'
<1>1. /\ UNCHANGED <<frame, session, acknowledged, ready, sent, acksSent, meant>>
      /\ s \in DOMAIN sent /\ s # 0
      /\ clientView' = ApplySnapshotInPlace(clientView, sent[s].full, sent[s].records)
      /\ latest' = s
      /\ clientAck' = s
      /\ applied' = applied \cup {s}
      /\ linked' = (sent[s].full \/ (linked /\ sent[s].baseline = clientAck))
      /\ merged' = IF sent[s].full THEN {} ELSE merged \ WrittenWhole(sent[s].records)
  BY DEF ReceiveSnapshot, serverVars, channelVars
<1>2. /\ sent[s].full \in BOOLEAN /\ sent[s].records \in Records
      /\ s \in 0 .. LastSnapshot /\ s # NoSequence /\ s \in AckNumber
      /\ clientView \in View
  BY <1>1, SentNumbers DEF IInv, TypeOK, Snapshot, AckNumber
<1>3. 0 \in applied
  <2>1. session.next > 1
    BY <1>1, <1>2, Numbers DEF IInv, TypeOK, HistoryInv
  <2> QED
    BY <2>1 DEF IInv, AckInv
<1>4. /\ meant[s] = ApplyRecords(IF sent[s].full THEN EmptyView
                                  ELSE meant[sent[s].baseline], sent[s].records)
      /\ ~sent[s].full => sent[s].baseline \in applied
      /\ sent[s].full => \A id \in DOMAIN sent[s].records :
                            \/ sent[s].records[id] = Removed
                            \/ DOMAIN sent[s].records[id] = Field
  BY <1>1 DEF IInv, SentInv
<1>5. clientView' \in View
  <2>1. CASE sent[s].full
    <3>1. clientView' = ApplyRecords(EmptyView, sent[s].records)
      BY <1>1, <1>2, <1>4, <2>1, ApplyFullInPlace
    <3> QED
      BY <1>2, <3>1, EmptyViewType, ApplyRecordsType
  <2>2. CASE ~sent[s].full
    <3>1. clientView' = ApplyRecords(clientView, sent[s].records)
      BY <1>1, <1>2, <2>2, ApplyDeltaInPlace
    <3> QED
      BY <1>2, <3>1, ApplyRecordsType
  <2> QED
    BY <2>1, <2>2
<1>6. LinkedClientMatches'
  <2> SUFFICES ASSUME linked', NEW id \in NetId \ merged'
               PROVE  clientView'[id] = meant[s][id]
    BY <1>1 DEF LinkedClientMatches
  <2>1. CASE sent[s].full
    BY <1>1, <1>2, <1>4, <2>1, ApplyFullInPlace
  <2>2. CASE ~sent[s].full
    <3> DEFINE base == meant[sent[s].baseline]
    <3>1. linked /\ sent[s].baseline = clientAck /\ clientAck # NoSequence
      BY <1>1, <1>4, <2>2, SentNumbers DEF IInv
    <3>2. clientView' = ApplyRecords(clientView, sent[s].records)
      BY <1>1, <1>2, <2>2, ApplyDeltaInPlace
    <3>3. meant[s] = ApplyRecords(base, sent[s].records)
      BY <1>4, <2>2
    <3>4. CASE id \in merged
      <4>1. id \in WrittenWhole(sent[s].records)
        BY <1>1, <2>2, <3>4
      <4> QED
        BY <3>2, <3>3, <4>1 DEF WrittenWhole, ApplyRecords, PatchEntity
    <3>5. CASE id \notin merged
      <4>1. clientView[id] = base[id]
        BY <3>1, <3>5 DEF IInv, LinkedClientMatches
      <4> QED
        BY <3>2, <3>3, <4>1 DEF ApplyRecords
    <3> QED
      BY <3>4, <3>5
  <2> QED
    BY <2>1, <2>2
<1>7. TypeOK'
  <2>1. linked' \in BOOLEAN /\ merged' \subseteq NetId
    BY <1>1, <1>2 DEF IInv, TypeOK
  <2> QED
    BY <1>1, <1>2, <1>5, <2>1 DEF IInv, TypeOK
<1>8. HistoryInv'
  BY <1>1 DEF IInv, HistoryInv
<1>9. AckedInv'
  BY <1>1 DEF IInv, AckedInv
<1>10. SentInv'
  BY <1>1 DEF IInv, SentInv
<1>11. AckInv'
  BY <1>1, <1>2, <1>3 DEF IInv, AckInv
<1> QED
  BY <1>6, <1>7, <1>8, <1>9, <1>10, <1>11 DEF IInv

LEMMA StutterStep == IInv /\ UNCHANGED vars => IInv'
<1> SUFFICES ASSUME IInv, UNCHANGED vars
             PROVE  IInv'
  OBVIOUS
<1>1. WorldChanges
  BY DEF IInv, TypeOK, WorldChanges, vars
<1> QED
  BY <1>1, WorldChangesStep

\* What a snapshot tick builds: the entry takes the next number, its baseline
\* was applied by the client, and it is meant to show the baseline patched with
\* its records.
LEMMA TakeSnapshotFacts ==
  ASSUME IInv, NEW admitted \in SUBSET NetId, TakeSnapshot(admitted)
  PROVE  LET entry == NextEntry(session, acknowledged, frame, admitted)
             base  == BaselineFor(session, acknowledged)
         IN /\ acknowledged \in applied
            /\ session.next \in 1 .. LastSnapshot
            /\ entry \in HistoryEntry
            /\ entry.sequence = session.next
            /\ entry.records = PlanRecords(frame, base, admitted)
            /\ entry.full => base = EmptyView
            /\ ~entry.full => entry.baseline = acknowledged
            /\ base \in View
            /\ session' = BuildFromFrame(session, acknowledged, frame, admitted)
            /\ sent' = Put(sent, session.next, Datagram(entry))
            /\ meant' = Put(meant, session.next, ApplyRecords(base, entry.records))
            /\ meant'[session.next] =
                 ApplyRecords(IF entry.full THEN EmptyView ELSE meant[entry.baseline],
                              entry.records)
            /\ UNCHANGED <<frame, acknowledged, ready, acksSent, clientView, latest,
                           clientAck, applied, linked, merged>>
<1> DEFINE entry == NextEntry(session, acknowledged, frame, admitted)
           base  == BaselineFor(session, acknowledged)
<1>1. /\ ready
      /\ session.next <= LastSnapshot
      /\ session' = BuildFromFrame(session, acknowledged, frame, admitted)
      /\ sent' = Put(sent, entry.sequence, Datagram(entry))
      /\ meant' = Put(meant, entry.sequence,
                      ApplyRecords(IF entry.full THEN EmptyView ELSE meant[entry.baseline],
                                   entry.records))
      /\ UNCHANGED <<frame, acknowledged, ready, acksSent, clientView, latest,
                     clientAck, applied, linked, merged>>
  BY DEF TakeSnapshot, SendSnapshot, clientVars
<1>2. acknowledged \in applied /\ acknowledged \in AckNumber
  BY <1>1 DEF IInv, AckInv, TypeOK
<1>3. SessionInv(session) /\ frame \in View /\ session.next \in 1 .. LastSnapshot
  BY <1>1, Numbers DEF IInv, HistoryInv, TypeOK, Frame
<1>4. entry \in HistoryEntry /\ base \in View
  BY <1>2, <1>3, NextEntryType
<1>5. /\ entry.sequence = session.next
      /\ entry.full = ~HasBaseline(session, acknowledged)
      /\ entry.baseline = IF HasBaseline(session, acknowledged) THEN acknowledged
                          ELSE NoSequence
      /\ entry.records = PlanRecords(frame, base, admitted)
  BY DEF NextEntry
<1>6. base = IF entry.full THEN EmptyView ELSE meant[entry.baseline]
  <2>1. CASE HasBaseline(session, acknowledged)
    BY <1>2, <1>5, <2>1, BaselineMeant
  <2>2. CASE ~HasBaseline(session, acknowledged)
    BY <1>5, <2>2 DEF BaselineFor
  <2> QED
    BY <2>1, <2>2
<1>7. ~entry.full => entry.baseline = acknowledged
  BY <1>5
<1> HIDE DEF entry, base
<1>8. meant'[session.next] = ApplyRecords(base, entry.records)
  BY <1>1, <1>5, <1>6 DEF Put
<1> QED
  BY <1>1, <1>2, <1>3, <1>4, <1>5, <1>6, <1>7, <1>8 DEF entry, base

LEMMA TakeSnapshotStep ==
  ASSUME IInv, NEW admitted \in SUBSET NetId, TakeSnapshot(admitted)
  PROVE  IInv'
<1> DEFINE entry    == NextEntry(session, acknowledged, frame, admitted)
           base     == BaselineFor(session, acknowledged)
           advanced == AdvanceAcknowledged(session, acknowledged)
           n        == session.next
<1>1. /\ acknowledged \in applied
      /\ n \in 1 .. LastSnapshot
      /\ entry \in HistoryEntry
      /\ entry.sequence = n
      /\ entry.records = PlanRecords(frame, base, admitted)
      /\ entry.full => base = EmptyView
      /\ ~entry.full => entry.baseline = acknowledged
      /\ base \in View
      /\ session' = BuildFromFrame(session, acknowledged, frame, admitted)
      /\ sent' = Put(sent, n, Datagram(entry))
      /\ meant' = Put(meant, n, ApplyRecords(base, entry.records))
      /\ meant'[n] = ApplyRecords(IF entry.full THEN EmptyView ELSE meant[entry.baseline],
                                  entry.records)
      /\ UNCHANGED <<frame, acknowledged, ready, acksSent, clientView, latest,
                     clientAck, applied, linked, merged>>
  BY TakeSnapshotFacts
<1>2. SessionInv(session) /\ frame \in View /\ acknowledged \in AckNumber
  BY DEF IInv, HistoryInv, TypeOK, Frame
<1>3. /\ SessionInv(session')
      /\ session'.next = SequenceAfter(n)
      /\ session'.acked = advanced.acked
      /\ session'.state = advanced.state
      /\ \E evicted \in {0, 1} :
           /\ Len(session'.history) = Len(advanced.history) + 1 - evicted
           /\ \A i \in 1 .. Len(session'.history) :
                session'.history[i] = IF i + evicted <= Len(advanced.history)
                                      THEN advanced.history[i + evicted]
                                      ELSE entry
  <2>1. session' = BuildFromFrame(session, acknowledged, frame, admitted)
    BY <1>1
  <2> HIDE DEF n
  <2> QED
    BY <1>2, <2>1, BuildFacts DEF n
<1>4. /\ advanced.acked # NoSequence =>
           /\ advanced.acked \in applied
           /\ advanced.acked + Len(advanced.history) < n
           /\ advanced.state = meant[advanced.acked]
      /\ Len(advanced.history) <= n
      /\ \A i \in 1 .. Len(advanced.history) :
           sent[advanced.history[i].sequence] = Datagram(advanced.history[i])
  BY <1>1, AdvanceReconstructs
<1>5. Len(advanced.history) \in Nat
  BY <1>2, AdvanceFacts DEF SessionInv, Session
<1>6. DOMAIN sent = 0 .. (n - 1) /\ DOMAIN meant = DOMAIN sent /\ applied \subseteq DOMAIN sent
  BY DEF IInv, TypeOK
<1> HIDE DEF entry, base, advanced
<1>7. session'.next = n + 1
  BY <1>1, <1>3, Numbers DEF SequenceAfter
<1>8. /\ DOMAIN sent' = 0 .. n /\ DOMAIN meant' = 0 .. n
      /\ sent'[n] = Datagram(entry)
      /\ \A s \in DOMAIN sent : sent'[s] = sent[s] /\ meant'[s] = meant[s]
  <2>1. (0 .. (n - 1)) \cup {n} = 0 .. n /\ n \notin 0 .. (n - 1)
    BY <1>1, Numbers
  <2> QED
    BY <1>1, <1>6, <2>1 DEF Put
<1>9. /\ sent'[n].full = entry.full
      /\ sent'[n].baseline = entry.baseline
      /\ sent'[n].records = entry.records
      /\ sent'[n] \in Snapshot
  BY <1>1, <1>8 DEF Datagram, Snapshot, HistoryEntry
<1>10. TypeOK'
  <2>1. meant'[n] \in View
    <3>1. entry.records \in Records
      BY <1>1 DEF HistoryEntry
    <3> QED
      BY <1>1, <1>8, <3>1, ApplyRecordsType DEF Put
  <2>2. DOMAIN sent' = 0 .. (session'.next - 1)
    BY <1>1, <1>7, <1>8, Numbers
  <2>3. \A s \in DOMAIN sent' : sent'[s] \in Snapshot /\ meant'[s] \in View
    <3> SUFFICES ASSUME NEW s \in 0 .. n
                 PROVE  sent'[s] \in Snapshot /\ meant'[s] \in View
      BY <1>8
    <3>1. CASE s = n
      BY <1>9, <2>1, <3>1
    <3>2. CASE s # n
      <4>1. s \in DOMAIN sent
        BY <1>1, <1>6, <3>2, Numbers
      <4> QED
        BY <1>6, <1>8, <4>1 DEF IInv, TypeOK
    <3> QED
      BY <3>1, <3>2
  <2>4. applied' \subseteq DOMAIN sent'
    BY <1>1, <1>6, <1>8, Numbers
  <2>5. session' \in Session /\ Len(session'.history) <= HistoryLimit
    BY <1>3 DEF SessionInv
  <2> QED
    BY <1>1, <1>8, <2>2, <2>3, <2>4, <2>5 DEF IInv, TypeOK
<1>11. HistoryInv'
  <2>1. PICK evicted \in {0, 1} :
           /\ Len(session'.history) = Len(advanced.history) + 1 - evicted
           /\ \A i \in 1 .. Len(session'.history) :
                session'.history[i] = IF i + evicted <= Len(advanced.history)
                                      THEN advanced.history[i + evicted]
                                      ELSE entry
    BY <1>3
  <2>2. ASSUME NEW i \in 1 .. Len(session'.history)
        PROVE  sent'[session'.history[i].sequence] = Datagram(session'.history[i])
    <3>1. CASE i + evicted <= Len(advanced.history)
      <4> DEFINE j == i + evicted
      <4>1. j \in 1 .. Len(advanced.history) /\ session'.history[i] = advanced.history[j]
        BY <1>5, <2>1, <3>1
      <4>2. advanced.history[j].sequence \in DOMAIN sent
        <5>1. SessionInv(advanced) /\ advanced.next = n
          BY <1>2, AdvanceFacts DEF advanced
        <5>2. advanced.history[j].sequence = SequenceBack(n, Len(advanced.history) + 1 - j)
          BY <4>1, <5>1 DEF SessionInv, HistoryContiguous
        <5>3. SequenceBack(n, Len(advanced.history) + 1 - j) \in 0 .. (n - 1)
          BY <1>1, <1>4, <1>5, <4>1, Numbers DEF SequenceBack
        <5> QED
          BY <1>6, <5>2, <5>3
      <4> QED
        BY <1>4, <1>8, <4>1, <4>2
    <3>2. CASE ~(i + evicted <= Len(advanced.history))
      <4>1. session'.history[i] = entry
        BY <2>1, <3>2
      <4> QED
        BY <1>1, <1>8, <4>1
    <3> QED
      BY <3>1, <3>2
  <2>3. Len(session'.history) <= session'.next
    BY <1>1, <1>4, <1>5, <1>7, <2>1, Numbers
  <2>4. session'.next \in 1 .. (LastSnapshot + 1)
    BY <1>1, <1>7, Numbers
  <2> QED
    BY <1>3, <2>2, <2>3, <2>4 DEF HistoryInv
<1>12. AckedInv'
  <2> SUFFICES ASSUME session'.acked # NoSequence
               PROVE  /\ session'.acked \in applied'
                      /\ session'.acked + Len(session'.history) < session'.next
                      /\ session'.state = meant'[session'.acked]
    BY DEF AckedInv
  <2>1. /\ advanced.acked \in applied
        /\ advanced.acked + Len(advanced.history) < n
        /\ advanced.state = meant[advanced.acked]
    BY <1>3, <1>4
  <2>2. advanced.acked \in DOMAIN sent /\ advanced.acked \in Nat
    BY <1>6, <2>1
  <2>3. advanced.acked + Len(session'.history) < n + 1
    BY <1>1, <1>3, <1>5, <2>1, <2>2, Numbers, SMTT(30)
  <2> QED
    BY <1>1, <1>3, <1>7, <1>8, <2>1, <2>2, <2>3
<1>13. SentInv'
  <2> SUFFICES ASSUME NEW s \in 0 .. n
               PROVE  /\ ~sent'[s].full => sent'[s].baseline \in applied'
                      /\ sent'[s].full => \A id \in DOMAIN sent'[s].records :
                                             \/ sent'[s].records[id] = Removed
                                             \/ DOMAIN sent'[s].records[id] = Field
                      /\ meant'[s] = ApplyRecords(IF sent'[s].full THEN EmptyView
                                                  ELSE meant'[sent'[s].baseline],
                                                  sent'[s].records)
    BY <1>8 DEF SentInv
  <2>1. CASE s = n
    <3>1. sent'[n].full => \A id \in DOMAIN sent'[n].records :
                             \/ sent'[n].records[id] = Removed
                             \/ DOMAIN sent'[n].records[id] = Field
      <4> SUFFICES ASSUME entry.full, NEW id \in DOMAIN entry.records
                   PROVE  entry.records[id] = Removed \/ DOMAIN entry.records[id] = Field
        BY <1>9
      <4>1. entry.records = PlanRecords(frame, EmptyView, admitted)
        BY <1>1
      <4>2. id \in admitted
        BY <1>2, <4>1, EmptyViewType, PlanRecordsType
      <4> QED
        BY <1>2, <4>1, <4>2, FullRecordsAreWhole
    <3>2. ~entry.full => entry.baseline \in applied /\ meant'[entry.baseline] = meant[entry.baseline]
      BY <1>1, <1>6, <1>8
    <3> QED
      BY <1>1, <1>9, <2>1, <3>1, <3>2
  <2>2. CASE s # n
    <3>1. s \in DOMAIN sent
      BY <1>1, <1>6, <2>2, Numbers
    <3>2. /\ ~sent[s].full => sent[s].baseline \in applied
          /\ sent[s].full => \A id \in DOMAIN sent[s].records :
                                \/ sent[s].records[id] = Removed
                                \/ DOMAIN sent[s].records[id] = Field
          /\ meant[s] = ApplyRecords(IF sent[s].full THEN EmptyView
                                     ELSE meant[sent[s].baseline], sent[s].records)
      BY <3>1 DEF IInv, SentInv
    <3>3. ~sent[s].full => meant'[sent[s].baseline] = meant[sent[s].baseline]
      BY <1>6, <1>8, <3>2
    <3>4. sent'[s] = sent[s] /\ meant'[s] = meant[s]
      BY <1>8, <3>1
    <3> QED
      BY <1>1, <3>2, <3>3, <3>4
  <2> QED
    BY <2>1, <2>2
<1>14. AckInv'
  <2>1. 0 \in DOMAIN sent /\ sent'[0] = sent[0]
    BY <1>8, SentNumbers DEF IInv
  <2>2. 0 \in applied
    BY <1>1 DEF IInv, AckInv
  <2> QED
    BY <1>1, <2>1, <2>2 DEF IInv, AckInv
<1>15. LinkedClientMatches'
  <2> SUFFICES ASSUME linked, clientAck # NoSequence
               PROVE  \A id \in NetId \ merged : clientView[id] = meant'[clientAck][id]
    BY <1>1 DEF LinkedClientMatches
  <2>1. clientAck \in DOMAIN sent
    BY <1>6 DEF IInv, AckInv
  <2> QED
    BY <1>8, <2>1 DEF IInv, LinkedClientMatches
<1> QED
  BY <1>10, <1>11, <1>12, <1>13, <1>14, <1>15 DEF IInv

LEMMA NextIInv == IInv /\ [Next]_vars => IInv'
<1> SUFFICES ASSUME IInv, [Next]_vars
             PROVE  IInv'
  OBVIOUS
<1>1. CASE WorldChanges
  BY <1>1, WorldChangesStep
<1>2. CASE ReceiveBaseline
  BY <1>2, ReceiveBaselineStep
<1>3. CASE \E records \in Records : MergeCatchup(records)
  BY <1>3, MergeCatchupStep
<1>4. CASE SendInput
  BY <1>4, SendInputStep
<1>5. CASE \E ack \in AckNumber : ReceiveInput(ack)
  BY <1>5, ReceiveInputStep
<1>6. CASE \E admitted \in SUBSET NetId : TakeSnapshot(admitted)
  BY <1>6, TakeSnapshotStep
<1>7. CASE \E s \in SequenceNumber : ReceiveSnapshot(s)
  BY <1>7, ReceiveSnapshotStep
<1>8. CASE UNCHANGED vars
  BY <1>8, StutterStep
<1> QED
  BY <1>1, <1>2, <1>3, <1>4, <1>5, <1>6, <1>7, <1>8 DEF Next

LEMMA InvariantIInv == Spec => []IInv
<1>1. Init => IInv
  BY InitIInv
<1>2. IInv /\ [Next]_vars => IInv'
  BY NextIInv
<1> QED
  BY <1>1, <1>2, PTL DEF Spec
-----------------------------------------------------------------------------
(***************************************************************************)
(* The properties.                                                         *)
(***************************************************************************)

\* Every variable keeps its type and the history keeps within its limit
\* (SnapshotSession, handle_connection, connectAuthoritativeClient).
THEOREM TypeCorrect == Spec => []TypeOK
<1>1. IInv => TypeOK
  BY DEF IInv
<1> QED
  BY <1>1, InvariantIInv, PTL

\* A delta is built on a snapshot that the client has applied, never merely on
\* one that was sent (build_from_frame, advance_snapshot_ack).
THEOREM DeltaBaselineApplied == Spec => []DeltaUsesAppliedBaseline
<1>1. IInv => DeltaUsesAppliedBaseline
  BY DEF IInv, SentInv, DeltaUsesAppliedBaseline
<1> QED
  BY <1>1, InvariantIInv, PTL

\* The state advanced in place is the view that the acknowledged snapshot was
\* built to produce (advance_acknowledged_state).
THEOREM BaselineIsReconstructed == Spec => []BaselineReconstructed
<1>1. IInv => BaselineReconstructed
  BY DEF IInv, AckedInv, BaselineReconstructed
<1> QED
  BY <1>1, InvariantIInv, PTL

\* A client whose deltas all met their baseline shows of every entity what the
\* server meant it to show, but for the entities that a catch-up has written
\* since (handleRealtimePacket, applySnapshotPacketInPlace, handleReliablePacket).
THEOREM LinkedClientShowsMeant == Spec => []LinkedClientMatches
<1>1. IInv => LinkedClientMatches
  BY DEF IInv
<1> QED
  BY <1>1, InvariantIInv, PTL

\* Late and reordered datagrams never move an acknowledgement back
\* (advance_snapshot_ack, advance_acknowledged_state, handleRealtimePacket).
THEOREM AcksNeverMoveBack == Spec => AcksMoveForward
<1> DEFINE A == /\ Forward(acknowledged, acknowledged')
                /\ Forward(session.acked, session'.acked)
                /\ Forward(clientAck, clientAck')
<1>1. IInv /\ [Next]_vars => [A]_vars
  <2> SUFFICES ASSUME IInv, [Next]_vars
               PROVE  A
    OBVIOUS
  <2>1. CASE UNCHANGED <<acknowledged, session, clientAck>>
    BY <2>1 DEF Forward
  <2>2. CASE ReceiveBaseline
    BY <2>2 DEF ReceiveBaseline, serverVars, Forward
  <2>3. ASSUME NEW ack \in AckNumber, ReceiveInput(ack)
        PROVE  A
    <3>1. UNCHANGED <<session, clientAck>>
      BY <2>3 DEF ReceiveInput, clientVars
    <3>2. CASE AcceptsAck(ack) /\ acknowledged # NoSequence
      <4>1. ready /\ acknowledged \in applied
        BY <3>2 DEF IInv, AckInv
      <4>2. ack # NoSequence /\ IsSequenceNewer(ack, acknowledged) /\ acknowledged' = ack
        BY <2>3, <3>2, <4>1 DEF AcceptsAck, ReceiveInput
      <4>3. ack \in applied
        BY <2>3, <4>2 DEF ReceiveInput, IInv, AckInv
      <4>4. ack > acknowledged
        BY <4>1, <4>2, <4>3, SentNumbers, NewerIsGreater DEF IInv
      <4> QED
        BY <3>1, <4>2, <4>4 DEF Forward
    <3>3. CASE AcceptsAck(ack) /\ acknowledged = NoSequence
      BY <3>1, <3>3 DEF Forward
    <3>4. CASE ~AcceptsAck(ack)
      BY <2>3, <3>1, <3>4 DEF ReceiveInput, Forward
    <3> QED
      BY <3>2, <3>3, <3>4
  <2>4. ASSUME NEW admitted \in SUBSET NetId, TakeSnapshot(admitted)
        PROVE  A
    <3>1. /\ acknowledged \in applied
          /\ session' = BuildFromFrame(session, acknowledged, frame, admitted)
          /\ UNCHANGED <<acknowledged, clientAck>>
      BY <2>4, TakeSnapshotFacts
    <3>2. session'.acked = AdvanceAcknowledged(session, acknowledged).acked
      <4>1. SessionInv(session) /\ acknowledged \in AckNumber /\ frame \in View
        BY DEF IInv, HistoryInv, TypeOK, Frame
      <4> QED
        BY <3>1, <4>1, BuildFacts
    <3>3. Forward(session.acked, session'.acked)
      BY <3>1, <3>2, AdvanceReconstructs
    <3> QED
      BY <3>1, <3>3 DEF Forward
  <2>5. ASSUME NEW s \in SequenceNumber, ReceiveSnapshot(s)
        PROVE  A
    <3>1. /\ s \in DOMAIN sent \ {0} /\ clientAck' = s /\ AcceptsSnapshot(s)
          /\ UNCHANGED <<session, acknowledged>>
      BY <2>5 DEF ReceiveSnapshot, serverVars
    <3>2. s \in 0 .. LastSnapshot /\ s # 0
      BY <3>1, SentNumbers DEF IInv
    <3>3. CASE latest = NoSequence
      <4>1. clientAck \in {0, NoSequence}
        BY <3>3 DEF IInv, AckInv
      <4> QED
        BY <3>1, <3>2, <4>1, Numbers DEF Forward
    <3>4. CASE latest # NoSequence
      <4>1. clientAck = latest /\ clientAck \in applied
        BY <3>4 DEF IInv, AckInv
      <4>2. s > clientAck
        BY <3>1, <3>2, <3>4, <4>1, SentNumbers, NewerIsGreater DEF IInv, AcceptsSnapshot
      <4> QED
        BY <3>1, <4>2 DEF Forward
    <3> QED
      BY <3>3, <3>4
  <2> QED
    BY <2>1, <2>2, <2>3, <2>4, <2>5
    DEF Next, WorldChanges, MergeCatchup, SendInput, vars, serverVars, clientVars
<1> QED
  BY <1>1, InvariantIInv, PTL DEF Spec, AcksMoveForward

\* What a snapshot carries of an entity, and always of the owner, is the frame
\* (plan_records, build_delta, apply_records).
THEOREM SnapshotsShowTheFrame == Spec => SnapshotShowsFrame
<1> DEFINE A == \A s \in DOMAIN sent' \ DOMAIN sent : \A id \in NetId :
                  id = Owner \/ id \in DOMAIN sent'[s].records => meant'[s][id] = frame[id]
<1>1. IInv /\ [Next]_vars => [A]_vars
  <2> SUFFICES ASSUME IInv, [Next]_vars
               PROVE  A
    OBVIOUS
  <2>1. CASE sent' = sent
    BY <2>1
  <2>2. ASSUME NEW admitted \in SUBSET NetId, TakeSnapshot(admitted)
        PROVE  A
    <3> DEFINE entry == NextEntry(session, acknowledged, frame, admitted)
               base  == BaselineFor(session, acknowledged)
               n     == session.next
    <3>1. /\ n \in 1 .. LastSnapshot
          /\ entry.records = PlanRecords(frame, base, admitted)
          /\ base \in View
          /\ sent' = Put(sent, n, Datagram(entry))
          /\ meant' = Put(meant, n, ApplyRecords(base, entry.records))
      BY <2>2, TakeSnapshotFacts
    <3>2. frame \in View /\ admitted \in Admissible(frame, base)
      BY <2>2 DEF TakeSnapshot, SendSnapshot, IInv, TypeOK, Frame
    <3> HIDE DEF entry, base
    <3>3. sent'[n].records = entry.records /\ meant'[n] = ApplyRecords(base, entry.records)
      BY <3>1 DEF Put, Datagram
    <3>4. DOMAIN entry.records = admitted
      BY <3>1, <3>2, PlanRecordsType
    <3>5. ASSUME NEW id \in NetId, id = Owner \/ id \in admitted
          PROVE  meant'[n][id] = frame[id]
      <4>1. id \in admitted \/ id \notin DueIds(frame, base)
        BY <3>2, <3>5 DEF Admissible
      <4> QED
        BY <3>1, <3>2, <3>3, <4>1, PlannedRecordsShowFrame
    <3>6. DOMAIN sent' \ DOMAIN sent \subseteq {n}
      BY <3>1 DEF Put
    <3> QED
      BY <3>3, <3>4, <3>5, <3>6
  <2> QED
    BY <2>1, <2>2
    DEF Next, WorldChanges, MergeCatchup, SendInput, ReceiveBaseline, ReceiveInput, ReceiveSnapshot,
        vars, serverVars, channelVars
<1> QED
  BY <1>1, InvariantIInv, PTL DEF Spec, SnapshotShowsFrame
=============================================================================

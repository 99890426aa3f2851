------------------------ MODULE RealtimeReplication ------------------------
(***************************************************************************)
(* The realtime snapshot channel of one connection: the server's           *)
(* handle_connection task, the datagrams in both directions and the        *)
(* browser client.  The server sends the first, full snapshot on the       *)
(* reliable stream; every 50 ms it sends a delta against the newest        *)
(* snapshot that the client has acknowledged, or a full snapshot when it   *)
(* has no such baseline.  The client acknowledges, in every input          *)
(* datagram, the newest snapshot it has applied.  Later catch-ups on the   *)
(* stream (ReliableCatchup) write the same map of the client behind the    *)
(* back of the datagrams.                                                  *)
(*                                                                         *)
(* Datagrams may be lost, delayed and reordered.  What has been sent is    *)
(* never taken back from sent and acksSent: a datagram that is lost is     *)
(* one that is never received.                                             *)
(*                                                                         *)
(* A session here is shorter than one cycle of the sequence numbers (54    *)
(* minutes of snapshots): LastSnapshot bounds it.                          *)
(***************************************************************************)
EXTENDS SnapshotSession

CONSTANTS
  LastSnapshot,    \* bound: the last number this session allocates
  LastCatchup      \* bound: the last number allocated before a catch-up is merged

ASSUME LastCatchupAssumption == LastCatchup \in Nat

ASSUME LastSnapshotAssumption ==
  LastSnapshot \in SequenceNumber /\ 2 * LastSnapshot < NoSequence

VARIABLES
  frame,         \* replication_frame: the world as last published by the clock
  session,       \* snapshots: the SnapshotSession of the realtime channel
  acknowledged,  \* acknowledged_snapshot of the handler
  ready,         \* realtime_ready of the handler
  sent,          \* every snapshot sent so far, by number
  acksSent,      \* every acknowledgement that an input datagram has carried
  clientView,    \* state: the client's map of entities
  latest,        \* latestSnapshotSequence of the client
  clientAck,     \* acknowledgedSnapshotSequence of the client
  meant,         \* history: the view each snapshot was built to produce
  applied,       \* history: the snapshots the client has applied
  linked,        \* history: since the last full snapshot, every delta met the
                 \* baseline it was built on
  merged         \* history: the entities that a catch-up has written since a
                 \* realtime snapshot wrote them whole

serverVars  == <<session, acknowledged, ready>>
channelVars == <<sent, acksSent>>
clientVars  == <<clientView, latest, clientAck>>
ghostVars   == <<meant, applied, linked, merged>>
vars == <<frame, serverVars, channelVars, clientVars, ghostVars>>

\* The owner of the connection is in the world for as long as it lasts.
Frame == {view \in View : view[Owner] # Absent}

Snapshot == [baseline : AckNumber, full : BOOLEAN, records : Records]

Put(f, key, value) ==
  [k \in DOMAIN f \cup {key} |-> IF k = key THEN value ELSE f[k]]

Datagram(entry) ==
  [baseline |-> entry.baseline, full |-> entry.full, records |-> entry.records]

TypeOK ==
  /\ frame \in Frame
  /\ session \in Session /\ Len(session.history) <= HistoryLimit
  /\ acknowledged \in AckNumber
  /\ ready \in BOOLEAN
  /\ DOMAIN sent = 0 .. (session.next - 1)
  /\ \A s \in DOMAIN sent : sent[s] \in Snapshot
  /\ acksSent \subseteq AckNumber
  /\ clientView \in View
  /\ latest \in AckNumber
  /\ clientAck \in AckNumber
  /\ DOMAIN meant = DOMAIN sent
  /\ \A s \in DOMAIN meant : meant[s] \in View
  /\ applied \subseteq DOMAIN sent
  /\ linked \in BOOLEAN
  /\ merged \subseteq NetId
-----------------------------------------------------------------------------
(***************************************************************************)
(* The initial state is the one in which handle_connection has built the   *)
(* complete first snapshot, number 0, and written it to the stream.        *)
(***************************************************************************)
FirstEntry(view) == NextEntry(NewSession, NoSequence, view, DueIds(view, EmptyView))

Init ==
  /\ frame \in Frame
  /\ session = BuildFromFrame(NewSession, NoSequence, frame, DueIds(frame, EmptyView))
  /\ acknowledged = NoSequence
  /\ ready = FALSE
  /\ sent = [s \in {0} |-> Datagram(FirstEntry(frame))]
  /\ acksSent = {}
  /\ clientView = EmptyView
  /\ latest = NoSequence
  /\ clientAck = NoSequence
  /\ meant = [s \in {0} |-> ApplyRecords(EmptyView, FirstEntry(frame).records)]
  /\ applied = {}
  /\ linked = TRUE
  /\ merged = {}

\* The clock steps the world and publishes a new frame.
WorldChanges ==
  /\ frame' \in Frame
  /\ UNCHANGED <<serverVars, channelVars, clientVars, ghostVars>>

\* The first snapshot arrives on the reliable stream; the client applies and
\* acknowledges it, but it does not count as a realtime snapshot.
ReceiveBaseline ==
  /\ 0 \notin applied
  /\ clientView' = ApplySnapshotInPlace(clientView, sent[0].full, sent[0].records)
  /\ clientAck' = IF clientAck = NoSequence THEN 0 ELSE clientAck
  /\ applied' = applied \cup {0}
  /\ UNCHANGED <<frame, serverVars, channelVars, latest, meant, linked, merged>>

\* The records that say all there is of their entity, whatever was there before.
WrittenWhole(records) ==
  {id \in DOMAIN records : records[id] = Removed \/ DOMAIN records[id] = Field}

\* What a catch-up may write (ReliableCatchup says what it does): the fields of
\* a record, a whole entity where the map has none, or a removal; the owner is
\* in every frame and is never removed.
CatchupMayWrite(view, records) ==
  /\ Owner \in DOMAIN records => records[Owner] # Removed
  /\ \A id \in DOMAIN records : view[id] = Absent => id \in WrittenWhole(records)

\* A later catch-up arrives on the stream and is merged into the map that the
\* realtime snapshots write; what they have acknowledged stays as it is.  The
\* server queues one only beside a realtime snapshot whose records were late.
MergeCatchup(records) ==
  /\ 0 \in applied
  /\ session.next \in 2 .. (LastCatchup + 1)
  /\ CatchupMayWrite(clientView, records)
  /\ clientView' = ApplyRecords(clientView, records)
  /\ merged' = merged \cup DOMAIN records
  /\ UNCHANGED <<frame, serverVars, channelVars, latest, clientAck, meant, applied, linked>>

\* The client sends an input datagram, which carries its acknowledgement.
SendInput ==
  /\ acksSent' = acksSent \cup {clientAck}
  /\ UNCHANGED <<frame, serverVars, sent, clientVars, ghostVars>>

\* A handler that takes the acknowledgements in the order of their arrival.
AcceptsLateAck(ack) == IF ready THEN ack # NoSequence ELSE ack = 0

\* Until the first snapshot is acknowledged only its number is accepted, and
\* afterwards only a newer one.  The handler looks at the acknowledgement of an
\* input only when the input is newer than every one before it; the client's
\* acknowledgements only grow, so the comparison here subsumes that one.
AcceptsAck(ack) ==
  IF ready
  THEN ack # NoSequence /\ IsSequenceNewer(ack, acknowledged)
  ELSE ack = 0

ReceiveInput(ack) ==
  /\ ack \in acksSent
  /\ IF AcceptsAck(ack)
     THEN acknowledged' = ack /\ ready' = TRUE
     ELSE UNCHANGED <<acknowledged, ready>>
  /\ UNCHANGED <<frame, session, channelVars, clientVars, ghostVars>>

\* One snapshot is built for an acknowledgement, entered in the history and
\* sent as a datagram.
SendSnapshot(ack, admitted) ==
  LET entry == NextEntry(session, ack, frame, admitted)
  IN /\ ready
     /\ session.next <= LastSnapshot
     /\ admitted \in Admissible(frame, BaselineFor(session, ack))
     /\ session' = BuildFromFrame(session, ack, frame, admitted)
     /\ sent' = Put(sent, entry.sequence, Datagram(entry))
     /\ meant' = Put(meant, entry.sequence,
                     ApplyRecords(IF entry.full THEN EmptyView ELSE meant[entry.baseline],
                                  entry.records))
     /\ UNCHANGED <<frame, acknowledged, ready, acksSent, clientVars, applied, linked, merged>>

\* A server that takes the last snapshot it sent for one the client has.
TakeSnapshotOnLastSent(admitted) == SendSnapshot(session.next - 1, admitted)

\* The 50 ms tick of the handler.
TakeSnapshot(admitted) == SendSnapshot(acknowledged, admitted)

\* A client that takes snapshots in the order of their arrival.
AcceptsAny(s) == latest = NoSequence \/ s # latest

\* The client drops a snapshot that is not newer than the last one it took.
AcceptsSnapshot(s) == latest = NoSequence \/ IsSequenceNewer(s, latest)

\* A snapshot datagram arrives: it is applied to the client's map in place, the
\* baseline it names is not looked at.
ReceiveSnapshot(s) ==
  /\ s \in DOMAIN sent \ {0}
  /\ AcceptsSnapshot(s)
  /\ clientView' = ApplySnapshotInPlace(clientView, sent[s].full, sent[s].records)
  /\ latest' = s
  /\ clientAck' = s
  /\ applied' = applied \cup {s}
  /\ linked' = (sent[s].full \/ (linked /\ sent[s].baseline = clientAck))
  /\ merged' = IF sent[s].full THEN {} ELSE merged \ WrittenWhole(sent[s].records)
  /\ UNCHANGED <<frame, serverVars, channelVars, meant>>

Next ==
  \/ WorldChanges
  \/ ReceiveBaseline
  \/ \E records \in Records : MergeCatchup(records)
  \/ SendInput
  \/ \E ack \in AckNumber : ReceiveInput(ack)
  \/ \E admitted \in SUBSET NetId : TakeSnapshot(admitted)
  \/ \E s \in SequenceNumber : ReceiveSnapshot(s)

Spec == Init /\ [][Next]_vars
-----------------------------------------------------------------------------
(***************************************************************************)
(* Safety.                                                                 *)
(***************************************************************************)

\* A delta is built on a snapshot that the client has applied, never merely on
\* one that was sent (build_from_frame, advance_snapshot_ack).
DeltaUsesAppliedBaseline ==
  \A s \in DOMAIN sent : sent[s].full \/ sent[s].baseline \in applied

\* The state that the server advances in place, record by record, is the view
\* that the acknowledged snapshot was built to produce, however many snapshots
\* in between were lost, skipped or evicted (advance_acknowledged_state).
BaselineReconstructed ==
  session.acked # NoSequence => session.state = meant[session.acked]

\* A client whose deltas all met the baseline they were built on shows exactly
\* what the snapshot it acknowledges was built to show, but for the entities
\* that a catch-up has written into the same map since; a whole record heals
\* those, and a full snapshot whatever went before (handleRealtimePacket,
\* applySnapshotPacketInPlace, handleReliablePacket).
LinkedClientMatches ==
  linked /\ clientAck # NoSequence =>
    \A id \in NetId \ merged : clientView[id] = meant[clientAck][id]

Forward(before, after) == after = before \/ before = NoSequence \/ after > before

\* Acknowledgements never move back, on either side: a late or reordered
\* datagram cannot revive an older baseline or an older picture of the world.
AcksMoveForward ==
  [][/\ Forward(acknowledged, acknowledged')
     /\ Forward(session.acked, session'.acked)
     /\ Forward(clientAck, clientAck')]_vars

\* What a snapshot shows of an entity is the published frame, unless the planner
\* held the entity back; the owner is never held back (plan_records, build_delta,
\* apply_records).
SnapshotShowsFrame ==
  [][\A s \in DOMAIN sent' \ DOMAIN sent : \A id \in NetId :
       id = Owner \/ id \in DOMAIN sent'[s].records => meant'[s][id] = frame[id]]_vars
-----------------------------------------------------------------------------
(***************************************************************************)
(* What the documentation says of the channel and the code does not keep.  *)
(***************************************************************************)

\* When the server has nothing to send, because the frame equals the state that
\* the client acknowledged last, the client shows the frame, even when no
\* catch-up has written its map.
SettledClientShowsFrame ==
  session.acked # NoSequence /\ session.acked = clientAck /\ frame = session.state
  /\ merged = {} => clientView = frame
=============================================================================

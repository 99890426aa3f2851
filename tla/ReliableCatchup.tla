-------------------------- MODULE ReliableCatchup --------------------------
(***************************************************************************)
(* The ordered stream beside the realtime channel of one connection.  It   *)
(* carries the first snapshot, kill events, and a catch-up snapshot when   *)
(* the realtime snapshots are late with somebody.  Between the handler and *)
(* the stream is a queue of one place and a writer task; what does not fit *)
(* is not built.  The catch-ups are a SnapshotSession of their own: three  *)
(* deltas, each on the one before, then a full checkpoint.  The client     *)
(* keeps a replica for them and merges what they say into the map that the *)
(* realtime snapshots write, entity by entity and by tick, because either  *)
(* channel may overtake the other.                                         *)
(***************************************************************************)
EXTENDS SnapshotSession

CONSTANTS
  LastTick,        \* bound: frames published
  LastKill,        \* bound: deaths recorded
  KillHistory,     \* MAX_KILL_EVENT_HISTORY
  Cooldown,        \* RELIABLE_BACKGROUND_COOLDOWN_TICKS, in published frames
  CheckpointAfter, \* RELIABLE_DELTA_CHECKPOINT_INTERVAL
  LastCatchup      \* bound: the last number of a catch-up

ASSUME CatchupAssumption ==
  /\ LastTick \in Nat \ {0} /\ LastKill \in Nat /\ KillHistory \in Nat \ {0}
  /\ Cooldown \in Nat /\ CheckpointAfter \in Nat
  /\ LastCatchup \in SequenceNumber /\ 2 * LastCatchup < NoSequence

VARIABLES
  frames,      \* every frame published; its tick is its place
  firstKill,   \* kill_events: the oldest number retained ...
  nextKill,    \* ... and next_kill_event_sequence
  cursor,      \* next_kill_event_sequence of the handler
  catchups,    \* reliable_snapshots: the SnapshotSession of the catch-ups
  lastCatchup, \* last_reliable_sequence
  catchupTick, \* last_reliable_background_tick
  deltas,      \* reliable_deltas_since_checkpoint
  killMissed,  \* the handler is in a tick in which a kill event found no place
  queue,       \* reliable_tx: payloads waiting for the writer
  stream,      \* what the writer has written and the client not yet read
  clientMap,   \* state: the client's map of entities
  entityTick,  \* serverTick of each entity of the map, 0 if absent
  shown,       \* the tick of the newest realtime snapshot the client applied
  replica,     \* reliableMergeState: its map, the ids it knows, its number
  heard,       \* history: the kill events the client was told, in order
  told         \* history: entities a catch-up merged and that stayed since

serverVars == <<frames, firstKill, nextKill>>
chainVars  == <<catchups, lastCatchup, catchupTick, deltas>>
sendVars   == <<cursor, chainVars, killMissed>>
writerVars == <<queue, stream>>
clientVars == <<clientMap, entityTick, shown, replica, heard, told>>
catchupVars == <<serverVars, sendVars, writerVars, clientVars>>

Present(view) == {id \in NetId : view[id] # Absent}

PublishedFrame == {view \in View : view[Owner] # Absent}

serverTick == Len(frames)

CatchupPayload(entry, t) ==
  [kind |-> "snapshot", sequence |-> entry.sequence, baseline |-> entry.baseline,
   full |-> entry.full, records |-> entry.records, tick |-> t]

KillPayload(k) == [kind |-> "kill", sequence |-> k]

FirstCatchup(view) == NextEntry(NewSession, NoSequence, view, DueIds(view, EmptyView))

\* Both sessions have built the first snapshot; it is on the stream, and the
\* cursor was read together with its frame.
CatchupInit ==
  /\ frames \in {<< view >> : view \in PublishedFrame}
  /\ firstKill = 0 /\ nextKill = 0 /\ cursor = 0
  /\ catchups = BuildFromFrame(NewSession, NoSequence, frames[1], DueIds(frames[1], EmptyView))
  /\ lastCatchup = 0 /\ catchupTick = 1 /\ deltas = 0 /\ killMissed = FALSE
  /\ queue = << >>
  /\ stream = << CatchupPayload(FirstCatchup(frames[1]), 1) >>
  /\ clientMap = EmptyView
  /\ entityTick = [id \in NetId |-> 0]
  /\ shown = 0
  /\ replica = [view |-> EmptyView, known |-> {}, sequence |-> NoSequence]
  /\ heard = << >>
  /\ told = {}
-----------------------------------------------------------------------------
\* record_combat_events: the history keeps the newest KillHistory deaths.
RecordDeaths(n) ==
  /\ nextKill' = nextKill + n
  /\ firstKill' = IF nextKill' - firstKill > KillHistory
                  THEN nextKill' - KillHistory ELSE firstKill

\* A step of the world: somebody may have died, and every third step publishes.
ClockStep(n) ==
  /\ RecordDeaths(n) /\ nextKill' <= LastKill
  /\ \/ n > 0 /\ UNCHANGED frames
     \/ /\ serverTick < LastTick
        /\ \E view \in PublishedFrame : frames' = Append(frames, view)
  /\ UNCHANGED <<sendVars, writerVars, clientVars>>

\* A cursor that waits for an event that is no longer retained.
KillAtCursor == IF cursor >= firstKill /\ cursor < nextKill THEN {cursor} ELSE {}

\* kill_event_for_cursor: the event at the cursor, or the oldest retained one
\* when the cursor has fallen out of the history.
KillForCursor ==
  IF cursor >= firstKill /\ cursor < nextKill THEN {cursor}
  ELSE IF cursor = nextKill \/ firstKill = nextKill THEN {}
  ELSE {firstKill}

\* try_enqueue_reliable: a payload is built only once its place is reserved.
QueueHasPlace == Len(queue) < 1

\* A session that counts a catch-up as sent whether or not there was a place.
EnqueueCatchupAnyway(entry) ==
  /\ queue' = IF QueueHasPlace THEN Append(queue, CatchupPayload(entry, serverTick)) ELSE queue
  /\ lastCatchup' = entry.sequence

EnqueueCatchup(entry) ==
  /\ QueueHasPlace
  /\ queue' = Append(queue, CatchupPayload(entry, serverTick))
  /\ lastCatchup' = entry.sequence

\* After a row of deltas the next catch-up is a full checkpoint.
CatchupAck == IF deltas >= CheckpointAfter THEN NoSequence ELSE lastCatchup

\* The budget of the stream may leave records out, though never the owner's.
SendCatchup ==
  LET frame == frames[serverTick]
  IN \E admitted \in Admissible(frame, BaselineFor(catchups, CatchupAck)) :
       LET entry == NextEntry(catchups, CatchupAck, frame, admitted)
       IN /\ catchups.next <= LastCatchup
          /\ EnqueueCatchup(entry)
          /\ catchups' = BuildFromFrame(catchups, CatchupAck, frame, admitted)
          /\ catchupTick' = serverTick
          /\ deltas' = IF entry.full THEN 0 ELSE deltas + 1

\* A cursor that moves on although the event was not queued.
SendKillOrSkip(k) ==
  /\ queue' = IF QueueHasPlace THEN Append(queue, KillPayload(k)) ELSE queue
  /\ cursor' = k + 1

SendKill(k) ==
  /\ QueueHasPlace
  /\ queue' = Append(queue, KillPayload(k))
  /\ cursor' = k + 1

CooledDown == serverTick - catchupTick >= Cooldown

\* The 50 ms tick beside its datagrams.  A kill event comes first; if it finds no
\* place, or there is none, the tick may go on to a catch-up (when the records of
\* somebody were late, which is left open), for which the writer may have made
\* room in the meantime.
QueueKill ==
  /\ ~killMissed
  /\ \E k \in KillForCursor : SendKill(k)
  /\ UNCHANGED <<serverVars, chainVars, killMissed, stream, clientVars>>

MissKill ==
  /\ ~killMissed /\ KillForCursor # {} /\ ~QueueHasPlace
  /\ killMissed' = TRUE
  /\ UNCHANGED <<serverVars, cursor, chainVars, writerVars, clientVars>>

QueueCatchup ==
  /\ killMissed \/ KillForCursor = {}
  /\ CooledDown /\ SendCatchup
  /\ killMissed' = FALSE
  /\ UNCHANGED <<serverVars, cursor, stream, clientVars>>

LeaveTick ==
  /\ killMissed /\ killMissed' = FALSE
  /\ UNCHANGED <<serverVars, cursor, chainVars, writerVars, clientVars>>

HandlerTick == QueueKill \/ MissKill \/ QueueCatchup \/ LeaveTick

\* The writer takes the payload out of the queue and writes it to the stream.
WriteReliable ==
  /\ queue # << >>
  /\ queue' = Tail(queue)
  /\ stream' = Append(stream, Head(queue))
  /\ UNCHANGED <<serverVars, sendVars, clientVars>>
-----------------------------------------------------------------------------
\* The realtime snapshots a client may apply (RealtimeReplication): of a frame
\* not older than the last one applied, with the records that some of the
\* entities have against an earlier frame, or against none.
FrameAt(t) == IF t = 0 THEN EmptyView ELSE frames[t]

\* handleRealtimePacket: the entities of a snapshot are stamped with its tick,
\* whatever stamp they had.
ReceiveRealtime(t, base, ids, full) ==
  /\ replica.sequence # NoSequence
  /\ t >= shown /\ shown' = t
  /\ ids \subseteq DueIds(frames[t], FrameAt(base))
  /\ full => base = 0
  /\ clientMap' = ApplySnapshotInPlace(clientMap, full, PlanRecords(frames[t], FrameAt(base), ids))
  /\ entityTick' = [id \in NetId |-> IF clientMap'[id] = Absent THEN 0
                                    ELSE IF id \in ids THEN t ELSE entityTick[id]]
  /\ told' = told \cap Present(clientMap')
  /\ UNCHANGED <<serverVars, sendVars, writerVars, replica, heard>>

HeldNewer(id, t) == clientMap[id] # Absent /\ entityTick[id] > t

\* A delta of the stream applies to the replica only if it continues it.
Continues(payload) == payload.full \/ payload.baseline = replica.sequence

ReplicaAfter(payload) == ApplySnapshotInPlace(replica.view, payload.full, payload.records)

\* The entities the replica once knew and has no more, except those that the
\* map holds from a later tick: they stay known, for a later packet to remove.
Omitted(payload) == replica.known \ Present(ReplicaAfter(payload))

\* A merge that forgets whom it could not remove.
KnownButForgotten(payload) == Present(ReplicaAfter(payload))

KnownAfter(payload) ==
  Present(ReplicaAfter(payload)) \cup {id \in Omitted(payload) : HeldNewer(id, payload.tick)}

RemovedBy(payload) ==
  {id \in Omitted(payload) : clientMap[id] # Absent /\ ~HeldNewer(id, payload.tick)}

\* The records that are merged: not of a removal, and not older than the entity.
MergedBy(payload) ==
  {id \in DOMAIN payload.records :
     payload.records[id] # Removed /\ ~HeldNewer(id, payload.tick)}

\* An entity the map does not have is copied whole from the replica, one that it
\* has takes the fields of the record.
MergeView(payload) ==
  [id \in NetId |->
     IF id \in MergedBy(payload)
     THEN IF clientMap[id] = Absent THEN ReplicaAfter(payload)[id]
          ELSE PatchEntity(clientMap[id], payload.records[id])
     ELSE IF id \in RemovedBy(payload) THEN Absent ELSE clientMap[id]]

MergeTicks(payload) ==
  [id \in NetId |-> IF id \in MergedBy(payload) THEN payload.tick
                    ELSE IF id \in RemovedBy(payload) THEN 0 ELSE entityTick[id]]

MergeReliable(payload) ==
  /\ replica' = [view |-> ReplicaAfter(payload), known |-> KnownAfter(payload),
                 sequence |-> payload.sequence]
  /\ clientMap' = MergeView(payload)
  /\ entityTick' = MergeTicks(payload)
  /\ told' = (told \cup MergedBy(payload)) \cap Present(clientMap')
  /\ UNCHANGED heard

HearKill(payload) ==
  /\ heard' = Append(heard, payload.sequence)
  /\ UNCHANGED <<clientMap, entityTick, replica, told>>

\* handleReliablePacket: a delta that does not continue the replica is an error
\* and changes nothing.
ReceiveReliable ==
  /\ stream # << >>
  /\ stream' = Tail(stream)
  /\ IF Head(stream).kind = "kill" THEN HearKill(Head(stream))
     ELSE IF Continues(Head(stream)) THEN MergeReliable(Head(stream))
     ELSE UNCHANGED <<clientMap, entityTick, replica, heard, told>>
  /\ UNCHANGED <<serverVars, sendVars, queue, shown>>

CatchupNext ==
  \/ \E n \in 0 .. 1 : ClockStep(n)
  \/ HandlerTick
  \/ WriteReliable
  \/ ReceiveReliable
  \/ \E t \in 1 .. serverTick, ids \in SUBSET NetId, full \in BOOLEAN :
       \E base \in 0 .. t - 1 : ReceiveRealtime(t, base, ids, full)

\* The handler's interval and the writer run as long as the connection does, and
\* the stream delivers what was written.
CatchupSpec ==
  /\ CatchupInit /\ [][CatchupNext]_catchupVars
  /\ WF_catchupVars(QueueKill) /\ WF_catchupVars(LeaveTick)
  /\ WF_catchupVars(WriteReliable)
  /\ WF_catchupVars(ReceiveReliable)
-----------------------------------------------------------------------------
InFlight == stream \o queue

HeldReplica == [view |-> replica.view, sequence |-> replica.sequence]

WithPayload(held, payload) ==
  IF payload.kind = "kill" THEN held
  ELSE [view |-> ApplySnapshotInPlace(held.view, payload.full, payload.records),
        sequence |-> payload.sequence]

\* The replica of the client, and what it is after each payload under way.
ReplicaRow ==
  LET after[k \in 0 .. Len(InFlight)] ==
        IF k = 0 THEN HeldReplica ELSE WithPayload(after[k - 1], InFlight[k])
  IN after

Following(row) ==
  /\ \A k \in 1 .. Len(InFlight) :
       InFlight[k].kind = "snapshot" =>
         InFlight[k].full \/ InFlight[k].baseline = row[k - 1].sequence
  /\ row[Len(InFlight)] =
       [view |-> BaselineFor(catchups, lastCatchup), sequence |-> lastCatchup]

\* The chain of catch-ups never breaks: however full the queue was and whatever
\* the budget left out, every delta under way continues the client's replica,
\* which ends where the server builds the next one (try_enqueue_reliable).
ReplicaFollowsSession == Following(ReplicaRow)

KillsUnderWay == {i \in 1 .. Len(InFlight) : InFlight[i].kind = "kill"}

\* A client is told each death at most once and in order, and of those since it
\* connected it misses none but what the bounded history had already evicted
\* (kill_event_for_cursor).
KillsInOrder ==
  /\ \A i, j \in 1 .. Len(heard) : i < j => heard[i] < heard[j]
  /\ \A i, j \in KillsUnderWay : i < j => InFlight[i].sequence < InFlight[j].sequence
  /\ \A i \in 1 .. Len(heard), j \in KillsUnderWay : heard[i] < InFlight[j].sequence
  /\ \A i \in 1 .. Len(heard) : heard[i] < cursor
  /\ \A i \in KillsUnderWay : InFlight[i].sequence < cursor
  /\ \A k \in 0 .. cursor - 1 :
       \/ k < firstKill
       \/ \E i \in 1 .. Len(heard) : heard[i] = k
       \/ \E i \in KillsUnderWay : InFlight[i].sequence = k

\* Every death is told or evicted, although catch-ups use the same place.
KillsAreTold ==
  \A k \in 0 .. LastKill - 1 :
    (k >= cursor /\ k < nextKill) ~> (k < firstKill \/ \E i \in 1 .. Len(heard) : heard[i] = k)

ReadsCatchup ==
  stream # << >> /\ stream' = Tail(stream) /\ Head(stream).kind = "snapshot"

\* An entity that a catch-up put into the map, maybe after a newer snapshot had
\* removed it, is gone with the first catch-up that does not have it, unless a
\* realtime snapshot has shown it since (mergeReliableSnapshotPacketInPlace).
OmissionReconciled ==
  [][ReadsCatchup =>
       \A id \in told \cap Present(clientMap') :
         replica'.view[id] = Absent => entityTick'[id] > Head(stream).tick]_catchupVars
=============================================================================

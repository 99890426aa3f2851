-------------------------- MODULE SnapshotSession --------------------------
(***************************************************************************)
(* One SnapshotSession of the server: the numbers it allocates, the        *)
(* bounded history of what it sent, and the acknowledged state, which is   *)
(* advanced in place.  A connection owns two of them, so a session is a    *)
(* value and its methods are operators on it.                              *)
(***************************************************************************)
EXTENDS Sequences, SequenceNumbers, SnapshotRecords

CONSTANT HistoryLimit    \* retained snapshots, 64 in the program

ASSUME HistoryLimitAssumption ==
  HistoryLimit \in Nat /\ HistoryLimit >= 1 /\ HistoryLimit < NoSequence

HistoryEntry == [sequence : SequenceNumber, baseline : AckNumber,
                 full : BOOLEAN, records : Records]

Session == [next : SequenceNumber, history : Seq(HistoryEntry),
            acked : AckNumber, state : View]

NewSession == [next |-> 0, history |-> << >>, acked |-> NoSequence,
               state |-> EmptyView]

\* The position of a number in the history by its distance from the oldest
\* entry, confirmed by comparing the entry; 0 when it is not retained.
HistoryIndex(history, s) ==
  IF /\ s # NoSequence
     /\ history # << >>
     /\ SequenceOffset(history[1].sequence, s) < Len(history)
     /\ history[SequenceOffset(history[1].sequence, s) + 1].sequence = s
  THEN SequenceOffset(history[1].sequence, s) + 1
  ELSE 0

\* The history holds consecutive numbers, up to the last one allocated.
HistoryContiguous(session) ==
  \A i \in 1 .. Len(session.history) :
    session.history[i].sequence = SequenceBack(session.next, Len(session.history) + 1 - i)

\* A session that trusts every retained entry, whatever it was built on.
ChainsAlways(session, entry) == TRUE

\* An entry can become the acknowledged state if it is full or was built on
\* the state that is acknowledged now.
Chains(session, entry) == entry.full \/ session.acked = entry.baseline

CanAdvance(session, ack) ==
  /\ ack # NoSequence
  /\ ack # session.acked
  /\ HistoryIndex(session.history, ack) # 0
  /\ Chains(session, session.history[HistoryIndex(session.history, ack)])

HasBaseline(session, ack) ==
  ack # NoSequence /\ (ack = session.acked \/ CanAdvance(session, ack))

\* advance_acknowledged_state: drop what is older, take the entry out and
\* apply its records to the acknowledged state.
AdvanceAcknowledged(session, ack) ==
  LET index == HistoryIndex(session.history, ack)
      entry == session.history[index]
  IN IF CanAdvance(session, ack)
     THEN [session EXCEPT
             !.history = SubSeq(@, index + 1, Len(@)),
             !.acked = entry.sequence,
             !.state = ApplyRecords(IF entry.full THEN EmptyView ELSE @,
                                    entry.records)]
     ELSE session

\* The state the next snapshot is a delta against, empty for a full one.
BaselineFor(session, ack) ==
  IF HasBaseline(session, ack)
  THEN AdvanceAcknowledged(session, ack).state
  ELSE EmptyView

KeepAll(history) == history

EvictOldest(history) ==
  IF Len(history) > HistoryLimit THEN Tail(history) ELSE history

\* The history entry of the snapshot that the session builds for ack.
NextEntry(session, ack, frame, admitted) ==
  [sequence |-> session.next,
   baseline |-> IF HasBaseline(session, ack) THEN ack ELSE NoSequence,
   full     |-> ~HasBaseline(session, ack),
   records  |-> PlanRecords(frame, BaselineFor(session, ack), admitted)]

\* build_from_frame: the session after it has built one snapshot.
BuildFromFrame(session, ack, frame, admitted) ==
  LET advanced == AdvanceAcknowledged(session, ack)
  IN [advanced EXCEPT
        !.next = SequenceAfter(@),
        !.history = EvictOldest(Append(@, NextEntry(session, ack, frame, admitted)))]
=============================================================================

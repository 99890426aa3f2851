----------------------------- MODULE Prediction -----------------------------
(***************************************************************************)
(* The prediction of the own fighter: the inputs that the client has sent  *)
(* and applies at once to what it shows, the acknowledgements and the      *)
(* snapshots that come back over channels which lose, repeat and reorder,  *)
(* the gate that holds an acknowledgement until the own fighter of its     *)
(* tick has come, and the reconciliation that starts again from there.     *)
(* Inputs are numbered from 1, and a state of the own fighter is the       *)
(* number of the newest input that the server had processed for it.        *)
(***************************************************************************)
EXTENDS Integers, FiniteSets

CONSTANTS
  LastSent,      \* bound: the inputs that are sent
  LastPublish,   \* bound: the snapshots that are published
  MaxHistory     \* maxEntries of the prediction history, 64 in the program

ASSUME PredictionAssumption ==
  LastSent \in Nat /\ LastPublish \in Nat /\ MaxHistory \in Nat \ {0}

VARIABLES
  sentInputs,  \* the number of inputs sent
  authority,   \* external: the server's tick, and the newest input it has processed
  network,     \* the snapshots and acknowledgements ever sent
  predictor    \* the client

predictionVars == <<sentInputs, authority, network, predictor>>

\* A state of the own fighter; of a snapshot without a record for it, and of a client
\* that has none, the input is NoState.
NoState == 0 - 1

OwnStates == [tick : 0 .. LastPublish, input : NoState .. LastSent]

Acks == [tick : 0 .. LastPublish, input : 0 .. LastSent]

NoOwn == [tick |-> 0, input |-> NoState]
NoAck == [tick |-> 0, input |-> 0]

PredictionInit ==
  /\ sentInputs = 0
  /\ authority = [tick |-> 0, input |-> 0]
  /\ network = [snapshots |-> {}, acks |-> {}]
  /\ predictor =
       [own     |-> NoOwn,    \* state.get(playerNetId)
        newest  |-> 0,        \* latestSnapshotSequence
        known   |-> FALSE,    \* playerNetId is known
        pending |-> NoAck,    \* pending and lastAppliedClientTick of the gate
        applied |-> 0,
        history |-> {},       \* predictionHistory, whose order is that of the numbers
        shown   |-> FALSE,    \* local.initialized
        base    |-> 0,        \* local: the state it started from,
        on      |-> {},       \*   and the inputs applied to it since
        since   |-> 0]        \* history: the inputs that were no longer to be replayed

Oldest(history) == CHOOSE n \in history : \A m \in history : n <= m

\* push of the prediction history: when it is full the oldest entry goes.
Push(history, n) ==
  LET longer == history \cup {n}
  IN IF Cardinality(longer) > MaxHistory THEN longer \ {Oldest(longer)} ELSE longer

\* discardThrough.
DiscardThrough(history, n) == {m \in history : m > n}

\* simulatePrediction and sendInput: the input is remembered, sent, and shown.
Predict ==
  /\ sentInputs < LastSent
  /\ sentInputs' = sentInputs + 1
  /\ predictor' = [predictor EXCEPT !.history = Push(@, sentInputs + 1),
                                    !.on = IF predictor.shown THEN @ \cup {sentInputs + 1} ELSE @]
  /\ UNCHANGED <<authority, network>>

\* The server publishes the next tick, in which it may have processed more inputs; a
\* delta may leave the own fighter out.
Publish(n, carried) ==
  /\ authority.tick < LastPublish
  /\ n \in authority.input .. sentInputs
  /\ authority' = [tick |-> authority.tick + 1, input |-> n]
  /\ network' =
       [snapshots |-> network.snapshots
          \cup {[tick |-> authority'.tick, input |-> IF carried THEN n ELSE NoState]},
        acks |-> network.acks
          \cup IF n > authority.input THEN {[tick |-> authority'.tick, input |-> n]} ELSE {}]
  /\ UNCHANGED <<sentInputs, predictor>>
-----------------------------------------------------------------------------
\* offer: at most the newest acknowledgement waits.
Offer(c, ack) ==
  IF ack.input <= c.applied \/ ack.input <= c.pending.input THEN c
  ELSE [c EXCEPT !.pending = ack]

\* reconcilePrediction: from the own fighter of the snapshot, the inputs that are left
\* are applied again.
Reconcile(c, n) ==
  LET left == DiscardThrough(c.history, n)
  IN [c EXCEPT !.history = left, !.shown = TRUE, !.base = c.own.input,
               !.on = left,
               !.since = IF sentInputs > MaxHistory THEN sentInputs - MaxHistory ELSE 0]

\* Whether a state of the own fighter may answer an acknowledgement; a gate without it.
AnyAnchor(own, ack) == own.input # NoState
Anchors(own, ack) == own.input # NoState /\ own.tick >= ack.tick

\* flush.
Flush(c) ==
  IF ~c.known \/ c.pending = NoAck \/ ~Anchors(c.own, c.pending) THEN c
  ELSE Reconcile([c EXCEPT !.pending = NoAck, !.applied = c.pending.input], c.pending.input)

\* onSnapshot: the first state of the own fighter is shown as it is.
FirstShown(c) ==
  IF c.shown \/ ~c.known \/ c.own.input = NoState THEN c
  ELSE [c EXCEPT !.shown = TRUE, !.base = c.own.input, !.since = sentInputs]

Carried(c, snapshot) == IF snapshot.input = NoState THEN c ELSE [c EXCEPT !.own = snapshot]

\* handleRealtimePacket: a snapshot that is not older than the last, or an ack.
ReceiveOwnSnapshot(snapshot) ==
  /\ snapshot.tick > predictor.newest
  /\ predictor' =
       FirstShown(Flush(Carried([predictor EXCEPT !.newest = snapshot.tick], snapshot)))
  /\ UNCHANGED <<sentInputs, authority, network>>

ReceiveAck(ack) ==
  /\ predictor' = Flush([Offer(predictor, ack) EXCEPT !.known = TRUE])
  /\ UNCHANGED <<sentInputs, authority, network>>

\* handleReliablePacket: the own fighter may come the other way, and newer.
ReceiveReliableOwn(snapshot) ==
  /\ snapshot.input # NoState
  /\ snapshot.tick > predictor.own.tick
  /\ predictor' = Flush(Carried(predictor, snapshot))
  /\ UNCHANGED <<sentInputs, authority, network>>

PredictionNext ==
  \/ Predict
  \/ \E n \in 0 .. LastSent, carried \in BOOLEAN : Publish(n, carried)
  \/ \E snapshot \in network.snapshots :
       ReceiveOwnSnapshot(snapshot) \/ ReceiveReliableOwn(snapshot)
  \/ \E ack \in network.acks : ReceiveAck(ack)

PredictionSpec == PredictionInit /\ [][PredictionNext]_predictionVars
-----------------------------------------------------------------------------
\* No input is lost from what the player sees: after a reconciliation each is in the
\* state it started from or was applied to it, but for those that the history had no
\* room for; so an acknowledgement never discards an input that the own fighter on the
\* client does not reflect yet, though acks overtake snapshots, snapshots are lost, and
\* an older one replaces what the reliable channel brought (flush, flushPendingAck,
\* "never loses prediction inputs before a fresh position anchor").
NoInputForgotten ==
  predictor.shown =>
    \A n \in 1 .. sentInputs :
      n <= predictor.base \/ n \in predictor.on \/ n <= predictor.since
=============================================================================

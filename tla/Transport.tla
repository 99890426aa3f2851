----------------------------- MODULE Transport -----------------------------
(***************************************************************************)
(* The browser's connection: WebTransport, or the WebSocket that it falls  *)
(* back to.  Realtime payloads are not queued: the newest one replaces     *)
(* what still waits for the writer.  Reliable frames come as a stream of   *)
(* bytes, cut into chunks anywhere.  The page sends from its frames and    *)
(* timers; what a promise or a microtask does is done before the next.     *)
(***************************************************************************)
EXTENDS Integers, Sequences, SequencesExt

CONSTANTS
  LastPayload,  \* bound: the realtime payloads
  Frames        \* the reliable frames that the server sends, as sequences of bytes

ASSUME TransportAssumption ==
  /\ LastPayload \in Nat
  /\ Frames \in Seq(Seq(0 .. 255))
  /\ \A i \in 1 .. Len(Frames) : Len(Frames[i]) <= 65535

VARIABLES
  kind,       \* the transport that connectGameTransport has chosen
  sender,     \* the realtime sender
  written,    \* history: the payloads given to the network
  congested,  \* external: the writer is not ready, or more than 64 KiB wait in the socket
  stream,     \* external: the reliable bytes still to come
  unframed,   \* pumpLengthPrefixedReader
  delivered   \* history: the frames given to onReliable

transportVars == <<kind, sender, written, congested, stream, unframed, delivered>>

Nothing == 0

\* latestRealtime, the await that the flush is in, closed; as history, the newest payload.
Idle == [latest |-> Nothing, flush |-> "none", closed |-> FALSE, newest |-> Nothing]

frameReliable(frame) == <<Len(frame) % 256, (Len(frame) \div 256) % 256>> \o frame

TransportInit ==
  /\ kind = "none"
  /\ sender = Idle /\ written = << >> /\ congested \in BOOLEAN
  /\ stream = FlattenSeq([i \in 1 .. Len(Frames) |-> frameReliable(Frames[i])])
  /\ unframed = << >> /\ delivered = << >>

\* connectGameTransport: a WebTransport that does not come up falls back.
Connect(transport) ==
  /\ kind = "none"
  /\ kind' = transport
  /\ UNCHANGED <<sender, written, congested, stream, unframed, delivered>>

UnchangedReceiver == UNCHANGED <<kind, congested, stream, unframed, delivered>>
-----------------------------------------------------------------------------
\* #queueRealtime of WebTransport: the flush runs to its first await.
Queue(s, p) ==
  [s EXCEPT !.latest = p, !.flush = IF @ = "none" THEN "ready" ELSE @]

SendDatagram ==
  /\ kind = "webtransport" /\ sender.newest < LastPayload
  /\ LET p == sender.newest + 1
     IN sender' = IF sender.closed THEN [sender EXCEPT !.newest = p]
                  ELSE [Queue(sender, p) EXCEPT !.newest = p]
  /\ UNCHANGED written /\ UnchangedReceiver

\* A flush that goes on after the wait without another look at closed.
GoesOnUnchecked(s) == TRUE

\* Whether the flush goes on after the wait.
GoesOn(s) == ~s.closed

\* #flushRealtime, after datagramWriter.ready.
WriterReady ==
  /\ sender.flush = "ready" /\ ~congested
  /\ IF GoesOn(sender)
     THEN /\ sender' = [sender EXCEPT !.flush = "write", !.latest = Nothing]
          /\ written' = Append(written, sender.latest)
     ELSE /\ sender' = [sender EXCEPT !.flush = "none"]
          /\ UNCHANGED written
  /\ UnchangedReceiver

\* After the write: the next payload if one came, else the flush is over.
WriteDone ==
  /\ sender.flush = "write"
  /\ LET again == ~sender.closed /\ sender.latest # Nothing
     IN sender' = [sender EXCEPT !.flush = IF again THEN "ready" ELSE "none"]
  /\ UNCHANGED written /\ UnchangedReceiver

\* The wait or the write is rejected: the flush is over, and what waits waits for the
\* next payload.
WriteFails ==
  /\ sender.flush # "none"
  /\ sender' = [sender EXCEPT !.flush = "none"]
  /\ UNCHANGED written /\ UnchangedReceiver

\* #queueRealtime of the WebSocket, and its microtask.
SendFrame ==
  /\ kind = "websocket" /\ sender.newest < LastPayload
  /\ LET p == sender.newest + 1
         sends == ~sender.closed /\ ~congested
     IN /\ sender' = [sender EXCEPT !.newest = p, !.latest = IF sends THEN Nothing ELSE p]
        /\ written' = IF sends THEN Append(written, p) ELSE written
  /\ UnchangedReceiver

Close ==
  /\ kind # "none"
  /\ sender' = [sender EXCEPT !.closed = TRUE,
                              !.latest = IF kind = "webtransport" THEN Nothing ELSE @]
  /\ UNCHANGED written /\ UnchangedReceiver

Congestion ==
  /\ congested' = ~congested
  /\ UNCHANGED <<kind, sender, written, stream, unframed, delivered>>
-----------------------------------------------------------------------------
\* The length that the first two bytes name, when the frame is there.
Framed(bytes) == Len(bytes) >= 2 /\ Len(bytes) >= 2 + bytes[1] + 256 * bytes[2]

\* The loop that takes one frame from what a chunk completes.
UnpackOne(bytes) ==
  IF ~Framed(bytes) THEN [frames |-> << >>, rest |-> bytes]
  ELSE LET n == bytes[1] + 256 * bytes[2]
       IN [frames |-> <<SubSeq(bytes, 3, 2 + n)>>, rest |-> SubSeq(bytes, 3 + n, Len(bytes))]

\* A reader that takes one frame of each chunk.
UnpackFirst(bytes) == UnpackOne(bytes)

\* The loop of pumpLengthPrefixedReader: every frame that is there.
Unpack(bytes) ==
  LET got[i \in 0 .. Len(bytes)] ==
        IF i = 0 THEN [frames |-> << >>, rest |-> bytes]
        ELSE LET pass == got[i - 1]
                 next == UnpackOne(pass.rest)
             IN [frames |-> pass.frames \o next.frames, rest |-> next.rest]
  IN got[Len(bytes)]

\* A chunk of the reliable stream.
Receive(n) ==
  /\ kind = "webtransport" /\ n \in 1 .. Len(stream)
  /\ LET got == Unpack(unframed \o SubSeq(stream, 1, n))
     IN /\ unframed' = got.rest
        /\ delivered' = delivered \o got.frames
  /\ stream' = SubSeq(stream, n + 1, Len(stream))
  /\ UNCHANGED <<kind, sender, written, congested>>

TransportNext ==
  \/ \E transport \in {"webtransport", "websocket"} : Connect(transport)
  \/ SendDatagram \/ WriterReady \/ WriteDone \/ WriteFails
  \/ SendFrame
  \/ Close
  \/ Congestion
  \/ \E n \in 1 .. Len(stream) : Receive(n)

TransportSpec == TransportInit /\ [][TransportNext]_transportVars
-----------------------------------------------------------------------------
\* What is written is the newest payload there is: an older one never goes out while a
\* newer one waits, and nothing goes out once the connection is closed, though the
\* flush waits for the writer in between (#flushRealtime).
FreshestOrNothing ==
  [][written' # written =>
       ~sender.closed /\ Last(written') = sender'.newest]_transportVars

\* However the stream is cut, the frames come out whole and in order, and none waits
\* for the bytes of the next (pumpLengthPrefixedReader, frameReliable).
FramesArriveWhole ==
  /\ IsPrefix(delivered, Frames)
  /\ ~Framed(unframed)
  /\ stream = << >> => delivered = Frames
\* Both halves of a connection: nothing stale goes out on the datagrams, and nothing is
\* torn or held back on the stream (WebTransportConnection, WebSocketConnection).
TransportDelivers == FreshestOrNothing /\ []FramesArriveWhole
=============================================================================

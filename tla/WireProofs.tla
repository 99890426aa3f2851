----------------------------- MODULE WireProofs -----------------------------
(***************************************************************************)
(* What goes out arrives as it was meant: the payloads of the transport,   *)
(* however the streams are cut, and the records of a snapshot, for every   *)
(* record there can be, in every encoding.                                 *)
(***************************************************************************)
EXTENDS Transport, SnapshotWire, FiniteSetTheorems, SequenceTheorems, WellFoundedInduction,
        TLAPS

\* Any set of numbers that is not empty has a least one.
LEMMA LeastOf ==
  ASSUME NEW h \in SUBSET Nat, h # {}
  PROVE  \E n \in h : \A m \in h : n <= m
<1>1. PICK n \in h : \A m \in h : <<m, n>> \notin OpToRel(<, Nat)
  BY WFMin, NatLessThanWellFounded, Zenon
<1>2. \A m \in h : ~(m < n)
  BY <1>1, Zenon DEF OpToRel
<1> QED
  BY <1>2

-----------------------------------------------------------------------------
(***************************************************************************)
(* Nothing stale goes out on the datagrams, however many payloads there    *)
(* are and whatever becomes of the flushes.                                *)
(***************************************************************************)

SenderTypeOK ==
  /\ sender = [x \in {"latest", "flush", "closed", "newest"} |-> sender[x]]
  /\ sender.newest \in Nat /\ sender.closed \in BOOLEAN

\* What waits is the newest payload, and so is what a flush that still goes on will write;
\* the WebSocket has no flush.
NewestWaits ==
  /\ ~sender.closed => sender.latest = Nothing \/ sender.latest = sender.newest
  /\ sender.flush = "ready" /\ ~sender.closed => sender.latest = sender.newest
  /\ kind = "websocket" \/ kind = "none" => sender.flush = "none"

TransportInv == SenderTypeOK /\ NewestWaits /\ written \in Seq(Nat)

\* What is written last is the last that was written.
LEMMA LastOfLonger ==
  ASSUME NEW p \in Nat, NEW w \in Seq(Nat)
  PROVE  Last(Append(w, p)) = p /\ Append(w, p) \in Seq(Nat)
BY DEF Last

\* What the sender does, and what it writes.
LEMMA SenderStep ==
  ASSUME TransportInv,
         SendDatagram \/ WriterReady \/ WriteDone \/ WriteFails \/ SendFrame \/ Close
  PROVE  /\ TransportInv'
         /\ written' # written => ~sender.closed /\ Last(written') = sender'.newest
<1> USE DEF TransportInv, UnchangedReceiver
<1> DEFINE p == sender.newest + 1
<1>1. CASE SendDatagram
  <2>1. UNCHANGED <<kind, written>> /\ kind = "webtransport"
    BY <1>1 DEF SendDatagram
  <2>2. CASE sender.closed
    <3>1. sender' = [sender EXCEPT !.newest = p]
      BY <1>1, <2>2 DEF SendDatagram
    <3>2. /\ sender' = [x \in {"latest", "flush", "closed", "newest"} |-> sender'[x]]
          /\ sender'.newest = p /\ sender'.closed /\ sender'.closed \in BOOLEAN
      BY <2>2, <3>1 DEF SenderTypeOK
    <3> QED
      BY <2>1, <3>2 DEF SenderTypeOK, NewestWaits
  <2>3. CASE ~sender.closed
    <3>1. sender' = [Queue(sender, p) EXCEPT !.newest = p]
      BY <1>1, <2>3 DEF SendDatagram
    <3>2. /\ sender' = [x \in {"latest", "flush", "closed", "newest"} |-> sender'[x]]
          /\ sender'.newest = p /\ sender'.latest = p /\ sender'.closed = sender.closed
      BY <3>1 DEF SenderTypeOK, Queue
    <3> HIDE DEF p
    <3> QED
      BY <2>1, <3>2 DEF SenderTypeOK, NewestWaits, p
  <2> QED
    BY <2>2, <2>3
<1>2. CASE WriterReady
  <2>1. UNCHANGED kind /\ sender.flush = "ready"
    BY <1>2 DEF WriterReady
  <2>2. CASE ~sender.closed
    <3>1. /\ sender' = [sender EXCEPT !.flush = "write", !.latest = Nothing]
          /\ written' = Append(written, sender.latest)
      BY <1>2, <2>2 DEF WriterReady, GoesOn
    <3>2. /\ sender' = [x \in {"latest", "flush", "closed", "newest"} |-> sender'[x]]
          /\ sender'.newest = sender.newest /\ sender'.latest = Nothing
          /\ sender'.closed = sender.closed /\ sender'.flush = "write"
      BY <3>1 DEF SenderTypeOK
    <3>3. sender.latest = sender.newest /\ sender.newest \in Nat
      BY <2>1, <2>2 DEF NewestWaits, SenderTypeOK
    <3>4. Last(written') = sender'.newest /\ written' \in Seq(Nat)
      BY <3>1, <3>2, <3>3, LastOfLonger
    <3> QED
      BY <2>1, <2>2, <3>2, <3>4 DEF SenderTypeOK, NewestWaits
  <2>3. CASE sender.closed
    <3>1. sender' = [sender EXCEPT !.flush = "none"] /\ UNCHANGED written
      BY <1>2, <2>3 DEF WriterReady, GoesOn
    <3> QED
      BY <2>1, <2>3, <3>1 DEF SenderTypeOK, NewestWaits
  <2> QED
    BY <2>2, <2>3
<1>3. CASE WriteDone
  BY <1>3 DEF WriteDone, SenderTypeOK, NewestWaits
<1>4. CASE WriteFails
  BY <1>4 DEF WriteFails, SenderTypeOK, NewestWaits
<1>5. CASE SendFrame
  <2> DEFINE sends == ~sender.closed /\ ~congested
  <2>1. /\ UNCHANGED kind /\ kind = "websocket"
        /\ sender' = [sender EXCEPT !.newest = p, !.latest = IF sends THEN Nothing ELSE p]
        /\ written' = IF sends THEN Append(written, p) ELSE written
    BY <1>5 DEF SendFrame
  <2>2. /\ sender' = [x \in {"latest", "flush", "closed", "newest"} |-> sender'[x]]
        /\ sender'.newest = p
        /\ sender'.latest = Nothing \/ sender'.latest = p
        /\ sender'.closed = sender.closed /\ sender'.flush = sender.flush
    BY <2>1 DEF SenderTypeOK
  <2>3. p \in Nat
    BY DEF SenderTypeOK
  <2> HIDE DEF p
  <2>4. sends => Last(written') = p /\ written' \in Seq(Nat)
    BY <2>1, <2>3, LastOfLonger
  <2> QED
    BY <2>1, <2>2, <2>3, <2>4 DEF SenderTypeOK, NewestWaits
<1>6. CASE Close
  BY <1>6 DEF Close, SenderTypeOK, NewestWaits
<1> QED
  BY <1>1, <1>2, <1>3, <1>4, <1>5, <1>6

\* What goes out is the newest payload there is, and nothing goes out once the connection
\* is closed, however the flush waits for the writer and fails (#flushRealtime).
THEOREM TheFreshestGoesOut == TransportSpec => FreshestOrNothing
<1>1. TransportInit => TransportInv
  <2> SUFFICES ASSUME TransportInit
               PROVE  TransportInv
    OBVIOUS
  <2>1. /\ sender = [latest |-> Nothing, flush |-> "none", closed |-> FALSE, newest |-> Nothing]
        /\ written = << >>
    BY DEF TransportInit, Idle
  <2>2. SenderTypeOK /\ NewestWaits
    BY <2>1 DEF SenderTypeOK, NewestWaits, Nothing
  <2> QED
    BY <2>1, <2>2 DEF TransportInv
<1>2. TransportInv /\ [TransportNext]_transportVars
        => /\ TransportInv'
           /\ written' # written => ~sender.closed /\ Last(written') = sender'.newest
  <2> SUFFICES ASSUME TransportInv, [TransportNext]_transportVars
               PROVE  /\ TransportInv'
                      /\ written' # written =>
                           ~sender.closed /\ Last(written') = sender'.newest
    OBVIOUS
  <2>1. CASE UNCHANGED <<sender, written, kind>>
    BY <2>1 DEF TransportInv, SenderTypeOK, NewestWaits
  <2>2. CASE UNCHANGED transportVars
    BY <2>1, <2>2 DEF transportVars
  <2>3. ASSUME NEW transport \in {"webtransport", "websocket"}, Connect(transport)
        PROVE  TransportInv' /\ UNCHANGED written
    BY <2>3 DEF Connect, TransportInv, SenderTypeOK, NewestWaits
  <2>4. CASE Congestion
    BY <2>1, <2>4 DEF Congestion
  <2>5. ASSUME NEW n \in 1 .. Len(stream), Receive(n)
        PROVE  UNCHANGED <<sender, written, kind>>
    BY <2>5 DEF Receive
  <2> QED
    BY <2>1, <2>2, <2>3, <2>4, <2>5, SenderStep DEF TransportNext
<1>3. TransportInv /\ [TransportNext]_transportVars
        => [written' # written =>
              ~sender.closed /\ Last(written') = sender'.newest]_transportVars
  BY <1>2
<1> QED
  BY <1>1, <1>2, <1>3, PTL DEF TransportSpec, FreshestOrNothing
-----------------------------------------------------------------------------
(***************************************************************************)
(* However the reliable stream is cut, its frames arrive whole and in      *)
(* order.  The bytes of the stream are laid out frame by frame, from Start *)
(* on, and whatever waits or is still to come is read at its place there.  *)
(***************************************************************************)

Payload == Seq(0 .. 255)

\* The frames with their lengths.
Blocks == [i \in 1 .. Len(Frames) |-> frameReliable(Frames[i])]

AllBytes == FlattenSeq(Blocks)

\* The first n of them, one after the other.
IsFlat(flat, n) ==
  flat = [i \in 1 .. n |-> IF i = 1 THEN Blocks[i] ELSE flat[i - 1] \o Blocks[i]]

\* Where each of the first n ends, and the next one starts.
IsLayout(bytes, start, n) ==
  /\ bytes \in Seq(0 .. 255) /\ start \in [0 .. n -> Nat]
  /\ start[0] = 0 /\ start[n] = Len(bytes)
  /\ \A k \in 1 .. n :
       /\ start[k] = start[k - 1] + Len(Blocks[k]) /\ start[k] <= Len(bytes)
       /\ \A j \in 1 .. Len(Blocks[k]) : bytes[start[k - 1] + j] = Blocks[k][j]

Start == CHOOSE start : IsLayout(AllBytes, start, Len(Frames))

\* Bytes as they stand in the stream after p others.
BytesFrom(p, bytes) ==
  /\ bytes \in Seq(0 .. 255) /\ p + Len(bytes) <= Len(AllBytes)
  /\ \A j \in 1 .. Len(bytes) : bytes[j] = AllBytes[p + j]

\* What was unpacked from bytes that begin with frame k + 1.
Unpacked(k, bytes, got) ==
  /\ got = [frames |-> got.frames, rest |-> got.rest]
  /\ got.frames \in Seq(Payload) /\ k + Len(got.frames) <= Len(Frames)
  /\ \A i \in 1 .. Len(got.frames) : got.frames[i] = Frames[k + i]
  /\ BytesFrom(Start[k + Len(got.frames)], got.rest)
  /\ Start[k + Len(got.frames)] + Len(got.rest) = Start[k] + Len(bytes)

\* The loop, round by round.
IsUnpacking(bytes, got, n) ==
  got = [i \in 0 .. n |->
           IF i = 0 THEN [frames |-> << >>, rest |-> bytes]
           ELSE LET next == UnpackOne(got[i - 1].rest)
                IN [frames |-> got[i - 1].frames \o next.frames, rest |-> next.rest]]

\* The frames that were delivered, what waits and what is still to come are the stream.
StreamInv ==
  LET next == Start[Len(delivered)]
  IN /\ delivered \in Seq(Payload) /\ Len(delivered) <= Len(Frames)
     /\ \A i \in 1 .. Len(delivered) : delivered[i] = Frames[i]
     /\ BytesFrom(next, unframed) /\ BytesFrom(next + Len(unframed), stream)
     /\ next + Len(unframed) + Len(stream) = Len(AllBytes)
     /\ ~Framed(unframed)

\* A frame begins with the two bytes of its length (frameReliable).
LEMMA BlockHasLength ==
  ASSUME NEW k \in 1 .. Len(Frames)
  PROVE  /\ Frames[k] \in Payload /\ Len(Frames[k]) \in Nat /\ Len(Frames) \in Nat
         /\ Blocks[k] \in Payload /\ Len(Blocks[k]) = 2 + Len(Frames[k])
         /\ Blocks[k][1] + 256 * Blocks[k][2] = Len(Frames[k])
         /\ \A j \in 1 .. Len(Frames[k]) : Blocks[k][2 + j] = Frames[k][j]
<1> DEFINE frame == Frames[k]
           n == Len(frame)
           head == <<n % 256, (n \div 256) % 256>>
<1>1. frame \in Seq(0 .. 255) /\ n \in Nat /\ n <= 65535 /\ Len(Frames) \in Nat
  BY TransportAssumption
<1>2. Blocks[k] = head \o frame
  BY DEF Blocks, frameReliable
<1> HIDE DEF frame, n
<1>3. /\ n % 256 \in 0 .. 255 /\ (n \div 256) % 256 \in 0 .. 255
      /\ (n % 256) + 256 * ((n \div 256) % 256) = n
  <2>1. n % 256 \in 0 .. 255
    BY <1>1
  <2>2. n \div 256 \in Int /\ n = 256 * (n \div 256) + (n % 256)
    BY <1>1
  <2>3. n \div 256 \in 0 .. 255
    BY <1>1, <2>1, <2>2
  <2> DEFINE d == n \div 256
             m == n % 256
  <2> HIDE DEF d, m
  <2>4. d % 256 = d
    <3>1. d \in 0 .. 255
      BY <2>3 DEF d
    <3> QED
      BY <3>1
  <2>5. m \in 0 .. 255 /\ d % 256 \in 0 .. 255 /\ m + 256 * (d % 256) = n
    BY <1>1, <2>1, <2>2, <2>3, <2>4 DEF d, m
  <2> QED
    BY <2>5 DEF d, m
<1>4. head \in Seq(0 .. 255) /\ Len(head) = 2 /\ head[1] + 256 * head[2] = n
  BY <1>3
<1> HIDE DEF head
<1>5. /\ head \o frame \in Seq(0 .. 255) /\ Len(head \o frame) = 2 + n
      /\ \A i \in 1 .. 2 + n :
           (head \o frame)[i] = IF i <= 2 THEN head[i] ELSE frame[i - 2]
  <2>1. Len(head) + Len(frame) = 2 + n
    BY <1>4 DEF n
  <2>2. /\ head \o frame \in Seq(0 .. 255) /\ Len(head \o frame) = Len(head) + Len(frame)
        /\ \A i \in 1 .. Len(head) + Len(frame) :
             (head \o frame)[i] = IF i <= Len(head) THEN head[i] ELSE frame[i - Len(head)]
    <3>1. head \in Seq(0 .. 255) /\ frame \in Seq(0 .. 255)
      BY <1>1, <1>4
    <3> QED
      BY <3>1, ConcatProperties
  <2> QED
    BY <1>4, <2>1, <2>2
<1>6. 1 \in 1 .. 2 + n /\ 2 \in 1 .. 2 + n
  BY <1>1
<1>7. \A j \in 1 .. n : 2 + j \in 1 .. 2 + n /\ ~(2 + j <= 2) /\ (2 + j) - 2 = j
  BY <1>1
<1>8. (head \o frame)[1] + 256 * (head \o frame)[2] = n
  BY <1>4, <1>5, <1>6
<1>9. \A j \in 1 .. n : (head \o frame)[2 + j] = frame[j]
  BY <1>5, <1>7
<1> QED
  BY <1>1, <1>2, <1>5, <1>8, <1>9 DEF frame, n, Payload

\* One more frame is laid out after the others.
LEMMA LayoutGrows ==
  ASSUME NEW n \in 1 .. Len(Frames), NEW bytes, NEW start, IsLayout(bytes, start, n - 1)
  PROVE  IsLayout(bytes \o Blocks[n],
                  [k \in 0 .. n |-> IF k = n THEN Len(bytes \o Blocks[n]) ELSE start[k]], n)
<1> DEFINE block == Blocks[n]
           whole == bytes \o block
           longer == [k \in 0 .. n |-> IF k = n THEN Len(whole) ELSE start[k]]
<1>1. n \in Nat /\ n >= 1 /\ block \in Seq(0 .. 255) /\ Len(block) \in Nat
  BY BlockHasLength DEF Payload
<1>2. /\ bytes \in Seq(0 .. 255) /\ Len(bytes) \in Nat /\ start \in [0 .. n - 1 -> Nat]
      /\ start[0] = 0 /\ start[n - 1] = Len(bytes)
  BY DEF IsLayout
<1>3. /\ whole \in Seq(0 .. 255) /\ Len(whole) = Len(bytes) + Len(block)
      /\ \A i \in 1 .. Len(bytes) + Len(block) :
           whole[i] = IF i <= Len(bytes) THEN bytes[i] ELSE block[i - Len(bytes)]
  BY <1>1, <1>2, ConcatProperties
<1> HIDE DEF whole
<1>4. /\ longer \in [0 .. n -> Nat] /\ longer[n] = Len(whole) /\ longer[0] = 0
      /\ \A k \in 0 .. n - 1 : longer[k] = start[k]
  <2>1. \A k \in 0 .. n : k = n \/ k \in 0 .. n - 1
    BY <1>1
  <2>2. 0 \in 0 .. n - 1 /\ n \in 0 .. n /\ \A k \in 0 .. n - 1 : k \in 0 .. n /\ k # n
    BY <1>1
  <2>3. Len(whole) \in Nat
    BY <1>1, <1>2, <1>3
  <2> QED
    BY <1>2, <2>1, <2>2, <2>3
<1> HIDE DEF longer
<1>5. ASSUME NEW k \in 1 .. n
      PROVE  /\ longer[k] = longer[k - 1] + Len(Blocks[k]) /\ longer[k] <= Len(whole)
             /\ \A j \in 1 .. Len(Blocks[k]) : whole[longer[k - 1] + j] = Blocks[k][j]
  <2>1. CASE k = n
    <3>1. k - 1 \in 0 .. n - 1 /\ longer[k - 1] = Len(bytes)
      BY <1>1, <1>2, <1>4, <2>1
    <3>2. \A j \in 1 .. Len(block) :
            /\ Len(bytes) + j \in 1 .. Len(bytes) + Len(block)
            /\ ~(Len(bytes) + j <= Len(bytes)) /\ (Len(bytes) + j) - Len(bytes) = j
      BY <1>1, <1>2
    <3>3. \A j \in 1 .. Len(block) : whole[Len(bytes) + j] = block[j]
      BY <1>3, <3>2
    <3>4. Len(whole) <= Len(whole)
      BY <1>1, <1>2, <1>3
    <3> QED
      BY <1>3, <1>4, <2>1, <3>1, <3>3, <3>4
  <2>2. CASE k # n
    <3>1. k \in 1 .. n - 1 /\ k \in 0 .. n - 1 /\ k - 1 \in 0 .. n - 1 /\ k \in 1 .. Len(Frames)
      BY <1>1, <2>2, TransportAssumption
    <3>2. /\ start[k] = start[k - 1] + Len(Blocks[k]) /\ start[k] <= Len(bytes)
          /\ \A j \in 1 .. Len(Blocks[k]) : bytes[start[k - 1] + j] = Blocks[k][j]
      BY <3>1 DEF IsLayout
    <3>3. longer[k] = start[k] /\ longer[k - 1] = start[k - 1] /\ start[k - 1] \in Nat
          /\ start[k] \in Nat
      BY <1>2, <1>4, <3>1
    <3>4. Len(Blocks[k]) \in Nat
      BY <3>1, BlockHasLength DEF Payload
    <3>5. ASSUME NEW j \in 1 .. Len(Blocks[k])
          PROVE  /\ start[k - 1] + j \in 1 .. Len(bytes) + Len(block)
                 /\ start[k - 1] + j <= Len(bytes)
      <4> DEFINE p == start[k - 1]
                 q == Len(Blocks[k])
                 a == Len(bytes)
                 b == Len(block)
      <4>1. p \in Nat /\ q \in Nat /\ a \in Nat /\ b \in Nat /\ j \in 1 .. q /\ p + q <= a
        BY <1>1, <1>2, <3>2, <3>3, <3>4
      <4> HIDE DEF p, q, a, b
      <4>2. p + j \in 1 .. a + b /\ p + j <= a
        BY <4>1
      <4> QED
        BY <4>2 DEF p, a, b
    <3>6. \A j \in 1 .. Len(Blocks[k]) : whole[start[k - 1] + j] = Blocks[k][j]
      BY <1>3, <3>2, <3>5
    <3>7. start[k] <= Len(whole)
      BY <1>1, <1>2, <1>3, <3>2, <3>3
    <3> QED
      BY <3>2, <3>3, <3>6, <3>7
  <2> QED
    BY <2>1, <2>2
<1>6. IsLayout(whole, longer, n)
  BY <1>3, <1>4, <1>5 DEF IsLayout
<1> QED
  BY <1>6 DEF whole, longer

\* The frames can be laid out, and what is laid out is what they are joined to.
LEMMA FlatIsLaidOut ==
  ASSUME Frames # << >>
  PROVE  \A n \in 1 .. Len(Frames) :
           \E flat, start : IsFlat(flat, n) /\ IsLayout(flat[n], start, n)
<1> DEFINE Bad == {n \in 1 .. Len(Frames) :
                     ~(\E flat, start : IsFlat(flat, n) /\ IsLayout(flat[n], start, n))}
<1>1. Len(Frames) \in Nat
  BY TransportAssumption
<1>2. SUFFICES ASSUME Bad # {} PROVE FALSE
  OBVIOUS
<1>3. PICK n \in Bad : \A m \in Bad : n <= m
  <2>1. Bad \in SUBSET Nat
    BY <1>1
  <2> HIDE DEF Bad
  <2> QED
    BY <1>2, <2>1, LeastOf
<1>4. n \in 1 .. Len(Frames) /\ ~(\E flat, start : IsFlat(flat, n) /\ IsLayout(flat[n], start, n))
  BY <1>3
<1>5. Blocks[n] \in Seq(0 .. 255) /\ Len(Blocks[n]) \in Nat
  BY <1>4, BlockHasLength DEF Payload
<1>6. CASE n = 1
  <2> DEFINE flat == [i \in 1 .. 1 |-> Blocks[i]]
             none == [k \in 0 .. 0 |-> 0]
             start == [k \in 0 .. 1 |-> IF k = 1 THEN Len(<< >> \o Blocks[1]) ELSE none[k]]
  <2>1. IsFlat(flat, 1) /\ flat[1] = Blocks[1]
    BY DEF IsFlat
  <2>2. IsLayout(<< >>, none, 0)
    BY DEF IsLayout
  <2>3. << >> \o Blocks[1] = Blocks[1]
    BY <1>5, <1>6
  <2> HIDE DEF flat, none
  <2>4. IsLayout(<< >> \o Blocks[1], start, 1)
    <3>1. 1 \in 1 .. Len(Frames) /\ IsLayout(<< >>, none, 1 - 1)
      BY <1>4, <1>6, <2>2
    <3> QED
      BY <3>1, LayoutGrows
  <2> HIDE DEF start
  <2> QED
    BY <1>4, <1>6, <2>1, <2>3, <2>4
<1>7. CASE n # 1
  <2>1. n - 1 \in 1 .. Len(Frames) /\ n \in Nat /\ ~(n <= n - 1)
    BY <1>1, <1>4, <1>7
  <2>2. n - 1 \notin Bad
    BY <1>3, <2>1
  <2>3. PICK flat, start : IsFlat(flat, n - 1) /\ IsLayout(flat[n - 1], start, n - 1)
    BY <2>1, <2>2
  <2> DEFINE whole == flat[n - 1] \o Blocks[n]
             longer == [i \in 1 .. n |-> IF i = n THEN whole ELSE flat[i]]
             starts == [k \in 0 .. n |-> IF k = n THEN Len(whole) ELSE start[k]]
  <2>4. IsLayout(whole, starts, n)
    BY <1>4, <2>3, LayoutGrows
  <2> HIDE DEF starts
  <2>5. \A i \in 1 .. n - 1 : flat[i] = IF i = 1 THEN Blocks[i] ELSE flat[i - 1] \o Blocks[i]
    BY <2>3 DEF IsFlat
  <2>6. longer[n] = whole /\ \A i \in 1 .. n - 1 : longer[i] = flat[i]
    <3>1. n \in 1 .. n /\ \A i \in 1 .. n - 1 : i \in 1 .. n /\ i # n
      BY <1>4, <2>1
    <3> HIDE DEF whole
    <3> QED
      BY <3>1
  <2>7. longer = [i \in 1 .. n |-> longer[i]]
    OBVIOUS
  <2> HIDE DEF longer
  <2>8. ASSUME NEW i \in 1 .. n
        PROVE  longer[i] = IF i = 1 THEN Blocks[i] ELSE longer[i - 1] \o Blocks[i]
    <3>1. CASE i = n
      <4>1. i # 1 /\ i - 1 \in 1 .. n - 1
        BY <1>7, <2>1, <3>1
      <4> QED
        BY <2>6, <3>1, <4>1
    <3>2. CASE i # n
      <4>1. i \in 1 .. n - 1 /\ (i # 1 => i - 1 \in 1 .. n - 1)
        BY <2>1, <3>2
      <4> QED
        BY <2>5, <2>6, <4>1
    <3> QED
      BY <3>1, <3>2
  <2>9. IsFlat(longer, n)
    BY <2>7, <2>8 DEF IsFlat
  <2>10. IsLayout(longer[n], starts, n)
    BY <2>4, <2>6
  <2> QED
    BY <1>4, <2>9, <2>10
<1> QED
  BY <1>6, <1>7

\* There is one way to join the frames.
LEMMA FlatIsOne ==
  ASSUME NEW n \in Nat, NEW flat, IsFlat(flat, n), NEW other, IsFlat(other, n)
  PROVE  flat = other
<1> DEFINE Differ == {i \in 1 .. n : flat[i] # other[i]}
<1>1. \A i \in 1 .. n :
        /\ flat[i] = IF i = 1 THEN Blocks[i] ELSE flat[i - 1] \o Blocks[i]
        /\ other[i] = IF i = 1 THEN Blocks[i] ELSE other[i - 1] \o Blocks[i]
  BY DEF IsFlat
<1>2. flat = [i \in 1 .. n |-> flat[i]] /\ other = [i \in 1 .. n |-> other[i]]
  BY DEF IsFlat
<1>3. ASSUME Differ # {} PROVE FALSE
  <2>1. Differ \in SUBSET Nat
    OBVIOUS
  <2>2. PICK i \in Differ : \A j \in Differ : i <= j
    BY <1>3, <2>1, LeastOf
  <2>3. i \in 1 .. n /\ flat[i] # other[i]
    BY <2>2
  <2>4. i # 1
    BY <1>1, <2>3
  <2>5. i - 1 \in 1 .. n /\ ~(i <= i - 1)
    BY <2>3, <2>4
  <2>6. flat[i - 1] = other[i - 1]
    BY <2>2, <2>5
  <2> QED
    BY <1>1, <2>3, <2>4, <2>6
<1> QED
  BY <1>2, <1>3

\* The stream has every frame at its place (FlattenSeq).
LEMMA StreamIsLaidOut == IsLayout(AllBytes, Start, Len(Frames))
<1> DEFINE n == Len(Frames)
<1>1. n \in Nat /\ Frames \in Seq(Seq(0 .. 255)) /\ DOMAIN Blocks = 1 .. n /\ Len(Blocks) = n
  BY TransportAssumption DEF Blocks
<1>2. SUFFICES \E start : IsLayout(AllBytes, start, n)
  BY DEF Start
<1>3. CASE n = 0
  <2> DEFINE none == [k \in 0 .. 0 |-> 0]
  <2>1. AllBytes = Blocks /\ Blocks = << >>
    BY <1>1, <1>3 DEF AllBytes, FlattenSeq, Blocks
  <2>2. IsLayout(<< >>, none, 0)
    BY DEF IsLayout
  <2> QED
    BY <1>3, <2>1, <2>2
<1>4. CASE n # 0
  <2> DEFINE flatten == CHOOSE flat : IsFlat(flat, n)
  <2>1. PICK flat, start : IsFlat(flat, n) /\ IsLayout(flat[n], start, n)
    <3>1. Frames # << >> /\ n \in 1 .. Len(Frames)
      BY <1>1, <1>4
    <3> QED
      BY <3>1, FlatIsLaidOut
  <2>2. IsFlat(flatten, n)
    BY <2>1
  <2>3. flatten = flat
    BY <1>1, <2>1, <2>2, FlatIsOne
  <2>4. AllBytes = flatten[n]
    BY <1>1, <1>4 DEF AllBytes, FlattenSeq, IsFlat
  <2> QED
    BY <2>1, <2>3, <2>4
<1> QED
  BY <1>3, <1>4

\* A frame stands behind those before it, and behind the last there is nothing.
LEMMA FrameStands ==
  ASSUME NEW k \in 0 .. Len(Frames)
  PROVE  /\ Len(Frames) \in Nat /\ AllBytes \in Seq(0 .. 255) /\ Len(AllBytes) \in Nat
         /\ Start[k] \in Nat /\ Start[k] <= Len(AllBytes)
         /\ k = Len(Frames) => Start[k] = Len(AllBytes)
         /\ k # Len(Frames) =>
              /\ k + 1 \in 1 .. Len(Frames) /\ Start[k + 1] \in Nat
              /\ Start[k + 1] = Start[k] + 2 + Len(Frames[k + 1])
              /\ Start[k + 1] <= Len(AllBytes)
              /\ \A j \in 1 .. 2 + Len(Frames[k + 1]) :
                   AllBytes[Start[k] + j] = Blocks[k + 1][j]
<1>1. /\ Len(Frames) \in Nat /\ AllBytes \in Seq(0 .. 255) /\ Len(AllBytes) \in Nat
      /\ Start \in [0 .. Len(Frames) -> Nat] /\ Start[0] = 0
      /\ Start[Len(Frames)] = Len(AllBytes)
  BY StreamIsLaidOut, TransportAssumption DEF IsLayout
<1>2. \A i \in 1 .. Len(Frames) :
        /\ Start[i] = Start[i - 1] + Len(Blocks[i]) /\ Start[i] <= Len(AllBytes)
        /\ \A j \in 1 .. Len(Blocks[i]) : AllBytes[Start[i - 1] + j] = Blocks[i][j]
  BY StreamIsLaidOut DEF IsLayout
<1>3. Start[k] \in Nat
  BY <1>1
<1>4. Start[k] <= Len(AllBytes)
  <2>1. CASE k = 0
    BY <1>1, <2>1
  <2>2. CASE k # 0
    BY <1>1, <1>2, <2>2
  <2> QED
    BY <2>1, <2>2
<1>5. ASSUME k # Len(Frames)
      PROVE  /\ k + 1 \in 1 .. Len(Frames) /\ Start[k + 1] \in Nat
             /\ Start[k + 1] = Start[k] + 2 + Len(Frames[k + 1])
             /\ Start[k + 1] <= Len(AllBytes)
             /\ \A j \in 1 .. 2 + Len(Frames[k + 1]) :
                  AllBytes[Start[k] + j] = Blocks[k + 1][j]
  <2>1. k + 1 \in 1 .. Len(Frames) /\ k + 1 \in 0 .. Len(Frames) /\ (k + 1) - 1 = k
    BY <1>1, <1>5
  <2>2. Len(Blocks[k + 1]) = 2 + Len(Frames[k + 1]) /\ Len(Frames[k + 1]) \in Nat
    BY <2>1, BlockHasLength
  <2>3. /\ Start[k + 1] = Start[k] + Len(Blocks[k + 1]) /\ Start[k + 1] <= Len(AllBytes)
        /\ \A j \in 1 .. Len(Blocks[k + 1]) : AllBytes[Start[k] + j] = Blocks[k + 1][j]
    BY <1>2, <2>1
  <2>4. Start[k] + (2 + Len(Frames[k + 1])) = Start[k] + 2 + Len(Frames[k + 1])
    <3> DEFINE p == Start[k]
               m == Len(Frames[k + 1])
    <3>1. p \in Nat /\ m \in Nat
      BY <1>3, <2>2
    <3> HIDE DEF p, m
    <3>2. p + (2 + m) = p + 2 + m
      BY <3>1
    <3> QED
      BY <3>2 DEF p, m
  <2>5. Start[k + 1] \in Nat
    BY <1>1, <2>1
  <2>6. \A j \in 1 .. 2 + Len(Frames[k + 1]) : AllBytes[Start[k] + j] = Blocks[k + 1][j]
    BY <2>2, <2>3
  <2> QED
    BY <2>1, <2>2, <2>3, <2>4, <2>5, <2>6
<1> QED
  BY <1>1, <1>3, <1>4, <1>5

\* Two bytes that stand at the start of a frame are its length (Framed).
LEMMA FrameIsFirst ==
  ASSUME NEW k \in 0 .. Len(Frames), NEW bytes, BytesFrom(Start[k], bytes), Len(bytes) >= 2
  PROVE  /\ k # Len(Frames)
         /\ bytes[1] + 256 * bytes[2] = Len(Frames[k + 1])
<1>1. Len(bytes) \in Nat /\ Start[k] + Len(bytes) <= Len(AllBytes)
      /\ \A j \in 1 .. Len(bytes) : bytes[j] = AllBytes[Start[k] + j]
  BY DEF BytesFrom
<1>2. k # Len(Frames)
  BY <1>1, FrameStands
<1>3. /\ k + 1 \in 1 .. Len(Frames)
      /\ \A j \in 1 .. 2 + Len(Frames[k + 1]) : AllBytes[Start[k] + j] = Blocks[k + 1][j]
  BY <1>2, FrameStands
<1>4. Len(Frames[k + 1]) \in Nat /\ Blocks[k + 1][1] + 256 * Blocks[k + 1][2] = Len(Frames[k + 1])
  BY <1>3, BlockHasLength
<1>5. bytes[1] = Blocks[k + 1][1] /\ bytes[2] = Blocks[k + 1][2]
  <2>1. /\ 1 \in 1 .. Len(bytes) /\ 2 \in 1 .. Len(bytes)
        /\ 1 \in 1 .. 2 + Len(Frames[k + 1]) /\ 2 \in 1 .. 2 + Len(Frames[k + 1])
    BY <1>1, <1>4
  <2>2. bytes[1] = AllBytes[Start[k] + 1] /\ bytes[2] = AllBytes[Start[k] + 2]
    BY <1>1, <2>1
  <2>3. /\ AllBytes[Start[k] + 1] = Blocks[k + 1][1]
        /\ AllBytes[Start[k] + 2] = Blocks[k + 1][2]
    BY <1>3, <2>1
  <2> QED
    BY <2>2, <2>3
<1> QED
  BY <1>2, <1>4, <1>5

\* One round takes the next frame if it is there (pumpLengthPrefixedReader).
LEMMA TakesTheNext ==
  ASSUME NEW k \in 0 .. Len(Frames), NEW bytes, BytesFrom(Start[k], bytes), Framed(bytes)
  PROVE  LET next == UnpackOne(bytes)
         IN /\ k + 1 \in 1 .. Len(Frames)
            /\ next = [frames |-> <<Frames[k + 1]>>, rest |-> next.rest]
            /\ BytesFrom(Start[k + 1], next.rest) /\ Len(next.rest) < Len(bytes)
            /\ Start[k + 1] + Len(next.rest) = Start[k] + Len(bytes)
<1> DEFINE n == bytes[1] + 256 * bytes[2]
           frame == SubSeq(bytes, 3, 2 + n)
           rest == SubSeq(bytes, 3 + n, Len(bytes))
<1>1. /\ bytes \in Seq(0 .. 255) /\ Len(bytes) \in Nat
      /\ Start[k] + Len(bytes) <= Len(AllBytes)
      /\ \A j \in 1 .. Len(bytes) : bytes[j] = AllBytes[Start[k] + j]
  BY DEF BytesFrom
<1>10. \A i \in 1 .. Len(bytes) : bytes[i] \in 0 .. 255
  <2>1. bytes \in Seq(0 .. 255)
    BY DEF BytesFrom
  <2> QED
    BY <2>1, ElementOfSeq
<1>2. Len(bytes) >= 2 /\ Len(bytes) >= 2 + n
  <2> DEFINE low == bytes[1]
             high == bytes[2]
  <2>1. Len(bytes) >= 2 /\ Len(bytes) >= 2 + low + 256 * high
    BY DEF Framed
  <2>2. 1 \in 1 .. Len(bytes) /\ 2 \in 1 .. Len(bytes)
    BY <1>1, <2>1
  <2>3. low \in Int /\ high \in Int
    <3>1. bytes[1] \in 0 .. 255 /\ bytes[2] \in 0 .. 255
      BY <1>10, <2>2
    <3>2. \A x \in 0 .. 255 : x \in Int
      OBVIOUS
    <3> HIDE DEF low, high
    <3>3. low \in 0 .. 255 /\ high \in 0 .. 255
      BY <3>1 DEF low, high
    <3> QED
      BY <3>2, <3>3
  <2> HIDE DEF low, high
  <2>4. 2 + low + 256 * high = 2 + (low + 256 * high)
    BY <2>3
  <2> QED
    BY <2>1, <2>4 DEF low, high
<1>3. k # Len(Frames) /\ n = Len(Frames[k + 1])
  BY <1>2, FrameIsFirst
<1>4. /\ k + 1 \in 1 .. Len(Frames) /\ Start[k] \in Nat /\ Start[k + 1] \in Nat
      /\ Start[k + 1] = Start[k] + 2 + n
      /\ \A j \in 1 .. 2 + n : AllBytes[Start[k] + j] = Blocks[k + 1][j]
  <2> HIDE DEF n
  <2>1. /\ k + 1 \in 1 .. Len(Frames) /\ Start[k] \in Nat /\ Start[k + 1] \in Nat
        /\ Start[k + 1] = Start[k] + 2 + Len(Frames[k + 1])
        /\ \A j \in 1 .. 2 + Len(Frames[k + 1]) :
             AllBytes[Start[k] + j] = Blocks[k + 1][j]
    BY <1>3, FrameStands
  <2> QED
    BY <1>3, <2>1
<1>5. /\ Frames[k + 1] \in Seq(0 .. 255) /\ n \in Nat
      /\ \A j \in 1 .. n : Blocks[k + 1][2 + j] = Frames[k + 1][j]
  BY <1>3, <1>4, BlockHasLength DEF Payload
<1>6. UnpackOne(bytes) = [frames |-> <<frame>>, rest |-> rest]
  BY DEF UnpackOne
<1> HIDE DEF n
<1>7. frame = Frames[k + 1]
  <2>1. \A i \in 3 .. 2 + n : bytes[i] \in 0 .. 255
    <3>1. \A i \in 3 .. 2 + n : i \in 1 .. Len(bytes)
      BY <1>1, <1>2, <1>5
    <3> QED
      BY <1>10, <3>1
  <2>2. /\ frame \in Seq(0 .. 255)
        /\ Len(frame) = IF 3 <= 2 + n THEN (2 + n) - 3 + 1 ELSE 0
        /\ \A i \in 1 .. (2 + n) - 3 + 1 : frame[i] = bytes[3 + i - 1]
    BY <1>5, <2>1, SubSeqProperties
  <2> HIDE DEF frame
  <2>3. Len(frame) = n
    BY <1>5, <2>2
  <2>4. ASSUME NEW i \in 1 .. n PROVE frame[i] = Frames[k + 1][i]
    <3>1. /\ i \in 1 .. (2 + n) - 3 + 1 /\ 3 + i - 1 = 2 + i /\ 2 + i \in 1 .. 2 + n
          /\ 2 + i \in 1 .. Len(bytes)
      BY <1>1, <1>2, <1>5
    <3>2. frame[i] = bytes[2 + i]
      BY <2>2, <3>1
    <3>3. bytes[2 + i] = Blocks[k + 1][2 + i]
      BY <1>1, <1>4, <3>1
    <3> QED
      BY <1>5, <3>2, <3>3
  <2> QED
    BY <1>3, <1>5, <2>2, <2>3, <2>4
<1>8. /\ BytesFrom(Start[k + 1], rest) /\ Len(rest) = Len(bytes) - (2 + n)
  <2>1. \A i \in 3 + n .. Len(bytes) : bytes[i] \in 0 .. 255
    <3>1. \A i \in 3 + n .. Len(bytes) : i \in 1 .. Len(bytes)
      BY <1>1, <1>5
    <3> QED
      BY <1>10, <3>1
  <2>2. /\ rest \in Seq(0 .. 255)
        /\ Len(rest) = IF 3 + n <= Len(bytes) THEN Len(bytes) - (3 + n) + 1 ELSE 0
        /\ \A i \in 1 .. Len(bytes) - (3 + n) + 1 : rest[i] = bytes[3 + n + i - 1]
    BY <1>1, <1>5, <2>1, SubSeqProperties
  <2> HIDE DEF rest
  <2>3. Len(rest) = Len(bytes) - (2 + n)
    BY <1>1, <1>2, <1>5, <2>2
  <2>4. ASSUME NEW i \in 1 .. Len(rest) PROVE rest[i] = AllBytes[Start[k + 1] + i]
    <3> DEFINE p == Start[k]
               q == Start[k + 1]
    <3>0. p \in Nat /\ q = p + 2 + n
      BY <1>4
    <3> HIDE DEF p, q
    <3>1. /\ i \in 1 .. Len(bytes) - (3 + n) + 1 /\ 3 + n + i - 1 \in 1 .. Len(bytes)
          /\ p + (3 + n + i - 1) = q + i
      BY <1>1, <1>2, <1>5, <2>3, <3>0
    <3> USE DEF p, q
    <3> QED
      BY <1>1, <2>2, <3>1
  <2>5. Start[k + 1] + Len(rest) <= Len(AllBytes)
    <3> DEFINE p == Start[k]
               q == Start[k + 1]
               all == Len(AllBytes)
               m == Len(bytes)
    <3>1. /\ p \in Nat /\ q = p + 2 + n /\ all \in Nat /\ m \in Nat /\ p + m <= all
          /\ Len(rest) = m - (2 + n)
      BY <1>1, <1>4, <2>3, FrameStands
    <3> HIDE DEF p, q, all, m
    <3>2. q + Len(rest) <= all
      BY <1>5, <3>1
    <3> QED
      BY <3>2 DEF q, all
  <2> QED
    BY <2>2, <2>3, <2>4, <2>5 DEF BytesFrom
<1> HIDE DEF frame, rest
<1>9. Len(rest) < Len(bytes) /\ Start[k + 1] + Len(rest) = Start[k] + Len(bytes)
  <2> DEFINE p == Start[k]
             q == Start[k + 1]
             m == Len(bytes)
  <2>1. p \in Nat /\ q = p + 2 + n /\ m \in Nat /\ Len(rest) = m - (2 + n)
    BY <1>1, <1>4, <1>8
  <2> HIDE DEF p, q, m
  <2>2. Len(rest) < m /\ q + Len(rest) = p + m
    BY <1>5, <2>1
  <2> QED
    BY <2>2 DEF p, q, m
<1> QED
  BY <1>4, <1>6, <1>7, <1>8, <1>9

\* What a round begins with, and what the loop has after it.
LEMMA RoundUnpacks ==
  ASSUME NEW k \in 0 .. Len(Frames), NEW bytes, NEW got, Unpacked(k, bytes, got)
  PROVE  LET next == UnpackOne(got.rest)
             more == [frames |-> got.frames \o next.frames, rest |-> next.rest]
         IN /\ Unpacked(k, bytes, more)
            /\ IF Framed(got.rest) THEN Len(more.rest) < Len(got.rest) ELSE more = got
<1> DEFINE next == UnpackOne(got.rest)
           more == [frames |-> got.frames \o next.frames, rest |-> next.rest]
           m == Len(got.frames)
<1>1. /\ got = [frames |-> got.frames, rest |-> got.rest]
      /\ got.frames \in Seq(Payload) /\ k + m <= Len(Frames) /\ m \in Nat
      /\ \A i \in 1 .. m : got.frames[i] = Frames[k + i]
      /\ BytesFrom(Start[k + m], got.rest)
      /\ Start[k + m] + Len(got.rest) = Start[k] + Len(bytes)
  BY DEF Unpacked
<1>2. k + m \in 0 .. Len(Frames)
  BY <1>1, FrameStands
<1>3. CASE ~Framed(got.rest)
  <2>1. next = [frames |-> << >>, rest |-> got.rest]
    BY <1>3 DEF UnpackOne
  <2>2. got.frames \o << >> = got.frames
    BY <1>1, ConcatEmptySeq
  <2>3. more = got
    BY <1>1, <2>1, <2>2
  <2> QED
    BY <1>3, <2>3
<1>4. CASE Framed(got.rest)
  <2>1. /\ (k + m) + 1 \in 1 .. Len(Frames)
        /\ next = [frames |-> <<Frames[(k + m) + 1]>>, rest |-> next.rest]
        /\ BytesFrom(Start[(k + m) + 1], next.rest) /\ Len(next.rest) < Len(got.rest)
        /\ Start[(k + m) + 1] + Len(next.rest) = Start[k + m] + Len(got.rest)
    BY <1>1, <1>2, <1>4, TakesTheNext
  <2>2. (k + m) + 1 = k + (m + 1)
    BY <1>1
  <2> DEFINE taken == <<Frames[k + (m + 1)]>>
  <2>3. taken \in Seq(Payload) /\ Len(taken) = 1 /\ taken[1] = Frames[k + (m + 1)]
    BY <2>1, <2>2, TransportAssumption DEF Payload
  <2> HIDE DEF taken
  <2>4. more.frames = got.frames \o taken /\ more.rest = next.rest
    <3>1. next.frames = taken
      BY <2>1, <2>2 DEF taken
    <3> QED
      BY <3>1
  <2>5. /\ more.frames \in Seq(Payload) /\ Len(more.frames) = m + 1
        /\ \A i \in 1 .. m + 1 : more.frames[i] = IF i <= m THEN got.frames[i] ELSE taken[i - m]
    <3>1. /\ got.frames \o taken \in Seq(Payload)
          /\ Len(got.frames \o taken) = m + Len(taken)
          /\ \A i \in 1 .. m + Len(taken) :
               (got.frames \o taken)[i] = IF i <= m THEN got.frames[i] ELSE taken[i - m]
      <4>1. got.frames \in Seq(Payload) /\ taken \in Seq(Payload)
        BY <1>1, <2>3
      <4> DEFINE old == got.frames
      <4> HIDE DEF old
      <4>2. old \in Seq(Payload)
        BY <4>1 DEF old
      <4>3. /\ old \o taken \in Seq(Payload)
            /\ Len(old \o taken) = Len(old) + Len(taken)
            /\ \A i \in 1 .. Len(old) + Len(taken) :
                 (old \o taken)[i] = IF i <= Len(old) THEN old[i] ELSE taken[i - Len(old)]
        BY <4>1, <4>2, ConcatProperties
      <4> QED
        BY <4>3 DEF old
    <3> QED
      BY <2>3, <2>4, <3>1
  <2>6. more = [frames |-> more.frames, rest |-> more.rest]
    OBVIOUS
  <2> HIDE DEF more
  <2>7. ASSUME NEW i \in 1 .. m + 1 PROVE more.frames[i] = Frames[k + i]
    <3>1. CASE i <= m
      BY <1>1, <2>5, <3>1
    <3>2. CASE i = m + 1
      <4>1. ~(i <= m) /\ i - m = 1
        BY <1>1, <3>2
      <4> QED
        BY <2>3, <2>5, <3>2, <4>1
    <3> QED
      BY <1>1, <3>1, <3>2
  <2>8. k + (m + 1) <= Len(Frames)
    BY <2>1, <2>2
  <2>9. /\ BytesFrom(Start[k + (m + 1)], more.rest)
        /\ Start[k + (m + 1)] + Len(more.rest) = Start[k] + Len(bytes)
        /\ Len(more.rest) < Len(got.rest)
    BY <1>1, <2>1, <2>2, <2>4
  <2>10. Unpacked(k, bytes, more)
    BY <2>5, <2>6, <2>7, <2>8, <2>9 DEF Unpacked
  <2> QED
    BY <1>4, <2>9, <2>10 DEF more
<1> QED
  BY <1>3, <1>4

\* The loop takes frames as long as there are some: after as many rounds as there are
\* bytes, none is left (pumpLengthPrefixedReader).
LEMMA RoundsUnpack ==
  ASSUME NEW k \in 0 .. Len(Frames), NEW bytes, BytesFrom(Start[k], bytes)
  PROVE  \A n \in 0 .. Len(bytes) :
           \E got : /\ IsUnpacking(bytes, got, n) /\ Unpacked(k, bytes, got[n])
                    /\ Framed(got[n].rest) => Len(got[n].rest) + n <= Len(bytes)
<1> DEFINE Fine(got, n) == /\ Unpacked(k, bytes, got[n])
                           /\ Framed(got[n].rest) => Len(got[n].rest) + n <= Len(bytes)
           Bad == {n \in 0 .. Len(bytes) : ~(\E got : IsUnpacking(bytes, got, n) /\ Fine(got, n))}
           More(got) == LET next == UnpackOne(got.rest)
                        IN [frames |-> got.frames \o next.frames, rest |-> next.rest]
           Round(got, i) == IF i = 0 THEN [frames |-> << >>, rest |-> bytes] ELSE More(got[i - 1])
<1>1. Len(bytes) \in Nat
  BY DEF BytesFrom
<1>2. SUFFICES ASSUME Bad # {} PROVE FALSE
  OBVIOUS
<1>3. PICK n \in Bad : \A m \in Bad : n <= m
  <2>1. Bad \in SUBSET Nat
    BY <1>1
  <2> HIDE DEF Bad
  <2> QED
    BY <1>2, <2>1, LeastOf
<1>4. n \in 0 .. Len(bytes) /\ ~(\E got : IsUnpacking(bytes, got, n) /\ Fine(got, n))
  BY <1>3
<1>5. CASE n = 0
  <2> DEFINE none == [frames |-> << >>, rest |-> bytes]
             got == [i \in 0 .. 0 |-> none]
  <2>1. got[0] = none /\ IsUnpacking(bytes, got, 0)
    BY DEF IsUnpacking
  <2>2. /\ none = [frames |-> none.frames, rest |-> none.rest] /\ none.rest = bytes
        /\ none.frames = << >>
    OBVIOUS
  <2> HIDE DEF none, got
  <2>3. << >> \in Seq(Payload) /\ Len(<< >>) = 0 /\ k + 0 = k /\ k + 0 <= Len(Frames)
    BY FrameStands
  <2>4. Unpacked(k, bytes, none)
    BY <2>2, <2>3 DEF Unpacked
  <2>5. Len(bytes) + 0 <= Len(bytes)
    BY <1>1
  <2>6. Fine(got, 0)
    BY <2>1, <2>2, <2>4, <2>5
  <2> HIDE DEF Fine
  <2> QED
    BY <1>4, <1>5, <2>1, <2>6
<1>6. CASE n # 0
  <2>1. n - 1 \in 0 .. Len(bytes) /\ n \in Nat /\ ~(n <= n - 1)
    BY <1>1, <1>4, <1>6
  <2>2. n - 1 \notin Bad
    BY <1>3, <2>1
  <2>3. PICK got : IsUnpacking(bytes, got, n - 1) /\ Fine(got, n - 1)
    BY <2>1, <2>2
  <2> DEFINE more == More(got[n - 1])
             longer == [i \in 0 .. n |-> IF i = n THEN more ELSE got[i]]
  <2>4. /\ Unpacked(k, bytes, more)
        /\ IF Framed(got[n - 1].rest) THEN Len(more.rest) < Len(got[n - 1].rest)
           ELSE more = got[n - 1]
    BY <2>3, RoundUnpacks
  <2>5. \A i \in 0 .. n - 1 : got[i] = Round(got, i)
    BY <2>3 DEF IsUnpacking
  <2> HIDE DEF More, more
  <2>6. longer[n] = more /\ \A i \in 0 .. n - 1 : longer[i] = got[i]
    <3>1. n \in 0 .. n /\ \A i \in 0 .. n - 1 : i \in 0 .. n /\ i # n
      BY <1>4, <2>1
    <3> QED
      BY <3>1
  <2>7. longer = [i \in 0 .. n |-> longer[i]]
    OBVIOUS
  <2> HIDE DEF longer
  <2>8. ASSUME NEW i \in 0 .. n PROVE longer[i] = Round(longer, i)
    <3>1. CASE i = n
      <4>1. i # 0 /\ i - 1 \in 0 .. n - 1
        BY <1>6, <2>1, <3>1
      <4> QED
        BY <2>6, <3>1, <4>1 DEF more
    <3>2. CASE i # n
      <4>1. i \in 0 .. n - 1 /\ (i # 0 => i - 1 \in 0 .. n - 1)
        BY <2>1, <3>2
      <4> QED
        BY <2>5, <2>6, <4>1
    <3> QED
      BY <3>1, <3>2
  <2>9. IsUnpacking(bytes, longer, n)
    BY <2>7, <2>8 DEF IsUnpacking, More
  <2>10. Framed(more.rest) => Len(more.rest) + n <= Len(bytes)
    <3>1. SUFFICES ASSUME Framed(more.rest) PROVE Len(more.rest) + n <= Len(bytes)
      OBVIOUS
    <3>2. Framed(got[n - 1].rest)
      BY <2>4, <3>1
    <3>3. /\ Len(more.rest) < Len(got[n - 1].rest)
          /\ Len(got[n - 1].rest) + (n - 1) <= Len(bytes)
      BY <2>3, <2>4, <3>2
    <3>4. Len(more.rest) \in Nat /\ Len(got[n - 1].rest) \in Nat
      <4>1. more.rest \in Seq(0 .. 255)
        BY <2>4 DEF Unpacked, BytesFrom
      <4>2. got[n - 1].rest \in Seq(0 .. 255)
        BY <2>3 DEF Unpacked, BytesFrom
      <4> QED
        BY <4>1, <4>2
    <3> QED
      BY <1>1, <2>1, <3>3, <3>4
  <2>11. Fine(longer, n)
    BY <2>4, <2>6, <2>10
  <2> HIDE DEF Fine
  <2> QED
    BY <1>4, <2>9, <2>11
<1> QED
  BY <1>5, <1>6

\* The loop has one course.
LEMMA UnpackingIsOne ==
  ASSUME NEW bytes, NEW n \in Nat, NEW got, IsUnpacking(bytes, got, n),
         NEW other, IsUnpacking(bytes, other, n)
  PROVE  got = other
<1> DEFINE More(pass) == LET next == UnpackOne(pass.rest)
                         IN [frames |-> pass.frames \o next.frames, rest |-> next.rest]
           Differ == {i \in 0 .. n : got[i] # other[i]}
<1>1. \A i \in 0 .. n :
        /\ got[i] = IF i = 0 THEN [frames |-> << >>, rest |-> bytes] ELSE More(got[i - 1])
        /\ other[i] = IF i = 0 THEN [frames |-> << >>, rest |-> bytes] ELSE More(other[i - 1])
  BY DEF IsUnpacking
<1>2. got = [i \in 0 .. n |-> got[i]] /\ other = [i \in 0 .. n |-> other[i]]
  BY DEF IsUnpacking
<1> HIDE DEF More
<1>3. ASSUME Differ # {} PROVE FALSE
  <2>1. Differ \in SUBSET Nat
    OBVIOUS
  <2>2. PICK i \in Differ : \A j \in Differ : i <= j
    BY <1>3, <2>1, LeastOf
  <2>3. i \in 0 .. n /\ got[i] # other[i]
    BY <2>2
  <2>4. i # 0
    BY <1>1, <2>3
  <2>5. i - 1 \in 0 .. n /\ ~(i <= i - 1)
    BY <2>3, <2>4
  <2>6. got[i - 1] = other[i - 1]
    BY <2>2, <2>5
  <2> QED
    BY <1>1, <2>3, <2>4, <2>6
<1> QED
  BY <1>2, <1>3

\* So a chunk gives every frame that it completes, and leaves what begins the next
\* (pumpLengthPrefixedReader).
LEMMA ChunkUnpacks ==
  ASSUME NEW k \in 0 .. Len(Frames), NEW bytes, BytesFrom(Start[k], bytes)
  PROVE  Unpacked(k, bytes, Unpack(bytes)) /\ ~Framed(Unpack(bytes).rest)
<1> DEFINE n == Len(bytes)
           whole == CHOOSE got : IsUnpacking(bytes, got, n)
<1>1. n \in Nat /\ n \in 0 .. n
  BY DEF BytesFrom
<1>2. PICK got : /\ IsUnpacking(bytes, got, n) /\ Unpacked(k, bytes, got[n])
                 /\ Framed(got[n].rest) => Len(got[n].rest) + n <= n
  BY <1>1, RoundsUnpack
<1>3. IsUnpacking(bytes, whole, n)
  BY <1>2
<1>4. whole = got
  BY <1>1, <1>2, <1>3, UnpackingIsOne
<1>5. Unpack(bytes) = whole[n]
  BY DEF Unpack, IsUnpacking
<1>6. ~Framed(got[n].rest)
  <2>1. Len(got[n].rest) \in Nat
    BY <1>2 DEF Unpacked, BytesFrom
  <2>2. Framed(got[n].rest) => Len(got[n].rest) >= 2
    BY DEF Framed
  <2> QED
    BY <1>1, <1>2, <2>1, <2>2
<1> QED
  BY <1>2, <1>4, <1>5, <1>6

\* Bytes and those behind them stand together.
LEMMA BytesJoin ==
  ASSUME NEW p \in Nat, NEW a, NEW b, BytesFrom(p, a), BytesFrom(p + Len(a), b)
  PROVE  BytesFrom(p, a \o b) /\ Len(a \o b) = Len(a) + Len(b)
<1>1. /\ a \in Seq(0 .. 255) /\ b \in Seq(0 .. 255) /\ Len(a) \in Nat /\ Len(b) \in Nat
      /\ p + Len(a) + Len(b) <= Len(AllBytes)
  BY DEF BytesFrom
<1>2. /\ \A j \in 1 .. Len(a) : a[j] = AllBytes[p + j]
      /\ \A j \in 1 .. Len(b) : b[j] = AllBytes[p + Len(a) + j]
  BY DEF BytesFrom
<1> DEFINE all == a \o b
<1>3. /\ all \in Seq(0 .. 255) /\ Len(all) = Len(a) + Len(b)
      /\ \A i \in 1 .. Len(a) + Len(b) : all[i] = IF i <= Len(a) THEN a[i] ELSE b[i - Len(a)]
  BY <1>1, ConcatProperties
<1> HIDE DEF all
<1>4. ASSUME NEW i \in 1 .. Len(all) PROVE all[i] = AllBytes[p + i]
  <2>1. CASE i <= Len(a)
    BY <1>1, <1>2, <1>3, <2>1
  <2>2. CASE ~(i <= Len(a))
    <3>1. i - Len(a) \in 1 .. Len(b) /\ p + Len(a) + (i - Len(a)) = p + i
      BY <1>1, <1>3, <2>2
    <3> QED
      BY <1>2, <1>3, <2>2, <3>1
  <2> QED
    BY <2>1, <2>2
<1>5. p + Len(all) <= Len(AllBytes)
  BY <1>1, <1>3
<1> QED
  BY <1>3, <1>4, <1>5 DEF BytesFrom, all

\* The first n of them, and those behind.
LEMMA BytesSplit ==
  ASSUME NEW p \in Nat, NEW b, BytesFrom(p, b), NEW n \in 1 .. Len(b)
  PROVE  /\ BytesFrom(p, SubSeq(b, 1, n)) /\ Len(SubSeq(b, 1, n)) = n
         /\ BytesFrom(p + n, SubSeq(b, n + 1, Len(b)))
         /\ Len(SubSeq(b, n + 1, Len(b))) = Len(b) - n
<1> DEFINE low == SubSeq(b, 1, n)
           high == SubSeq(b, n + 1, Len(b))
<1>1. b \in Seq(0 .. 255) /\ Len(b) \in Nat /\ n \in Nat /\ n >= 1 /\ n <= Len(b)
  BY DEF BytesFrom
<1>2. /\ p + Len(b) <= Len(AllBytes) /\ \A j \in 1 .. Len(b) : b[j] = AllBytes[p + j]
  BY DEF BytesFrom
<1>3. Len(AllBytes) \in Nat
  BY StreamIsLaidOut DEF IsLayout
<1>4. \A i \in 1 .. Len(b) : b[i] \in 0 .. 255
  BY <1>1, ElementOfSeq
<1>5. /\ low \in Seq(0 .. 255) /\ Len(low) = n /\ \A i \in 1 .. n : low[i] = b[i]
  <2>1. \A i \in 1 .. n : i \in 1 .. Len(b)
    BY <1>1
  <2>2. /\ low \in Seq(0 .. 255) /\ Len(low) = IF 1 <= n THEN n - 1 + 1 ELSE 0
        /\ \A i \in 1 .. n - 1 + 1 : low[i] = b[1 + i - 1]
    BY <1>1, <1>4, <2>1, SubSeqProperties
  <2> HIDE DEF low
  <2> QED
    BY <1>1, <2>2
<1>6. /\ high \in Seq(0 .. 255) /\ Len(high) = Len(b) - n
      /\ \A i \in 1 .. Len(b) - n : high[i] = b[n + i]
  <2>1. \A i \in n + 1 .. Len(b) : i \in 1 .. Len(b)
    BY <1>1
  <2>2. /\ high \in Seq(0 .. 255)
        /\ Len(high) = IF n + 1 <= Len(b) THEN Len(b) - (n + 1) + 1 ELSE 0
        /\ \A i \in 1 .. Len(b) - (n + 1) + 1 : high[i] = b[n + 1 + i - 1]
    BY <1>1, <1>4, <2>1, SubSeqProperties
  <2> HIDE DEF high
  <2> QED
    BY <1>1, <2>2
<1> HIDE DEF low, high
<1>7. BytesFrom(p, low)
  <2>1. p + Len(low) <= Len(AllBytes)
    BY <1>1, <1>2, <1>3, <1>5
  <2>2. ASSUME NEW j \in 1 .. Len(low) PROVE low[j] = AllBytes[p + j]
    <3>1. j \in 1 .. n /\ j \in 1 .. Len(b)
      BY <1>1, <1>5
    <3> QED
      BY <1>2, <1>5, <3>1
  <2> QED
    BY <1>5, <2>1, <2>2 DEF BytesFrom
<1>8. BytesFrom(p + n, high)
  <2>1. p + n + Len(high) <= Len(AllBytes)
    BY <1>1, <1>2, <1>3, <1>6
  <2>2. ASSUME NEW j \in 1 .. Len(high) PROVE high[j] = AllBytes[p + n + j]
    <3>1. j \in 1 .. Len(b) - n /\ n + j \in 1 .. Len(b) /\ p + (n + j) = p + n + j
      BY <1>1, <1>6
    <3> QED
      BY <1>2, <1>6, <3>1
  <2> QED
    BY <1>6, <2>1, <2>2 DEF BytesFrom
<1> QED
  BY <1>5, <1>6, <1>7, <1>8 DEF low, high

\* A chunk of the stream (pumpLengthPrefixedReader).
LEMMA ChunkStep ==
  ASSUME StreamInv, NEW n \in 1 .. Len(stream), Receive(n)
  PROVE  StreamInv'
<1> DEFINE d == Len(delivered)
           next == Start[d]
           bytes == unframed \o SubSeq(stream, 1, n)
           got == Unpack(bytes)
           m == Len(got.frames)
           rest == SubSeq(stream, n + 1, Len(stream))
<1>1. /\ delivered \in Seq(Payload) /\ d \in 0 .. Len(Frames) /\ d \in Nat
      /\ \A i \in 1 .. d : delivered[i] = Frames[i]
      /\ BytesFrom(next, unframed) /\ BytesFrom(next + Len(unframed), stream)
      /\ next + Len(unframed) + Len(stream) = Len(AllBytes)
  BY TransportAssumption DEF StreamInv
<1>2. /\ next \in Nat /\ Len(unframed) \in Nat /\ Len(stream) \in Nat
      /\ next + Len(unframed) \in Nat /\ Len(AllBytes) \in Nat
  <2>1. next \in Nat /\ Len(AllBytes) \in Nat
    BY <1>1, FrameStands
  <2>2. Len(unframed) \in Nat /\ Len(stream) \in Nat
    BY <1>1 DEF BytesFrom
  <2> QED
    BY <2>1, <2>2
<1>3. /\ BytesFrom(next + Len(unframed), SubSeq(stream, 1, n)) /\ Len(SubSeq(stream, 1, n)) = n
      /\ BytesFrom(next + Len(unframed) + n, rest) /\ Len(rest) = Len(stream) - n
  BY <1>1, <1>2, BytesSplit
<1>4. BytesFrom(next, bytes) /\ Len(bytes) = Len(unframed) + n
  <2> DEFINE chunk == SubSeq(stream, 1, n)
  <2>1. BytesFrom(next + Len(unframed), chunk) /\ Len(chunk) = n
    BY <1>3
  <2> HIDE DEF chunk, next
  <2>2. BytesFrom(next, unframed \o chunk) /\ Len(unframed \o chunk) = Len(unframed) + Len(chunk)
    <3>1. next \in Nat /\ BytesFrom(next, unframed)
      BY <1>1, <1>2
    <3> QED
      BY <2>1, <3>1, BytesJoin
  <2> QED
    BY <2>1, <2>2 DEF chunk
<1>5. unframed' = got.rest /\ delivered' = delivered \o got.frames /\ stream' = rest
  BY DEF Receive
<1> HIDE DEF bytes, rest
<1>6. Unpacked(d, bytes, got) /\ ~Framed(got.rest)
  BY <1>1, <1>4, ChunkUnpacks
<1> HIDE DEF got
<1>7. /\ got.frames \in Seq(Payload) /\ m \in Nat /\ d + m <= Len(Frames)
      /\ \A i \in 1 .. m : got.frames[i] = Frames[d + i]
      /\ BytesFrom(Start[d + m], got.rest)
      /\ Start[d + m] + Len(got.rest) = next + Len(bytes)
  BY <1>6 DEF Unpacked
<1> DEFINE new == got.frames
           longer == delivered \o new
<1>8. /\ longer \in Seq(Payload) /\ Len(longer) = d + m
      /\ \A i \in 1 .. d + m : longer[i] = IF i <= d THEN delivered[i] ELSE new[i - d]
  <2> HIDE DEF new, longer
  <2>1. new \in Seq(Payload) /\ m = Len(new)
    BY <1>7 DEF new
  <2> QED
    BY <1>1, <2>1, ConcatProperties DEF longer
<1> HIDE DEF longer
<1>9. ASSUME NEW i \in 1 .. d + m PROVE longer[i] = Frames[i]
  <2>1. CASE i <= d
    BY <1>1, <1>7, <1>8, <2>1
  <2>2. CASE ~(i <= d)
    <3>1. i - d \in 1 .. m /\ d + (i - d) = i
      BY <1>1, <1>7, <2>2
    <3> QED
      BY <1>7, <1>8, <2>2, <3>1
  <2> QED
    BY <2>1, <2>2
<1>10. delivered' = longer /\ Len(delivered') = d + m
  BY <1>5, <1>8 DEF longer
<1>11. /\ Start[d + m] + Len(got.rest) = next + Len(unframed) + n
       /\ Start[d + m] + Len(got.rest) + Len(rest) = Len(AllBytes)
  <2>1. Start[d + m] + Len(got.rest) = next + Len(unframed) + n
    BY <1>2, <1>4, <1>7
  <2> DEFINE p == next
             a == Len(unframed)
             b == Len(stream)
             all == Len(AllBytes)
  <2>2. /\ p \in Nat /\ a \in Nat /\ b \in Nat /\ all \in Nat /\ n \in Nat
        /\ p + a + b = all /\ Len(rest) = b - n
    BY <1>1, <1>2, <1>3
  <2> HIDE DEF p, a, b, all
  <2>3. p + a + n + Len(rest) = all
    BY <2>2
  <2> QED
    BY <2>1, <2>3 DEF p, a, all
<1>12. BytesFrom(Start[d + m] + Len(got.rest), rest)
  BY <1>3, <1>11
<1> HIDE DEF next, d, m
<1> QED
  BY <1>5, <1>6, <1>7, <1>8, <1>9, <1>10, <1>11, <1>12 DEF StreamInv

\* Nothing but a chunk changes the stream.
LEMMA StreamStays ==
  ASSUME StreamInv, UNCHANGED <<stream, unframed, delivered>>
  PROVE  StreamInv'
BY DEF StreamInv

\* What was delivered is what was sent first, and all of it when nothing is to come.
LEMMA StreamArrives ==
  ASSUME StreamInv
  PROVE  FramesArriveWhole
<1> DEFINE d == Len(delivered)
<1>1. /\ delivered \in Seq(Payload) /\ d \in 0 .. Len(Frames) /\ d \in Nat
      /\ \A i \in 1 .. d : delivered[i] = Frames[i]
      /\ BytesFrom(Start[d], unframed) /\ ~Framed(unframed)
      /\ Start[d] + Len(unframed) + Len(stream) = Len(AllBytes)
  BY TransportAssumption DEF StreamInv
<1>2. Frames \in Seq(Payload) /\ Len(Frames) \in Nat
  BY TransportAssumption DEF Payload
<1>3. IsPrefix(delivered, Frames)
  <2> DEFINE sent == SubSeq(Frames, 1, d)
             had == SubSeq(delivered, 1, d)
  <2>1. \A i \in 1 .. d : Frames[i] \in Payload /\ delivered[i] \in Payload
    <3>1. \A i \in 1 .. d : i \in 1 .. Len(Frames)
      BY <1>1, <1>2
    <3> QED
      BY <1>1, <1>2, <3>1, ElementOfSeq
  <2>2. /\ sent \in Seq(Payload) /\ Len(sent) = IF 1 <= d THEN d - 1 + 1 ELSE 0
        /\ \A i \in 1 .. d - 1 + 1 : sent[i] = Frames[1 + i - 1]
    BY <1>1, <2>1, SubSeqProperties
  <2>3. /\ had \in Seq(Payload) /\ Len(had) = IF 1 <= d THEN d - 1 + 1 ELSE 0
        /\ \A i \in 1 .. d - 1 + 1 : had[i] = delivered[1 + i - 1]
    BY <1>1, <2>1, SubSeqProperties
  <2> HIDE DEF sent, had, d
  <2>4. Len(sent) = d /\ Len(had) = d
    BY <1>1, <2>2, <2>3
  <2>5. ASSUME NEW i \in 1 .. d PROVE sent[i] = had[i]
    <3>1. i \in 1 .. d - 1 + 1 /\ 1 + i - 1 = i
      BY <1>1
    <3> QED
      BY <1>1, <2>2, <2>3, <3>1
  <2>6. sent = had
    BY <2>2, <2>3, <2>4, <2>5
  <2> QED
    BY <1>1, <2>6 DEF IsPrefix, sent, had, d
<1>4. ASSUME stream = << >> PROVE delivered = Frames
  <2>1. Len(stream) = 0
    BY <1>4
  <2>2. ASSUME d # Len(Frames) PROVE FALSE
    <3> DEFINE n == Len(Frames[d + 1])
    <3>1. /\ d + 1 \in 1 .. Len(Frames) /\ Start[d] \in Nat /\ Len(AllBytes) \in Nat
          /\ Start[d + 1] = Start[d] + 2 + n /\ Start[d + 1] <= Len(AllBytes)
      BY <1>1, <2>2, FrameStands
    <3>2. n \in Nat /\ Len(unframed) \in Nat
      BY <1>1, <3>1, BlockHasLength DEF BytesFrom
    <3> HIDE DEF n
    <3>3. Len(unframed) >= 2 + n /\ Len(unframed) >= 2
      <4> DEFINE p == Start[d]
                 q == Start[d + 1]
                 all == Len(AllBytes)
                 m == Len(unframed)
      <4>1. /\ p \in Nat /\ all \in Nat /\ m \in Nat /\ p + m + 0 = all
            /\ q = p + 2 + n /\ q <= all
        BY <1>1, <2>1, <3>1, <3>2
      <4> HIDE DEF p, q, all, m
      <4>2. m >= 2 + n /\ m >= 2
        BY <3>2, <4>1
      <4> QED
        BY <4>2 DEF m
    <3>4. unframed[1] + 256 * unframed[2] = n
      BY <1>1, <3>3, FrameIsFirst DEF n
    <3>5. unframed[1] \in Int /\ unframed[2] \in Int
      <4>1. 1 \in 1 .. Len(unframed) /\ 2 \in 1 .. Len(unframed)
        BY <3>2, <3>3
      <4>2. unframed \in Seq(0 .. 255)
        BY <1>1 DEF BytesFrom
      <4>3. unframed[1] \in 0 .. 255 /\ unframed[2] \in 0 .. 255
        BY <4>1, <4>2, ElementOfSeq
      <4> QED
        BY <4>3
    <3> DEFINE low == unframed[1]
               high == unframed[2]
    <3> HIDE DEF low, high
    <3>6. low + 256 * high = n /\ low \in Int /\ high \in Int
      BY <3>4, <3>5 DEF low, high
    <3>7. Len(unframed) >= 2 + low + 256 * high
      BY <3>2, <3>3, <3>6
    <3>8. Framed(unframed)
      BY <3>3, <3>7 DEF Framed, low, high
    <3> QED
      BY <1>1, <3>8
  <2> QED
    BY <1>1, <1>2, <2>2
<1> QED
  BY <1>1, <1>3, <1>4 DEF FramesArriveWhole

\* Nothing stale goes out on the datagrams, and nothing is torn or held back on the
\* stream, however it is cut, for any frames of up to 65535 bytes
\* (WebTransportConnection, WebSocketConnection).
THEOREM TheTransportDelivers == TransportSpec => TransportDelivers
<1>1. TransportInit => StreamInv
  <2> SUFFICES ASSUME TransportInit PROVE StreamInv
    OBVIOUS
  <2>1. stream = AllBytes /\ unframed = << >> /\ delivered = << >>
    BY DEF TransportInit, AllBytes, Blocks
  <2>2. /\ Start[0] = 0 /\ AllBytes \in Seq(0 .. 255) /\ Len(AllBytes) \in Nat
        /\ Len(Frames) \in Nat
    BY StreamIsLaidOut, TransportAssumption DEF IsLayout
  <2>3. BytesFrom(0, << >>) /\ BytesFrom(0 + Len(<< >>), AllBytes) /\ ~Framed(<< >>)
    BY <2>2 DEF BytesFrom, Framed
  <2>4. << >> \in Seq(Payload) /\ Len(<< >>) = 0 /\ 0 + 0 + Len(AllBytes) = Len(AllBytes)
    BY <2>2
  <2> QED
    BY <2>1, <2>2, <2>3, <2>4 DEF StreamInv
<1>2. StreamInv /\ [TransportNext]_transportVars => StreamInv'
  <2> SUFFICES ASSUME StreamInv, [TransportNext]_transportVars
               PROVE  StreamInv'
    OBVIOUS
  <2>1. ASSUME NEW n \in 1 .. Len(stream), Receive(n) PROVE StreamInv'
    BY <2>1, ChunkStep
  <2>2. CASE UNCHANGED <<stream, unframed, delivered>>
    BY <2>2, StreamStays
  <2> QED
    BY <2>1, <2>2 DEF TransportNext, transportVars, Connect, SendDatagram, WriterReady,
       WriteDone, WriteFails, SendFrame, Close, Congestion, UnchangedReceiver
<1>3. StreamInv => FramesArriveWhole
  BY StreamArrives
<1> QED
  BY <1>1, <1>2, <1>3, TheFreshestGoesOut, PTL DEF TransportSpec, TransportDelivers

-----------------------------------------------------------------------------
(***************************************************************************)
(* SnapshotWire: what is read is what was written, for every record there  *)
(* can be, in every encoding.                                              *)
(***************************************************************************)

\* The weights of the groups of a varint.
LEMMA Weights ==
  /\ Weight[1] = 1 /\ Weight[2] = 128 /\ Weight[3] = 16384 /\ Weight[4] = 2097152
  /\ Weight[5] = 268435456
BY DEF Weight

\* The bytes of a varint are as many as it needs (uint32VarintBytes).
LEMMA VarintLength ==
  ASSUME NEW n \in Nat
  PROVE  /\ uint32VarintBytes(n) \in 1 .. 5
         /\ uint32VarintBytes(n) = 1 \/ n >= Weight[uint32VarintBytes(n)]
         /\ uint32VarintBytes(n) = 5 \/ n < Weight[uint32VarintBytes(n) + 1]
<1> DEFINE Takes(k) == (k = 1 \/ n >= Weight[k]) /\ (k = 5 \/ n < Weight[k + 1])
<1>1. /\ 1 \in 1 .. 5 /\ 2 \in 1 .. 5 /\ 3 \in 1 .. 5 /\ 4 \in 1 .. 5 /\ 5 \in 1 .. 5
      /\ 1 + 1 = 2 /\ 2 + 1 = 3 /\ 3 + 1 = 4 /\ 4 + 1 = 5
  OBVIOUS
<1>2. \E k \in 1 .. 5 : Takes(k)
  <2>1. CASE n < 128
    BY <1>1, <2>1, Weights
  <2>2. CASE n >= 128 /\ n < 16384
    BY <1>1, <2>2, Weights
  <2>3. CASE n >= 16384 /\ n < 2097152
    BY <1>1, <2>3, Weights
  <2>4. CASE n >= 2097152 /\ n < 268435456
    BY <1>1, <2>4, Weights
  <2>5. CASE n >= 268435456
    BY <1>1, <2>5, Weights
  <2> QED
    BY <2>1, <2>2, <2>3, <2>4, <2>5
<1>3. uint32VarintBytes(n) = CHOOSE k \in 1 .. 5 : Takes(k)
  BY DEF uint32VarintBytes
<1> QED
  BY <1>2, <1>3

\* A group of seven bits (writeUint32Varint).
Group(n, i) == (n \div Weight[i]) % 128

\* The groups of seven bits of a number are the number (writeUint32Varint).
LEMMA GroupsAreNumber ==
  ASSUME NEW n \in NetId
  PROVE  /\ \A i \in 1 .. 5 : Group(n, i) \in 0 .. 127
         /\ Group(n, 5) <= 15
         /\ n = Group(n, 1) * Weight[1] + Group(n, 2) * Weight[2] + Group(n, 3) * Weight[3]
                  + Group(n, 4) * Weight[4] + Group(n, 5) * Weight[5]
         /\ \A i, j \in 1 .. 5 : n < Weight[j] /\ i >= j => Group(n, i) = 0
<1> DEFINE a == n \div 128
           b == n \div 16384
           c == n \div 2097152
           d == n \div 268435456
           h == n \div 65536
<1>1. n \in Nat /\ h \in Nat /\ n < 65536 * h + 65536 /\ h <= 65535
  <2>1. n \in Nat /\ h \in Short
    BY DEF NetId
  <2>2. h \in Nat /\ n < 65536 * h + 65536
    BY <2>1, SMT
  <2>3. h <= 65535
    BY <2>1, SMT DEF Short
  <2> QED
    BY <2>1, <2>2, <2>3
<1>2. /\ a \in Nat /\ 128 * a <= n /\ n < 128 * a + 128
      /\ b \in Nat /\ 16384 * b <= n /\ n < 16384 * b + 16384
      /\ c \in Nat /\ 2097152 * c <= n /\ n < 2097152 * c + 2097152
      /\ d \in Nat /\ 268435456 * d <= n /\ n < 268435456 * d + 268435456
  BY <1>1, SMT
<1>3. n \div 1 = n /\ n % 128 = n - 128 * a
  BY <1>1, SMT
<1>4. /\ Group(n, 1) = n % 128 /\ Group(n, 2) = a % 128 /\ Group(n, 3) = b % 128
      /\ Group(n, 4) = c % 128 /\ Group(n, 5) = d % 128
  BY <1>3, Weights, SMT DEF Group
<1> HIDE DEF a, b, c, d, h
<1>5. a % 128 = a - 128 * b
  BY <1>1, <1>2, SMT
<1>6. b % 128 = b - 128 * c
  BY <1>1, <1>2, SMT
<1>7. c % 128 = c - 128 * d
  BY <1>1, <1>2, SMT
<1>8. d <= 15 /\ d % 128 = d
  <2>1. d <= 15
    BY <1>1, <1>2, SMT
  <2> QED
    BY <1>2, <2>1, SMT
<1>9. /\ Group(n, 1) \in 0 .. 127 /\ Group(n, 2) \in 0 .. 127 /\ Group(n, 3) \in 0 .. 127
      /\ Group(n, 4) \in 0 .. 127 /\ Group(n, 5) \in 0 .. 127
  BY <1>1, <1>2, <1>3, <1>4, <1>5, <1>6, <1>7, <1>8, SMT
<1>10. Group(n, 5) <= 15
  BY <1>2, <1>4, <1>8, SMT
<1>11. n = Group(n, 1) * Weight[1] + Group(n, 2) * Weight[2] + Group(n, 3) * Weight[3]
             + Group(n, 4) * Weight[4] + Group(n, 5) * Weight[5]
  <2>1. /\ Group(n, 1) = n - 128 * a /\ Group(n, 2) = a - 128 * b
        /\ Group(n, 3) = b - 128 * c /\ Group(n, 4) = c - 128 * d /\ Group(n, 5) = d
    BY <1>3, <1>4, <1>5, <1>6, <1>7, <1>8
  <2>2. /\ Group(n, 1) * Weight[1] = n - 128 * a
        /\ Group(n, 2) * Weight[2] = 128 * a - 16384 * b
        /\ Group(n, 3) * Weight[3] = 16384 * b - 2097152 * c
        /\ Group(n, 4) * Weight[4] = 2097152 * c - 268435456 * d
        /\ Group(n, 5) * Weight[5] = 268435456 * d
    BY <1>1, <1>2, <2>1, Weights, SMT
  <2> QED
    BY <1>1, <1>2, <2>2, SMT
<1>12. /\ n < 268435456 => d = 0
       /\ n < 2097152 => d = 0 /\ c = 0
       /\ n < 16384 => d = 0 /\ c = 0 /\ b = 0
       /\ n < 128 => d = 0 /\ c = 0 /\ b = 0 /\ a = 0
       /\ n < 1 => d = 0 /\ c = 0 /\ b = 0 /\ a = 0 /\ n = 0
  BY <1>1, <1>2, SMT
<1>13. 0 % 128 = 0
  BY SMT
<1>14. ASSUME NEW i \in 1 .. 5, NEW j \in 1 .. 5, n < Weight[j], i >= j
       PROVE  Group(n, i) = 0
  <2>1. CASE j = 1
    BY <1>4, <1>12, <1>13, <1>14, <2>1, Weights, SMT
  <2>2. CASE j = 2
    BY <1>4, <1>12, <1>13, <1>14, <2>2, Weights, SMT
  <2>3. CASE j = 3
    BY <1>4, <1>12, <1>13, <1>14, <2>3, Weights, SMT
  <2>4. CASE j = 4
    BY <1>4, <1>12, <1>13, <1>14, <2>4, Weights, SMT
  <2>5. CASE j = 5
    BY <1>4, <1>12, <1>13, <1>14, <2>5, Weights, SMT
  <2> QED
    BY <2>1, <2>2, <2>3, <2>4, <2>5
<1>15. \A i \in 1 .. 5 : Group(n, i) \in 0 .. 127
  BY <1>9, SMT
<1> QED
  BY <1>10, <1>11, <1>14, <1>15, Zenon

\* These bytes stand there.
Holds(bytes, at, part) ==
  /\ at + Len(part) <= Len(bytes)
  /\ \A i \in 1 .. Len(part) : bytes[at + i] = part[i]

\* Bytes after bytes.
LEMMA ConcatBytes ==
  ASSUME NEW p \in Seq(Byte), NEW q \in Seq(Byte)
  PROVE  p \o q \in Seq(Byte) /\ Len(p \o q) = Len(p) + Len(q)
BY ConcatProperties

\* What stands there, stands there piece by piece.
LEMMA HoldsBoth ==
  ASSUME NEW bytes, NEW at \in Nat, NEW p \in Seq(Byte), NEW q \in Seq(Byte),
         Len(bytes) \in Nat, Holds(bytes, at, p \o q)
  PROVE  /\ Holds(bytes, at, p) /\ Holds(bytes, at + Len(p), q)
         /\ at + Len(p) \in Nat
<1>1. /\ Len(p) \in Nat /\ Len(q) \in Nat /\ Len(p \o q) = Len(p) + Len(q)
      /\ \A i \in 1 .. Len(p) + Len(q) :
           (p \o q)[i] = IF i <= Len(p) THEN p[i] ELSE q[i - Len(p)]
  BY ConcatProperties, LenProperties
<1>2. Holds(bytes, at, p)
  <2>1. /\ at + (Len(p) + Len(q)) <= Len(bytes)
        /\ \A i \in 1 .. Len(p) + Len(q) : bytes[at + i] = (p \o q)[i]
    BY <1>1 DEF Holds
  <2>2. at + Len(p) <= Len(bytes)
    BY <1>1, <2>1
  <2>3. ASSUME NEW i \in 1 .. Len(p)
        PROVE  bytes[at + i] = p[i]
    <3>1. i \in 1 .. Len(p) + Len(q) /\ i <= Len(p)
      BY <1>1
    <3> QED
      BY <1>1, <2>1, <3>1
  <2> QED
    BY <2>2, <2>3 DEF Holds
<1>3. ASSUME NEW i \in 1 .. Len(q)
      PROVE  bytes[at + Len(p) + i] = q[i]
  <2>1. Len(p) + i \in 1 .. Len(p) + Len(q) /\ ~(Len(p) + i <= Len(p)) /\ Len(p) + i - Len(p) = i
        /\ at + (Len(p) + i) = at + Len(p) + i
    BY <1>1
  <2>2. bytes[at + (Len(p) + i)] = (p \o q)[Len(p) + i]
    BY <1>1, <2>1 DEF Holds
  <2> QED
    BY <1>1, <2>1, <2>2
<1>4. at + Len(p) + Len(q) <= Len(bytes)
  BY <1>1 DEF Holds
<1> QED
  BY <1>1, <1>2, <1>3, <1>4 DEF Holds

\* What was put last stands at the end.
LEMMA HoldsLast ==
  ASSUME NEW p \in Seq(Byte), NEW q \in Seq(Byte)
  PROVE  Holds(p \o q, Len(p), q)
<1>1. /\ Len(p) \in Nat /\ Len(q) \in Nat /\ Len(p \o q) = Len(p) + Len(q)
      /\ \A i \in 1 .. Len(p) + Len(q) :
           (p \o q)[i] = IF i <= Len(p) THEN p[i] ELSE q[i - Len(p)]
  BY ConcatProperties, LenProperties
<1>2. ASSUME NEW i \in 1 .. Len(q)
      PROVE  (p \o q)[Len(p) + i] = q[i]
  <2>1. Len(p) + i \in 1 .. Len(p) + Len(q) /\ ~(Len(p) + i <= Len(p)) /\ Len(p) + i - Len(p) = i
    BY <1>1
  <2> QED
    BY <1>1, <2>1
<1> QED
  BY <1>1, <1>2 DEF Holds

\* The halves of a word.
LEMMA Halves ==
  ASSUME NEW n \in Short
  PROVE  /\ n % 256 \in Byte /\ n \div 256 \in Byte
         /\ n = (n % 256) + 256 * (n \div 256)
         /\ (n \div 256) % 256 = n \div 256
<1>1. n \in Nat /\ n <= 65535
  BY DEF Short
<1> DEFINE q == n \div 256
<1>2. q \in Nat /\ 256 * q <= n /\ n < 256 * q + 256 /\ n % 256 = n - 256 * q
  BY <1>1
<1> HIDE DEF q
<1>3. q <= 255
  BY <1>1, <1>2
<1>4. q % 256 = q
  BY <1>2, <1>3
<1>5. n - 256 * q \in 0 .. 255 /\ q \in 0 .. 255
  BY <1>1, <1>2, <1>3
<1>6. n = (n - 256 * q) + 256 * q
  BY <1>1, <1>2
<1> QED
  BY <1>2, <1>4, <1>5, <1>6 DEF q, Byte

\* Two bytes are a sequence of them.
LEMMA TwoBytes ==
  ASSUME NEW a \in Byte, NEW b \in Byte
  PROVE  /\ <<a, b>> \in Seq(Byte) /\ Len(<<a, b>>) = 2
         /\ <<a, b>>[1] = a /\ <<a, b>>[2] = b
OBVIOUS

\* A word has two bytes (Uint16).
LEMMA WordIsWritten ==
  ASSUME NEW n \in Short
  PROVE  /\ Uint16(n) \in Seq(Byte) /\ Len(Uint16(n)) = 2
         /\ Uint16(n)[1] = n % 256 /\ Uint16(n)[2] = n \div 256
<1>1. Uint16(n) = <<n % 256, n \div 256>>
  BY Halves DEF Uint16
<1> QED
  BY <1>1, Halves, TwoBytes

\* A word is read as it was written (readUint16 of the reader).
LEMMA WordIsRead ==
  ASSUME NEW n \in Short, NEW bytes, NEW at, Holds(bytes, at, Uint16(n))
  PROVE  Word(bytes, at) = n /\ requireBytes(bytes, at, 2)
<1> DEFINE q == n \div 256
           m == n % 256
<1>1. Uint16(n)[1] = m /\ Uint16(n)[2] = q /\ Len(Uint16(n)) = 2 /\ n = m + 256 * q
  BY WordIsWritten, Halves
<1> HIDE DEF q, m
<1>2. bytes[at + 1] = m /\ bytes[at + 2] = q /\ at + 2 <= Len(bytes)
  BY <1>1 DEF Holds
<1> QED
  BY <1>1, <1>2 DEF Word, requireBytes

\* A varint is as long as it needs to be, and a sequence of bytes (writeUint32Varint).
LEMMA VarintIsWritten ==
  ASSUME NEW n \in NetId
  PROVE  /\ n \in Nat
         /\ writeUint32Varint(n) \in Seq(Byte)
         /\ Len(writeUint32Varint(n)) = uint32VarintBytes(n)
         /\ \A i \in 1 .. uint32VarintBytes(n) :
              writeUint32Varint(n)[i] = Group(n, i) + IF i < uint32VarintBytes(n) THEN 128 ELSE 0
<1> DEFINE k == uint32VarintBytes(n)
<1>0. n \in Nat
  BY DEF NetId
<1>1. k \in 1 .. 5
  BY <1>0, VarintLength
<1>2. \A i \in 1 .. 5 : Group(n, i) \in 0 .. 127
  BY GroupsAreNumber
<1>3. writeUint32Varint(n) = [i \in 1 .. k |-> Group(n, i) + IF i < k THEN 128 ELSE 0]
  BY DEF writeUint32Varint, Group
<1> HIDE DEF k
<1>4. ASSUME NEW i \in 1 .. k
      PROVE  (Group(n, i) + IF i < k THEN 128 ELSE 0) \in Byte
  <2>1. i \in 1 .. 5
    BY <1>1
  <2> QED
    BY <1>2, <2>1 DEF Byte
<1>5. writeUint32Varint(n) \in [1 .. k -> Byte]
  BY <1>3, <1>4
<1>6. writeUint32Varint(n) \in Seq(Byte) /\ Len(writeUint32Varint(n)) = k
  BY <1>1, <1>3, <1>5
<1>7. \A i \in 1 .. k : writeUint32Varint(n)[i] = Group(n, i) + IF i < k THEN 128 ELSE 0
  BY <1>3
<1> QED
  BY <1>0, <1>6, <1>7 DEF k

\* The groups that are not written are zero.
LEMMA GroupsAreWritten ==
  ASSUME NEW n \in NetId, NEW i \in 1 .. 5, i > uint32VarintBytes(n)
  PROVE  Group(n, i) = 0
<1> DEFINE k == uint32VarintBytes(n)
<1>1. \A a, b \in 1 .. 5 : n < Weight[b] /\ a >= b => Group(n, a) = 0
  BY GroupsAreNumber
<1>2. k \in 1 .. 5 /\ (k = 5 \/ n < Weight[k + 1]) /\ i > k
  BY VarintLength, VarintIsWritten
<1> HIDE DEF k
<1>3. k + 1 \in 1 .. 5 /\ n < Weight[k + 1] /\ i >= k + 1
  BY <1>2
<1> QED
  BY <1>1, <1>3

\* A varint is read as it was written, and by no more bytes (readUint32Varint).
LEMMA VarintIsRead ==
  ASSUME NEW n \in NetId, NEW bytes, NEW at \in Nat,
         Len(bytes) \in Nat, Holds(bytes, at, writeUint32Varint(n))
  PROVE  readUint32Varint(bytes, at) = [bytes |-> uint32VarintBytes(n), value |-> n]
<1> DEFINE k == uint32VarintBytes(n)
           ends == {i \in 1 .. 5 : requireBytes(bytes, at, i) /\ bytes[at + i] < 128}
           least == CHOOSE i \in ends : \A m \in ends : i <= m
           part(i) == IF i <= least THEN (bytes[at + i] % 128) * Weight[i] ELSE 0
           value == part(1) + part(2) + part(3) + part(4) + part(5)
<1>1. k \in 1 .. 5
  BY VarintLength, VarintIsWritten
<1>2. \A i \in 1 .. 5 : Group(n, i) \in 0 .. 127
  BY GroupsAreNumber
<1>3. \A i \in 1 .. 5 : i > k => Group(n, i) = 0
  BY GroupsAreWritten
<1>4. /\ at + k <= Len(bytes)
      /\ \A i \in 1 .. k : bytes[at + i] = Group(n, i) + IF i < k THEN 128 ELSE 0
  BY VarintIsWritten DEF Holds
<1> HIDE DEF k
<1>5. ASSUME NEW i \in 1 .. k
      PROVE  bytes[at + i] % 128 = Group(n, i) /\ (i < k => ~(bytes[at + i] < 128))
  <2>0. i \in 1 .. 5
    BY <1>1
  <2>1. Group(n, i) \in 0 .. 127
    BY <1>2, <2>0
  <2> DEFINE g == Group(n, i)
             byte == bytes[at + i]
  <2>2. byte = g + IF i < k THEN 128 ELSE 0
    BY <1>4
  <2>3. g \in 0 .. 127
    BY <2>1
  <2> HIDE DEF g, byte
  <2>4. i < k => byte = g + 128
    BY <2>2
  <2>5. ~(i < k) => byte = g + 0
    BY <2>2
  <2>6. byte % 128 = g
    BY <2>3, <2>4, <2>5
  <2>7. i < k => ~(byte < 128)
    BY <2>3, <2>4
  <2> QED
    BY <2>6, <2>7 DEF g, byte
<1>6. bytes[at + k] = Group(n, k) /\ bytes[at + k] < 128
  <2>1. k \in 1 .. k /\ ~(k < k)
    BY <1>1
  <2>2. Group(n, k) \in 0 .. 127
    BY <1>1, <1>2
  <2> DEFINE g == Group(n, k)
             byte == bytes[at + k]
  <2>3. byte = g + 0
    BY <1>4, <2>1
  <2>4. g \in 0 .. 127
    BY <2>2
  <2> HIDE DEF g, byte
  <2>5. byte = g /\ byte < 128
    BY <2>3, <2>4
  <2> QED
    BY <2>5 DEF g, byte
<1>7. k \in ends /\ \A i \in ends : k <= i
  <2>1. k \in ends
    BY <1>1, <1>4, <1>6 DEF requireBytes
  <2>2. ASSUME NEW i \in ends, ~(k <= i)
        PROVE  FALSE
    <3>1. i \in 1 .. k /\ i < k /\ bytes[at + i] < 128
      BY <1>1, <2>2
    <3> QED
      BY <1>5, <3>1
  <2> QED
    BY <2>1, <2>2
<1>8. ends # {} /\ least = k
  <2>1. \A i \in ends : i \in Nat
    OBVIOUS
  <2> HIDE DEF ends
  <2>2. least \in ends /\ \A m \in ends : least <= m
    BY <1>7
  <2>3. least <= k /\ k <= least /\ least \in Nat /\ k \in Nat
    BY <1>7, <2>1, <2>2
  <2> QED
    BY <1>7, <2>3
<1> HIDE DEF ends, least
<1>9. \A i \in 1 .. 5 : part(i) = Group(n, i) * Weight[i]
  <2>1. ASSUME NEW i \in 1 .. 5, i <= k
        PROVE  part(i) = Group(n, i) * Weight[i]
    <3>1. i \in 1 .. k
      BY <1>1, <2>1
    <3> QED
      BY <1>5, <1>8, <2>1, <3>1
  <2>2. ASSUME NEW i \in 1 .. 5, ~(i <= k)
        PROVE  part(i) = Group(n, i) * Weight[i]
    <3>1. Group(n, i) = 0
      BY <1>1, <1>3, <2>2
    <3>2. Weight[i] \in Nat
      BY Weights, SMT
    <3>3. part(i) = 0
      BY <1>8, <2>2
    <3> QED
      BY <3>1, <3>2, <3>3
  <2> QED
    BY <2>1, <2>2
<1> HIDE DEF part
<1>10. n = Group(n, 1) * Weight[1] + Group(n, 2) * Weight[2] + Group(n, 3) * Weight[3]
             + Group(n, 4) * Weight[4] + Group(n, 5) * Weight[5]
  BY GroupsAreNumber
<1>11. value = n
  <2>1. /\ part(1) = Group(n, 1) * Weight[1] /\ part(2) = Group(n, 2) * Weight[2]
        /\ part(3) = Group(n, 3) * Weight[3] /\ part(4) = Group(n, 4) * Weight[4]
        /\ part(5) = Group(n, 5) * Weight[5]
    BY <1>9
  <2> QED
    BY <1>10, <2>1, Zenon
<1>12. ~(k = 5 /\ bytes[at + 5] > 15)
  <2>1. Group(n, 5) <= 15
    BY GroupsAreNumber
  <2>0. 5 \in 1 .. 5
    OBVIOUS
  <2>2. Group(n, 5) \in 0 .. 127
    BY <1>2, <2>0, Zenon
  <2> DEFINE g == Group(n, 5)
  <2>4. g <= 15 /\ g \in 0 .. 127
    BY <2>1, <2>2
  <2> HIDE DEF g
  <2>5. ~(g > 15)
    BY <2>4
  <2>3. ~(Group(n, 5) > 15)
    BY <2>5 DEF g
  <2> QED
    BY <1>6, <2>3, Zenon
<1> HIDE DEF value
<1>13. readUint32Varint(bytes, at) =
         IF ends = {} THEN [bytes |-> 0, value |-> 0]
         ELSE IF (least = 5 /\ bytes[at + 5] > 15) \/ uint32VarintBytes(value) # least
         THEN [bytes |-> 0, value |-> 0]
         ELSE [bytes |-> least, value |-> value]
  BY DEF readUint32Varint, ends, least, part, value
<1>14. readUint32Varint(bytes, at) = [bytes |-> k, value |-> n]
  BY <1>8, <1>11, <1>12, <1>13 DEF k
<1> QED
  BY <1>14 DEF k

\* One byte is written and read.
LEMMA ByteIsRead ==
  ASSUME NEW b \in Byte, NEW bytes, NEW at, Holds(bytes, at, <<b>>)
  PROVE  bytes[at + 1] = b /\ requireBytes(bytes, at, 1)
<1>1. Len(<<b>>) = 1 /\ <<b>>[1] = b
  OBVIOUS
<1>2. 1 \in 1 .. 1
  OBVIOUS
<1> QED
  BY <1>1, <1>2 DEF Holds, requireBytes

\* A byte is a part of its own.
LEMMA OneByte ==
  ASSUME NEW b \in Byte
  PROVE  <<b>> \in Seq(Byte) /\ Len(<<b>>) = 1
OBVIOUS

\* The numbers of two bytes.
LEMMA ShortIs ==
  ASSUME NEW n \in Nat, n <= 65535
  PROVE  n \in Short
BY SMT DEF Short

\* Four bytes are two words (Uint32).
LEMMA LongIsWritten ==
  ASSUME NEW n \in NetId
  PROVE  /\ n % 65536 \in Short /\ n \div 65536 \in Short
         /\ n = (n % 65536) + 65536 * (n \div 65536)
         /\ Uint32(n) \in Seq(Byte) /\ Len(Uint32(n)) = 4
<1> DEFINE low == n % 65536
           high == n \div 65536
<1>1. n \in Nat /\ high \in Short
  BY DEF NetId
<1>0. low = n - 65536 * high /\ 65536 * high <= n /\ n < 65536 * high + 65536 /\ high \in Nat
  BY <1>1, SMT
<1> HIDE DEF low, high
<1>2. low \in Short /\ n = low + 65536 * high
  <2>0. n - 65536 * high \in Nat /\ n - 65536 * high <= 65535
    BY <1>0, <1>1, SMT
  <2>1. low \in Short
    BY <1>0, <2>0, ShortIs
  <2>2. n = low + 65536 * high
    BY <1>0, <1>1, SMT
  <2> QED
    BY <2>1, <2>2
<1> USE DEF low, high
<1>3. Uint32(n) = Uint16(low) \o Uint16(high)
  BY DEF Uint32
<1> HIDE DEF low, high
<1>4. /\ Uint16(low) \in Seq(Byte) /\ Len(Uint16(low)) = 2
      /\ Uint16(high) \in Seq(Byte) /\ Len(Uint16(high)) = 2
  BY <1>1, <1>2, WordIsWritten
<1> DEFINE u == Uint16(low)
           v == Uint16(high)
<1> HIDE DEF u, v
<1>6. u \in Seq(Byte) /\ Len(u) = 2 /\ v \in Seq(Byte) /\ Len(v) = 2
  BY <1>4 DEF u, v
<1>7. u \o v \in Seq(Byte) /\ Len(u \o v) = Len(u) + Len(v)
  BY <1>6, ConcatProperties
<1>5. Uint32(n) \in Seq(Byte) /\ Len(Uint32(n)) = 4
  BY <1>3, <1>6, <1>7 DEF u, v
<1> QED
  BY <1>1, <1>2, <1>5 DEF low, high

\* The two words are read (readUint32).
LEMMA LongIsRead ==
  ASSUME NEW n \in NetId, NEW bytes, NEW at \in Nat, Len(bytes) \in Nat,
         Holds(bytes, at, Uint32(n))
  PROVE  Word(bytes, at) + 65536 * Word(bytes, at + 2) = n
<1> DEFINE low == n % 65536
           high == n \div 65536
<1>1. low \in Short /\ high \in Short /\ n = low + 65536 * high
  BY LongIsWritten
<1>2. Uint32(n) = Uint16(low) \o Uint16(high)
  BY DEF Uint32
<1> HIDE DEF low, high
<1>3. /\ Uint16(low) \in Seq(Byte) /\ Len(Uint16(low)) = 2
      /\ Uint16(high) \in Seq(Byte) /\ Len(Uint16(high)) = 2
  BY <1>1, WordIsWritten
<1>4. Holds(bytes, at, Uint16(low)) /\ Holds(bytes, at + 2, Uint16(high))
  <2> DEFINE p == Uint16(low)
             q == Uint16(high)
  <2>1. p \in Seq(Byte) /\ q \in Seq(Byte) /\ Len(p) = 2 /\ Holds(bytes, at, p \o q)
    BY <1>2, <1>3
  <2> HIDE DEF p, q
  <2>2. Holds(bytes, at, p) /\ Holds(bytes, at + Len(p), q)
    BY <2>1, HoldsBoth
  <2> QED
    BY <2>1, <2>2 DEF p, q
<1>5. Word(bytes, at) = low /\ Word(bytes, at + 2) = high
  BY <1>1, <1>4, WordIsRead
<1> QED
  BY <1>1, <1>5

\* The bits of a mask are read one by one (On).
LEMMA BitsAreRead ==
  ASSUME NEW p \in {0, 1}, NEW f \in {0, 2}, NEW v \in {0, 4}, NEW a \in {0, 8},
         NEW w \in {0, 16}, NEW l \in {0, 32}
  PROVE  LET bits == p + f + v + a + w + l
         IN /\ bits \in 0 .. 63
            /\ On(bits, 1) <=> p = 1
            /\ On(bits, 2) <=> f = 2
            /\ On(bits, 4) <=> v = 4
            /\ On(bits, 8) <=> a = 8
            /\ On(bits, 16) <=> w = 16
            /\ On(bits, 32) <=> l = 32
            /\ ~On(bits, 128)
            /\ p = 1 => bits # 32
<1> DEFINE bits == p + f + v + a + w + l
<1>2. bits \in 0 .. 63 /\ (p = 1 => bits # 32)
  OBVIOUS
<1>3. On(bits, 1) <=> p = 1
  BY SMT DEF On
<1>4. On(bits, 2) <=> f = 2
  BY SMT DEF On
<1>5. On(bits, 4) <=> v = 4
  BY SMT DEF On
<1>6. On(bits, 8) <=> a = 8
  BY SMT DEF On
<1>7. On(bits, 16) <=> w = 16
  BY SMT DEF On
<1>8. On(bits, 32) <=> l = 32
  BY SMT DEF On
<1>9. ~On(bits, 128)
  BY SMT DEF On
<1> QED
  BY <1>2, <1>3, <1>4, <1>5, <1>6, <1>7, <1>8, <1>9

\* The bits of the header that is written for a record (snapshotWireMask, packedWireMask).
HeaderBits(r, e, form) ==
  IF usesPackedRecordHeader(e) THEN MaskCode(r, e, form)
  ELSE LowBits(r, e, form) + Bit(r, "removed", 128)

\* What the mask of a removed record is, and of any other.
LEMMA MaskOfRecord ==
  ASSUME NEW r, IsRecord(r)
  PROVE  /\ "removed" \in Mask(r) => Mask(r) = {"removed"} /\ r.fields = Removed
         /\ "removed" \notin Mask(r) =>
              Mask(r) \subseteq {"position", "facing", "vitals", "action"}
         /\ r.id \in NetId
<1>1. DOMAIN Removed = {"removed"}
  BY DEF Removed
<1> QED
  BY <1>1 DEF IsRecord, Mask

\* The forms of a position (positionWireEncoding).
LEMMA FormOfRecord ==
  ASSUME NEW r, NEW e, NEW prev
  PROVE  /\ Form(r, e, prev) \in {"none", "local", "compact", "exact"}
         /\ Form(r, e, prev) = "none" <=> "position" \notin Mask(r)
         /\ Form(r, e, prev) = "local" => UsesLocalPosition(e) /\ prev # None
         /\ Form(r, e, prev) \in {"local", "compact"} =>
              usesCompactPosition(e) /\ positionIsCompact(r.fields["position"])
BY DEF Form

\* The bits of a removed record's header.
LEMMA BitsOfRemoved ==
  ASSUME NEW r, IsRecord(r), "removed" \in Mask(r), NEW e, NEW prev
  PROVE  HeaderBits(r, e, Form(r, e, prev)) = IF usesPackedRecordHeader(e) THEN 32 ELSE 128
<1>1. Mask(r) = {"removed"}
  BY MaskOfRecord
<1>2. Form(r, e, prev) = "none"
  BY <1>1, FormOfRecord
<1>3. LowBits(r, e, "none") = 0
  BY <1>1 DEF LowBits, Bit
<1> QED
  BY <1>1, <1>2, <1>3 DEF HeaderBits, MaskCode, Bit

\* The bits of any other record's header.
LEMMA BitsOfFields ==
  ASSUME NEW r, IsRecord(r), "removed" \notin Mask(r), NEW e, NEW form
  PROVE  HeaderBits(r, e, form) =
           Bit(r, "position", 1) + Bit(r, "facing", 2) + Bit(r, "vitals", 4)
             + Bit(r, "action", 8) + (IF usesCompactPosition(e) /\ form = "exact" THEN 16 ELSE 0)
             + (IF usesPackedRecordHeader(e) /\ form = "local" THEN 32 ELSE 0)
<1> DEFINE p == Bit(r, "position", 1)
           f == Bit(r, "facing", 2)
           v == Bit(r, "vitals", 4)
           a == Bit(r, "action", 8)
           w == IF usesCompactPosition(e) /\ form = "exact" THEN 16 ELSE 0
           low == LowBits(r, e, form)
<1>1. p \in Nat /\ f \in Nat /\ v \in Nat /\ a \in Nat /\ w \in Nat
  BY DEF Bit
<1>2. low = p + f + v + a + w
  BY DEF LowBits
<1>3. HeaderBits(r, e, form) =
        low + IF usesPackedRecordHeader(e) /\ form = "local" THEN 32 ELSE 0
  <2>1. Bit(r, "removed", 128) = 0
    BY DEF Bit
  <2>2. low \in Nat
    BY <1>1, <1>2
  <2> QED
    BY <2>1, <2>2 DEF HeaderBits, MaskCode
<1> HIDE DEF p, f, v, a, w, low
<1> QED
  BY <1>1, <1>2, <1>3 DEF p, f, v, a, w

\* The mask of a removed record, as it is read.
LEMMA RemovedIsRead ==
  ASSUME NEW e \in Encodings, NEW bits,
         bits = IF usesPackedRecordHeader(e) THEN 32 ELSE 128
  PROVE  /\ Expand(bits, e).removed /\ ~Expand(bits, e).local
         /\ Expand(bits, e).fields = {} /\ Expand(bits, e).ok
<1>1. /\ On(32, 32) /\ ~On(32, 16) /\ On(128, 128) /\ ~On(128, 16) /\ ~On(128, 32)
  BY SMT DEF On
<1>2. e \in 0 .. 7 /\ (UsesLocalPosition(e) => usesPackedRecordHeader(e))
  BY DEF Encodings, UsesLocalPosition, usesPackedRecordHeader
<1> DEFINE local == UsesLocalPosition(e) /\ On(bits, 32) /\ bits # 32
           removed == IF usesPackedRecordHeader(e) THEN On(bits, 32) /\ ~local ELSE On(bits, 128)
           wide == On(bits, 16)
<1>3. ~local /\ removed /\ ~wide
  <2>1. CASE usesPackedRecordHeader(e)
    <3>1. bits = 32
      BY <2>1
    <3> QED
      BY <1>1, <2>1, <3>1
  <2>2. CASE ~usesPackedRecordHeader(e)
    <3>1. bits = 128
      BY <2>2
    <3> QED
      BY <1>1, <1>2, <2>2, <3>1
  <2> QED
    BY <2>1, <2>2
<1>4. Expand(bits, e) =
        [local |-> local, removed |-> removed, wide |-> wide,
         fields |-> IF removed THEN {} ELSE FieldsOf(bits),
         ok |-> /\ wide => usesCompactPosition(e) /\ On(bits, 1)
                /\ local => On(bits, 1) /\ ~wide]
  BY DEF Expand
<1> HIDE DEF local, removed, wide
<1> QED
  BY <1>3, <1>4

\* The mask of any other record, as it is read (expandPackedWireMask).
LEMMA FieldsAreRead ==
  ASSUME NEW r, IsRecord(r), "removed" \notin Mask(r), NEW e \in Encodings, NEW prev
  PROVE  LET mask == Expand(HeaderBits(r, e, Form(r, e, prev)), e)
         IN /\ ~mask.removed /\ mask.ok /\ mask.fields = Mask(r)
            /\ mask.local <=> Form(r, e, prev) = "local"
            /\ mask.wide <=> usesCompactPosition(e) /\ Form(r, e, prev) = "exact"
<1> DEFINE form == Form(r, e, prev)
           bits == HeaderBits(r, e, form)
           p == Bit(r, "position", 1)
           f == Bit(r, "facing", 2)
           v == Bit(r, "vitals", 4)
           a == Bit(r, "action", 8)
           w == IF usesCompactPosition(e) /\ form = "exact" THEN 16 ELSE 0
           l == IF usesPackedRecordHeader(e) /\ form = "local" THEN 32 ELSE 0
           local == UsesLocalPosition(e) /\ On(bits, 32) /\ bits # 32
           removed == IF usesPackedRecordHeader(e) THEN On(bits, 32) /\ ~local ELSE On(bits, 128)
           wide == On(bits, 16)
<1>1. /\ Mask(r) \subseteq {"position", "facing", "vitals", "action"}
      /\ form = "none" <=> "position" \notin Mask(r)
      /\ form = "local" => UsesLocalPosition(e)
  BY MaskOfRecord, FormOfRecord
<1>2. e \in 0 .. 7 /\ (UsesLocalPosition(e) => usesPackedRecordHeader(e))
  BY DEF Encodings, UsesLocalPosition, usesPackedRecordHeader
<1>3. bits = p + f + v + a + w + l
  BY BitsOfFields
<1>4. /\ p \in {0, 1} /\ f \in {0, 2} /\ v \in {0, 4} /\ a \in {0, 8} /\ w \in {0, 16}
      /\ l \in {0, 32}
      /\ p = 1 <=> "position" \in Mask(r)
      /\ f = 2 <=> "facing" \in Mask(r)
      /\ v = 4 <=> "vitals" \in Mask(r)
      /\ a = 8 <=> "action" \in Mask(r)
      /\ w = 16 <=> usesCompactPosition(e) /\ form = "exact"
      /\ l = 32 <=> usesPackedRecordHeader(e) /\ form = "local"
  BY DEF Bit
<1> HIDE DEF p, f, v, a, w, l, bits
<1>5. /\ On(bits, 1) <=> p = 1
      /\ On(bits, 2) <=> f = 2
      /\ On(bits, 4) <=> v = 4
      /\ On(bits, 8) <=> a = 8
      /\ On(bits, 16) <=> w = 16
      /\ On(bits, 32) <=> l = 32
      /\ ~On(bits, 128)
      /\ p = 1 => bits # 32
  BY <1>3, <1>4, BitsAreRead
<1> HIDE DEF form
<1>6. FieldsOf(bits) = Mask(r)
  BY <1>1, <1>4, <1>5 DEF FieldsOf
<1>7. /\ local <=> form = "local"
      /\ ~removed
      /\ wide <=> usesCompactPosition(e) /\ form = "exact"
  BY <1>1, <1>2, <1>4, <1>5
<1>8. /\ wide => usesCompactPosition(e) /\ On(bits, 1)
      /\ local => On(bits, 1) /\ ~wide
  BY <1>1, <1>4, <1>5, <1>7
<1>9. Expand(bits, e) =
        [local |-> local, removed |-> removed, wide |-> wide,
         fields |-> IF removed THEN {} ELSE FieldsOf(bits),
         ok |-> /\ wide => usesCompactPosition(e) /\ On(bits, 1)
                /\ local => On(bits, 1) /\ ~wide]
  BY DEF Expand
<1> HIDE DEF local, removed, wide
<1>10. /\ ~Expand(bits, e).removed /\ Expand(bits, e).ok /\ Expand(bits, e).fields = Mask(r)
       /\ Expand(bits, e).local <=> form = "local"
       /\ Expand(bits, e).wide <=> usesCompactPosition(e) /\ form = "exact"
  BY <1>6, <1>7, <1>8, <1>9
<1> QED
  BY <1>10 DEF bits, form

TenBits == 0 .. 1023
SixBits == 0 .. 63

\* The bits of a header fit in six, or in a byte.
LEMMA BitsFit ==
  ASSUME NEW r, IsRecord(r), NEW e, NEW prev
  PROVE  /\ HeaderBits(r, e, Form(r, e, prev)) \in Byte
         /\ usesPackedRecordHeader(e) => HeaderBits(r, e, Form(r, e, prev)) \in SixBits
<1> DEFINE form == Form(r, e, prev)
           bits == HeaderBits(r, e, form)
<1>1. CASE "removed" \in Mask(r)
  BY <1>1, BitsOfRemoved DEF Byte, SixBits
<1>2. CASE "removed" \notin Mask(r)
  <2> DEFINE p == Bit(r, "position", 1)
             f == Bit(r, "facing", 2)
             v == Bit(r, "vitals", 4)
             a == Bit(r, "action", 8)
             w == IF usesCompactPosition(e) /\ form = "exact" THEN 16 ELSE 0
             l == IF usesPackedRecordHeader(e) /\ form = "local" THEN 32 ELSE 0
  <2>1. bits = p + f + v + a + w + l
    BY <1>2, BitsOfFields
  <2>2. /\ p \in {0, 1} /\ f \in {0, 2} /\ v \in {0, 4} /\ a \in {0, 8} /\ w \in {0, 16}
        /\ l \in {0, 32}
    BY DEF Bit
  <2> HIDE DEF p, f, v, a, w, l, bits
  <2>3. p + f + v + a + w + l \in 0 .. 63
    BY <2>2, BitsAreRead
  <2>4. bits \in 0 .. 63
    BY <2>1, <2>3
  <2> QED
    BY <2>4 DEF bits, Byte, SixBits
<1> QED
  BY <1>1, <1>2

\* An id of ten bits and a mask of six are a word (the packed record header).
LEMMA PackedIsRead ==
  ASSUME NEW i \in TenBits, NEW code \in SixBits, NEW word, word = i + 1024 * code
  PROVE  word \in Short /\ word % 1024 = i /\ word \div 1024 = code
<1>1. i + 1024 * code \in Nat /\ i + 1024 * code <= 65535
  BY SMT DEF TenBits, SixBits
<1>2. (i + 1024 * code) % 1024 = i /\ (i + 1024 * code) \div 1024 = code
  BY SMT DEF TenBits, SixBits
<1> QED
  BY <1>1, <1>2, ShortIs

\* The header that a packed encoding writes, and how it is read.
LEMMA PackedHeaderIsRead ==
  ASSUME NEW r, IsRecord(r), NEW e \in Encodings, NEW prev, usesPackedRecordHeader(e)
  PROVE  LET form == Form(r, e, prev)
         IN /\ WriteHeader(r, e, form) \in Seq(Byte)
            /\ Len(WriteHeader(r, e, form)) = MeasureHeader(r, e)
            /\ \A bytes : \A at \in Nat :
                 Len(bytes) \in Nat /\ Holds(bytes, at, WriteHeader(r, e, form)) =>
                   ReadHeader(bytes, at, e) = [bytes |-> MeasureHeader(r, e), id |-> r.id,
                                               bits |-> HeaderBits(r, e, form)]
<1> DEFINE form == Form(r, e, prev)
           code == MaskCode(r, e, form)
           inline == IF r.id < Escape THEN r.id ELSE Escape
           word == inline + 1024 * code
           varint == writeUint32Varint(r.id)
           k == uint32VarintBytes(r.id)
           more == IF inline = Escape THEN varint ELSE << >>
<1>1. r.id \in NetId /\ r.id \in Nat
  BY MaskOfRecord, VarintIsWritten
<1>2. code \in SixBits /\ HeaderBits(r, e, form) = code
  BY BitsFit DEF HeaderBits
<1>3. inline \in TenBits /\ (inline = Escape <=> r.id >= Escape)
      /\ (inline # Escape => inline = r.id)
  <2> DEFINE id == r.id
  <2>1. id \in Nat
    BY <1>1
  <2> HIDE DEF id
  <2>2. \A m \in Nat : m <= 1023 => m \in TenBits
    BY DEF TenBits
  <2>3. IF id < Escape THEN id \in TenBits /\ id # Escape /\ ~(id >= Escape)
        ELSE Escape \in TenBits /\ id >= Escape
    BY <2>1, <2>2 DEF Escape
  <2> QED
    BY <2>3 DEF id
<1>5. WriteHeader(r, e, form) = Uint16(word) \o more
  BY DEF WriteHeader
<1> HIDE DEF code, inline
<1>0. word = inline + 1024 * code
  OBVIOUS
<1> HIDE DEF word
<1>4. word \in Short /\ word % 1024 = inline /\ word \div 1024 = code
  BY <1>0, <1>2, <1>3, PackedIsRead
<1>6. k \in 1 .. 5 /\ varint \in Seq(Byte) /\ Len(varint) = k
  BY <1>1, VarintLength, VarintIsWritten
<1>7. /\ more \in Seq(Byte)
      /\ inline = Escape => Len(more) = k
      /\ inline # Escape => Len(more) = 0
  BY <1>6
<1>8. MeasureHeader(r, e) = 2 + IF r.id >= Escape THEN k ELSE 0
  BY DEF MeasureHeader
<1> HIDE DEF varint, k, form
<1>9. Uint16(word) \in Seq(Byte) /\ Len(Uint16(word)) = 2
  BY <1>4, WordIsWritten
<1> HIDE DEF more
<1>10. /\ WriteHeader(r, e, form) \in Seq(Byte)
       /\ Len(WriteHeader(r, e, form)) = 2 + Len(more)
  BY <1>5, <1>7, <1>9, ConcatBytes
<1>11. MeasureHeader(r, e) = 2 + Len(more)
  BY <1>3, <1>7, <1>8
<1>12. ASSUME NEW bytes, NEW at \in Nat, Len(bytes) \in Nat,
              Holds(bytes, at, WriteHeader(r, e, form))
       PROVE  ReadHeader(bytes, at, e) = [bytes |-> 2 + Len(more), id |-> r.id, bits |-> code]
  <2>1. Holds(bytes, at, Uint16(word)) /\ Holds(bytes, at + 2, more) /\ at + 2 \in Nat
    <3> DEFINE p == Uint16(word)
    <3>1. p \in Seq(Byte) /\ Len(p) = 2 /\ Holds(bytes, at, p \o more)
      BY <1>5, <1>9, <1>12
    <3> HIDE DEF p
    <3>2. Holds(bytes, at, p) /\ Holds(bytes, at + Len(p), more)
      BY <1>7, <1>12, <3>1, HoldsBoth
    <3> QED
      BY <3>1, <3>2 DEF p
  <2>2. Word(bytes, at) = word /\ requireBytes(bytes, at, 2)
    BY <1>4, <2>1, WordIsRead
  <2> DEFINE read == readUint32Varint(bytes, at + 2)
  <2>0. ReadHeader(bytes, at, e) = ReadPackedHeader(bytes, at)
    BY DEF ReadHeader
  <2>3. ReadPackedHeader(bytes, at) =
          IF inline # Escape THEN [bytes |-> 2, id |-> inline, bits |-> code]
          ELSE IF read.bytes = 0 \/ read.value < Escape THEN NoHeader
          ELSE [bytes |-> 2 + read.bytes, id |-> read.value, bits |-> code]
    BY <1>4, <2>2 DEF ReadPackedHeader
  <2> HIDE DEF read
  <2>4. CASE inline # Escape
    BY <1>3, <1>7, <2>0, <2>3, <2>4
  <2>5. CASE inline = Escape
    <3>1. read = [bytes |-> k, value |-> r.id]
      BY <1>1, <2>1, <2>5, <1>12, VarintIsRead DEF read, more, varint, k
    <3>2. read.bytes = k /\ read.value = r.id /\ ~(k = 0) /\ ~(r.id < Escape)
      BY <1>1, <1>3, <1>6, <2>5, <3>1 DEF Escape
    <3> QED
      BY <1>7, <2>0, <2>3, <2>5, <3>2
  <2> QED
    BY <2>4, <2>5
<1> QED
  BY <1>2, <1>10, <1>11, <1>12 DEF form

\* The id that a header begins with, when it is not packed.
WrittenId(n, e) == IF e = 0 THEN Uint32(n) ELSE writeUint32Varint(n)

\* An id is read as it was written, in as many bytes (readUint32Varint).
LEMMA IdIsRead ==
  ASSUME NEW n \in NetId, NEW e \in Encodings
  PROVE  LET k == IF e = 0 THEN 4 ELSE uint32VarintBytes(n)
         IN /\ k \in 1 .. 5 /\ WrittenId(n, e) \in Seq(Byte) /\ Len(WrittenId(n, e)) = k
            /\ \A bytes : \A at \in Nat :
                 Len(bytes) \in Nat /\ Holds(bytes, at, WrittenId(n, e)) =>
                   ReadId(bytes, at, e) = [bytes |-> k, value |-> n]
<1> DEFINE k == IF e = 0 THEN 4 ELSE uint32VarintBytes(n)
<1>1. CASE e = 0
  <2>1. k = 4 /\ WrittenId(n, e) = Uint32(n)
    BY <1>1 DEF WrittenId
  <2>2. Uint32(n) \in Seq(Byte) /\ Len(Uint32(n)) = 4
    BY LongIsWritten
  <2>3. ASSUME NEW bytes, NEW at \in Nat, Len(bytes) \in Nat, Holds(bytes, at, Uint32(n))
        PROVE  ReadId(bytes, at, e) = [bytes |-> 4, value |-> n]
    <3>1. Word(bytes, at) + 65536 * Word(bytes, at + 2) = n
      BY <2>3, LongIsRead
    <3>2. requireBytes(bytes, at, 4)
      BY <2>2, <2>3 DEF Holds, requireBytes
    <3> DEFINE value == Word(bytes, at) + 65536 * Word(bytes, at + 2)
    <3>3. ReadId(bytes, at, e) = [bytes |-> 4, value |-> value]
      BY <1>1, <3>2 DEF ReadId
    <3>4. value = n
      BY <3>1
    <3> HIDE DEF value
    <3> QED
      BY <3>3, <3>4
  <2> HIDE DEF k
  <2>4. k \in 1 .. 5
    BY <2>1
  <2> QED
    BY <2>1, <2>2, <2>3, <2>4 DEF k
<1>2. CASE e # 0
  <2>1. k = uint32VarintBytes(n) /\ WrittenId(n, e) = writeUint32Varint(n) /\ e > 0
    BY <1>2 DEF WrittenId, Encodings
  <2>2. k \in 1 .. 5 /\ writeUint32Varint(n) \in Seq(Byte) /\ Len(writeUint32Varint(n)) = k
    BY <2>1, VarintIsWritten, VarintLength
  <2>3. ASSUME NEW bytes, NEW at \in Nat, Len(bytes) \in Nat,
               Holds(bytes, at, writeUint32Varint(n))
        PROVE  ReadId(bytes, at, e) = [bytes |-> k, value |-> n]
    BY <2>1, <2>3, VarintIsRead DEF ReadId
  <2> QED
    BY <2>1, <2>2, <2>3
<1> QED
  BY <1>1, <1>2

\* The header that any other encoding writes, and how it is read.
LEMMA PlainHeaderIsRead ==
  ASSUME NEW r, IsRecord(r), NEW e \in Encodings, NEW prev, ~usesPackedRecordHeader(e)
  PROVE  LET form == Form(r, e, prev)
         IN /\ WriteHeader(r, e, form) \in Seq(Byte)
            /\ Len(WriteHeader(r, e, form)) = MeasureHeader(r, e)
            /\ \A bytes : \A at \in Nat :
                 Len(bytes) \in Nat /\ Holds(bytes, at, WriteHeader(r, e, form)) =>
                   ReadHeader(bytes, at, e) = [bytes |-> MeasureHeader(r, e), id |-> r.id,
                                               bits |-> HeaderBits(r, e, form)]
<1> DEFINE form == Form(r, e, prev)
           bits == HeaderBits(r, e, form)
           k == IF e = 0 THEN 4 ELSE uint32VarintBytes(r.id)
           id == WrittenId(r.id, e)
<1>1. r.id \in NetId /\ bits \in Byte
  BY MaskOfRecord, BitsFit
<1>2. WriteHeader(r, e, form) = id \o <<bits>>
  BY DEF WriteHeader, HeaderBits, WrittenId
<1>3. MeasureHeader(r, e) = 1 + k
  BY DEF MeasureHeader
<1>4. k \in 1 .. 5 /\ id \in Seq(Byte) /\ Len(id) = k
  BY <1>1, IdIsRead
<1>5. \A bytes : \A at \in Nat :
        Len(bytes) \in Nat /\ Holds(bytes, at, id) =>
          ReadId(bytes, at, e) = [bytes |-> k, value |-> r.id]
  BY <1>1, IdIsRead
<1> HIDE DEF form, bits, k, id
<1>6. <<bits>> \in Seq(Byte) /\ Len(<<bits>>) = 1
  BY <1>1, OneByte
<1>7. WriteHeader(r, e, form) \in Seq(Byte) /\ Len(WriteHeader(r, e, form)) = 1 + k
  BY <1>2, <1>4, <1>6, ConcatProperties
<1>8. ASSUME NEW bytes, NEW at \in Nat, Len(bytes) \in Nat,
             Holds(bytes, at, WriteHeader(r, e, form))
      PROVE  ReadHeader(bytes, at, e) = [bytes |-> 1 + k, id |-> r.id, bits |-> bits]
  <2>1. Holds(bytes, at, id) /\ Holds(bytes, at + k, <<bits>>)
    BY <1>2, <1>4, <1>6, <1>8, HoldsBoth
  <2>2. bytes[at + k + 1] = bits /\ requireBytes(bytes, at + k, 1)
    BY <1>1, <2>1, ByteIsRead
  <2>3. requireBytes(bytes, at, k + 1)
    BY <1>4, <1>8, <2>2 DEF requireBytes
  <2> DEFINE read == ReadId(bytes, at, e)
  <2>4. read = [bytes |-> k, value |-> r.id]
    BY <1>5, <1>8, <2>1
  <2>5. ReadHeader(bytes, at, e) =
          IF read.bytes = 0 \/ ~requireBytes(bytes, at, read.bytes + 1) THEN NoHeader
          ELSE [bytes |-> read.bytes + 1, id |-> read.value, bits |-> bytes[at + read.bytes + 1]]
    BY DEF ReadHeader
  <2> HIDE DEF read
  <2>6. read.bytes = k /\ read.value = r.id /\ ~(k = 0) /\ k + 1 = 1 + k
    BY <1>4, <2>4
  <2> QED
    BY <2>2, <2>3, <2>5, <2>6
<1> QED
  BY <1>3, <1>7, <1>8 DEF form, bits

\* The header of a record is as long as it was measured, and is read as it was written.
LEMMA HeaderIsRead ==
  ASSUME NEW r, IsRecord(r), NEW e \in Encodings, NEW prev
  PROVE  LET form == Form(r, e, prev)
         IN /\ WriteHeader(r, e, form) \in Seq(Byte)
            /\ Len(WriteHeader(r, e, form)) = MeasureHeader(r, e)
            /\ MeasureHeader(r, e) \in Nat /\ MeasureHeader(r, e) > 0
            /\ \A bytes : \A at \in Nat :
                 Len(bytes) \in Nat /\ Holds(bytes, at, WriteHeader(r, e, form)) =>
                   ReadHeader(bytes, at, e) = [bytes |-> MeasureHeader(r, e), id |-> r.id,
                                               bits |-> HeaderBits(r, e, form)]
<1>1. uint32VarintBytes(r.id) \in 1 .. 5
  BY MaskOfRecord, VarintLength, VarintIsWritten
<1>2. MeasureHeader(r, e) \in Nat /\ MeasureHeader(r, e) > 0
  BY <1>1 DEF MeasureHeader
<1> QED
  BY <1>2, PackedHeaderIsRead, PlainHeaderIsRead

TwelveBits == 0 .. 4095

\* A position is rounded to a multiple of eight that is near it (compactPositionPair).
LEMMA CompactIsNear ==
  ASSUME NEW v \in Short, v <= 32763
  PROVE  /\ CompactU12(v) \in TwelveBits /\ 8 * CompactU12(v) \in Short
         /\ Distance(8 * CompactU12(v), v) <= 4
<1> DEFINE q == (v + 4) \div 8
<1>1. v \in Nat
  BY DEF Short
<1>2. q \in Nat /\ 8 * q <= v + 4 /\ v + 4 < 8 * q + 8
  BY <1>1, SMT
<1> HIDE DEF q
<1>3. q <= 4095
  BY <1>1, <1>2, SMT
<1>4. q % 4096 = q
  BY <1>2, <1>3, SMT
<1>5. CompactU12(v) = q
  BY <1>4 DEF CompactU12, q
<1>6. 8 * q \in Nat /\ 8 * q <= 65535
  BY <1>2, <1>3, SMT
<1>7. Distance(8 * q, v) <= 4
  BY <1>1, <1>2, SMT DEF Distance
<1>8. q \in TwelveBits
  BY <1>2, <1>3, SMT DEF TwelveBits
<1> QED
  BY <1>5, <1>6, <1>7, <1>8, ShortIs

\* Two of them fill three bytes (the compact position).
LEMMA PairIsPacked ==
  ASSUME NEW x \in TwelveBits, NEW y \in TwelveBits, NEW packed, packed = x + 4096 * y
  PROVE  /\ packed % 65536 \in Short /\ packed \div 65536 \in Byte
         /\ packed = (packed % 65536) + 65536 * (packed \div 65536)
         /\ packed % 4096 = x /\ packed \div 4096 = y
<1>0. x \in Nat /\ x <= 4095 /\ y \in Nat /\ y <= 4095
  BY SMT DEF TwelveBits
<1>1. packed \in Nat /\ packed <= 16777215
  BY <1>0, SMT
<1>2. packed % 4096 = x /\ packed \div 4096 = y
  BY <1>0, SMT
<1> DEFINE high == packed \div 65536
           low == packed % 65536
<1>3. /\ high \in Nat /\ 65536 * high <= packed /\ packed < 65536 * high + 65536
      /\ low = packed - 65536 * high
  BY <1>1, SMT
<1> HIDE DEF high, low
<1>4. high \in Byte
  BY <1>1, <1>3, SMT DEF Byte
<1>5. packed - 65536 * high \in Nat /\ packed - 65536 * high <= 65535
  BY <1>1, <1>3, SMT
<1>6. low \in Short
  BY <1>3, <1>5, ShortIs
<1>7. packed = low + 65536 * high
  BY <1>1, <1>3, SMT
<1> QED
  BY <1>2, <1>4, <1>6, <1>7 DEF high, low

\* What is left of a coordinate within its cell has eight bits (the local position).
LEMMA RestIsLocal ==
  ASSUME NEW x \in TwelveBits, NEW c, c = (8 * x) \div CellWire
  PROVE  /\ ((8 * x - CellWire * c) \div 8) % 256 \in Byte
         /\ CellWire * c + 8 * (((8 * x - CellWire * c) \div 8) % 256) = 8 * x
<1>1. x \in Nat /\ x <= 4095 /\ CellWire = 2048
  BY SMT DEF TwelveBits, CellWire
<1>2. c \in Nat /\ 2048 * c <= 8 * x /\ 8 * x < 2048 * c + 2048
  BY <1>1, SMT
<1> DEFINE rest == x - 256 * c
<1>3. rest \in 0 .. 255
  BY <1>1, <1>2, SMT
<1>4. (8 * x - CellWire * c) \div 8 = rest
  BY <1>1, <1>2, SMT
<1>5. CellWire * c + 8 * rest = 8 * x
  BY <1>1, <1>2, SMT
<1> HIDE DEF rest
<1>6. rest % 256 = rest
  BY <1>3, SMT
<1> QED
  BY <1>3, <1>4, <1>5, <1>6 DEF Byte

\* The position that is read is the one that was rounded.
SaidPosition(p, form) == IF form = "exact" THEN p ELSE compactPositionPair(p)

\* A position is a pair of words, and its rounding is one.
LEMMA PositionIsPair ==
  ASSUME NEW p \in Position
  PROVE  /\ p[1] \in Short /\ p[2] \in Short /\ p = <<p[1], p[2]>> /\ p # None
         /\ positionIsCompact(p) => compactPositionPair(p) \in Position
<1>1. p[1] \in Short /\ p[2] \in Short /\ p = <<p[1], p[2]>>
  BY DEF Position
<1>2. p # None
  BY <1>1 DEF None
<1>3. ASSUME positionIsCompact(p)
      PROVE  compactPositionPair(p) \in Position
  <2>1. p[1] <= 32763 /\ p[2] <= 32763
    BY <1>3 DEF positionIsCompact
  <2>2. 8 * CompactU12(p[1]) \in Short /\ 8 * CompactU12(p[2]) \in Short
    BY <1>1, <2>1, CompactIsNear
  <2> QED
    BY <2>2 DEF compactPositionPair, Position
<1> QED
  BY <1>1, <1>2, <1>3

\* A position that is written exactly has four bytes, and is read as it is.
LEMMA ExactIsRead ==
  ASSUME NEW p \in Position, NEW prev
  PROVE  /\ WritePosition(p, "exact", prev) \in Seq(Byte)
         /\ Len(WritePosition(p, "exact", prev)) = 4
         /\ \A bytes : \A at \in Nat :
              Len(bytes) \in Nat /\ Holds(bytes, at, WritePosition(p, "exact", prev)) =>
                <<Word(bytes, at), Word(bytes, at + 2)>> = p
<1>1. p[1] \in Short /\ p[2] \in Short /\ p = <<p[1], p[2]>>
  BY PositionIsPair
<1> DEFINE u == Uint16(p[1])
           v == Uint16(p[2])
<1>2. WritePosition(p, "exact", prev) = u \o v
  BY DEF WritePosition
<1>3. u \in Seq(Byte) /\ Len(u) = 2 /\ v \in Seq(Byte) /\ Len(v) = 2
  BY <1>1, WordIsWritten
<1> HIDE DEF u, v
<1>4. u \o v \in Seq(Byte) /\ Len(u \o v) = 4
  <2>1. u \o v \in Seq(Byte) /\ Len(u \o v) = Len(u) + Len(v)
    BY <1>3, ConcatBytes
  <2> QED
    BY <1>3, <2>1
<1>5. ASSUME NEW bytes, NEW at \in Nat, Len(bytes) \in Nat, Holds(bytes, at, u \o v)
      PROVE  <<Word(bytes, at), Word(bytes, at + 2)>> = p
  <2>1. Holds(bytes, at, u) /\ Holds(bytes, at + 2, v)
    BY <1>3, <1>5, HoldsBoth
  <2>2. Word(bytes, at) = p[1] /\ Word(bytes, at + 2) = p[2]
    BY <1>1, <2>1, WordIsRead DEF u, v
  <2> QED
    BY <1>1, <2>2
<1> QED
  BY <1>2, <1>4, <1>5

\* The pair that three bytes hold.
PairRead(bytes, at) ==
  LET packed == Word(bytes, at) + 65536 * bytes[at + 3]
  IN <<8 * (packed % 4096), 8 * (packed \div 4096)>>

\* A compact position has three bytes.
LEMMA CompactIsRead ==
  ASSUME NEW p \in Position, positionIsCompact(p), NEW prev
  PROVE  /\ WritePosition(p, "compact", prev) \in Seq(Byte)
         /\ Len(WritePosition(p, "compact", prev)) = 3
         /\ \A bytes : \A at \in Nat :
              Len(bytes) \in Nat /\ Holds(bytes, at, WritePosition(p, "compact", prev)) =>
                PairRead(bytes, at) = compactPositionPair(p)
<1> DEFINE x == CompactU12(p[1])
           y == CompactU12(p[2])
           packed == x + 4096 * y
           low == packed % 65536
           high == packed \div 65536
           u == Uint16(low)
           v == <<high>>
<1>1. x \in TwelveBits /\ y \in TwelveBits
  <2>1. p[1] \in Short /\ p[2] \in Short /\ p[1] <= 32763 /\ p[2] <= 32763
    BY PositionIsPair DEF positionIsCompact
  <2> QED
    BY <2>1, CompactIsNear
<1>2. WritePosition(p, "compact", prev) = u \o v
  BY DEF WritePosition
<1>3. compactPositionPair(p) = <<8 * x, 8 * y>>
  BY DEF compactPositionPair
<1>4. packed = x + 4096 * y
  OBVIOUS
<1> HIDE DEF x, y, packed
<1>5. /\ low \in Short /\ high \in Byte /\ packed = low + 65536 * high
      /\ packed % 4096 = x /\ packed \div 4096 = y
  BY <1>1, <1>4, PairIsPacked
<1> HIDE DEF low, high
<1>6. u \in Seq(Byte) /\ Len(u) = 2 /\ v \in Seq(Byte) /\ Len(v) = 1
  BY <1>5, WordIsWritten, OneByte
<1> HIDE DEF u, v
<1>7. u \o v \in Seq(Byte) /\ Len(u \o v) = 3
  <2>1. u \o v \in Seq(Byte) /\ Len(u \o v) = Len(u) + Len(v)
    BY <1>6, ConcatBytes
  <2> QED
    BY <1>6, <2>1
<1>8. ASSUME NEW bytes, NEW at \in Nat, Len(bytes) \in Nat, Holds(bytes, at, u \o v)
      PROVE  PairRead(bytes, at) = compactPositionPair(p)
  <2>1. Holds(bytes, at, u) /\ Holds(bytes, at + 2, v)
    BY <1>6, <1>8, HoldsBoth
  <2>2. Word(bytes, at) = low /\ bytes[at + 2 + 1] = high /\ at + 2 + 1 = at + 3
    BY <1>5, <2>1, WordIsRead, ByteIsRead DEF u, v
  <2> DEFINE triple == Word(bytes, at) + 65536 * bytes[at + 3]
  <2>3. triple = packed
    BY <1>5, <2>2
  <2> HIDE DEF triple
  <2>4. <<8 * (triple % 4096), 8 * (triple \div 4096)>> = compactPositionPair(p)
    BY <1>3, <1>5, <2>3
  <2> QED
    BY <2>4 DEF triple, PairRead
<1> QED
  BY <1>2, <1>7, <1>8

\* A position within the cell of the previous one has two bytes.
LEMMA LocalIsRead ==
  ASSUME NEW p \in Position, positionIsCompact(p), NEW prev,
         positionCell(prev) = positionCell(compactPositionPair(p))
  PROVE  /\ WritePosition(p, "local", prev) \in Seq(Byte)
         /\ Len(WritePosition(p, "local", prev)) = 2
         /\ \A bytes : \A at \in Nat :
              Len(bytes) \in Nat /\ Holds(bytes, at, WritePosition(p, "local", prev)) =>
                <<CellWire * positionCell(prev)[1] + 8 * bytes[at + 1],
                  CellWire * positionCell(prev)[2] + 8 * bytes[at + 2]>> = compactPositionPair(p)
<1> DEFINE x == CompactU12(p[1])
           y == CompactU12(p[2])
           c == positionCell(prev)[1]
           d == positionCell(prev)[2]
           u == ((8 * x - CellWire * c) \div 8) % 256
           v == ((8 * y - CellWire * d) \div 8) % 256
<1>1. x \in TwelveBits /\ y \in TwelveBits
  <2>1. p[1] \in Short /\ p[2] \in Short /\ p[1] <= 32763 /\ p[2] <= 32763
    BY PositionIsPair DEF positionIsCompact
  <2> QED
    BY <2>1, CompactIsNear
<1>2. compactPositionPair(p) = <<8 * x, 8 * y>>
  BY DEF compactPositionPair
<1>3. WritePosition(p, "local", prev) = <<u, v>>
  BY <1>2 DEF WritePosition
<1> HIDE DEF x, y
<1>4. c = (8 * x) \div CellWire /\ d = (8 * y) \div CellWire
  BY <1>2 DEF positionCell
<1> HIDE DEF c, d
<1>5. u \in Byte /\ v \in Byte /\ CellWire * c + 8 * u = 8 * x /\ CellWire * d + 8 * v = 8 * y
  BY <1>1, <1>4, RestIsLocal
<1> HIDE DEF u, v
<1>6. <<u, v>> \in Seq(Byte) /\ Len(<<u, v>>) = 2 /\ <<u, v>>[1] = u /\ <<u, v>>[2] = v
  BY <1>5, TwoBytes
<1>7. ASSUME NEW bytes, NEW at \in Nat, Len(bytes) \in Nat, Holds(bytes, at, <<u, v>>)
      PROVE  <<CellWire * c + 8 * bytes[at + 1], CellWire * d + 8 * bytes[at + 2]>>
               = compactPositionPair(p)
  <2>1. bytes[at + 1] = u /\ bytes[at + 2] = v
    BY <1>6, <1>7 DEF Holds
  <2> QED
    BY <1>2, <1>5, <2>1
<1> QED
  BY <1>3, <1>6, <1>7 DEF c, d

\* The position of a record is as long as it was measured, and is read as it was rounded.
LEMMA PositionIsRead ==
  ASSUME NEW r, IsRecord(r), "position" \in Mask(r), NEW e \in Encodings,
         NEW prev, NEW mask,
         mask.local <=> Form(r, e, prev) = "local",
         mask.wide <=> usesCompactPosition(e) /\ Form(r, e, prev) = "exact"
  PROVE  LET form == Form(r, e, prev)
             p    == r.fields["position"]
             part == WritePosition(p, form, prev)
         IN /\ part \in Seq(Byte) /\ Len(part) = PositionBytes(mask, e)
            /\ form = "local" <=> Len(part) = 2
            /\ form = "compact" <=> Len(part) = 3
            /\ form = "exact" <=> Len(part) = 4
            /\ SaidPosition(p, form) \in Position
            /\ \A bytes : \A at \in Nat :
                 Len(bytes) \in Nat /\ Holds(bytes, at, part) =>
                   ReadPosition(bytes, at, mask, e, prev) = SaidPosition(p, form)
<1> DEFINE form == Form(r, e, prev)
           p == r.fields["position"]
           part == WritePosition(p, form, prev)
           Good(n) == /\ part \in Seq(Byte) /\ Len(part) = n /\ PositionBytes(mask, e) = n
                      /\ SaidPosition(p, form) \in Position
                      /\ \A bytes : \A at \in Nat :
                           Len(bytes) \in Nat /\ Holds(bytes, at, part) =>
                             ReadPosition(bytes, at, mask, e, prev) = SaidPosition(p, form)
<1>1. p \in Position
  <2>1. "removed" \notin Mask(r)
    BY MaskOfRecord
  <2>2. r.fields # Removed
    BY <2>1 DEF Removed, Mask
  <2> QED
    BY <2>2 DEF IsRecord
<1>2. form \in {"local", "compact", "exact"}
  BY FormOfRecord
<1>3. form \in {"local", "compact"} => usesCompactPosition(e) /\ positionIsCompact(p)
  BY FormOfRecord
<1>4. form = "local" => positionCell(prev) = positionCell(compactPositionPair(p))
  BY DEF Form
<1> HIDE DEF p
<1>5. CASE form = "local"
  <2>1. PositionBytes(mask, e) = 2
    BY <1>5 DEF PositionBytes
  <2>2. \A bytes, at : ReadPosition(bytes, at, mask, e, prev) =
          <<CellWire * positionCell(prev)[1] + 8 * bytes[at + 1],
            CellWire * positionCell(prev)[2] + 8 * bytes[at + 2]>>
    BY <2>1 DEF ReadPosition
  <2>3. SaidPosition(p, form) = compactPositionPair(p) /\ compactPositionPair(p) \in Position
    BY <1>1, <1>3, <1>5, PositionIsPair DEF SaidPosition
  <2>4. Good(2)
    BY <1>1, <1>3, <1>4, <1>5, <2>1, <2>2, <2>3, LocalIsRead
  <2>5. /\ form = "local" <=> Len(part) = 2
        /\ form = "compact" <=> Len(part) = 3
        /\ form = "exact" <=> Len(part) = 4
    <3>1. Len(part) = 2
      BY <2>4
    <3> HIDE DEF part, form
    <3> QED
      BY <1>5, <3>1
  <2> QED
    BY <2>4, <2>5 DEF p
<1>6. CASE form = "compact"
  <2>1. PositionBytes(mask, e) = 3
    BY <1>3, <1>6 DEF PositionBytes
  <2>2. \A bytes, at : ReadPosition(bytes, at, mask, e, prev) = PairRead(bytes, at)
    BY <2>1 DEF ReadPosition, PairRead
  <2>3. SaidPosition(p, form) = compactPositionPair(p) /\ compactPositionPair(p) \in Position
    BY <1>1, <1>3, <1>6, PositionIsPair DEF SaidPosition
  <2>4. Good(3)
    BY <1>1, <1>3, <1>6, <2>1, <2>2, <2>3, CompactIsRead
  <2>5. /\ form = "local" <=> Len(part) = 2
        /\ form = "compact" <=> Len(part) = 3
        /\ form = "exact" <=> Len(part) = 4
    <3>1. Len(part) = 3
      BY <2>4
    <3> HIDE DEF part, form
    <3> QED
      BY <1>6, <3>1
  <2> QED
    BY <2>4, <2>5 DEF p
<1>7. CASE form = "exact"
  <2>1. PositionBytes(mask, e) = 4
    BY <1>7 DEF PositionBytes
  <2>2. \A bytes, at : ReadPosition(bytes, at, mask, e, prev) =
          <<Word(bytes, at), Word(bytes, at + 2)>>
    BY <2>1 DEF ReadPosition
  <2>3. SaidPosition(p, form) = p
    BY <1>7 DEF SaidPosition
  <2>4. Good(4)
    BY <1>1, <1>7, <2>1, <2>2, <2>3, ExactIsRead
  <2>5. /\ form = "local" <=> Len(part) = 2
        /\ form = "compact" <=> Len(part) = 3
        /\ form = "exact" <=> Len(part) = 4
    <3>1. Len(part) = 4
      BY <2>4
    <3> HIDE DEF part, form
    <3> QED
      BY <1>7, <3>1
  <2> QED
    BY <2>4, <2>5 DEF p
<1> QED
  BY <1>2, <1>5, <1>6, <1>7 DEF p

\* Three bytes are a part.
LEMMA ThreeBytes ==
  ASSUME NEW a \in Byte, NEW b \in Byte, NEW c \in Byte
  PROVE  /\ <<a, b, c>> \in Seq(Byte) /\ Len(<<a, b, c>>) = 3
         /\ <<a, b, c>>[1] = a /\ <<a, b, c>>[2] = b /\ <<a, b, c>>[3] = c
OBVIOUS

\* The bytes of an action and its flags.
ActionLength(q, e) ==
  IF ~usesCompactActionFlags(e) THEN 2 ELSE IF actionFlagsAreCompact(q[1], q[2]) THEN 1 ELSE 3

\* Two halves of a byte (the compact action).
LEMMA HalvesAreRead ==
  ASSUME NEW a \in Byte, NEW f \in Byte, actionFlagsAreCompact(a, f)
  PROVE  /\ a + 16 * f \in Byte /\ a + 16 * f # ActionEscape
         /\ (a + 16 * f) % 16 = a /\ (a + 16 * f) \div 16 = f
<1>1. a \in 0 .. 15 /\ f \in 0 .. 15 /\ (a # 15 \/ f # 15)
  BY DEF actionFlagsAreCompact, Byte
<1>2. a + 16 * f \in 0 .. 255 /\ a + 16 * f # 255
  BY <1>1, SMT
<1>3. (a + 16 * f) % 16 = a /\ (a + 16 * f) \div 16 = f
  BY <1>1, SMT
<1> QED
  BY <1>2, <1>3 DEF Byte, ActionEscape

\* An action is as long as it was measured, and is read as it was (readCompactActionFlags).
LEMMA ActionIsRead ==
  ASSUME NEW q \in Byte \X Byte, NEW e
  PROVE  LET part == WriteAction(q[1], q[2], e)
         IN /\ part \in Seq(Byte) /\ Len(part) = ActionLength(q, e)
            /\ \A bytes : \A at \in Nat :
                 Len(bytes) \in Nat /\ Holds(bytes, at, part) =>
                   /\ ActionBytes(bytes, at, e) = ActionLength(q, e)
                   /\ ReadAction(bytes, at, e) = q
            /\ ActionLength(q, e) \in 1 .. 3
            /\ ActionLength(q, e) = 3 => ~actionFlagsAreCompact(q[1], q[2])
<1> DEFINE a == q[1]
           f == q[2]
           part == WriteAction(a, f, e)
           Good(n) == /\ part \in Seq(Byte) /\ Len(part) = n
                      /\ \A bytes : \A at \in Nat :
                           Len(bytes) \in Nat /\ Holds(bytes, at, part) =>
                             ActionBytes(bytes, at, e) = n /\ ReadAction(bytes, at, e) = q
<1>1. a \in Byte /\ f \in Byte /\ q = <<a, f>>
  OBVIOUS
<1>2. /\ ActionLength(q, e) \in 1 .. 3
      /\ ActionLength(q, e) = 3 => ~actionFlagsAreCompact(a, f)
  BY DEF ActionLength
<1> HIDE DEF a, f
<1>3. CASE ~usesCompactActionFlags(e)
  <2>1. part = <<a, f>> /\ part \in Seq(Byte) /\ Len(part) = 2 /\ part[1] = a /\ part[2] = f
    BY <1>1, <1>3, TwoBytes DEF WriteAction
  <2> HIDE DEF part
  <2>2. ASSUME NEW bytes, NEW at \in Nat, Holds(bytes, at, part)
        PROVE  ActionBytes(bytes, at, e) = 2 /\ ReadAction(bytes, at, e) = q
    <3>1. bytes[at + 1] = a /\ bytes[at + 2] = f
      BY <2>1, <2>2 DEF Holds
    <3>2. ActionBytes(bytes, at, e) = 2
      BY <1>3 DEF ActionBytes
    <3>3. ReadAction(bytes, at, e) = <<bytes[at + 1], bytes[at + 2]>>
      BY <3>2 DEF ReadAction
    <3> QED
      BY <1>1, <3>1, <3>2, <3>3
  <2>3. ActionLength(q, e) = 2
    BY <1>3 DEF ActionLength
  <2> QED
    BY <1>2, <2>1, <2>2, <2>3 DEF part, a, f
<1>4. CASE usesCompactActionFlags(e) /\ actionFlagsAreCompact(a, f)
  <2> DEFINE b == a + 16 * f
  <2>1. part = <<b>>
    BY <1>4 DEF WriteAction
  <2>2. b \in Byte /\ b # ActionEscape /\ b % 16 = a /\ b \div 16 = f
    BY <1>1, <1>4, HalvesAreRead
  <2> HIDE DEF b, part
  <2>3. part \in Seq(Byte) /\ Len(part) = 1
    BY <2>1, <2>2, OneByte
  <2>4. ASSUME NEW bytes, NEW at \in Nat, Holds(bytes, at, part)
        PROVE  ActionBytes(bytes, at, e) = 1 /\ ReadAction(bytes, at, e) = q
    <3>1. bytes[at + 1] = b /\ requireBytes(bytes, at, 1)
      BY <2>1, <2>2, <2>4, ByteIsRead
    <3>2. ActionBytes(bytes, at, e) = 1
      BY <1>4, <2>2, <3>1 DEF ActionBytes
    <3>3. ReadAction(bytes, at, e) = <<bytes[at + 1] % 16, bytes[at + 1] \div 16>>
      BY <3>2 DEF ReadAction
    <3> QED
      BY <1>1, <2>2, <3>1, <3>2, <3>3
  <2>5. ActionLength(q, e) = 1
    BY <1>4 DEF ActionLength, a, f
  <2> QED
    BY <1>2, <2>3, <2>4, <2>5 DEF part, a, f
<1>5. CASE usesCompactActionFlags(e) /\ ~actionFlagsAreCompact(a, f)
  <2>1. part = <<ActionEscape, a, f>>
    BY <1>5 DEF WriteAction
  <2>2. ActionEscape \in Byte
    BY DEF ActionEscape, Byte
  <2> HIDE DEF part
  <2>3. /\ part \in Seq(Byte) /\ Len(part) = 3
        /\ part[1] = ActionEscape /\ part[2] = a /\ part[3] = f
    BY <1>1, <2>1, <2>2, ThreeBytes
  <2>4. ASSUME NEW bytes, NEW at \in Nat, Holds(bytes, at, part)
        PROVE  ActionBytes(bytes, at, e) = 3 /\ ReadAction(bytes, at, e) = q
    <3>1. bytes[at + 1] = ActionEscape /\ bytes[at + 2] = a /\ bytes[at + 3] = f
      BY <2>3, <2>4 DEF Holds
    <3>2. ActionBytes(bytes, at, e) = 3
      BY <1>5, <3>1 DEF ActionBytes
    <3>3. ReadAction(bytes, at, e) = <<bytes[at + 2], bytes[at + 3]>>
      BY <3>2 DEF ReadAction
    <3> QED
      BY <1>1, <3>1, <3>2, <3>3
  <2>5. ActionLength(q, e) = 3
    BY <1>5 DEF ActionLength, a, f
  <2> QED
    BY <1>2, <2>3, <2>4, <2>5 DEF part, a, f
<1> QED
  BY <1>3, <1>4, <1>5

\* A facing of one byte or of two, as it is read.
WrittenFacing(f, e) == IF usesCompactFacing(e) THEN <<compactFacingU8(f)>> ELSE Uint16(f)
SaidFacing(f, e) == IF usesCompactFacing(e) THEN expandFacingU8(compactFacingU8(f)) ELSE f
FacingRead(bytes, at, e) ==
  IF usesCompactFacing(e) THEN expandFacingU8(bytes[at + 1]) ELSE Word(bytes, at)

\* A facing is rounded to a byte that is near it (compactFacingU8, expandFacingU8).
LEMMA FacingIsNear ==
  ASSUME NEW f \in Short
  PROVE  compactFacingU8(f) \in Byte /\ Distance(expandFacingU8(compactFacingU8(f)), f) <= 128
<1> DEFINE q == (f + 128) \div 257
<1>1. f \in Nat /\ f <= 65535
  BY DEF Short
<1>2. q \in Nat /\ 257 * q <= f + 128 /\ f + 128 < 257 * q + 257
  BY <1>1, SMT
<1>3. compactFacingU8(f) = IF q > 255 THEN 255 ELSE q
  BY DEF compactFacingU8
<1> HIDE DEF q
<1>4. q <= 255
  BY <1>1, <1>2, SMT
<1>5. compactFacingU8(f) = q
  BY <1>2, <1>3, <1>4
<1>6. q \in Byte
  BY <1>2, <1>4, SMT DEF Byte
<1>7. Distance(q * 257, f) <= 128
  BY <1>1, <1>2, SMT DEF Distance
<1> QED
  BY <1>5, <1>6, <1>7 DEF expandFacingU8

\* A facing is read as it was rounded (compactFacingU8).
LEMMA FacingIsRead ==
  ASSUME NEW f \in Short, NEW e
  PROVE  /\ WrittenFacing(f, e) \in Seq(Byte) /\ Len(WrittenFacing(f, e)) = FacingBytes(e)
         /\ FacingBytes(e) \in 1 .. 2
         /\ \A bytes : \A at \in Nat :
              Holds(bytes, at, WrittenFacing(f, e)) => FacingRead(bytes, at, e) = SaidFacing(f, e)
<1>1. CASE usesCompactFacing(e)
  <2> DEFINE b == compactFacingU8(f)
  <2>1. b \in Byte
    BY FacingIsNear
  <2> HIDE DEF b
  <2>2. WrittenFacing(f, e) = <<b>> /\ SaidFacing(f, e) = expandFacingU8(b) /\ FacingBytes(e) = 1
    BY <1>1 DEF WrittenFacing, SaidFacing, FacingBytes, b
  <2>3. <<b>> \in Seq(Byte) /\ Len(<<b>>) = 1
    BY <2>1, OneByte
  <2>4. ASSUME NEW bytes, NEW at \in Nat, Holds(bytes, at, <<b>>)
        PROVE  FacingRead(bytes, at, e) = expandFacingU8(b)
    BY <1>1, <2>1, <2>4, ByteIsRead DEF FacingRead
  <2> QED
    BY <2>2, <2>3, <2>4
<1>2. CASE ~usesCompactFacing(e)
  <2>1. WrittenFacing(f, e) = Uint16(f) /\ SaidFacing(f, e) = f /\ FacingBytes(e) = 2
    BY <1>2 DEF WrittenFacing, SaidFacing, FacingBytes
  <2>2. Uint16(f) \in Seq(Byte) /\ Len(Uint16(f)) = 2
    BY WordIsWritten
  <2>3. ASSUME NEW bytes, NEW at \in Nat, Holds(bytes, at, Uint16(f))
        PROVE  FacingRead(bytes, at, e) = f
    BY <1>2, <2>3, WordIsRead DEF FacingRead
  <2> QED
    BY <2>1, <2>2, <2>3
<1> QED
  BY <1>1, <1>2

\* The vitals that an encoding carries are read as they were.
LEMMA VitalsAreRead ==
  ASSUME NEW v \in Byte \X Byte \X Byte, NEW e
  PROVE  LET part == SubSeq(v, 1, VitalBytes(e))
         IN /\ part \in Seq(Byte) /\ Len(part) = VitalBytes(e) /\ VitalBytes(e) \in 2 .. 3
            /\ \A bytes : \A at \in Nat :
                 Holds(bytes, at, part) => SubSeq(bytes, at + 1, at + VitalBytes(e)) = part
<1> DEFINE n == VitalBytes(e)
           part == SubSeq(v, 1, n)
<1>1. n \in 2 .. 3
  BY DEF VitalBytes
<1>2. v[1] \in Byte /\ v[2] \in Byte /\ v[3] \in Byte
  OBVIOUS
<1> HIDE DEF n
<1>3. \A i \in 1 .. n : v[i] \in Byte
  BY <1>1, <1>2
<1>4. part \in Seq(Byte) /\ Len(part) = n
  BY <1>1, <1>3, SubSeqProperties
<1> HIDE DEF part
<1>5. ASSUME NEW bytes, NEW at \in Nat, Holds(bytes, at, part)
      PROVE  SubSeq(bytes, at + 1, at + n) = part
  <2> DEFINE read == SubSeq(bytes, at + 1, at + n)
  <2>1. \A i \in 1 .. n : bytes[at + i] = part[i] /\ part[i] \in Byte
    BY <1>4, <1>5 DEF Holds
  <2>2. ASSUME NEW i \in at + 1 .. at + n
        PROVE  bytes[i] \in Byte
    <3>1. i - at \in 1 .. n /\ at + (i - at) = i
      BY <1>1
    <3>2. bytes[at + (i - at)] \in Byte
      BY <2>1, <3>1
    <3> QED
      BY <3>1, <3>2
  <2>3. /\ at + 1 \in Int /\ at + n \in Int /\ at + 1 <= at + n
        /\ (at + n) - (at + 1) + 1 = n
    BY <1>1
  <2>4. /\ read \in Seq(Byte) /\ Len(read) = n
        /\ \A i \in 1 .. n : read[i] = bytes[(at + 1) + i - 1]
    BY <2>2, <2>3, SubSeqProperties
  <2> HIDE DEF read
  <2>5. ASSUME NEW i \in 1 .. n
        PROVE  read[i] = part[i]
    <3>1. (at + 1) + i - 1 = at + i
      BY <1>1
    <3> QED
      BY <2>1, <2>4, <3>1
  <2>6. read = part
    BY <1>4, <2>4, <2>5, SeqEqual
  <2> QED
    BY <2>6 DEF read
<1> QED
  BY <1>1, <1>4, <1>5 DEF n, part

\* The parts of a record: one for the header and one for each field (encodeSnapshot).
PositionPart(r, e, prev) ==
  IF "position" \in Mask(r) THEN WritePosition(r.fields["position"], Form(r, e, prev), prev)
  ELSE << >>
FacingPart(r, e) ==
  IF "facing" \in Mask(r) THEN WrittenFacing(r.fields["facing"], e) ELSE << >>
VitalsPart(r, e) ==
  IF "vitals" \in Mask(r) THEN SubSeq(r.fields["vitals"], 1, VitalBytes(e)) ELSE << >>
ActionPart(r, e) ==
  IF "action" \in Mask(r) THEN WriteAction(r.fields["action"][1], r.fields["action"][2], e)
  ELSE << >>

\* What the fields of a record are.
LEMMA FieldsOfRecord ==
  ASSUME NEW r, IsRecord(r)
  PROVE  /\ "position" \in Mask(r) => r.fields["position"] \in Position
         /\ "facing" \in Mask(r) => r.fields["facing"] \in Short
         /\ "vitals" \in Mask(r) => r.fields["vitals"] \in Byte \X Byte \X Byte
         /\ "action" \in Mask(r) => r.fields["action"] \in Byte \X Byte
<1>1. CASE r.fields = Removed
  <2>1. Mask(r) = {"removed"}
    BY <1>1 DEF Removed, Mask
  <2> QED
    BY <2>1
<1>2. CASE r.fields # Removed
  BY <1>2 DEF IsRecord
<1> QED
  BY <1>1, <1>2

\* A field that is not there has no bytes.
LEMMA EmptyPart == << >> \in Seq(Byte) /\ Len(<< >>) = 0
OBVIOUS

\* The mask that is read of a record says where its position is.
LEMMA MaskIsRead ==
  ASSUME NEW r, IsRecord(r), NEW e \in Encodings, NEW prev
  PROVE  LET mask == Expand(HeaderBits(r, e, Form(r, e, prev)), e)
         IN /\ mask.ok
            /\ mask.removed <=> "removed" \in Mask(r)
            /\ mask.fields = Mask(r) \ {"removed"}
            /\ mask.local => prev # None
            /\ "position" \in Mask(r) =>
                 /\ mask.local <=> Form(r, e, prev) = "local"
                 /\ mask.wide <=> usesCompactPosition(e) /\ Form(r, e, prev) = "exact"
<1> DEFINE bits == HeaderBits(r, e, Form(r, e, prev))
<1>1. CASE "removed" \in Mask(r)
  <2>1. bits = IF usesPackedRecordHeader(e) THEN 32 ELSE 128
    BY <1>1, BitsOfRemoved
  <2>2. Mask(r) = {"removed"}
    BY <1>1, MaskOfRecord
  <2> HIDE DEF bits
  <2>3. /\ Expand(bits, e).removed /\ ~Expand(bits, e).local
        /\ Expand(bits, e).fields = {} /\ Expand(bits, e).ok
    BY <2>1, RemovedIsRead
  <2> QED
    BY <2>2, <2>3 DEF bits
<1>2. CASE "removed" \notin Mask(r)
  <2>1. /\ ~Expand(bits, e).removed /\ Expand(bits, e).ok /\ Expand(bits, e).fields = Mask(r)
        /\ Expand(bits, e).local <=> Form(r, e, prev) = "local"
        /\ Expand(bits, e).wide <=> usesCompactPosition(e) /\ Form(r, e, prev) = "exact"
    BY <1>2, FieldsAreRead
  <2>2. Form(r, e, prev) = "local" => prev # None
    BY FormOfRecord
  <2> QED
    BY <1>2, <2>1, <2>2
<1> QED
  BY <1>1, <1>2

\* A record is its parts, and as long as it was measured (snapshotRecordBytesWithContext).
LEMMA RecordIsWritten ==
  ASSUME NEW r, IsRecord(r), NEW e \in Encodings, NEW prev
  PROVE  LET h == WriteHeader(r, e, Form(r, e, prev))
             p == PositionPart(r, e, prev)
             f == FacingPart(r, e)
             v == VitalsPart(r, e)
             a == ActionPart(r, e)
         IN /\ WriteRecord(r, e, prev) = h \o p \o f \o v \o a
            /\ h \in Seq(Byte) /\ p \in Seq(Byte) /\ f \in Seq(Byte) /\ v \in Seq(Byte)
            /\ a \in Seq(Byte)
            /\ WriteRecord(r, e, prev) \in Seq(Byte)
            /\ Len(WriteRecord(r, e, prev)) = Len(h) + Len(p) + Len(f) + Len(v) + Len(a)
            /\ Len(WriteRecord(r, e, prev)) = Measure(r, e, prev)
            /\ Len(h) > 0
<1> DEFINE form == Form(r, e, prev)
           h == WriteHeader(r, e, form)
           p == PositionPart(r, e, prev)
           f == FacingPart(r, e)
           v == VitalsPart(r, e)
           a == ActionPart(r, e)
           mask == Expand(HeaderBits(r, e, form), e)
           cost(field, n) == IF field \in Mask(r) THEN n ELSE 0
           np == CASE form = "none" -> 0 [] form = "local" -> 2 [] form = "compact" -> 3
                   [] form = "exact" -> 4
           na == cost("action", ActionLength(r.fields["action"], e))
<1>1. WriteRecord(r, e, prev) = h \o p \o f \o v \o a
  BY DEF WriteRecord, PositionPart, FacingPart, WrittenFacing, VitalsPart, VitalBytes, ActionPart
<1>2. h \in Seq(Byte) /\ Len(h) = MeasureHeader(r, e) /\ Len(h) > 0
  BY HeaderIsRead
<1>3. p \in Seq(Byte) /\ Len(p) = np
  <2>1. CASE "position" \in Mask(r)
    <3>1. /\ mask.local <=> form = "local"
          /\ mask.wide <=> usesCompactPosition(e) /\ form = "exact"
      BY <2>1, MaskIsRead
    <3> HIDE DEF mask
    <3>2. p = WritePosition(r.fields["position"], form, prev)
      BY <2>1 DEF PositionPart
    <3>3. /\ p \in Seq(Byte)
          /\ form = "local" <=> Len(p) = 2
          /\ form = "compact" <=> Len(p) = 3
          /\ form = "exact" <=> Len(p) = 4
      BY <2>1, <3>1, <3>2, PositionIsRead
    <3>4. form \in {"local", "compact", "exact"}
      BY <2>1, FormOfRecord
    <3> HIDE DEF form
    <3> QED
      BY <3>3, <3>4
  <2>2. CASE "position" \notin Mask(r)
    <3>1. p = << >> /\ form = "none"
      BY <2>2, FormOfRecord DEF PositionPart
    <3> HIDE DEF form
    <3> QED
      BY <3>1, EmptyPart
  <2> QED
    BY <2>1, <2>2
<1>4. f \in Seq(Byte) /\ Len(f) = cost("facing", FacingBytes(e))
  BY FieldsOfRecord, FacingIsRead, EmptyPart DEF FacingPart
<1>5. v \in Seq(Byte) /\ Len(v) = cost("vitals", VitalBytes(e))
  BY FieldsOfRecord, VitalsAreRead, EmptyPart DEF VitalsPart
<1>6. a \in Seq(Byte) /\ Len(a) = na
  BY FieldsOfRecord, ActionIsRead, EmptyPart DEF ActionPart
<1>7. Measure(r, e, prev) = MeasureHeader(r, e) + np + cost("facing", FacingBytes(e))
                              + cost("vitals", VitalBytes(e)) + na
  BY DEF Measure, FacingBytes, VitalBytes, ActionLength
<1> HIDE DEF h, p, f, v, a, np, na, cost
<1>8. /\ h \o p \in Seq(Byte) /\ Len(h \o p) = Len(h) + Len(p)
  BY <1>2, <1>3, ConcatBytes
<1>9. /\ h \o p \o f \in Seq(Byte) /\ Len(h \o p \o f) = Len(h) + Len(p) + Len(f)
  BY <1>8, <1>4, ConcatBytes
<1>10. /\ h \o p \o f \o v \in Seq(Byte)
       /\ Len(h \o p \o f \o v) = Len(h) + Len(p) + Len(f) + Len(v)
  BY <1>9, <1>5, ConcatBytes
<1>11. /\ h \o p \o f \o v \o a \in Seq(Byte)
       /\ Len(h \o p \o f \o v \o a) = Len(h) + Len(p) + Len(f) + Len(v) + Len(a)
  BY <1>10, <1>6, ConcatBytes
<1>12. /\ WriteRecord(r, e, prev) \in Seq(Byte)
       /\ Len(WriteRecord(r, e, prev)) = Len(h) + Len(p) + Len(f) + Len(v) + Len(a)
       /\ Len(WriteRecord(r, e, prev)) = Measure(r, e, prev)
  BY <1>1, <1>2, <1>3, <1>4, <1>5, <1>6, <1>7, <1>11
<1> QED
  BY <1>1, <1>2, <1>3, <1>4, <1>5, <1>6, <1>12 DEF h, p, f, v, a

\* What is read of a field, and of a record: what the encoding can say of it.
SaidField(r, e, field) ==
  CASE field = "position" ->
         IF usesCompactPosition(e) /\ positionIsCompact(r.fields["position"])
         THEN compactPositionPair(r.fields["position"]) ELSE r.fields["position"]
    [] field = "facing" -> SaidFacing(r.fields["facing"], e)
    [] field = "vitals" -> SubSeq(r.fields["vitals"], 1, VitalBytes(e))
    [] field = "action" -> r.fields["action"]

SaidOf(r, e) ==
  [id |-> r.id, fields |-> IF "removed" \in Mask(r) THEN Removed
                           ELSE [field \in Mask(r) |-> SaidField(r, e, field)]]

\* The position that the next record is compared with.
NextPrevious(r, e, prev) ==
  IF "position" \in Mask(r) THEN decodedPositionForRecord(r, Form(r, e, prev)) ELSE prev

\* A position is rounded alike whatever stands before it.
LEMMA RoundedAlike ==
  ASSUME NEW r, IsRecord(r), "position" \in Mask(r), NEW e, NEW prev
  PROVE  /\ SaidPosition(r.fields["position"], Form(r, e, prev)) = SaidField(r, e, "position")
         /\ NextPrevious(r, e, prev) = SaidField(r, e, "position")
         /\ NextPrevious(r, e, prev) \in Position
<1> DEFINE p == r.fields["position"]
           form == Form(r, e, prev)
<1>1. p \in Position
  BY FieldsOfRecord
<1>2. form = "exact" <=> ~(usesCompactPosition(e) /\ positionIsCompact(p))
  BY DEF Form
<1>3. SaidField(r, e, "position") =
        IF usesCompactPosition(e) /\ positionIsCompact(p) THEN compactPositionPair(p) ELSE p
  BY DEF SaidField
<1>4. NextPrevious(r, e, prev) = SaidPosition(p, form)
  BY DEF NextPrevious, decodedPositionForRecord, SaidPosition
<1>5. SaidPosition(p, form) = SaidField(r, e, "position")
  BY <1>2, <1>3 DEF SaidPosition
<1>6. SaidField(r, e, "position") \in Position
  BY <1>1, <1>3, PositionIsPair
<1> QED
  BY <1>4, <1>5, <1>6

\* Five parts that stand one behind the other.
LEMMA PartsAreHeld ==
  ASSUME NEW h \in Seq(Byte), NEW p \in Seq(Byte), NEW f \in Seq(Byte), NEW v \in Seq(Byte),
         NEW a \in Seq(Byte), NEW bytes, Len(bytes) \in Nat, NEW at \in Nat,
         Holds(bytes, at, h \o p \o f \o v \o a)
  PROVE  /\ Holds(bytes, at, h)
         /\ Holds(bytes, at + Len(h), p)
         /\ Holds(bytes, at + Len(h) + Len(p), f)
         /\ Holds(bytes, at + Len(h) + Len(p) + Len(f), v)
         /\ Holds(bytes, at + Len(h) + Len(p) + Len(f) + Len(v), a)
<1>1. /\ Len(h) \in Nat /\ Len(p) \in Nat /\ Len(f) \in Nat /\ Len(v) \in Nat
  BY LenProperties
<1>2. h \o p \in Seq(Byte) /\ Len(h \o p) = Len(h) + Len(p)
  BY ConcatBytes
<1>3. h \o p \o f \in Seq(Byte) /\ Len(h \o p \o f) = Len(h) + Len(p) + Len(f)
  BY <1>2, ConcatBytes
<1>4. h \o p \o f \o v \in Seq(Byte) /\ Len(h \o p \o f \o v) = Len(h) + Len(p) + Len(f) + Len(v)
  BY <1>3, ConcatBytes
<1>5. Holds(bytes, at, h \o p \o f \o v) /\ Holds(bytes, at + Len(h \o p \o f \o v), a)
  BY <1>4, HoldsBoth
<1>6. Holds(bytes, at, h \o p \o f) /\ Holds(bytes, at + Len(h \o p \o f), v)
  BY <1>3, <1>5, HoldsBoth
<1>7. Holds(bytes, at, h \o p) /\ Holds(bytes, at + Len(h \o p), f)
  BY <1>2, <1>6, HoldsBoth
<1>8. Holds(bytes, at, h) /\ Holds(bytes, at + Len(h), p)
  BY <1>7, HoldsBoth
<1>9. /\ at + Len(h \o p) = at + Len(h) + Len(p)
      /\ at + Len(h \o p \o f) = at + Len(h) + Len(p) + Len(f)
      /\ at + Len(h \o p \o f \o v) = at + Len(h) + Len(p) + Len(f) + Len(v)
  BY <1>1, <1>2, <1>3, <1>4
<1> QED
  BY <1>5, <1>6, <1>7, <1>8, <1>9

\* The mask that is read of a record, and where its fields start.
MaskOf(r, e, prev) == Expand(HeaderBits(r, e, Form(r, e, prev)), e)
Starts(p, f, v, a) == [position |-> p, facing |-> f, vitals |-> v, action |-> a]

\* Each field is as long as it was written, and is read as the encoding can say it.
LEMMA FieldsAreSaid ==
  ASSUME NEW r, IsRecord(r), NEW e \in Encodings, NEW prev, NEW bytes, Len(bytes) \in Nat,
         NEW p \in Nat, NEW f \in Nat, NEW v \in Nat, NEW a \in Nat,
         Holds(bytes, p, PositionPart(r, e, prev)), Holds(bytes, f, FacingPart(r, e)),
         Holds(bytes, v, VitalsPart(r, e)), Holds(bytes, a, ActionPart(r, e))
  PROVE  LET mask == MaskOf(r, e, prev)
             at   == Starts(p, f, v, a)
         IN
         /\ \A field \in mask.fields :
              ReadField(bytes, e, prev, mask, at, field) = SaidField(r, e, field)
         /\ "action" \in mask.fields => ~IsOverlong(bytes, a, e)
         /\ Len(PositionPart(r, e, prev)) =
              IF "position" \in mask.fields THEN PositionBytes(mask, e) ELSE 0
         /\ Len(FacingPart(r, e)) = IF "facing" \in mask.fields THEN FacingBytes(e) ELSE 0
         /\ Len(VitalsPart(r, e)) = IF "vitals" \in mask.fields THEN VitalBytes(e) ELSE 0
         /\ Len(ActionPart(r, e)) =
              IF "action" \in mask.fields THEN ActionBytes(bytes, a, e) ELSE 0
<1> DEFINE mask == MaskOf(r, e, prev)
           at == Starts(p, f, v, a)
<1>1. at["position"] = p /\ at["facing"] = f /\ at["vitals"] = v /\ at["action"] = a
  BY DEF Starts
<1>2. /\ mask.fields = Mask(r) \ {"removed"}
      /\ "position" \in Mask(r) =>
           /\ mask.local <=> Form(r, e, prev) = "local"
           /\ mask.wide <=> usesCompactPosition(e) /\ Form(r, e, prev) = "exact"
  BY MaskIsRead DEF MaskOf
<1> HIDE DEF mask, at
<1>3. mask.fields \subseteq {"position", "facing", "vitals", "action"}
  BY <1>2, MaskOfRecord
<1>4. ASSUME "position" \in mask.fields
      PROVE  /\ ReadField(bytes, e, prev, mask, at, "position") = SaidField(r, e, "position")
             /\ Len(PositionPart(r, e, prev)) = PositionBytes(mask, e)
  <2> DEFINE part == WritePosition(r.fields["position"], Form(r, e, prev), prev)
  <2>1. "position" \in Mask(r)
    BY <1>2, <1>4
  <2>2. PositionPart(r, e, prev) = part
    BY <2>1 DEF PositionPart
  <2>3. /\ Len(part) = PositionBytes(mask, e)
        /\ ReadPosition(bytes, p, mask, e, prev) =
             SaidPosition(r.fields["position"], Form(r, e, prev))
    BY <1>2, <2>1, <2>2, PositionIsRead
  <2>4. ReadField(bytes, e, prev, mask, at, "position") = ReadPosition(bytes, p, mask, e, prev)
    BY <1>1 DEF ReadField
  <2> QED
    BY <2>1, <2>2, <2>3, <2>4, RoundedAlike
<1>5. ASSUME "facing" \in mask.fields
      PROVE  /\ ReadField(bytes, e, prev, mask, at, "facing") = SaidField(r, e, "facing")
             /\ Len(FacingPart(r, e)) = FacingBytes(e)
  <2>1. "facing" \in Mask(r) /\ r.fields["facing"] \in Short
    BY <1>2, <1>5, FieldsOfRecord
  <2>2. FacingPart(r, e) = WrittenFacing(r.fields["facing"], e)
    BY <2>1 DEF FacingPart
  <2>3. /\ Len(WrittenFacing(r.fields["facing"], e)) = FacingBytes(e)
        /\ FacingRead(bytes, f, e) = SaidFacing(r.fields["facing"], e)
    BY <2>1, <2>2, FacingIsRead
  <2>4. ReadField(bytes, e, prev, mask, at, "facing") = FacingRead(bytes, f, e)
    BY <1>1 DEF ReadField, FacingRead
  <2>5. SaidField(r, e, "facing") = SaidFacing(r.fields["facing"], e)
    BY DEF SaidField
  <2> QED
    BY <2>2, <2>3, <2>4, <2>5
<1>6. ASSUME "vitals" \in mask.fields
      PROVE  /\ ReadField(bytes, e, prev, mask, at, "vitals") = SaidField(r, e, "vitals")
             /\ Len(VitalsPart(r, e)) = VitalBytes(e)
  <2>1. "vitals" \in Mask(r) /\ r.fields["vitals"] \in Byte \X Byte \X Byte
    BY <1>2, <1>6, FieldsOfRecord
  <2>2. VitalsPart(r, e) = SubSeq(r.fields["vitals"], 1, VitalBytes(e))
    BY <2>1 DEF VitalsPart
  <2>3. /\ Len(VitalsPart(r, e)) = VitalBytes(e)
        /\ SubSeq(bytes, v + 1, v + VitalBytes(e)) = VitalsPart(r, e)
    BY <2>1, <2>2, VitalsAreRead
  <2>4. ReadField(bytes, e, prev, mask, at, "vitals") = SubSeq(bytes, v + 1, v + VitalBytes(e))
    BY <1>1 DEF ReadField
  <2>5. SaidField(r, e, "vitals") = SubSeq(r.fields["vitals"], 1, VitalBytes(e))
    BY DEF SaidField
  <2> QED
    BY <2>2, <2>3, <2>4, <2>5
<1>7. ASSUME "action" \in mask.fields
      PROVE  /\ ReadField(bytes, e, prev, mask, at, "action") = SaidField(r, e, "action")
             /\ Len(ActionPart(r, e)) = ActionBytes(bytes, a, e)
             /\ ~IsOverlong(bytes, a, e)
  <2> DEFINE q == r.fields["action"]
  <2>1. "action" \in Mask(r) /\ q \in Byte \X Byte
    BY <1>2, <1>7, FieldsOfRecord
  <2>2. ActionPart(r, e) = WriteAction(q[1], q[2], e)
    BY <2>1 DEF ActionPart
  <2>5. SaidField(r, e, "action") = q
    BY DEF SaidField
  <2> HIDE DEF q
  <2>3. /\ Len(ActionPart(r, e)) = ActionLength(q, e)
        /\ ActionBytes(bytes, a, e) = ActionLength(q, e)
        /\ ReadAction(bytes, a, e) = q
        /\ ActionLength(q, e) = 3 => ~actionFlagsAreCompact(q[1], q[2])
    BY <2>1, <2>2, ActionIsRead
  <2>4. ReadField(bytes, e, prev, mask, at, "action") = ReadAction(bytes, a, e)
    BY <1>1 DEF ReadField
  <2>6. ~IsOverlong(bytes, a, e)
    BY <2>3 DEF IsOverlong
  <2> QED
    BY <2>3, <2>4, <2>5, <2>6
<1>8. /\ "position" \notin mask.fields => Len(PositionPart(r, e, prev)) = 0
      /\ "facing" \notin mask.fields => Len(FacingPart(r, e)) = 0
      /\ "vitals" \notin mask.fields => Len(VitalsPart(r, e)) = 0
      /\ "action" \notin mask.fields => Len(ActionPart(r, e)) = 0
  BY <1>2, EmptyPart DEF PositionPart, FacingPart, VitalsPart, ActionPart
<1>9. \A field \in mask.fields :
        ReadField(bytes, e, prev, mask, at, field) = SaidField(r, e, field)
  BY <1>3, <1>4, <1>5, <1>6, <1>7
<1> QED
  BY <1>4, <1>5, <1>6, <1>7, <1>8, <1>9 DEF mask, at

\* A record that stands in the packet is read, whatever follows it (decodeSnapshot).
LEMMA RecordIsRead ==
  ASSUME NEW r, IsRecord(r), NEW e \in Encodings, NEW bytes, Len(bytes) \in Nat,
         NEW reader, reader.ok, reader.at \in Nat,
         Holds(bytes, reader.at, WriteRecord(r, e, reader.prev))
  PROVE  ReadRecord(bytes, e, reader) =
           [at |-> reader.at + Len(WriteRecord(r, e, reader.prev)), ok |-> TRUE,
            got |-> Append(reader.got, SaidOf(r, e)), prev |-> NextPrevious(r, e, reader.prev)]
<1> DEFINE at == reader.at
           prev == reader.prev
           form == Form(r, e, prev)
           h == WriteHeader(r, e, form)
           p == PositionPart(r, e, prev)
           f == FacingPart(r, e)
           v == VitalsPart(r, e)
           a == ActionPart(r, e)
           header == ReadHeader(bytes, at, e)
           mask == MaskOf(r, e, prev)
           atP == at + Len(h)
           atF == atP + Len(p)
           atV == atF + Len(f)
           atA == atV + Len(v)
           end == atA + Len(a)
           starts == Starts(atP, atF, atV, atA)
<1>1. /\ WriteRecord(r, e, prev) = h \o p \o f \o v \o a
      /\ h \in Seq(Byte) /\ p \in Seq(Byte) /\ f \in Seq(Byte) /\ v \in Seq(Byte)
      /\ a \in Seq(Byte) /\ Len(h) > 0
      /\ Len(WriteRecord(r, e, prev)) = Len(h) + Len(p) + Len(f) + Len(v) + Len(a)
  BY RecordIsWritten
<1>2. /\ mask.ok
      /\ mask.removed <=> "removed" \in Mask(r)
      /\ mask.fields = Mask(r) \ {"removed"}
      /\ mask.local => prev # None
  BY MaskIsRead DEF MaskOf
<1>3. "removed" \in Mask(r) => Mask(r) = {"removed"}
  BY MaskOfRecord
<1>4. /\ Len(h) \in Nat /\ Len(p) \in Nat /\ Len(f) \in Nat /\ Len(v) \in Nat /\ Len(a) \in Nat
  BY <1>1, LenProperties
<1>5. at \in Nat /\ reader.ok
  OBVIOUS
<1> HIDE DEF at, prev
<1>6. Holds(bytes, at, h \o p \o f \o v \o a)
  BY <1>1 DEF at, prev
<1>7. /\ Holds(bytes, at, h) /\ Holds(bytes, atP, p) /\ Holds(bytes, atF, f)
      /\ Holds(bytes, atV, v) /\ Holds(bytes, atA, a)
  <2>1. /\ h \in Seq(Byte) /\ p \in Seq(Byte) /\ f \in Seq(Byte) /\ v \in Seq(Byte)
        /\ a \in Seq(Byte)
    BY <1>1
  <2> HIDE DEF h, p, f, v, a
  <2> QED
    BY <1>5, <1>6, <2>1, PartsAreHeld
<1>8. header = [bytes |-> Len(h), id |-> r.id, bits |-> HeaderBits(r, e, form)]
  BY <1>5, <1>7, HeaderIsRead
<1>9. atP \in Nat /\ atF \in Nat /\ atV \in Nat /\ atA \in Nat /\ end \in Nat
  BY <1>4, <1>5
<1>10. starts["action"] = atA
  BY DEF Starts
<1> HIDE DEF header
<1>12. end <= Len(bytes)
  BY <1>7 DEF Holds
<1>13. end = at + Len(WriteRecord(r, e, prev))
  BY <1>1, <1>4, <1>5
<1>14. /\ \A field \in mask.fields :
            ReadField(bytes, e, prev, mask, starts, field) = SaidField(r, e, field)
       /\ "action" \in mask.fields => ~IsOverlong(bytes, atA, e)
       /\ Len(p) = IF "position" \in mask.fields THEN PositionBytes(mask, e) ELSE 0
       /\ Len(f) = IF "facing" \in mask.fields THEN FacingBytes(e) ELSE 0
       /\ Len(v) = IF "vitals" \in mask.fields THEN VitalBytes(e) ELSE 0
       /\ Len(a) = IF "action" \in mask.fields THEN ActionBytes(bytes, atA, e) ELSE 0
  BY <1>5, <1>7, <1>9, FieldsAreSaid
<1> HIDE DEF starts, mask
<1> HIDE DEF atP, atF, atV, atA, end
<1>15. header.bytes = Len(h) /\ header.id = r.id /\ header.bits = HeaderBits(r, e, form)
  BY <1>8
<1>16. ReadRecord(bytes, e, reader) = ReadMasked(bytes, e, reader, header, mask)
  BY <1>15 DEF ReadRecord, ReadHeaded, header, mask, MaskOf, at
<1>17. ReadMasked(bytes, e, reader, header, mask) =
         ReadFields(bytes, e, reader, header, mask, starts, end)
  BY <1>14, <1>15 DEF ReadMasked, starts, Starts, atP, atF, atV, atA, end, at
<1>18. ReadFields(bytes, e, reader, header, mask, starts, end) =
         [at |-> end, ok |-> TRUE,
          got |-> Append(reader.got,
                    [id |-> header.id,
                     fields |-> IF mask.removed THEN Removed
                                ELSE [field \in mask.fields |->
                                        ReadField(bytes, e, prev, mask, starts, field)]]),
          prev |-> IF "position" \in mask.fields
                   THEN ReadField(bytes, e, prev, mask, starts, "position") ELSE prev]
  <2>1. starts["action"] = atA
    BY <1>10
  <2>2. ~(header.bytes = 0) /\ requireBytes(bytes, end, 0)
    BY <1>1, <1>4, <1>9, <1>12, <1>15 DEF requireBytes
  <2> QED
    BY <1>2, <1>5, <1>14, <2>1, <2>2 DEF ReadFields, prev
<1>19. (IF mask.removed THEN Removed
        ELSE [field \in mask.fields |-> ReadField(bytes, e, prev, mask, starts, field)])
         = SaidOf(r, e).fields
  <2>1. CASE "removed" \in Mask(r)
    BY <1>2, <2>1 DEF SaidOf
  <2>2. CASE "removed" \notin Mask(r)
    <3>1. mask.fields = Mask(r) /\ ~mask.removed
      BY <1>2, <2>2
    <3>2. SaidOf(r, e).fields = [field \in Mask(r) |-> SaidField(r, e, field)]
      BY <2>2 DEF SaidOf
    <3> QED
      BY <1>14, <3>1, <3>2
  <2> QED
    BY <2>1, <2>2
<1>20. [id |-> header.id, fields |-> SaidOf(r, e).fields] = SaidOf(r, e)
  BY <1>15 DEF SaidOf
<1>21. (IF "position" \in mask.fields
        THEN ReadField(bytes, e, prev, mask, starts, "position") ELSE prev)
         = NextPrevious(r, e, prev)
  <2>1. CASE "position" \in Mask(r)
    BY <1>2, <1>14, <2>1, RoundedAlike
  <2>2. CASE "position" \notin Mask(r)
    BY <1>2, <2>2 DEF NextPrevious
  <2> QED
    BY <2>1, <2>2
<1> QED
  BY <1>13, <1>16, <1>17, <1>18, <1>19, <1>20, <1>21 DEF at, prev

\* The longer bytes begin with the shorter.
Begins(short, long) ==
  /\ Len(short) \in Nat /\ Len(long) \in Nat /\ Len(short) <= Len(long)
  /\ \A i \in Nat : i > 0 /\ i <= Len(short) => long[i] = short[i]

\* A varint that is read is read alike, whatever follows it (readUint32Varint).
LEMMA VarintIsLocal ==
  ASSUME NEW short, NEW long, Begins(short, long), NEW at \in Nat
  PROVE  LET read == readUint32Varint(short, at)
         IN /\ read.bytes \in Nat
            /\ read.bytes # 0 => /\ readUint32Varint(long, at) = read
                                 /\ at + read.bytes <= Len(short)
<1> DEFINE Ends(bytes) == {k \in 1 .. 5 : requireBytes(bytes, at, k) /\ bytes[at + k] < 128}
           Least(bytes) == CHOOSE n \in Ends(bytes) : \A m \in Ends(bytes) : n <= m
           Part(bytes, k, i) == IF i <= k THEN (bytes[at + i] % 128) * Weight[i] ELSE 0
           Value(bytes, k) == Part(bytes, k, 1) + Part(bytes, k, 2) + Part(bytes, k, 3)
                                + Part(bytes, k, 4) + Part(bytes, k, 5)
           Of(bytes, k) ==
             IF Ends(bytes) = {} THEN [bytes |-> 0, value |-> 0]
             ELSE IF (k = 5 /\ bytes[at + 5] > 15) \/ uint32VarintBytes(Value(bytes, k)) # k
             THEN [bytes |-> 0, value |-> 0]
             ELSE [bytes |-> k, value |-> Value(bytes, k)]
           none == [bytes |-> 0, value |-> 0]
<1>0. none.bytes = 0
  OBVIOUS
<1>1. /\ readUint32Varint(short, at) = Of(short, Least(short))
      /\ readUint32Varint(long, at) = Of(long, Least(long))
  BY DEF readUint32Varint
<1>2. CASE Ends(short) = {}
  <2>1. readUint32Varint(short, at) = none
    BY <1>1, <1>2
  <2> HIDE DEF none
  <2> QED
    BY <1>0, <2>1
<1>3. CASE Ends(short) # {}
  <2>1. /\ Ends(short) \in SUBSET Nat /\ Ends(long) \in SUBSET Nat
        /\ \A k \in Ends(short) : k \in 1 .. 5
    OBVIOUS
  <2>2. \A k \in Ends(short) : at + k <= Len(short)
    BY DEF requireBytes
  <2>3. ASSUME NEW i \in 1 .. 5, at + i <= Len(short)
        PROVE  long[at + i] = short[at + i]
    <3>1. at + i \in Nat /\ at + i > 0
      OBVIOUS
    <3> QED
      BY <2>3, <3>1 DEF Begins
  <2>4. ASSUME NEW i \in 1 .. 5, at + i <= Len(short)
        PROVE  i \in Ends(short) <=> i \in Ends(long)
    <3>1. at + i <= Len(long)
      BY <2>4 DEF Begins
    <3> QED
      BY <2>3, <2>4, <3>1 DEF requireBytes
  <2>5. \A k \in Ends(long) : k \in 1 .. 5
    OBVIOUS
  <2> DEFINE k == Least(short)
  <2> HIDE DEF Ends
  <2>6. \E n \in Ends(short) : \A m \in Ends(short) : n <= m
    BY <1>3, <2>1, LeastOf
  <2>7. k \in Ends(short) /\ \A m \in Ends(short) : k <= m
    BY <2>6
  <2>8. k \in 1 .. 5 /\ at + k <= Len(short)
    BY <2>1, <2>2, <2>7
  <2> HIDE DEF k
  <2>9. k \in Ends(long)
    BY <2>4, <2>7, <2>8
  <2>10. ASSUME NEW m \in Ends(long)
         PROVE  k <= m
    <3>1. m \in 1 .. 5
      BY <2>5
    <3>2. CASE m <= k
      <4>1. at + m <= Len(short)
        BY <2>8, <3>1, <3>2 DEF Begins
      <4>2. m \in Ends(short)
        BY <2>4, <3>1, <4>1
      <4> QED
        BY <2>7, <4>2
    <3> QED
      BY <2>8, <3>1, <3>2
  <2>11. Least(long) = k
    <3> DEFINE least == Least(long)
    <3>1. least \in Ends(long) /\ \A m \in Ends(long) : least <= m
      BY <2>9, <2>10
    <3> HIDE DEF least
    <3>2. least <= k /\ k <= least /\ least \in Nat
      BY <2>1, <2>9, <2>10, <3>1
    <3>3. least = k
      BY <2>8, <3>2
    <3> QED
      BY <3>3 DEF least
  <2>12. \A i \in 1 .. 5 : i <= k => long[at + i] = short[at + i]
    <3>1. \A i \in 1 .. 5 : i <= k => at + i <= Len(short)
      BY <2>8 DEF Begins
    <3> QED
      BY <2>3, <3>1
  <2>13. \A i \in 1 .. 5 : Part(long, k, i) = Part(short, k, i)
    BY <2>12
  <2>14. Value(long, k) = Value(short, k)
    <3>1. 1 \in 1 .. 5 /\ 2 \in 1 .. 5 /\ 3 \in 1 .. 5 /\ 4 \in 1 .. 5 /\ 5 \in 1 .. 5
      OBVIOUS
    <3> HIDE DEF Part
    <3>2. /\ Part(long, k, 1) = Part(short, k, 1) /\ Part(long, k, 2) = Part(short, k, 2)
          /\ Part(long, k, 3) = Part(short, k, 3) /\ Part(long, k, 4) = Part(short, k, 4)
          /\ Part(long, k, 5) = Part(short, k, 5)
      BY <2>13, <3>1, Zenon
    <3> QED
      BY <3>2, Zenon
  <2> HIDE DEF Value
  <2>15. k = 5 => long[at + 5] = short[at + 5]
    <3>1. 5 \in 1 .. 5 /\ 5 <= 5
      OBVIOUS
    <3> QED
      BY <2>12, <3>1, Zenon
  <2>16. Ends(long) # {}
    BY <2>9
  <2>17. Of(long, k) = Of(short, k)
    BY <1>3, <2>14, <2>15, <2>16
  <2>18. Of(short, k).bytes \in {0, k}
    BY <1>3
  <2>19. /\ readUint32Varint(short, at) = Of(short, k)
         /\ readUint32Varint(long, at) = Of(short, k)
    BY <1>1, <2>11, <2>17 DEF k
  <2> HIDE DEF Of
  <2> QED
    BY <2>8, <2>18, <2>19
<1> QED
  BY <1>2, <1>3

\* A header that is read is read alike, whatever follows it (decodeSnapshot).
LEMMA HeaderIsLocal ==
  ASSUME NEW short, NEW long, Begins(short, long), NEW at \in Nat, NEW e \in Encodings
  PROVE  LET header == ReadHeader(short, at, e)
         IN /\ header.bytes \in Nat
            /\ header.bytes # 0 => /\ ReadHeader(long, at, e) = header
                                   /\ at + header.bytes <= Len(short)
<1> DEFINE varint == readUint32Varint(short, at + 2)
           id == ReadId(short, at, e)
<1>1. \A n \in Nat : at + n <= Len(short) => at + n <= Len(long)
  BY DEF Begins
<1>2. \A n \in 1 .. 6 : at + n <= Len(short) => long[at + n] = short[at + n]
  <2>1. \A n \in 1 .. 6 : at + n \in Nat /\ at + n > 0
    OBVIOUS
  <2> QED
    BY <2>1 DEF Begins
<1>3. NoHeader.bytes = 0
  BY DEF NoHeader
<1>4. CASE usesPackedRecordHeader(e)
  <2>1. ReadHeader(short, at, e) = ReadPackedHeader(short, at)
    BY <1>4 DEF ReadHeader
  <2>2. ReadHeader(long, at, e) = ReadPackedHeader(long, at)
    BY <1>4 DEF ReadHeader
  <2>3. /\ varint.bytes \in Nat
        /\ varint.bytes # 0 => /\ readUint32Varint(long, at + 2) = varint
                               /\ at + 2 + varint.bytes <= Len(short)
    BY VarintIsLocal
  <2> HIDE DEF varint
  <2>4. CASE ~requireBytes(short, at, 2)
    BY <1>3, <2>1, <2>4 DEF ReadPackedHeader
  <2>5. CASE requireBytes(short, at, 2)
    <3>1. at + 2 <= Len(short) /\ at + 1 <= Len(short) /\ requireBytes(long, at, 2)
      BY <2>5 DEF requireBytes, Begins
    <3>2. long[at + 1] = short[at + 1] /\ long[at + 2] = short[at + 2]
      BY <1>2, <3>1
    <3>3. Word(long, at) = Word(short, at)
      BY <3>2, Zenon DEF Word
    <3> DEFINE inline == Word(short, at) % 1024
               bits == Word(short, at) \div 1024
    <3>4. CASE inline # Escape
      <4>1. ReadPackedHeader(short, at) = [bytes |-> 2, id |-> inline, bits |-> bits]
        BY <2>5, <3>4 DEF ReadPackedHeader
      <4>2. ReadPackedHeader(long, at) = [bytes |-> 2, id |-> inline, bits |-> bits]
        BY <3>1, <3>3, <3>4 DEF ReadPackedHeader
      <4> HIDE DEF inline, bits
      <4> QED
        BY <2>1, <2>2, <3>1, <4>1, <4>2
    <3>5. CASE inline = Escape /\ (varint.bytes = 0 \/ varint.value < Escape)
      <4>1. ReadPackedHeader(short, at) = NoHeader
        BY <2>5, <3>5 DEF ReadPackedHeader, varint
      <4> QED
        BY <1>3, <2>1, <4>1
    <3>6. CASE inline = Escape /\ ~(varint.bytes = 0 \/ varint.value < Escape)
      <4>1. ReadPackedHeader(short, at) = [bytes |-> 2 + varint.bytes, id |-> varint.value,
                                           bits |-> bits]
        BY <2>5, <3>6 DEF ReadPackedHeader, varint
      <4>2. ReadPackedHeader(long, at) = [bytes |-> 2 + varint.bytes, id |-> varint.value,
                                          bits |-> bits]
        BY <2>3, <3>1, <3>3, <3>6 DEF ReadPackedHeader, varint
      <4>3. 2 + varint.bytes \in Nat /\ at + (2 + varint.bytes) <= Len(short)
        BY <2>3, <3>6 DEF Begins
      <4> HIDE DEF inline, bits
      <4> QED
        BY <2>1, <2>2, <4>1, <4>2, <4>3
    <3> QED
      BY <3>4, <3>5, <3>6
  <2> QED
    BY <2>4, <2>5
<1>5. CASE ~usesPackedRecordHeader(e)
  <2>1. /\ id.bytes \in Nat
        /\ id.bytes # 0 => ReadId(long, at, e) = id /\ at + id.bytes <= Len(short)
    <3>1. CASE e > 0
      <4>1. id = readUint32Varint(short, at) /\ ReadId(long, at, e) = readUint32Varint(long, at)
        BY <3>1 DEF ReadId
      <4> HIDE DEF id
      <4> QED
        BY <4>1, VarintIsLocal
    <3>2. CASE ~(e > 0) /\ ~requireBytes(short, at, 4)
      BY <3>2 DEF ReadId
    <3>3. CASE ~(e > 0) /\ requireBytes(short, at, 4)
      <4>1. /\ at + 4 <= Len(short) /\ at + 3 <= Len(short) /\ at + 2 <= Len(short)
            /\ at + 1 <= Len(short) /\ requireBytes(long, at, 4)
        BY <3>3 DEF requireBytes, Begins
      <4>2. /\ long[at + 1] = short[at + 1] /\ long[at + 2] = short[at + 2]
            /\ long[at + 3] = short[at + 3] /\ long[at + 4] = short[at + 4]
        BY <1>2, <4>1
      <4>3. at + 2 + 1 = at + 3 /\ at + 2 + 2 = at + 4
        OBVIOUS
      <4>4. Word(long, at) = Word(short, at) /\ Word(long, at + 2) = Word(short, at + 2)
        BY <4>2, <4>3 DEF Word
      <4> DEFINE value == Word(short, at) + 65536 * Word(short, at + 2)
      <4>5. id = [bytes |-> 4, value |-> value]
        BY <3>3 DEF ReadId
      <4>6. ReadId(long, at, e) = [bytes |-> 4, value |-> value]
        BY <3>3, <4>1, <4>4 DEF ReadId
      <4> HIDE DEF value, id
      <4> QED
        BY <4>1, <4>5, <4>6
    <3> QED
      BY <3>1, <3>2, <3>3
  <2> HIDE DEF id
  <2>2. CASE id.bytes = 0 \/ ~requireBytes(short, at, id.bytes + 1)
    <3>1. ReadHeader(short, at, e) = NoHeader
      BY <1>5, <2>2 DEF ReadHeader, id
    <3> QED
      BY <1>3, <3>1
  <2>3. CASE ~(id.bytes = 0 \/ ~requireBytes(short, at, id.bytes + 1))
    <3> DEFINE n == id.bytes + 1
    <3>1. /\ n \in Nat /\ at + n <= Len(short) /\ at + n \in Nat /\ at + n > 0
          /\ at + n <= Len(long) /\ at + id.bytes + 1 = at + n
      BY <2>1, <2>3 DEF requireBytes, Begins
    <3>2. long[at + n] = short[at + n]
      BY <3>1 DEF Begins
    <3>3. requireBytes(long, at, n)
      BY <3>1 DEF requireBytes
    <3>4. ReadHeader(short, at, e) = [bytes |-> n, id |-> id.value, bits |-> short[at + n]]
      BY <1>5, <2>3, <3>1 DEF ReadHeader, id
    <3>5. ReadHeader(long, at, e) = [bytes |-> n, id |-> id.value, bits |-> short[at + n]]
      BY <1>5, <2>1, <2>3, <3>1, <3>2, <3>3 DEF ReadHeader, id
    <3> HIDE DEF n
    <3> QED
      BY <3>1, <3>4, <3>5
  <2> QED
    BY <2>2, <2>3
<1> QED
  BY <1>4, <1>5

\* The fields that a mask names, and the bytes of each.
LEMMA BytesOfFields ==
  ASSUME NEW mask, NEW bytes, NEW at, NEW e
  PROVE  /\ PositionBytes(mask, e) \in 2 .. 4 /\ FacingBytes(e) \in 1 .. 2
         /\ VitalBytes(e) \in 2 .. 3 /\ ActionBytes(bytes, at, e) \in 1 .. 3
BY DEF PositionBytes, FacingBytes, VitalBytes, ActionBytes

\* A position that ends within the shorter bytes is read alike.
LEMMA PositionIsLocal ==
  ASSUME NEW short, NEW long, Begins(short, long), NEW at \in Nat, NEW mask, NEW e, NEW prev,
         at + PositionBytes(mask, e) <= Len(short)
  PROVE  ReadPosition(long, at, mask, e, prev) = ReadPosition(short, at, mask, e, prev)
<1> DEFINE n == PositionBytes(mask, e)
<1>1. n \in {2, 3, 4}
  BY DEF PositionBytes
<1>2. at + n <= Len(short)
  OBVIOUS
<1>3. ASSUME NEW i \in 1 .. 4, at + i <= Len(short)
      PROVE  long[at + i] = short[at + i]
  <2>1. at + i \in Nat /\ at + i > 0
    OBVIOUS
  <2> QED
    BY <1>3, <2>1 DEF Begins
<1>4. at + 2 + 1 = at + 3 /\ at + 2 + 2 = at + 4
  OBVIOUS
<1> HIDE DEF n
<1>5. ASSUME NEW i \in 1 .. 4, i <= n
      PROVE  long[at + i] = short[at + i]
  <2>1. at + i <= Len(short)
    BY <1>1, <1>2, <1>5 DEF Begins
  <2> QED
    BY <1>3, <2>1
<1>6. CASE n = 2
  <2>1. long[at + 1] = short[at + 1] /\ long[at + 2] = short[at + 2]
    BY <1>5, <1>6
  <2> QED
    BY <1>6, <2>1 DEF ReadPosition, n
<1>7. CASE n = 3
  <2>1. /\ long[at + 1] = short[at + 1] /\ long[at + 2] = short[at + 2]
        /\ long[at + 3] = short[at + 3]
    BY <1>5, <1>7
  <2>2. Word(long, at) = Word(short, at)
    BY <2>1 DEF Word
  <2> QED
    BY <1>7, <2>1, <2>2 DEF ReadPosition, n
<1>8. CASE n = 4
  <2>1. /\ long[at + 1] = short[at + 1] /\ long[at + 2] = short[at + 2]
        /\ long[at + 3] = short[at + 3] /\ long[at + 4] = short[at + 4]
    BY <1>5, <1>8
  <2>2. Word(long, at) = Word(short, at) /\ Word(long, at + 2) = Word(short, at + 2)
    BY <1>4, <2>1 DEF Word
  <2> QED
    BY <1>8, <2>2 DEF ReadPosition, n
<1> QED
  BY <1>1, <1>6, <1>7, <1>8

\* An action that ends within the shorter bytes is read alike.
LEMMA ActionIsLocal ==
  ASSUME NEW short, NEW long, Begins(short, long), NEW at \in Nat, NEW e,
         at + ActionBytes(short, at, e) <= Len(short)
  PROVE  /\ ActionBytes(long, at, e) = ActionBytes(short, at, e)
         /\ ReadAction(long, at, e) = ReadAction(short, at, e)
         /\ IsOverlong(long, at, e) <=> IsOverlong(short, at, e)
<1> DEFINE n == ActionBytes(short, at, e)
<1>1. n \in {1, 2, 3} /\ at + n <= Len(short)
  BY DEF ActionBytes
<1> HIDE DEF n
<1>2. ASSUME NEW i \in 1 .. 3, i <= n
      PROVE  long[at + i] = short[at + i]
  <2>1. at + i \in Nat /\ at + i > 0 /\ at + i <= Len(short)
    BY <1>1, <1>2 DEF Begins
  <2> QED
    BY <2>1 DEF Begins
<1>3. /\ 1 <= n /\ long[at + 1] = short[at + 1]
      /\ 2 <= n => long[at + 2] = short[at + 2]
      /\ 3 <= n => long[at + 3] = short[at + 3]
  BY <1>1, <1>2
<1>4. requireBytes(short, at, 1) /\ requireBytes(long, at, 1)
  BY <1>1 DEF requireBytes, Begins
<1>5. ActionBytes(long, at, e) = n
  BY <1>3, <1>4 DEF ActionBytes, n
<1>6. ReadAction(long, at, e) = ReadAction(short, at, e)
  <2>1. ReadAction(long, at, e) =
          CASE n = 1 -> <<long[at + 1] % 16, long[at + 1] \div 16>>
            [] n = 2 -> <<long[at + 1], long[at + 2]>>
            [] n = 3 -> <<long[at + 2], long[at + 3]>>
    BY <1>5 DEF ReadAction
  <2>2. ReadAction(short, at, e) =
          CASE n = 1 -> <<short[at + 1] % 16, short[at + 1] \div 16>>
            [] n = 2 -> <<short[at + 1], short[at + 2]>>
            [] n = 3 -> <<short[at + 2], short[at + 3]>>
    BY DEF ReadAction, n
  <2>3. CASE n = 1
    BY <1>3, <2>1, <2>2, <2>3
  <2>4. CASE n = 2
    BY <1>3, <2>1, <2>2, <2>4
  <2>5. CASE n = 3
    BY <1>3, <2>1, <2>2, <2>5
  <2> QED
    BY <1>1, <2>3, <2>4, <2>5
<1> QED
  BY <1>5, <1>6 DEF IsOverlong, n

\* A field that ends within the shorter bytes is read alike.
LEMMA FieldIsLocal ==
  ASSUME NEW short, NEW long, Begins(short, long), NEW mask, NEW e, NEW prev,
         NEW p \in Nat, NEW f \in Nat, NEW v \in Nat, NEW a \in Nat,
         "position" \in mask.fields => p + PositionBytes(mask, e) <= Len(short),
         "facing" \in mask.fields => f + FacingBytes(e) <= Len(short),
         "vitals" \in mask.fields => v + VitalBytes(e) <= Len(short),
         "action" \in mask.fields => a + ActionBytes(short, a, e) <= Len(short),
         mask.fields \subseteq {"position", "facing", "vitals", "action"},
         NEW field \in mask.fields
  PROVE  ReadField(long, e, prev, mask, Starts(p, f, v, a), field) =
           ReadField(short, e, prev, mask, Starts(p, f, v, a), field)
<1> DEFINE at == Starts(p, f, v, a)
<1>1. at["position"] = p /\ at["facing"] = f /\ at["vitals"] = v /\ at["action"] = a
  BY DEF Starts
<1> HIDE DEF at
<1>2. CASE field = "position"
  <2>1. ReadPosition(long, p, mask, e, prev) = ReadPosition(short, p, mask, e, prev)
    BY <1>2, PositionIsLocal
  <2> QED
    BY <1>1, <1>2, <2>1 DEF ReadField, at
<1>3. CASE field = "facing"
  <2>1. f + FacingBytes(e) <= Len(short)
    BY <1>3
  <2>2. /\ long[f + 1] = short[f + 1]
        /\ ~usesCompactFacing(e) => long[f + 2] = short[f + 2]
    <3>1. /\ f + 1 \in Nat /\ f + 1 > 0 /\ f + 1 <= Len(short)
          /\ ~usesCompactFacing(e) => f + 2 \in Nat /\ f + 2 > 0 /\ f + 2 <= Len(short)
      BY <2>1 DEF FacingBytes, Begins
    <3> QED
      BY <3>1 DEF Begins
  <2>3. ~usesCompactFacing(e) => Word(long, f) = Word(short, f)
    BY <2>2 DEF Word
  <2>4. ReadField(long, e, prev, mask, at, field) =
          IF usesCompactFacing(e) THEN expandFacingU8(long[f + 1]) ELSE Word(long, f)
    BY <1>1, <1>3 DEF ReadField
  <2>5. ReadField(short, e, prev, mask, at, field) =
          IF usesCompactFacing(e) THEN expandFacingU8(short[f + 1]) ELSE Word(short, f)
    BY <1>1, <1>3 DEF ReadField
  <2> QED
    BY <2>2, <2>3, <2>4, <2>5 DEF at
<1>4. CASE field = "vitals"
  <2> DEFINE n == VitalBytes(e)
  <2>1. v + n <= Len(short) /\ n \in {2, 3}
    BY <1>4 DEF VitalBytes
  <2> HIDE DEF n
  <2>2. \A i \in v + 1 .. v + n : i \in Nat /\ i > 0 /\ i <= Len(short) /\ long[i] = short[i]
    <3>1. \A i \in v + 1 .. v + n : i \in Nat /\ i > 0 /\ i <= Len(short)
      BY <2>1 DEF Begins
    <3> QED
      BY <3>1 DEF Begins
  <2> DEFINE S == {short[i] : i \in v + 1 .. v + n}
             left == SubSeq(short, v + 1, v + n)
             right == SubSeq(long, v + 1, v + n)
  <2>3. /\ v + 1 \in Int /\ v + n \in Int /\ v + 1 <= v + n /\ (v + n) - (v + 1) + 1 = n
        /\ \A i \in 1 .. n : (v + 1) + i - 1 \in v + 1 .. v + n
    BY <2>1
  <2>6. \A i \in v + 1 .. v + n : short[i] \in S /\ long[i] \in S
    BY <2>2
  <2> HIDE DEF S
  <2>7. left \in Seq(S) /\ Len(left) = n /\ \A i \in 1 .. n : left[i] = short[(v + 1) + i - 1]
    BY <2>3, <2>6, SubSeqProperties
  <2>8. right \in Seq(S) /\ Len(right) = n /\ \A i \in 1 .. n : right[i] = long[(v + 1) + i - 1]
    BY <2>3, <2>6, SubSeqProperties
  <2> HIDE DEF left, right
  <2>9. \A i \in 1 .. n : left[i] = right[i]
    BY <2>2, <2>3, <2>7, <2>8
  <2>4. left = right
    BY <2>7, <2>8, <2>9, SeqEqual
  <2>5. \A bytes : ReadField(bytes, e, prev, mask, at, field) = SubSeq(bytes, v + 1, v + n)
    BY <1>1, <1>4 DEF ReadField, n
  <2> QED
    BY <2>4, <2>5 DEF at, left, right
<1>5. CASE field = "action"
  <2>1. ReadAction(long, a, e) = ReadAction(short, a, e)
    BY <1>5, ActionIsLocal
  <2> QED
    BY <1>1, <1>5, <2>1 DEF ReadField, at
<1> QED
  BY <1>2, <1>3, <1>4, <1>5

\* A record that is read is read alike, whatever follows it: no byte behind its end
\* is looked at (decodeSnapshot).
LEMMA RecordIsLocal ==
  ASSUME NEW short, NEW long, Begins(short, long), NEW e \in Encodings,
         NEW reader, reader.ok => reader.at \in Nat, ReadRecord(short, e, reader).ok
  PROVE  /\ reader.ok /\ ReadRecord(long, e, reader) = ReadRecord(short, e, reader)
         /\ ReadRecord(short, e, reader).at \in Nat
<1> DEFINE at == reader.at
           header == ReadHeader(short, at, e)
           mask == Expand(header.bits, e)
           skip(field, length) == IF field \in mask.fields THEN length ELSE 0
           p == at + header.bytes
           f == p + skip("position", PositionBytes(mask, e))
           v == f + skip("facing", FacingBytes(e))
           a == v + skip("vitals", VitalBytes(e))
           n == skip("action", ActionBytes(short, a, e))
           end == a + n
           starts == Starts(p, f, v, a)
           Of(bytes) == ReadFields(bytes, e, reader, header, mask, starts, end)
<1>0. Refused.ok = FALSE
  BY DEF Refused
<1>1. ReadRecord(short, e, reader) = Of(short)
  BY DEF ReadRecord, ReadHeaded, ReadMasked, Starts
<1>2. mask.fields \subseteq {"position", "facing", "vitals", "action"}
  <2>1. FieldsOf(header.bits) \subseteq {"position", "facing", "vitals", "action"}
    BY DEF FieldsOf
  <2>2. mask.fields = {} \/ mask.fields = FieldsOf(header.bits)
    BY DEF Expand
  <2> QED
    BY <2>1, <2>2
<1>3. starts["action"] = a
  BY DEF Starts
<1> HIDE DEF mask, starts, header, p, f, v, a, end
<1>4. ~ \/ ~reader.ok \/ header.bytes = 0 \/ ~mask.ok
        \/ mask.local /\ reader.prev = None
        \/ ~requireBytes(short, end, 0)
        \/ "action" \in mask.fields /\ IsOverlong(short, a, e)
  BY <1>0, <1>1, <1>3 DEF ReadFields
<1>5. at \in Nat /\ reader.ok
  BY <1>4
<1>6. /\ header.bytes \in Nat /\ ReadHeader(long, at, e) = header
      /\ at + header.bytes <= Len(short)
  BY <1>4, <1>5, HeaderIsLocal DEF header
<1> HIDE DEF at
<1>7. PositionBytes(mask, e) \in Nat /\ FacingBytes(e) \in Nat /\ VitalBytes(e) \in Nat
  BY BytesOfFields
<1>8. /\ skip("position", PositionBytes(mask, e)) \in Nat
      /\ skip("facing", FacingBytes(e)) \in Nat /\ skip("vitals", VitalBytes(e)) \in Nat
  BY <1>7
<1>9. n \in Nat
  BY BytesOfFields
<1>10. /\ p \in Nat /\ f \in Nat /\ v \in Nat /\ a \in Nat /\ end \in Nat
       /\ p <= f /\ f <= v /\ v <= a /\ a <= end /\ end = a + n
       /\ f = p + skip("position", PositionBytes(mask, e))
       /\ v = f + skip("facing", FacingBytes(e)) /\ a = v + skip("vitals", VitalBytes(e))
  <2>1. p \in Nat
    BY <1>5, <1>6 DEF p
  <2>2. f \in Nat /\ p <= f /\ f = p + skip("position", PositionBytes(mask, e))
    BY <1>8, <2>1 DEF f
  <2>3. v \in Nat /\ f <= v /\ v = f + skip("facing", FacingBytes(e))
    BY <1>8, <2>2 DEF v
  <2>4. a \in Nat /\ v <= a /\ a = v + skip("vitals", VitalBytes(e))
    BY <1>8, <2>3 DEF a
  <2>5. end \in Nat /\ a <= end /\ end = a + n
    BY <1>9, <2>4 DEF end
  <2> QED
    BY <2>1, <2>2, <2>3, <2>4, <2>5
<1> HIDE DEF n
<1>11. end <= Len(short) /\ end <= Len(long)
  <2>1. end + 0 <= Len(short)
    BY <1>4 DEF requireBytes
  <2> QED
    BY <1>10, <2>1 DEF Begins
<1>12. /\ "position" \in mask.fields => p + PositionBytes(mask, e) <= Len(short)
       /\ "facing" \in mask.fields => f + FacingBytes(e) <= Len(short)
       /\ "vitals" \in mask.fields => v + VitalBytes(e) <= Len(short)
       /\ "action" \in mask.fields => a + n <= Len(short)
  <2> DEFINE x == PositionBytes(mask, e)
             y == FacingBytes(e)
             z == VitalBytes(e)
  <2>1. /\ "position" \in mask.fields => f = p + x
        /\ "facing" \in mask.fields => v = f + y
        /\ "vitals" \in mask.fields => a = v + z
    BY <1>10
  <2>2. Len(short) \in Nat
    BY DEF Begins
  <2> HIDE DEF x, y, z
  <2>3. /\ "position" \in mask.fields => p + x <= Len(short)
        /\ "facing" \in mask.fields => f + y <= Len(short)
        /\ "vitals" \in mask.fields => v + z <= Len(short)
        /\ a + n <= Len(short)
    BY <1>10, <1>11, <2>1, <2>2
  <2> QED
    BY <2>3 DEF x, y, z
<1>13. "action" \in mask.fields =>
         /\ a + ActionBytes(short, a, e) <= Len(short)
         /\ ActionBytes(long, a, e) = ActionBytes(short, a, e)
         /\ IsOverlong(long, a, e) <=> IsOverlong(short, a, e)
  <2> SUFFICES ASSUME "action" \in mask.fields
               PROVE  /\ a + ActionBytes(short, a, e) <= Len(short)
                      /\ ActionBytes(long, a, e) = ActionBytes(short, a, e)
                      /\ IsOverlong(long, a, e) <=> IsOverlong(short, a, e)
    OBVIOUS
  <2>1. n = ActionBytes(short, a, e)
    BY DEF n
  <2> QED
    BY <1>10, <1>12, <2>1, ActionIsLocal
<1>14. \A field \in mask.fields :
         ReadField(long, e, reader.prev, mask, starts, field) =
           ReadField(short, e, reader.prev, mask, starts, field)
  BY <1>2, <1>10, <1>12, <1>13, FieldIsLocal DEF starts
<1>15. ReadRecord(long, e, reader) = Of(long)
  <2>1. ReadRecord(long, e, reader) = ReadMasked(long, e, reader, header, mask)
    BY <1>6 DEF ReadRecord, ReadHeaded, mask, at
  <2>2. skip("action", ActionBytes(long, a, e)) = n
    BY <1>13 DEF n
  <2>3. ReadMasked(long, e, reader, header, mask) =
          ReadFields(long, e, reader, header, mask, starts,
                     a + skip("action", ActionBytes(long, a, e)))
    BY DEF ReadMasked, starts, Starts, p, f, v, a, at
  <2> QED
    BY <1>10, <2>1, <2>2, <2>3
<1>16. ~ \/ ~reader.ok \/ header.bytes = 0 \/ ~mask.ok
         \/ mask.local /\ reader.prev = None
         \/ ~requireBytes(long, end, 0)
         \/ "action" \in mask.fields /\ IsOverlong(long, a, e)
  <2>1. requireBytes(long, end, 0)
    BY <1>10, <1>11 DEF requireBytes
  <2> QED
    BY <1>4, <1>13, <2>1
<1> DEFINE Fine(bytes) ==
             [at |-> end, ok |-> TRUE,
              got |-> Append(reader.got,
                        [id |-> header.id,
                         fields |-> IF mask.removed THEN Removed
                                    ELSE [field \in mask.fields |->
                                        ReadField(bytes, e, reader.prev, mask, starts, field)]]),
              prev |-> IF "position" \in mask.fields
                       THEN ReadField(bytes, e, reader.prev, mask, starts, "position")
                       ELSE reader.prev]
<1>17. Of(short) = Fine(short)
  BY <1>3, <1>4 DEF ReadFields
<1>18. Of(long) = Fine(long)
  BY <1>3, <1>16 DEF ReadFields
<1>19. Fine(long) = Fine(short)
  BY <1>14
<1>20. Fine(short).at = end
  OBVIOUS
<1> HIDE DEF Of, Fine
<1> QED
  BY <1>1, <1>4, <1>10, <1>15, <1>17, <1>18, <1>19, <1>20

\* The course of the reader from record to record (decodeSnapshot).
IsReading(bytes, e, course, n) ==
  course = [i \in 0 .. n |-> IF i = 0 THEN AtFirst ELSE ReadRecord(bytes, e, course[i - 1])]

\* The course is a function: each record is read where the one before it ended.
LEMMA CourseSteps ==
  ASSUME NEW bytes, NEW e, NEW course, NEW n \in Nat, IsReading(bytes, e, course, n)
  PROVE  /\ course[0] = AtFirst
         /\ \A i \in 1 .. n : course[i] = ReadRecord(bytes, e, course[i - 1])
<1> DEFINE Next(c, i) == IF i = 0 THEN AtFirst ELSE ReadRecord(bytes, e, c[i - 1])
<1>1. \A i \in 0 .. n : course[i] = Next(course, i)
  BY DEF IsReading
<1>2. 0 \in 0 .. n /\ \A i \in 1 .. n : i \in 0 .. n /\ i # 0
  OBVIOUS
<1> QED
  BY <1>1, <1>2

\* There is such a course through any bytes.
LEMMA CourseExists ==
  ASSUME NEW bytes, NEW e
  PROVE  \A n \in Nat : \E course : IsReading(bytes, e, course, n)
<1> DEFINE Bad == {n \in Nat : ~(\E course : IsReading(bytes, e, course, n))}
           Next(c, i) == IF i = 0 THEN AtFirst ELSE ReadRecord(bytes, e, c[i - 1])
<1>1. SUFFICES ASSUME Bad # {} PROVE FALSE
  OBVIOUS
<1>2. PICK n \in Bad : \A m \in Bad : n <= m
  <2>1. Bad \in SUBSET Nat
    OBVIOUS
  <2> HIDE DEF Bad
  <2> QED
    BY <1>1, <2>1, LeastOf
<1>3. n \in Nat /\ ~(\E course : IsReading(bytes, e, course, n))
  BY <1>2
<1>4. CASE n = 0
  <2> DEFINE course == [i \in 0 .. 0 |-> AtFirst]
  <2>1. course = [i \in 0 .. 0 |-> Next(course, i)]
    OBVIOUS
  <2>2. IsReading(bytes, e, course, 0)
    BY <2>1 DEF IsReading
  <2> QED
    BY <1>3, <1>4, <2>2
<1>5. CASE n # 0
  <2>1. n - 1 \in Nat /\ ~(n <= n - 1)
    BY <1>3, <1>5
  <2>2. PICK course : IsReading(bytes, e, course, n - 1)
    BY <1>2, <2>1
  <2> DEFINE longer == [i \in 0 .. n |-> IF i = n THEN ReadRecord(bytes, e, course[n - 1])
                                         ELSE course[i]]
  <2>3. \A i \in 0 .. n - 1 : course[i] = Next(course, i)
    BY <2>2 DEF IsReading
  <2>4. /\ longer[n] = ReadRecord(bytes, e, course[n - 1])
        /\ \A i \in 0 .. n - 1 : longer[i] = course[i]
    BY <1>3, <1>5
  <2>5. \A i \in 0 .. n : i # n => i \in 0 .. n - 1
    BY <1>3
  <2>6. \A i \in 0 .. n : i # 0 => i - 1 \in 0 .. n - 1
    BY <1>3
  <2>7. ASSUME NEW i \in 0 .. n
        PROVE  longer[i] = Next(longer, i)
    <3>1. i # 0 => longer[i - 1] = course[i - 1]
      BY <2>4, <2>6
    <3> HIDE DEF longer
    <3>2. CASE i = n
      BY <1>5, <2>4, <3>1, <3>2
    <3>3. CASE i # n
      BY <2>3, <2>4, <2>5, <3>1, <3>3
    <3> QED
      BY <3>2, <3>3
  <2>8. longer = [i \in 0 .. n |-> Next(longer, i)]
    <3>1. \A i \in 0 .. n : longer[i] = Next(longer, i)
      BY <2>7
    <3>2. longer = [i \in 0 .. n |-> longer[i]]
      OBVIOUS
    <3> HIDE DEF longer, Next
    <3> QED
      BY <3>1, <3>2
  <2>9. IsReading(bytes, e, longer, n)
    BY <2>8 DEF IsReading
  <2> HIDE DEF longer
  <2> QED
    BY <1>3, <2>9
<1> QED
  BY <1>4, <1>5

\* Bytes that begin with others that are read are read as those (decodeSnapshot).
LEMMA LongerReads ==
  ASSUME NEW short, NEW long, Begins(short, long), NEW e \in Encodings, NEW n \in Nat,
         NEW f, IsReading(short, e, f, n), NEW g, IsReading(long, e, g, n), f[n].ok
  PROVE  g[n] = f[n]
<1> DEFINE Fine(i) == f[i].ok => g[i] = f[i] /\ f[i].at \in Nat
           Bad == {i \in 0 .. n : ~Fine(i)}
<1>1. SUFFICES ASSUME Bad # {} PROVE FALSE
  <2>1. n \in 0 .. n
    OBVIOUS
  <2> QED
    BY <2>1
<1>2. PICK i \in Bad : \A j \in Bad : i <= j
  <2>1. Bad \in SUBSET Nat
    OBVIOUS
  <2> HIDE DEF Bad
  <2> QED
    BY <1>1, <2>1, LeastOf
<1>3. i \in 0 .. n /\ ~Fine(i)
  BY <1>2
<1>4. /\ f[0] = AtFirst /\ \A j \in 1 .. n : f[j] = ReadRecord(short, e, f[j - 1])
      /\ g[0] = AtFirst /\ \A j \in 1 .. n : g[j] = ReadRecord(long, e, g[j - 1])
  BY CourseSteps
<1>5. CASE i = 0
  <2>1. AtFirst.at = 0
    BY DEF AtFirst
  <2> QED
    BY <1>3, <1>4, <1>5, <2>1
<1>6. CASE i # 0
  <2>1. i \in 1 .. n /\ i - 1 \in 0 .. n /\ ~(i <= i - 1)
    BY <1>3, <1>6
  <2>2. Fine(i - 1)
    BY <1>2, <2>1
  <2>3. f[i].ok /\ f[i] = ReadRecord(short, e, f[i - 1]) /\ g[i] = ReadRecord(long, e, g[i - 1])
    BY <1>3, <1>4, <2>1
  <2> DEFINE reader == f[i - 1]
  <2>4. reader.ok => reader.at \in Nat /\ g[i - 1] = reader
    BY <2>2
  <2> HIDE DEF reader
  <2>5. ReadRecord(short, e, reader).ok
    BY <2>3 DEF reader
  <2>6. /\ reader.ok /\ ReadRecord(long, e, reader) = ReadRecord(short, e, reader)
        /\ ReadRecord(short, e, reader).at \in Nat
    BY <2>4, <2>5, RecordIsLocal
  <2>7. g[i] = f[i] /\ f[i].at \in Nat
    BY <2>3, <2>4, <2>6 DEF reader
  <2> QED
    BY <1>3, <2>7
<1> QED
  BY <1>5, <1>6

\* What is decoded is the end of a course, or nothing.
LEMMA DecodeIsCourse ==
  ASSUME NEW bytes, NEW e, NEW n \in Nat
  PROVE  \E course : /\ IsReading(bytes, e, course, n)
                     /\ Decode(n, bytes, e) = UpToTheEnd(bytes, course[n])
<1> DEFINE course == CHOOSE f : IsReading(bytes, e, f, n)
<1>1. IsReading(bytes, e, course, n)
  BY CourseExists
<1>2. Decode(n, bytes, e) = UpToTheEnd(bytes, course[n])
  BY DEF Decode, IsReading
<1> QED
  BY <1>1, <1>2

\* What has been read when all that was put is read.
ReadSoFar ==
  [at |-> Len(packet), ok |-> TRUE, got |-> [i \in 1 .. Len(put) |-> SaidOf(put[i], encoding)],
   prev |-> previous]

\* The records so far are read one by one, to the end of the packet, and the reader knows
\* the position that the next one is compared with.
WireInv ==
  /\ encoding \in Encodings /\ put \in Seq(Sent) /\ packet \in Seq(Byte)
  /\ MeasuredExactly
  /\ \A course : IsReading(packet, encoding, course, Len(put)) => course[Len(put)] = ReadSoFar

\* What has grown at its end begins with what it was.
LEMMA GrownBegins ==
  ASSUME NEW p \in Seq(Byte), NEW q \in Seq(Byte)
  PROVE  Begins(p, p \o q)
<1>1. /\ Len(p) \in Nat /\ Len(q) \in Nat /\ Len(p \o q) = Len(p) + Len(q)
      /\ \A i \in 1 .. Len(p) + Len(q) :
           (p \o q)[i] = IF i <= Len(p) THEN p[i] ELSE q[i - Len(p)]
  BY ConcatProperties, LenProperties
<1>2. \A i \in Nat : i > 0 /\ i <= Len(p) => i \in 1 .. Len(p) + Len(q)
  BY <1>1
<1> QED
  BY <1>1, <1>2 DEF Begins

\* Before the first record.
LEMMA WireStarts == WireInit => WireInv
<1> SUFFICES ASSUME WireInit PROVE WireInv
  OBVIOUS
<1>1. /\ encoding \in Encodings /\ put = << >> /\ packet = << >> /\ previous = None
      /\ measured = 0
  BY DEF WireInit
<1>2. Len(put) = 0 /\ Len(packet) = 0 /\ put \in Seq(Sent) /\ packet \in Seq(Byte)
  BY <1>1, EmptySeq
<1>3. ASSUME NEW course, IsReading(packet, encoding, course, Len(put))
      PROVE  course[Len(put)] = ReadSoFar
  <2>1. course[0] = AtFirst
    BY <1>2, <1>3, CourseSteps
  <2>2. AtFirst = [at |-> 0, prev |-> None, got |-> << >>, ok |-> TRUE]
    BY DEF AtFirst
  <2> DEFINE none == [i \in 1 .. 0 |-> SaidOf(put[i], encoding)]
  <2>3. none = << >>
    OBVIOUS
  <2>4. ReadSoFar = [at |-> 0, ok |-> TRUE, got |-> none, prev |-> None]
    BY <1>1, <1>2 DEF ReadSoFar
  <2> QED
    BY <1>2, <2>1, <2>2, <2>3, <2>4
<1> QED
  BY <1>1, <1>2, <1>3 DEF WireInv, MeasuredExactly

\* One more record is read behind the others (encodeSnapshot, decodeSnapshot).
LEMMA PutReads ==
  ASSUME WireInv, NEW r \in Sent, Put(r)
  PROVE  WireInv'
<1> DEFINE n == Len(put)
           bytes == WriteRecord(r, encoding, previous)
<1>1. /\ encoding \in Encodings /\ put \in Seq(Sent) /\ packet \in Seq(Byte)
      /\ measured = Len(packet) /\ n \in Nat /\ Len(packet) \in Nat
  BY LenProperties DEF WireInv, MeasuredExactly
<1>2. /\ put' = Append(put, r) /\ packet' = packet \o bytes
      /\ measured' = measured + Measure(r, encoding, previous)
      /\ previous' = NextPrevious(r, encoding, previous) /\ encoding' = encoding
  BY DEF Put, NextPrevious
<1>3. IsRecord(r)
  BY WireAssumption
<1>4. bytes \in Seq(Byte) /\ Len(bytes) = Measure(r, encoding, previous)
  BY <1>1, <1>3, RecordIsWritten
<1> HIDE DEF bytes
<1>5. /\ packet' \in Seq(Byte) /\ Len(packet') = Len(packet) + Len(bytes) /\ Len(packet') \in Nat
  BY <1>1, <1>2, <1>4, ConcatBytes, LenProperties
<1>6. /\ put' \in Seq(Sent) /\ Len(put') = n + 1 /\ put'[n + 1] = r
      /\ \A i \in 1 .. n : put'[i] = put[i]
  BY <1>1, <1>2, AppendProperties
<1>7. measured' = Len(packet')
  BY <1>1, <1>2, <1>4, <1>5
<1>8. ASSUME NEW course, IsReading(packet', encoding, course, n + 1)
      PROVE  course[n + 1] = ReadSoFar'
  <2> DEFINE first == [i \in 0 .. n |-> course[i]]
             Next(c, i) == IF i = 0 THEN AtFirst ELSE ReadRecord(packet', encoding, c[i - 1])
  <2>1. /\ course[0] = AtFirst
        /\ \A i \in 1 .. n + 1 : course[i] = ReadRecord(packet', encoding, course[i - 1])
    BY <1>1, <1>8, CourseSteps
  <2>2. IsReading(packet', encoding, first, n)
    <3>1. \A i \in 0 .. n : first[i] = course[i]
      OBVIOUS
    <3>2. \A i \in 0 .. n : i # 0 => i - 1 \in 0 .. n /\ i \in 1 .. n + 1
      BY <1>1
    <3>3. first = [i \in 0 .. n |-> first[i]]
      OBVIOUS
    <3> HIDE DEF first
    <3>4. \A i \in 0 .. n : first[i] = Next(first, i)
      BY <2>1, <3>1, <3>2
    <3>5. first = [i \in 0 .. n |-> Next(first, i)]
      BY <3>3, <3>4
    <3> QED
      BY <3>5 DEF IsReading
  <2>3. PICK before : IsReading(packet, encoding, before, n)
    BY <1>1, CourseExists
  <2>4. before[n] = ReadSoFar
    BY <2>3 DEF WireInv
  <2>5. before[n].ok
    BY <2>4 DEF ReadSoFar
  <2>6. Begins(packet, packet')
    BY <1>1, <1>2, <1>4, GrownBegins
  <2>7. first[n] = before[n]
    BY <1>1, <2>2, <2>3, <2>5, <2>6, LongerReads
  <2>8. course[n] = ReadSoFar
    <3>1. n \in 0 .. n
      BY <1>1
    <3> QED
      BY <2>4, <2>7, <3>1
  <2>9. course[n + 1] = ReadRecord(packet', encoding, ReadSoFar)
    <3>1. n + 1 \in 1 .. n + 1 /\ (n + 1) - 1 = n
      BY <1>1
    <3> QED
      BY <2>1, <2>8, <3>1
  <2>10. ReadSoFar.at = Len(packet) /\ ReadSoFar.ok /\ ReadSoFar.prev = previous
    BY DEF ReadSoFar
  <2>11. Holds(packet', Len(packet), bytes)
    BY <1>1, <1>2, <1>4, HoldsLast
  <2> DEFINE said == [i \in 1 .. n |-> SaidOf(put[i], encoding)]
  <2>12. ReadSoFar.got = said
    BY DEF ReadSoFar
  <2>13. ReadRecord(packet', encoding, ReadSoFar) =
           [at |-> Len(packet) + Len(bytes), ok |-> TRUE,
            got |-> Append(said, SaidOf(r, encoding)),
            prev |-> NextPrevious(r, encoding, previous)]
    <3> DEFINE reader == ReadSoFar
    <3>1. /\ reader.at = Len(packet) /\ reader.ok /\ reader.prev = previous /\ reader.got = said
      BY <2>10, <2>12
    <3> HIDE DEF reader, said
    <3>2. reader.at \in Nat /\ Holds(packet', reader.at, WriteRecord(r, encoding, reader.prev))
      BY <1>1, <2>11, <3>1 DEF bytes
    <3>3. ReadRecord(packet', encoding, reader) =
            [at |-> reader.at + Len(WriteRecord(r, encoding, reader.prev)), ok |-> TRUE,
             got |-> Append(reader.got, SaidOf(r, encoding)),
             prev |-> NextPrevious(r, encoding, reader.prev)]
      BY <1>1, <1>3, <1>5, <3>1, <3>2, RecordIsRead
    <3> QED
      BY <3>1, <3>3 DEF reader, bytes
  <2>14. Append(said, SaidOf(r, encoding)) = [i \in 1 .. n + 1 |-> SaidOf(put'[i], encoding)]
    <3> DEFINE all == [i \in 1 .. n + 1 |-> SaidOf(put'[i], encoding)]
               S == {SaidOf(q, encoding) : q \in Sent}
    <3>1. \A i \in 1 .. n : SaidOf(put[i], encoding) \in S
      BY <1>1, ElementOfSeq
    <3>2. SaidOf(r, encoding) \in S
      OBVIOUS
    <3>3. \A i \in 1 .. n + 1 : i \in 1 .. n \/ i = n + 1
      BY <1>1
    <3>4. \A i \in 1 .. n + 1 : SaidOf(put'[i], encoding) =
            IF i \in 1 .. n THEN SaidOf(put[i], encoding) ELSE SaidOf(r, encoding)
      BY <1>6, <3>3
    <3> HIDE DEF S
    <3>5. said \in Seq(S) /\ Len(said) = n
      BY <1>1, <3>1, IsASeq
    <3>6. all \in Seq(S) /\ Len(all) = n + 1
      <4>1. \A i \in 1 .. n + 1 : SaidOf(put'[i], encoding) \in S
        BY <3>1, <3>2, <3>4
      <4>2. n + 1 \in Nat
        BY <1>1
      <4> QED
        BY <4>1, <4>2, IsASeq
    <3>7. /\ Append(said, SaidOf(r, encoding)) \in Seq(S)
          /\ Len(Append(said, SaidOf(r, encoding))) = n + 1
          /\ Append(said, SaidOf(r, encoding))[n + 1] = SaidOf(r, encoding)
          /\ \A i \in 1 .. n : Append(said, SaidOf(r, encoding))[i] = said[i]
      BY <3>2, <3>5, AppendProperties
    <3>8. \A i \in 1 .. n : said[i] = SaidOf(put[i], encoding)
      OBVIOUS
    <3>9. \A i \in 1 .. n + 1 : all[i] = SaidOf(put'[i], encoding)
      OBVIOUS
    <3>10. n + 1 \notin 1 .. n
      BY <1>1
    <3> DEFINE more == Append(said, SaidOf(r, encoding))
    <3> HIDE DEF said, all, more
    <3>11. \A i \in 1 .. n + 1 : more[i] = all[i]
      BY <3>3, <3>4, <3>7, <3>8, <3>9, <3>10 DEF more
    <3>12. more = all
      BY <3>6, <3>7, <3>11, SeqEqual DEF more
    <3> QED
      BY <3>12 DEF more, all
  <2>15. ReadSoFar' =
           [at |-> Len(packet'), ok |-> TRUE,
            got |-> [i \in 1 .. n + 1 |-> SaidOf(put'[i], encoding)], prev |-> previous']
    BY <1>2, <1>6 DEF ReadSoFar
  <2> HIDE DEF said
  <2> QED
    BY <1>2, <1>5, <2>9, <2>13, <2>14, <2>15
<1>9. \A course : IsReading(packet', encoding', course, Len(put')) =>
        course[Len(put')] = ReadSoFar'
  BY <1>2, <1>6, <1>8
<1> QED
  BY <1>1, <1>2, <1>5, <1>6, <1>7, <1>9 DEF WireInv, MeasuredExactly

\* What the encoding can say of a field is near the field.
LEMMA FieldIsNear ==
  ASSUME NEW r, IsRecord(r), NEW e, NEW field \in Mask(r), "removed" \notin Mask(r)
  PROVE  Near(SaidField(r, e, field), r.fields[field], field)
<1> DEFINE value == r.fields[field]
           said == SaidField(r, e, field)
<1>1. field \in {"position", "facing", "vitals", "action"}
  BY MaskOfRecord
<1>2. \A n \in Nat : Distance(n, n) = 0
  BY DEF Distance
<1>3. CASE field = "position"
  <2>1. value \in Position
    BY <1>3, FieldsOfRecord
  <2>2. said = IF usesCompactPosition(e) /\ positionIsCompact(value)
               THEN compactPositionPair(value) ELSE value
    BY <1>3 DEF SaidField
  <2> HIDE DEF value, said
  <2>3. value[1] \in Short /\ value[2] \in Short
    BY <2>1, PositionIsPair
  <2>4. \A n \in Short : n \in Nat /\ Distance(n, n) <= 4
    BY <1>2 DEF Short
  <2>5. CASE usesCompactPosition(e) /\ positionIsCompact(value)
    <3>1. value[1] <= 32763 /\ value[2] <= 32763
      BY <2>5 DEF positionIsCompact
    <3>2. /\ Distance(8 * CompactU12(value[1]), value[1]) <= 4
          /\ Distance(8 * CompactU12(value[2]), value[2]) <= 4
      BY <2>3, <3>1, CompactIsNear
    <3>3. said[1] = 8 * CompactU12(value[1]) /\ said[2] = 8 * CompactU12(value[2])
      BY <2>2, <2>5 DEF compactPositionPair
    <3>4. Near(said, value, field)
      BY <1>3, <3>2, <3>3 DEF Near
    <3> QED
      BY <3>4 DEF said, value
  <2>6. CASE ~(usesCompactPosition(e) /\ positionIsCompact(value))
    <3>1. said = value
      BY <2>2, <2>6
    <3>2. Near(said, value, field)
      BY <1>3, <2>3, <2>4, <3>1 DEF Near
    <3> QED
      BY <3>2 DEF said, value
  <2> QED
    BY <2>5, <2>6
<1>4. CASE field = "facing"
  <2>1. value \in Short
    BY <1>4, FieldsOfRecord
  <2>2. said = SaidFacing(value, e)
    BY <1>4 DEF SaidField
  <2> HIDE DEF value, said
  <2>3. Distance(value, value) <= 128
    BY <1>2, <2>1 DEF Short
  <2>4. Distance(said, value) <= 128
    BY <2>1, <2>2, <2>3, FacingIsNear DEF SaidFacing
  <2>5. Near(said, value, field)
    BY <1>4, <2>4 DEF Near
  <2> QED
    BY <2>5 DEF said, value
<1>5. CASE field = "vitals"
  <2>1. value \in Byte \X Byte \X Byte
    BY <1>5, FieldsOfRecord
  <2> DEFINE k == VitalBytes(e)
  <2>2. said = SubSeq(value, 1, k)
    BY <1>5 DEF SaidField
  <2> HIDE DEF value, said
  <2>3. Len(said) = k /\ k \in 2 .. 3
    BY <2>1, <2>2, VitalsAreRead
  <2> HIDE DEF k
  <2>6. said = SubSeq(value, 1, Len(said))
    BY <2>2, <2>3, Zenon
  <2>7. Len(said) >= 2
    BY <2>3
  <2>4. Near(said, value, field)
    BY <1>5, <2>6, <2>7, Zenon DEF Near
  <2> QED
    BY <2>4 DEF said, value
<1>6. CASE field = "action"
  BY <1>6 DEF Near, SaidField
<1> QED
  BY <1>1, <1>3, <1>4, <1>5, <1>6

\* A record by itself is read as it is behind any others.
LEMMA AloneIsRead ==
  ASSUME NEW r, IsRecord(r), NEW e \in Encodings
  PROVE  Decode(1, WriteRecord(r, e, None), e).got = <<SaidOf(r, e)>>
<1> DEFINE bytes == WriteRecord(r, e, None)
           said == SaidOf(r, e)
<1>1. bytes \in Seq(Byte) /\ Len(bytes) \in Nat
  BY RecordIsWritten, LenProperties
<1>2. Holds(bytes, 0, bytes)
  <2> HIDE DEF bytes
  <2>1. \A i \in 1 .. Len(bytes) : 0 + i = i
    BY <1>1
  <2> QED
    BY <1>1, <2>1 DEF Holds
<1>3. PICK course : /\ IsReading(bytes, e, course, 1)
                    /\ Decode(1, bytes, e) = UpToTheEnd(bytes, course[1])
  BY DecodeIsCourse
<1>4. course[1] = ReadRecord(bytes, e, AtFirst)
  <2>1. course[0] = AtFirst /\ \A i \in 1 .. 1 : course[i] = ReadRecord(bytes, e, course[i - 1])
    BY <1>3, CourseSteps
  <2>2. 1 \in 1 .. 1 /\ 1 - 1 = 0
    OBVIOUS
  <2> QED
    BY <2>1, <2>2
<1>5. AtFirst.at = 0 /\ AtFirst.ok /\ AtFirst.prev = None /\ AtFirst.got = << >>
  BY DEF AtFirst
<1>6. ReadRecord(bytes, e, AtFirst) =
        [at |-> 0 + Len(bytes), ok |-> TRUE, got |-> Append(<< >>, said),
         prev |-> NextPrevious(r, e, None)]
  <2> DEFINE reader == AtFirst
  <2> HIDE DEF reader, said
  <2>1. /\ reader.at = 0 /\ reader.ok /\ reader.prev = None /\ reader.got = << >>
    BY <1>5 DEF reader
  <2>2. reader.at \in Nat /\ Holds(bytes, reader.at, WriteRecord(r, e, reader.prev))
    BY <1>2, <2>1
  <2>3. ReadRecord(bytes, e, reader) =
          [at |-> reader.at + Len(WriteRecord(r, e, reader.prev)), ok |-> TRUE,
           got |-> Append(reader.got, SaidOf(r, e)), prev |-> NextPrevious(r, e, reader.prev)]
    BY <1>1, <2>1, <2>2, RecordIsRead
  <2> QED
    BY <2>1, <2>3 DEF reader, said
<1> HIDE DEF bytes, said
<1>7. course[1].ok /\ course[1].at = Len(bytes) /\ course[1].got = Append(<< >>, said)
  BY <1>1, <1>4, <1>6
<1>8. Decode(1, bytes, e).got = Append(<< >>, said)
  BY <1>3, <1>7 DEF UpToTheEnd
<1>9. Append(<< >>, said) = <<said>>
  OBVIOUS
<1> QED
  BY <1>8, <1>9 DEF bytes, said

\* So each record is said.
LEMMA RecordIsSaid ==
  ASSUME encoding \in Encodings, NEW r, IsRecord(r)
  PROVE  SaysRecord(SaidOf(r, encoding), r)
<1> DEFINE said == SaidOf(r, encoding)
<1>1. said.id = r.id
  BY DEF SaidOf
<1>2. CASE "removed" \in Mask(r)
  <2>1. said.fields = Removed /\ Mask(r) = {"removed"}
    BY <1>2, MaskOfRecord DEF SaidOf
  <2>2. Mask(said) = {"removed"}
    BY <2>1 DEF Mask, Removed
  <2> QED
    BY <1>1, <2>1, <2>2, AloneIsRead DEF SaysRecord
<1>3. CASE "removed" \notin Mask(r)
  <2>1. said.fields = [field \in Mask(r) |-> SaidField(r, encoding, field)]
    BY <1>3 DEF SaidOf
  <2> HIDE DEF said
  <2>2. Mask(said) = Mask(r)
    <3>1. DOMAIN said.fields = Mask(r)
      BY <2>1
    <3> QED
      BY <3>1 DEF Mask
  <2>3. \A field \in Mask(said) : Near(said.fields[field], r.fields[field], field)
    BY <1>3, <2>1, <2>2, FieldIsNear
  <2>4. Decode(1, WriteRecord(r, encoding, None), encoding).got = <<said>>
    BY AloneIsRead DEF said
  <2>5. SaysRecord(said, r)
    BY <1>1, <2>2, <2>3, <2>4 DEF SaysRecord, said
  <2> QED
    BY <2>5 DEF said
<1> QED
  BY <1>2, <1>3

\* What the invariant says of the packet, whole and cut short.
LEMMA PacketIsSaid == WireInv => WireIsExact
<1> SUFFICES ASSUME WireInv PROVE PacketIsRead /\ MeasuredExactly
  BY DEF WireIsExact
<1> DEFINE n == Len(put)
           e == encoding
<1>1. /\ e \in Encodings /\ put \in Seq(Sent) /\ packet \in Seq(Byte)
      /\ n \in Nat /\ Len(packet) \in Nat
  BY LenProperties DEF WireInv
<1>2. \A course : IsReading(packet, e, course, n) => course[n] = ReadSoFar
  BY DEF WireInv
<1>3. ReadSoFar.at = Len(packet) /\ ReadSoFar.ok
  BY DEF ReadSoFar
<1>4. ReadSoFar.got = [i \in 1 .. n |-> SaidOf(put[i], e)]
  BY DEF ReadSoFar
<1>5. Refused.ok = FALSE
  BY DEF Refused
<1> HIDE DEF e
<1>6. Says(Decode(n, packet, e))
  <2>1. PICK course : /\ IsReading(packet, e, course, n)
                      /\ Decode(n, packet, e) = UpToTheEnd(packet, course[n])
    BY <1>1, DecodeIsCourse
  <2>2. Decode(n, packet, e) = ReadSoFar
    BY <1>2, <1>3, <2>1 DEF UpToTheEnd
  <2>3. Len(ReadSoFar.got) = n
    <3> DEFINE got == [i \in 1 .. n |-> SaidOf(put[i], e)]
               S == {SaidOf(put[i], e) : i \in 1 .. n}
    <3>1. \A i \in 1 .. n : SaidOf(put[i], e) \in S
      OBVIOUS
    <3> HIDE DEF S
    <3>2. Len(got) = n
      BY <1>1, <3>1, IsASeq
    <3> QED
      BY <1>4, <3>2
  <2>4. ASSUME NEW i \in 1 .. n
        PROVE  SaysRecord(ReadSoFar.got[i], put[i])
    <3>1. put[i] \in Sent
      BY <1>1, ElementOfSeq
    <3>2. IsRecord(put[i])
      BY <3>1, WireAssumption
    <3>3. SaysRecord(SaidOf(put[i], encoding), put[i])
      BY <1>1, <3>2, RecordIsSaid DEF e
    <3> QED
      BY <1>4, <3>3 DEF e
  <2> QED
    BY <1>3, <2>2, <2>3, <2>4 DEF Says
<1>7. ASSUME NEW m \in 0 .. Len(packet) - 1
      PROVE  ~Decode(n, SubSeq(packet, 1, m), e).ok
  <2> DEFINE cut == SubSeq(packet, 1, m)
  <2>1. /\ m \in Nat /\ m < Len(packet) /\ 1 \in Int /\ m \in Int
        /\ \A i \in 1 .. m : i \in 1 .. Len(packet)
    BY <1>1
  <2>2. \A i \in 1 .. m : packet[i] \in Byte
    BY <1>1, <2>1, ElementOfSeq
  <2>3. Len(cut) = m /\ \A i \in 1 .. m : cut[i] = packet[i]
    <3>1. /\ Len(cut) = IF 1 <= m THEN m - 1 + 1 ELSE 0
          /\ \A i \in 1 .. m - 1 + 1 : cut[i] = packet[1 + i - 1]
      BY <2>1, <2>2, SubSeqProperties
    <3>2. m - 1 + 1 = m /\ \A i \in 1 .. m : 1 + i - 1 = i
      BY <2>1
    <3> HIDE DEF cut
    <3>3. Len(cut) = m
      BY <2>1, <3>1
    <3> QED
      BY <3>1, <3>2, <3>3
  <2> HIDE DEF cut
  <2>4. Begins(cut, packet)
    <3>1. \A i \in Nat : i > 0 /\ i <= Len(cut) => i \in 1 .. m
      BY <2>1, <2>3
    <3> QED
      BY <1>1, <2>1, <2>3, <3>1 DEF Begins
  <2>5. PICK f : IsReading(cut, e, f, n) /\ Decode(n, cut, e) = UpToTheEnd(cut, f[n])
    BY <1>1, DecodeIsCourse
  <2>6. PICK g : IsReading(packet, e, g, n)
    BY <1>1, CourseExists
  <2>7. ASSUME Decode(n, cut, e).ok PROVE FALSE
    <3>1. f[n].ok /\ f[n].at = m
      BY <1>5, <2>3, <2>5, <2>7 DEF UpToTheEnd
    <3>2. g[n] = f[n]
      BY <1>1, <2>4, <2>5, <2>6, <3>1, LongerReads
    <3>3. g[n].at = Len(packet)
      BY <1>2, <1>3, <2>6
    <3> QED
      BY <1>1, <2>1, <3>1, <3>2, <3>3
  <2> QED
    BY <2>7 DEF cut
<1>8. MeasuredExactly
  BY DEF WireInv
<1> QED
  BY <1>6, <1>7, <1>8 DEF PacketIsRead, e

\* Whatever records a snapshot has, in every encoding: the browser reads what the server
\* put, as near as the encoding can say it and alike behind any other record; a packet
\* that is cut short is refused; and the bytes that were measured are the bytes written.
THEOREM TheWireIsExact == WireSpec => []WireIsExact
<1>1. ASSUME WireInv, [WireNext]_wireVars PROVE WireInv'
  <2>1. CASE WireNext
    BY <1>1, <2>1, PutReads DEF WireNext
  <2>2. CASE UNCHANGED wireVars
    <3>1. /\ put' = put /\ packet' = packet /\ encoding' = encoding /\ previous' = previous
          /\ measured' = measured
      BY <2>2 DEF wireVars
    <3> QED
      BY <1>1, <3>1 DEF WireInv, MeasuredExactly, ReadSoFar
  <2> QED
    BY <1>1, <2>1, <2>2
<1>2. WireSpec => []WireInv
  BY <1>1, WireStarts, PTL DEF WireSpec
<1> QED
  BY <1>2, PacketIsSaid, PTL
=============================================================================

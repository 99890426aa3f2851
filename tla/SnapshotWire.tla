---------------------------- MODULE SnapshotWire ----------------------------
(***************************************************************************)
(* The bytes of a snapshot: how records are written and read, in each of   *)
(* the eight encodings that both sides accept.  Every encoding keeps what  *)
(* the one before it saved: varint ids, a facing of one byte, positions of *)
(* twelve bits, a packed header of id and mask, positions within the cell  *)
(* of the previous one, half bytes for action and flags; the last adds the *)
(* stamina.  A record is the partial function of the fields that its mask  *)
(* names, or Removed.                                                      *)
(***************************************************************************)
EXTENDS Integers, Sequences, FiniteSets, SequencesExt

CONSTANTS
  Sent,    \* the records that are sent
  Longest  \* bound: the records of a packet

Removed == [removed |-> TRUE]
Mask(r) == DOMAIN r.fields

Byte == 0 .. 255
Short == {n \in Nat : n <= 65535}
NetId == {n \in Nat : n \div 65536 \in Short}
Position == Short \X Short

\* What the fields of a WireEntity can hold; an id has four bytes.
IsRecord(r) ==
  /\ r.id \in NetId
  /\ \/ r.fields = Removed
     \/ /\ Mask(r) \subseteq {"position", "facing", "vitals", "action"}
        /\ "position" \in Mask(r) => r.fields["position"] \in Position
        /\ "facing" \in Mask(r) => r.fields["facing"] \in Short
        /\ "vitals" \in Mask(r) => r.fields["vitals"] \in Byte \X Byte \X Byte
        /\ "action" \in Mask(r) => r.fields["action"] \in Byte \X Byte

ASSUME WireAssumption == \A r \in Sent : IsRecord(r)

VARIABLES
  encoding,
  put,       \* history: the records so far
  packet,    \* the bytes after the header, whose last word is Len(put)
  previous,  \* previousPosition, or None
  measured   \* snapshotRecordsBytes of the records so far

wireVars == <<encoding, put, packet, previous, measured>>

Encodings == 0 .. 7
None == << >>

usesCompactFacing(e) == e >= 2
usesCompactPosition(e) == e >= 3
usesPackedRecordHeader(e) == e >= 4
UsesLocalPosition(e) == e >= 5
usesCompactActionFlags(e) == e >= 6
usesAuthoritativeStamina(e) == e = 7

\* PACKED_RECORD_NET_ID_ESCAPE, COMPACT_ACTION_ESCAPE, replicationCellWire
Escape == 1023
ActionEscape == 255
CellWire == 2048
-----------------------------------------------------------------------------
\* Little-endian words and varints.
Uint16(n) == <<n % 256, (n \div 256) % 256>>
Uint32(n) == Uint16(n % 65536) \o Uint16(n \div 65536)

\* 128 ^ (i - 1)
Weight == <<1, 128, 16384, 2097152, 268435456>>

uint32VarintBytes(n) ==
  CHOOSE k \in 1 .. 5 : (k = 1 \/ n >= Weight[k]) /\ (k = 5 \/ n < Weight[k + 1])

writeUint32Varint(n) ==
  LET k == uint32VarintBytes(n)
  IN [i \in 1 .. k |-> ((n \div Weight[i]) % 128) + IF i < k THEN 128 ELSE 0]

\* The multiples of eight that twelve bits name, and the nearest one.
positionIsCompact(p) == p[1] <= 32763 /\ p[2] <= 32763
CompactU12(v) == ((v + 4) \div 8) % 4096
compactPositionPair(p) == <<8 * CompactU12(p[1]), 8 * CompactU12(p[2])>>
positionCell(p) == <<p[1] \div CellWire, p[2] \div CellWire>>

compactFacingU8(f) == IF (f + 128) \div 257 > 255 THEN 255 ELSE (f + 128) \div 257
expandFacingU8(b) == b * 257

actionFlagsAreCompact(a, f) == a <= 15 /\ f <= 15 /\ (a # 15 \/ f # 15)
-----------------------------------------------------------------------------
(***************************************************************************)
(* Writing.                                                                *)
(***************************************************************************)

\* The form that compares the cell with the position before it is rounded.
FormByExactCell(r, e, prev) ==
  IF "position" \notin Mask(r) THEN "none"
  ELSE IF ~usesCompactPosition(e) \/ ~positionIsCompact(r.fields["position"]) THEN "exact"
  ELSE IF /\ UsesLocalPosition(e)
          /\ prev # None
          /\ positionCell(prev) = positionCell(r.fields["position"])
  THEN "local" ELSE "compact"

\* positionWireEncoding.
Form(r, e, prev) ==
  IF "position" \notin Mask(r) THEN "none"
  ELSE IF ~usesCompactPosition(e) \/ ~positionIsCompact(r.fields["position"]) THEN "exact"
  ELSE IF /\ UsesLocalPosition(e)
          /\ prev # None
          /\ positionCell(prev) = positionCell(compactPositionPair(r.fields["position"]))
  THEN "local" ELSE "compact"

decodedPositionForRecord(r, form) ==
  IF form = "exact" THEN r.fields["position"] ELSE compactPositionPair(r.fields["position"])

Bit(r, field, value) == IF field \in Mask(r) THEN value ELSE 0

\* The four fields, and whether the position is wide: snapshotWireMask.
LowBits(r, e, form) ==
  Bit(r, "position", 1) + Bit(r, "facing", 2) + Bit(r, "vitals", 4) + Bit(r, "action", 8)
    + IF usesCompactPosition(e) /\ form = "exact" THEN 16 ELSE 0

\* packedWireMaskCode: one bit says removed, or with a position that it is local.
MaskCode(r, e, form) ==
  LowBits(r, e, form) + IF "removed" \in Mask(r) \/ form = "local" THEN 32 ELSE 0

WriteHeader(r, e, form) ==
  IF usesPackedRecordHeader(e)
  THEN LET inline == IF r.id < Escape THEN r.id ELSE Escape
       IN Uint16(inline + 1024 * MaskCode(r, e, form))
            \o IF inline = Escape THEN writeUint32Varint(r.id) ELSE << >>
  ELSE (IF e = 0 THEN Uint32(r.id) ELSE writeUint32Varint(r.id))
         \o <<LowBits(r, e, form) + Bit(r, "removed", 128)>>

WritePosition(p, form, prev) ==
  LET x == CompactU12(p[1])
      y == CompactU12(p[2])
      packed == x + 4096 * y
      within(i) == ((compactPositionPair(p)[i] - CellWire * positionCell(prev)[i]) \div 8) % 256
  IN CASE form = "none"    -> << >>
       [] form = "local"   -> <<within(1), within(2)>>
       [] form = "compact" -> Uint16(packed % 65536) \o <<packed \div 65536>>
       [] form = "exact"   -> Uint16(p[1]) \o Uint16(p[2])

WriteAction(a, f, e) ==
  IF ~usesCompactActionFlags(e) THEN <<a, f>>
  ELSE IF actionFlagsAreCompact(a, f) THEN <<a + 16 * f>>
  ELSE <<ActionEscape, a, f>>

\* One record of encodeSnapshot.
WriteRecord(r, e, prev) ==
  LET form == Form(r, e, prev)
      has(field) == field \in Mask(r)
      vitals == r.fields["vitals"]
  IN WriteHeader(r, e, form)
       \o (IF has("position") THEN WritePosition(r.fields["position"], form, prev) ELSE << >>)
       \o (IF has("facing")
           THEN IF usesCompactFacing(e) THEN <<compactFacingU8(r.fields["facing"])>>
                ELSE Uint16(r.fields["facing"])
           ELSE << >>)
       \o (IF has("vitals") THEN SubSeq(vitals, 1, IF usesAuthoritativeStamina(e) THEN 3 ELSE 2)
           ELSE << >>)
       \o (IF has("action") THEN WriteAction(r.fields["action"][1], r.fields["action"][2], e)
           ELSE << >>)

\* A measure that takes the escape itself for an id that fits.
MeasureAboveEscape(r, e) == 2 + IF r.id > Escape THEN uint32VarintBytes(r.id) ELSE 0

\* The bytes of an id and a mask, as they are measured.
MeasureHeader(r, e) ==
  IF usesPackedRecordHeader(e)
  THEN 2 + IF r.id >= Escape THEN uint32VarintBytes(r.id) ELSE 0
  ELSE 1 + IF e = 0 THEN 4 ELSE uint32VarintBytes(r.id)

\* snapshotRecordBytesWithContext, by which the planner keeps to the budget.
Measure(r, e, prev) ==
  LET form == Form(r, e, prev)
      cost(field, bytes) == IF field \in Mask(r) THEN bytes ELSE 0
  IN MeasureHeader(r, e)
       + (CASE form = "none" -> 0 [] form = "local" -> 2 [] form = "compact" -> 3
            [] form = "exact" -> 4)
       + cost("facing", IF usesCompactFacing(e) THEN 1 ELSE 2)
       + cost("vitals", IF usesAuthoritativeStamina(e) THEN 3 ELSE 2)
       + (IF "action" \notin Mask(r) THEN 0
          ELSE IF ~usesCompactActionFlags(e) THEN 2
          ELSE IF actionFlagsAreCompact(r.fields["action"][1], r.fields["action"][2]) THEN 1
          ELSE 3)
-----------------------------------------------------------------------------
(***************************************************************************)
(* Reading: how far the reader is, the last position, the records, and     *)
(* whether it has refused the packet.                                      *)
(***************************************************************************)
Refused == [at |-> 0, prev |-> None, got |-> << >>, ok |-> FALSE]
AtFirst == [at |-> 0, prev |-> None, got |-> << >>, ok |-> TRUE]

requireBytes(bytes, at, n) == at + n <= Len(bytes)
Word(bytes, at) == bytes[at + 1] + 256 * bytes[at + 2]

\* readUint32Varint: the value and the bytes it took, none when it is refused.
readUint32Varint(bytes, at) ==
  LET ends  == {k \in 1 .. 5 : requireBytes(bytes, at, k) /\ bytes[at + k] < 128}
      k     == CHOOSE n \in ends : \A m \in ends : n <= m
      part(i) == IF i <= k THEN (bytes[at + i] % 128) * Weight[i] ELSE 0
      value == part(1) + part(2) + part(3) + part(4) + part(5)
  IN IF ends = {} THEN [bytes |-> 0, value |-> 0]
     ELSE IF (k = 5 /\ bytes[at + 5] > 15) \/ uint32VarintBytes(value) # k
     THEN [bytes |-> 0, value |-> 0]
     ELSE [bytes |-> k, value |-> value]

\* The id, the bits and the bytes of a record's header; no bytes when it is refused.
NoHeader == [bytes |-> 0, id |-> 0, bits |-> 0]

ReadPackedHeader(bytes, at) ==
  LET inline == Word(bytes, at) % 1024
      bits   == Word(bytes, at) \div 1024
      varint == readUint32Varint(bytes, at + 2)
  IN IF ~requireBytes(bytes, at, 2) THEN NoHeader
     ELSE IF inline # Escape THEN [bytes |-> 2, id |-> inline, bits |-> bits]
     ELSE IF varint.bytes = 0 \/ varint.value < Escape THEN NoHeader
     ELSE [bytes |-> 2 + varint.bytes, id |-> varint.value, bits |-> bits]

ReadId(bytes, at, e) ==
  IF e > 0 THEN readUint32Varint(bytes, at)
  ELSE IF ~requireBytes(bytes, at, 4) THEN [bytes |-> 0, value |-> 0]
  ELSE [bytes |-> 4, value |-> Word(bytes, at) + 65536 * Word(bytes, at + 2)]

ReadHeader(bytes, at, e) ==
  LET id == ReadId(bytes, at, e)
  IN IF usesPackedRecordHeader(e) THEN ReadPackedHeader(bytes, at)
     ELSE IF id.bytes = 0 \/ ~requireBytes(bytes, at, id.bytes + 1) THEN NoHeader
     ELSE [bytes |-> id.bytes + 1, id |-> id.value, bits |-> bytes[at + id.bytes + 1]]

On(bits, value) == (bits \div value) % 2 = 1

FieldsOf(bits) ==
  {f \in {"position", "facing", "vitals", "action"} :
     On(bits, CASE f = "position" -> 1 [] f = "facing" -> 2 [] f = "vitals" -> 4
                [] f = "action" -> 8)}

\* expandPackedWireMask, and the markers that decodeSnapshot refuses.
Expand(bits, e) ==
  LET local   == UsesLocalPosition(e) /\ On(bits, 32) /\ bits # 32
      removed == IF usesPackedRecordHeader(e) THEN On(bits, 32) /\ ~local ELSE On(bits, 128)
      wide    == On(bits, 16)
  IN [local |-> local, removed |-> removed, wide |-> wide,
      fields |-> IF removed THEN {} ELSE FieldsOf(bits),
      ok |-> /\ wide => usesCompactPosition(e) /\ On(bits, 1)
             /\ local => On(bits, 1) /\ ~wide]

\* The bytes of each field, and what they say.
PositionBytes(mask, e) ==
  IF mask.local THEN 2 ELSE IF usesCompactPosition(e) /\ ~mask.wide THEN 3 ELSE 4

ReadPosition(bytes, at, mask, e, prev) ==
  LET packed == Word(bytes, at) + 65536 * bytes[at + 3]
  IN CASE PositionBytes(mask, e) = 2 ->
            <<CellWire * positionCell(prev)[1] + 8 * bytes[at + 1],
              CellWire * positionCell(prev)[2] + 8 * bytes[at + 2]>>
       [] PositionBytes(mask, e) = 3 -> <<8 * (packed % 4096), 8 * (packed \div 4096)>>
       [] PositionBytes(mask, e) = 4 -> <<Word(bytes, at), Word(bytes, at + 2)>>

FacingBytes(e) == IF usesCompactFacing(e) THEN 1 ELSE 2
VitalBytes(e) == IF usesAuthoritativeStamina(e) THEN 3 ELSE 2

\* readCompactActionFlags.
ActionBytes(bytes, at, e) ==
  IF ~usesCompactActionFlags(e) THEN 2
  ELSE IF requireBytes(bytes, at, 1) /\ bytes[at + 1] # ActionEscape THEN 1 ELSE 3

ReadAction(bytes, at, e) ==
  CASE ActionBytes(bytes, at, e) = 1 -> <<bytes[at + 1] % 16, bytes[at + 1] \div 16>>
    [] ActionBytes(bytes, at, e) = 2 -> <<bytes[at + 1], bytes[at + 2]>>
    [] ActionBytes(bytes, at, e) = 3 -> <<bytes[at + 2], bytes[at + 3]>>

\* What a field says that starts at its byte of these.
ReadField(bytes, e, prev, mask, at, field) ==
  CASE field = "position" -> ReadPosition(bytes, at["position"], mask, e, prev)
    [] field = "facing" -> IF usesCompactFacing(e) THEN expandFacingU8(bytes[at["facing"] + 1])
                           ELSE Word(bytes, at["facing"])
    [] field = "vitals" -> SubSeq(bytes, at["vitals"] + 1, at["vitals"] + VitalBytes(e))
    [] field = "action" -> ReadAction(bytes, at["action"], e)

\* An action that has three bytes where one would do.
IsOverlong(bytes, at, e) ==
  LET action == ReadAction(bytes, at, e)
  IN ActionBytes(bytes, at, e) = 3 /\ actionFlagsAreCompact(action[1], action[2])

\* The fields of a record that start at these bytes, the record ending at `end`.
ReadFields(bytes, e, reader, header, mask, at, end) ==
  LET said(field) == ReadField(bytes, e, reader.prev, mask, at, field)
  IN IF \/ ~reader.ok \/ header.bytes = 0 \/ ~mask.ok
        \/ mask.local /\ reader.prev = None
        \/ ~requireBytes(bytes, end, 0)
        \/ "action" \in mask.fields /\ IsOverlong(bytes, at["action"], e)
     THEN Refused
     ELSE [at |-> end, ok |-> TRUE,
           got |-> Append(reader.got,
                     [id |-> header.id, fields |-> IF mask.removed THEN Removed
                                                   ELSE [field \in mask.fields |-> said(field)]]),
           prev |-> IF "position" \in mask.fields THEN said("position") ELSE reader.prev]

\* Where the fields of a record start that has these, after its header.
ReadMasked(bytes, e, reader, header, mask) ==
  LET skip(field, length) == IF field \in mask.fields THEN length ELSE 0
      p == reader.at + header.bytes
      f == p + skip("position", PositionBytes(mask, e))
      v == f + skip("facing", FacingBytes(e))
      a == v + skip("vitals", VitalBytes(e))
  IN ReadFields(bytes, e, reader, header, mask,
                [position |-> p, facing |-> f, vitals |-> v, action |-> a],
                a + skip("action", ActionBytes(bytes, a, e)))

ReadHeaded(bytes, e, reader, header) ==
  ReadMasked(bytes, e, reader, header, Expand(header.bits, e))

\* One record of decodeSnapshot.
ReadRecord(bytes, e, reader) ==
  ReadHeaded(bytes, e, reader, ReadHeader(bytes, reader.at, e))

UpToTheEnd(bytes, read) == IF read.ok /\ read.at = Len(bytes) THEN read ELSE Refused

\* decodeSnapshot, of so many records in those bytes.
Decode(count, bytes, e) ==
  LET reader[i \in 0 .. count] ==
        IF i = 0 THEN AtFirst ELSE ReadRecord(bytes, e, reader[i - 1])
  IN UpToTheEnd(bytes, reader[count])
-----------------------------------------------------------------------------
WireInit ==
  /\ encoding \in Encodings
  /\ put = << >> /\ packet = << >> /\ previous = None /\ measured = 0

\* encodeSnapshot: the next record.
Put(r) ==
  /\ Len(put) < Longest
  /\ put' = Append(put, r)
  /\ packet' = packet \o WriteRecord(r, encoding, previous)
  /\ measured' = measured + Measure(r, encoding, previous)
  /\ previous' = IF "position" \in Mask(r)
                 THEN decodedPositionForRecord(r, Form(r, encoding, previous)) ELSE previous
  /\ UNCHANGED encoding

WireNext == \E r \in Sent : Put(r)

WireSpec == WireInit /\ [][WireNext]_wireVars
-----------------------------------------------------------------------------
Distance(m, n) == IF m < n THEN n - m ELSE m - n

\* As near as the encoding can say it.
Near(said, meant, field) ==
  CASE field = "position" -> Distance(said[1], meant[1]) <= 4 /\ Distance(said[2], meant[2]) <= 4
    [] field = "facing" -> Distance(said, meant) <= 128
    [] field = "vitals" -> said = SubSeq(meant, 1, Len(said)) /\ Len(said) >= 2
    [] field = "action" -> said = meant

\* A record that was read is the one that was put.
SaysRecord(said, r) ==
  /\ said.id = r.id /\ Mask(said) = Mask(r)
  /\ "removed" \notin Mask(said) =>
       \A field \in Mask(said) : Near(said.fields[field], r.fields[field], field)
  /\ <<said>> = Decode(1, WriteRecord(r, encoding, None), encoding).got

Says(read) ==
  /\ read.ok /\ Len(read.got) = Len(put)
  /\ \A i \in 1 .. Len(put) : SaysRecord(read.got[i], put[i])

\* What the browser reads is what the server put, as near as the encoding can say it,
\* and whatever stood before it in the packet: a position is rounded alike whether it is
\* written whole or within the cell of the previous one. A packet that is cut short is
\* refused whole (encode_snapshot of the server, decodeSnapshot of the browser).
PacketIsRead ==
  /\ Says(Decode(Len(put), packet, encoding))
  /\ \A n \in 0 .. Len(packet) - 1 : ~Decode(Len(put), SubSeq(packet, 1, n), encoding).ok

\* The bytes that are measured before anything is written, by which the planner stays
\* within the datagram, are the bytes that are written ("snapshot byte accounting
\* mismatch", snapshotRecordsBytes).
MeasuredExactly == measured = Len(packet)
\* A snapshot costs what it was measured to cost and is read as it was meant.
WireIsExact == PacketIsRead /\ MeasuredExactly
=============================================================================

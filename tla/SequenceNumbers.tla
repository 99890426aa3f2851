-------------------------- MODULE SequenceNumbers --------------------------
(***************************************************************************)
(* The 16-bit snapshot sequence numbers of the protocol.  u16::MAX is      *)
(* reserved: it stands for "nothing acknowledged" and for "no baseline",   *)
(* so the valid numbers are 0 .. NoSequence - 1 and wrap to 0.             *)
(***************************************************************************)
EXTENDS Integers

CONSTANT NoSequence     \* u16::MAX, 65535 in the program

ASSUME NoSequenceAssumption == NoSequence \in Nat /\ NoSequence >= 3

SequenceNumber == 0 .. (NoSequence - 1)

AckNumber == SequenceNumber \cup {NoSequence}

\* The number allocated after s: one more, skipping the reserved one.
SequenceAfter(s) == IF s + 1 = NoSequence THEN 0 ELSE s + 1

\* The number allocated k allocations before s.
SequenceBack(s, k) == IF s >= k THEN s - k ELSE (s - k) + NoSequence

\* Subtraction on the 16-bit ring; the reserved number is a point of the ring
\* although no snapshot ever carries it.
WrappingSub(a, b) == IF a >= b THEN a - b ELSE (a - b) + (NoSequence + 1)

\* Half-range comparison.
IsSequenceNewer(candidate, reference) ==
  /\ candidate # reference
  /\ 2 * WrappingSub(candidate, reference) < NoSequence + 1

\* How far s lies ahead of first, counted in valid numbers.
SequenceOffset(first, s) ==
  IF s >= first THEN s - first ELSE (NoSequence - first) + s
=============================================================================

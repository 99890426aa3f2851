----------------------- MODULE MCRealtimeReplication -----------------------
(* A small instance of RealtimeReplication for TLC. *)
EXTENDS RealtimeReplication, TLC

CONSTANTS me, foe, state

\* Bounds: the owner changes its value in a session of at most TwoSnapshots, the
\* other one in a session of at most ThreeSnapshots, and not both; in a longer one
\* the other appears and vanishes, both keep the default value, and no input was
\* sent before the first snapshot came.  Catch-ups write the other one alone, beside
\* at most TwoSnapshots.
TwoSnapshots == 2
ThreeSnapshots == 3
Plain(id, view) == view[id] = Absent \/ view[id] = DefaultEntity
AlwaysPlain(id) ==
  Plain(id, frame) /\ Plain(id, clientView) /\ \A s \in DOMAIN meant : Plain(id, meant[s])
LongSessionIsPlain ==
  /\ \E id \in NetId : AlwaysPlain(id)
  /\ session.next > TwoSnapshots + 1 => AlwaysPlain(me)
  /\ session.next > ThreeSnapshots + 1 => AlwaysPlain(foe) /\ NoSequence \notin acksSent
FewCatchups ==
  merged # {} => session.next <= TwoSnapshots + 1 /\ merged = {foe}
=============================================================================

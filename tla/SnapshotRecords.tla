-------------------------- MODULE SnapshotRecords --------------------------
(***************************************************************************)
(* What a snapshot carries.  A view maps every net id to its wire entity,  *)
(* or to Absent when the fighter is gone or outside the viewer's interest  *)
(* radius.  A field of an entity is one of the groups that the wire mask   *)
(* selects as a unit (position, facing, vitals, action).  The records of a *)
(* snapshot are a partial function of net ids; a record is Removed or the  *)
(* partial function of the fields its mask names.  The stamina of a        *)
(* fighter the viewer does not own is sent on a best-effort basis and is   *)
(* left out of the vitals of such a fighter.                               *)
(***************************************************************************)
CONSTANTS NetId, Owner, Field, Value, DefaultValue, Absent, Removed

WireEntity == [Field -> Value]

ASSUME RecordsAssumption ==
  /\ Owner \in NetId
  /\ DefaultValue \in Value
  /\ Absent \notin WireEntity
  /\ Removed \notin UNION {[mask -> Value] : mask \in SUBSET Field}

View == [NetId -> WireEntity \cup {Absent}]

Record == {Removed} \cup UNION {[mask -> Value] : mask \in SUBSET Field}

Records == UNION {[ids -> Record] : ids \in SUBSET NetId}

EmptyView == [id \in NetId |-> Absent]

\* What an entity is before its first record sets any field.
DefaultEntity == [f \in Field |-> DefaultValue]

\* A delta that takes a value back to its default for no change at all.
DeltaSkippingDefaults(state, before) ==
  [f \in {g \in Field : before = Absent \/ (state[g] # before[g] /\ state[g] # DefaultValue)} |->
     state[f]]

\* A whole entity when the baseline does not have it, else the changed fields.
BuildDelta(state, before) ==
  IF before = Absent
  THEN state
  ELSE [f \in {g \in Field : state[g] # before[g]} |-> state[f]]

\* The net ids that differ from the baseline: changed, appeared, or gone.
DueIds(frame, baseline) == {id \in NetId : frame[id] # baseline[id]}

\* The records for the due ids that the planner admits to the datagram.
PlanRecords(frame, baseline, admitted) ==
  [id \in admitted |-> IF frame[id] = Absent
                       THEN Removed
                       ELSE BuildDelta(frame[id], baseline[id])]

\* The planner may hold a record back (send cadence, or the byte budget), but
\* the owner's record is first in the first bucket and always fits.
Admissible(frame, baseline) ==
  {ids \in SUBSET DueIds(frame, baseline) :
     Owner \in DueIds(frame, baseline) => Owner \in ids}

\* One record applied to one entity; a record for an unknown entity starts
\* from the defaults.
PatchEntity(before, record) ==
  IF record = Removed
  THEN Absent
  ELSE [f \in Field |->
          IF f \in DOMAIN record THEN record[f]
          ELSE IF before = Absent THEN DefaultEntity[f] ELSE before[f]]

\* apply_records of the server: used to advance the acknowledged state.
ApplyRecords(view, records) ==
  [id \in NetId |-> IF id \in DOMAIN records
                    THEN PatchEntity(view[id], records[id])
                    ELSE view[id]]

\* A full snapshot that leaves the entities it does not mention in place.
ApplyKeepingStale(view, full, records) == ApplyRecords(view, records)

\* The client's in-place application: a full snapshot also deletes every
\* entity the packet does not mention.
ApplySnapshotInPlace(view, full, records) ==
  [id \in NetId |-> IF id \in DOMAIN records
                    THEN PatchEntity(view[id], records[id])
                    ELSE IF full THEN Absent ELSE view[id]]
=============================================================================

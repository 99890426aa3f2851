----------------------------- MODULE ThreatCue -----------------------------
(***************************************************************************)
(* The warning of the attacker that threatens the own fighter most, and of *)
(* the next one.  Every snapshot is scanned for threats, once as it comes, *)
(* to remember a jump that was committed within reach, and once for every  *)
(* painted frame; the page keeps what it has painted, to leave alone what  *)
(* did not change.  How near a rival is and whether the own fighter stands *)
(* in its reach and arc is left open in every snapshot.                    *)
(***************************************************************************)
EXTENDS Integers, Sequences, FiniteSets, SequencesExt

CONSTANTS
  Rival,     \* the net ids of the other fighters
  Nearness   \* the squared distances told apart

ASSUME ThreatAssumption == Rival \subseteq Nat \ {0} /\ Nearness \subseteq Nat

VARIABLES
  rivals,   \* the replicated state of the others, in the order of the map
  latch,    \* jumpCommittedNetId, jumpCommittedPrimary
  painted,  \* the cue as it stands on the page
  cache,    \* what the page remembers to have painted
  current   \* history: no snapshot came since the last frame

threatVars == <<rivals, latch, painted, cache, current>>

NoRival == 0

\* The attacks that are told apart: a strike, and a jump attack; a kick is no threat.
Windups == {"windup", "jump windup"}
Blows == {"strike", "jump strike"}
Stance  == Windups \cup Blows \cup {"other"}

RivalSeen == {r \in [id : Rival, stance : Stance, near : Nearness, threatens : BOOLEAN] :
           r.stance = "other" => ~r.threatens}

NoLatch == [id |-> NoRival, primary |-> FALSE]

\* The labels of the cue, with what is hidden empty.
HiddenCue == [id |-> NoRival, phase |-> "", state |-> "", count |-> 0, next |-> NoRival,
           nextPhase |-> ""]

ThreatInit ==
  /\ rivals = << >>
  /\ latch = NoLatch
  /\ painted = HiddenCue /\ cache = HiddenCue
  /\ current = TRUE
-----------------------------------------------------------------------------
(***************************************************************************)
(* fighterThreatNetId: one pass over the map.                              *)
(***************************************************************************)

NoThreat == [best |-> NoRival, second |-> NoRival, count |-> 0]

Threatens(r) == r.threatens /\ r.stance \in Windups \cup Blows

ThreatRank(r) == IF r.stance \in Blows THEN 0 ELSE 1

\* A strike before a windup, the nearer first, then the lower id.
ComesBefore(r, s) ==
  \/ ThreatRank(r) < ThreatRank(s)
  \/ ThreatRank(r) = ThreatRank(s) /\ r.near < s.near
  \/ ThreatRank(r) = ThreatRank(s) /\ r.near = s.near /\ r.id < s.id

RivalOf(map, id) == CHOOSE r \in Range(map) : r.id = id

Beats(map, r, id) == id = NoRival \/ ComesBefore(r, RivalOf(map, id))

\* A scan that forgets the best when a better one comes.
ConsiderForgetting(map, found, r) ==
  IF ~Threatens(r) THEN found
  ELSE IF Beats(map, r, found.best)
  THEN [best |-> r.id, second |-> found.second, count |-> found.count + 1]
  ELSE IF Beats(map, r, found.second)
  THEN [found EXCEPT !.second = r.id, !.count = @ + 1]
  ELSE [found EXCEPT !.count = @ + 1]

Consider(map, found, r) ==
  IF ~Threatens(r) THEN found
  ELSE IF Beats(map, r, found.best)
  THEN [best |-> r.id, second |-> found.best, count |-> found.count + 1]
  ELSE IF Beats(map, r, found.second)
  THEN [found EXCEPT !.second = r.id, !.count = @ + 1]
  ELSE [found EXCEPT !.count = @ + 1]

Scan(map) ==
  LET found[n \in 0 .. Len(map)] ==
        IF n = 0 THEN NoThreat ELSE Consider(map, found[n - 1], map[n])
  IN found[Len(map)]

StanceOf(map, id) ==
  IF \E r \in Range(map) : r.id = id THEN RivalOf(map, id).stance ELSE "other"
-----------------------------------------------------------------------------
\* observeThreatCommitment.
CommitJump(map, found) ==
  LET jumps(id) == id # NoRival /\ StanceOf(map, id) = "jump windup"
  IN IF jumps(found.best) THEN [id |-> found.best, primary |-> TRUE]
     ELSE IF jumps(found.second) THEN [id |-> found.second, primary |-> FALSE]
     ELSE latch

\* A snapshot: of the rivals, in any order, some in another stance or place.
ObserveRivals(seen) ==
  /\ rivals' = seen
  /\ latch' = CommitJump(seen, Scan(seen))
  /\ current' = FALSE
  /\ UNCHANGED <<painted, cache>>

\* The latch ends with the jump.
LatchNow ==
  IF StanceOf(rivals, latch.id) \in {"jump windup", "jump strike"} THEN latch ELSE NoLatch

\* Whether a committed jump strikes and is not among the first two.
LeftOut(found, held) ==
  /\ held # NoLatch
  /\ StanceOf(rivals, held.id) = "jump strike"
  /\ held.id \notin {found.best, found.second}

AtLeast(n, count) == IF count > n THEN count ELSE n

\* A committed jump that takes the place of the first.
LatchInPlaceOfFirst(found, held) ==
  IF ~LeftOut(found, held) THEN found
  ELSE [best   |-> IF held.primary \/ found.best = NoRival THEN held.id ELSE found.best,
        second |-> IF held.primary \/ found.best = NoRival THEN found.second ELSE held.id,
        count  |-> AtLeast(IF found.best = NoRival THEN 1 ELSE 2, found.count)]

\* A committed jump that strikes stays in the cue, in the rank that it had.
WithLatch(found, held) ==
  IF ~LeftOut(found, held) THEN found
  ELSE IF found.best = NoRival
  THEN [best |-> held.id, second |-> NoRival, count |-> AtLeast(1, found.count)]
  ELSE [best   |-> IF held.primary THEN held.id ELSE found.best,
        second |-> IF held.primary THEN found.best ELSE held.id,
        count  |-> AtLeast(2, found.count)]

\* fighterThreatPhaseLabel and fighterThreatPhaseState.
ThreatPhase(id) ==
  LET stance == StanceOf(rivals, id) IN IF stance \in Windups \cup Blows THEN stance ELSE ""
ThreatState(phase) == IF phase \in Blows THEN "strike" ELSE IF phase \in Windups THEN "windup" ELSE ""

\* What the cue should say.
CuePresentation(found) ==
  LET phase == ThreatPhase(found.best)
      both  == found.count > 1 /\ found.second # NoRival
  IN IF found.best = NoRival \/ ThreatState(phase) = "" THEN HiddenCue
     ELSE [id |-> found.best, phase |-> phase, state |-> ThreatState(phase),
           count     |-> IF found.count > 1 THEN found.count ELSE 0,
           next      |-> IF both THEN found.second ELSE NoRival,
           nextPhase |-> IF both THEN ThreatPhase(found.second) ELSE ""]

\* The label of the phase as it was keyed by the coarse state of the threat.
PhasePaintedByState(now) ==
  IF cache.state = now.state THEN painted.phase ELSE now.phase

\* The label changes with the exact phase.
PhasePainted(now) == IF cache.phase = now.phase THEN painted.phase ELSE now.phase

\* The other labels are written when they are shown and differ from what is remembered.
PaintCue(now) ==
  LET write(label, nothing) ==
        IF now[label] = nothing THEN nothing
        ELSE IF cache[label] # now[label] THEN now[label] ELSE painted[label]
  IN IF now = HiddenCue THEN HiddenCue
     ELSE [id |-> IF cache.id # now.id THEN now.id ELSE painted.id,
           state |-> now.state, phase |-> PhasePainted(now),
           count |-> write("count", 0), next |-> write("next", NoRival),
           nextPhase |-> write("nextPhase", "")]

\* updateThreatCue, of a frame.
PaintFrame ==
  LET now == CuePresentation(WithLatch(Scan(rivals), LatchNow))
  IN /\ latch' = LatchNow
     /\ painted' = PaintCue(now)
     /\ cache' = now
     /\ current' = TRUE
     /\ UNCHANGED rivals

\* The map after a snapshot: one rival is added or removed, or seen elsewhere.
NextRivals ==
  LET known(r) == \E s \in Range(rivals) : s.id = r.id
      place(r) == [i \in DOMAIN rivals |-> IF rivals[i].id = r.id THEN r ELSE rivals[i]]
  IN {rivals} \cup {RemoveAt(rivals, i) : i \in DOMAIN rivals}
     \cup {IF known(r) THEN place(r) ELSE Append(rivals, r) : r \in RivalSeen}

ThreatNext ==
  \/ \E seen \in NextRivals : ObserveRivals(seen)
  \/ PaintFrame

ThreatSpec == ThreatInit /\ [][ThreatNext]_threatVars
-----------------------------------------------------------------------------
Threats == {r \in Range(rivals) : Threatens(r)}

\* Whatever the order of the map, one pass finds the most immediate attacker and the
\* next, and counts them all: a strike before a windup, the nearer first, and the lower
\* id among equals (fighterThreatNetId, "deterministic runner-up").
ThreatsAreRanked ==
  LET found == Scan(rivals)
      first(rs) == IF rs = {} THEN NoRival
                   ELSE (CHOOSE r \in rs : \A s \in rs \ {r} : ComesBefore(r, s)).id
  IN /\ found.count = Cardinality(Threats)
     /\ found.best = first(Threats)
     /\ found.second = first({r \in Threats : r.id # found.best})

\* What stands on the page after a frame is what the state of that frame asks for,
\* though labels are only written when they seem to have changed (updateThreatCue).
CueIsCurrent == current => painted = cache

\* The most immediate threat of a frame is always shown, and so is the jump that was
\* committed within reach and strikes: neither takes the place of the other, though
\* only two are shown (updateThreatCue, jumpCommittedPrimary).
ThreatsAreShown ==
  current =>
    /\ Scan(rivals).best \in {NoRival, painted.id, painted.next}
    /\ StanceOf(rivals, latch.id) = "jump strike" => latch.id \in {painted.id, painted.next}
\* The cue of a frame names the threats that there are, the most immediate first, and
\* stands on the page as the frame asks for it (updateThreatCue).
CueShowsThreats == ThreatsAreRanked /\ ThreatsAreShown /\ CueIsCurrent
=============================================================================

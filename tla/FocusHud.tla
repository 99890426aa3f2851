------------------------------ MODULE FocusHud ------------------------------
(***************************************************************************)
(* The head-up display of web/online-game.mjs: the rival it is focused on,  *)
(* the PUNISH panel with its range cue, and the readiness of the own        *)
(* fighter.  Every frame paints from the replicated state and touches the   *)
(* page only where its caches say that something changed.  Snapshots come   *)
(* between two frames and may change everything.                            *)
(***************************************************************************)
EXTENDS Integers, FiniteSets

CONSTANTS
  HudRival,  \* the net ids of the other fighters
  Reach,     \* the distance within which a light attack lands
  Farthest   \* bound: the distances told apart

ASSUME HudAssumption == HudRival \subseteq Nat \ {0} /\ Reach \in Nat /\ Farthest \in Nat

VARIABLES
  others,   \* the replicated rivals
  own,      \* the replicated own fighter
  page,     \* what the page shows
  cached,   \* hudCache.focusNetId and focusMode, ownReadiness.state and text
  fresh     \* history: no snapshot came since the last frame

hudVars == <<others, own, page, cached, fresh>>

Nobody == 0

\* What a rival's action and guard make of it: a stun is a guard break when the
\* guard is empty.
Plights == {"plain", "recovering", "knocked down", "parried", "guard broken", "dead"}
Modes == <<"guard-break", "parry", "knockdown", "recovery", "nearest">>

OwnActions == {"Idle", "Block", "Dash", "Dodge", "Dead"}
FreeToStrike == {"Idle", "Block"}
NoFighter == [action |-> "none", faces |-> Nobody]
\* whom a fighter faces is told apart while it is free to strike
OwnSeen == [action : FreeToStrike, faces : HudRival \cup {Nobody}]
           \cup [action : OwnActions \ FreeToStrike, faces : {Nobody}] \cup {NoFighter}
OtherSeen == [plight : Plights, near : 1 .. Farthest]

Hidden == [state |-> "", label |-> ""]

HudInit ==
  /\ others = << >> /\ own = NoFighter
  /\ page = [focus |-> [id |-> Nobody, mode |-> "none"], panel |-> "hidden", panelOf |-> "",
             range |-> "", readiness |-> Hidden, readinessShown |-> FALSE]
  /\ cached = [id |-> Nobody, mode |-> "none", readiness |-> Hidden]
  /\ fresh = FALSE

----------------------------------------------------------------------------
(* The choice of the focus *)

\* fighterGuardBreakPunishNetId, fighterParryPunishNetId, fighterKnockdownPunishNetId,
\* fighterRecoveryNetId (a knockdown is a recovery too) and fighterFocusNetId
Fits(mode, seen) ==
  CASE mode = "guard-break" -> seen.plight = "guard broken"
    [] mode = "parry" -> seen.plight = "parried"
    [] mode = "knockdown" -> seen.plight = "knocked down"
    [] mode = "recovery" -> seen.plight \in {"recovering", "knocked down"}
    [] mode = "nearest" -> seen.plight # "dead"

Nearest(ids) ==
  IF ids = {} THEN Nobody
  ELSE CHOOSE i \in ids : \A j \in ids :
         \/ others[i].near < others[j].near
         \/ others[i].near = others[j].near /\ i <= j

BestOf(mode) ==
  IF own = NoFighter THEN Nobody
  ELSE Nearest({i \in DOMAIN others : Fits(mode, others[i])})

\* The form that asks for a recovery before the knockdown.
FocusOutOfOrder ==
  LET asked == <<1, 2, 4, 3, 5>>
      found == {n \in 1 .. 5 : BestOf(Modes[asked[n]]) # Nobody \/ n = 5}
      first == CHOOSE n \in found : \A m \in found : n <= m
  IN [id |-> BestOf(Modes[asked[first]]), mode |-> Modes[asked[first]]]

\* the first of the modes that has somebody; the last also when nobody is there
Focus ==
  LET found == {n \in 1 .. 5 : BestOf(Modes[n]) # Nobody \/ n = 5}
      first == CHOOSE n \in found : \A m \in found : n <= m
  IN [id |-> BestOf(Modes[first]), mode |-> Modes[first]]

----------------------------------------------------------------------------
(* The frame *)

\* lightPunishGeometryCue, asked only of a rival in the plight of the mode, and
\* answered to a fighter that stands or blocks
RangeCue(focus) ==
  CASE focus.mode = "nearest" \/ own.action \notin FreeToStrike -> ""
    [] focus.mode # "nearest" /\ own.action \in FreeToStrike ->
         IF others[focus.id].near > Reach THEN "CLOSE FOR LIGHT"
         ELSE IF own.faces # focus.id THEN "FACE TARGET" ELSE "IN LIGHT ARC"

\* opponentRecoveryPresentation, or the stun that the mode names
PanelOf(focus) ==
  CASE focus.mode \in {"guard-break", "parry"} -> focus.mode
    [] focus.mode = "knockdown" -> "knockdown"
    [] focus.mode = "recovery" -> "recovery"
    [] OTHER -> "hidden"

\* ownCombatReadinessPresentation: a dash and a roll are both in the state "evade"
Readiness ==
  CASE own.action = "Idle" -> [state |-> "ready", label |-> "READY"]
    [] own.action = "Block" -> [state |-> "block", label |-> "BLOCKING"]
    [] own.action = "Dash" -> [state |-> "evade", label |-> "DASH"]
    [] own.action = "Dodge" -> [state |-> "evade", label |-> "ROLLING"]
    [] OTHER -> Hidden

\* The form whose cache compares the rival alone.
FocusPaintedById(focus) ==
  IF cached.id = focus.id THEN page.focus ELSE focus

\* setFocusTarget
FocusPainted(focus) ==
  IF cached.id = focus.id /\ cached.mode = focus.mode THEN page.focus ELSE focus

\* updateOwnReadiness
ReadinessPainted ==
  IF Readiness = Hidden THEN [page.readiness EXCEPT !.state = ""]
  ELSE [state |-> IF cached.readiness.state # Readiness.state THEN Readiness.state
                  ELSE page.readiness.state,
        label |-> IF cached.readiness.label # Readiness.label THEN Readiness.label
                  ELSE page.readiness.label]

PaintHud ==
  LET focus == Focus IN
  /\ page' = [focus |-> FocusPainted(focus),
              panel |-> PanelOf(focus),
              panelOf |-> IF PanelOf(focus) = "hidden" THEN "" ELSE PanelOf(focus),
              range |-> RangeCue(focus),
              readiness |-> ReadinessPainted,
              readinessShown |-> Readiness # Hidden]
  /\ cached' = [id |-> focus.id, mode |-> focus.mode, readiness |-> Readiness]
  /\ fresh' = TRUE
  /\ UNCHANGED <<others, own>>

\* A snapshot changes the replicated state; more than one may come before a frame.
HudRivalSeen(i, seen) ==
  /\ others' = [j \in DOMAIN others \cup {i} |-> IF j = i THEN seen ELSE others[j]]
  /\ fresh' = FALSE
  /\ UNCHANGED <<own, page, cached>>

HudRivalLeft(i) ==
  /\ others' = [j \in DOMAIN others \ {i} |-> others[j]]
  /\ fresh' = FALSE
  /\ UNCHANGED <<own, page, cached>>

HudOwnChanged(seen) ==
  /\ own' = seen
  /\ fresh' = FALSE
  /\ UNCHANGED <<others, page, cached>>

HudNext ==
  \/ PaintHud
  \/ \E i \in HudRival, seen \in OtherSeen : HudRivalSeen(i, seen)
  \/ \E i \in DOMAIN others : HudRivalLeft(i)
  \/ \E seen \in OwnSeen : HudOwnChanged(seen)

HudSpec == HudInit /\ [][HudNext]_hudVars

----------------------------------------------------------------------------
FocusRank(seen) ==
  CASE seen.plight = "guard broken" -> 1 [] seen.plight = "parried" -> 2
    [] seen.plight = "knocked down" -> 3 [] seen.plight = "recovering" -> 4 [] OTHER -> 5

\* docs/M53 and the focus modes after it: what the HUD shows after a frame is true of the
\* state that the frame was painted from, whatever the caches held.  The focus is on a
\* living rival such that no other one is in a plight that is punished before, and the
\* label names that plight; the panel is shown exactly for a rival that can be punished;
\* a range is shown exactly beside the panel to a fighter that stands or blocks (docs/M182),
\* and calls the rival in the arc of a light exactly when it is in reach and faced; and
\* readiness is that of the own action.
HudIsCurrent ==
  fresh =>
    LET living == {i \in DOMAIN others : others[i].plight # "dead"}
        shown == page.focus
    IN /\ (own = NoFighter \/ living = {}) => shown.id = Nobody
       /\ (own # NoFighter /\ living # {}) =>
            /\ shown.id \in living
            /\ \A i \in living \ {shown.id} :
                 LET mine == FocusRank(others[shown.id])  its == FocusRank(others[i]) IN
                 \/ mine < its
                 \/ mine = its /\ others[shown.id].near < others[i].near
                 \/ mine = its /\ others[shown.id].near = others[i].near /\ shown.id < i
            /\ shown.mode = Modes[FocusRank(others[shown.id])]
            /\ (page.panel = "hidden") = (FocusRank(others[shown.id]) = 5)
            /\ page.range # "" <=> page.panel # "hidden" /\ own.action \in FreeToStrike
            /\ page.range = "IN LIGHT ARC" <=>
                 /\ page.panel # "hidden" /\ own.action \in FreeToStrike
                 /\ others[shown.id].near <= Reach /\ own.faces = shown.id
       /\ page.readinessShown = (own.action \in OwnActions \ {"Dead"})
       /\ page.readinessShown => page.readiness = Readiness
=============================================================================

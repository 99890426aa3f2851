------------------------------ MODULE MatchHud ------------------------------
(***************************************************************************)
(* The match as web/online-game.mjs tells it: the scoreboard, the notice of *)
(* match point, the end of the match, which locks the controls, and the     *)
(* feed of kills.  The scores come with the realtime snapshots, some of     *)
(* which are lost; the kills come on the reliable stream, every one, in     *)
(* order and as late as it likes.                                           *)
(***************************************************************************)
EXTENDS Integers, Sequences, FiniteSets

CONSTANTS
  Player,     \* the fighters' net ids
  KillTarget, \* FFA_KILL_TARGET
  FeedLength, \* the rows that the feed keeps
  LastKill    \* bound: the kills of a run

ASSUME MatchAssumption ==
  /\ Player \subseteq Nat \ {0} /\ IsFiniteSet(Player) /\ Player # {}   \* one's own
  /\ KillTarget \in Nat \ {0, 1} /\ FeedLength \in Nat /\ LastKill \in Nat

VARIABLES
  score,     \* external: the kills of the match that the server runs
  kills,     \* external: every kill so far; its number is its place
  toldKills, \* how many of them the reliable stream has brought
  scores,    \* the replicated scores
  locked,    \* matchOver
  feed,      \* killFeedEntries, the newest first
  cleared,   \* history: how many kills were told when the feed was cleared
  board,     \* the rows, the notice and the overlay that the page shows ...
  boardCache \* ... and the signatures it remembers

matchVars == <<score, kills, toldKills, scores, locked, feed, cleared, board, boardCache>>

NoScore == [p \in Player |-> 0]

\* fighterScoreboardPresentation: the more kills the higher, then the lower id
AheadOf(p, q) == scores[p] > scores[q] \/ (scores[p] = scores[q] /\ p < q)
\* rows.sort: the player that so many are ahead of
Ranked(n) == CHOOSE p \in Player : Cardinality({q \in Player : AheadOf(q, p)}) = n - 1
Rows ==
  [n \in 1 .. Cardinality(Player) |-> [id |-> Ranked(n), kills |-> scores[Ranked(n)]]]

\* fighterMatchPointPresentation, fighterMatchPresentation
MatchPoint == IF Rows[1].kills = KillTarget - 1 THEN Rows[1].id ELSE 0
Winner == IF Rows[1].kills >= KillTarget THEN Rows[1].id ELSE 0

MatchInit ==
  /\ score = NoScore /\ scores = NoScore
  /\ kills = << >> /\ toldKills = 0 /\ feed = << >> /\ cleared = 0
  /\ locked = FALSE
  /\ board = [rows |-> << >>, point |-> 0, winner |-> 0]
  /\ boardCache = [rows |-> << >>, point |-> 0]

----------------------------------------------------------------------------
(* The server *)

Kill(killer, victim) ==
  /\ killer # victim /\ Len(kills) < LastKill
  /\ \A p \in Player : score[p] < KillTarget
  /\ score' = [score EXCEPT ![killer] = @ + 1]
  /\ kills' = Append(kills, <<killer, victim>>)
  /\ UNCHANGED <<toldKills, scores, locked, feed, cleared, board, boardCache>>

MatchReset ==
  /\ \E p \in Player : score[p] = KillTarget
  /\ score' = NoScore
  /\ UNCHANGED <<kills, toldKills, scores, locked, feed, cleared, board, boardCache>>

----------------------------------------------------------------------------
(* The page *)

\* observeCombatState: a snapshot with the scores of now
ScoresSeen ==
  /\ scores' = score
  /\ locked' = (Winner' # 0 \/ (locked /\ score # NoScore))
  /\ feed' = IF locked /\ ~locked' THEN << >> ELSE feed
  /\ cleared' = IF locked /\ ~locked' THEN toldKills ELSE cleared
  /\ UNCHANGED <<score, kills, toldKills, board, boardCache>>

\* The form that drops the newest row when the feed is full.
RecordedAtEnd(event) ==
  LET longer == feed \o <<event>> IN
  SubSeq(longer, 1, IF Len(longer) > FeedLength THEN FeedLength ELSE Len(longer))

\* recordKillEvent
Recorded(event) ==
  LET longer == <<event>> \o feed IN
  SubSeq(longer, 1, IF Len(longer) > FeedLength THEN FeedLength ELSE Len(longer))

KillTold ==
  /\ toldKills < Len(kills)
  /\ toldKills' = toldKills + 1
  /\ feed' = Recorded(kills[toldKills + 1])
  /\ UNCHANGED <<score, kills, scores, locked, cleared, board, boardCache>>

\* updateScoreboard, updateCombatOverlay
PaintMatch ==
  /\ board' = [rows |-> IF boardCache.rows = Rows THEN board.rows ELSE Rows,
               point |-> IF boardCache.point = MatchPoint THEN board.point ELSE MatchPoint,
               winner |-> Winner]
  /\ boardCache' = [rows |-> Rows, point |-> MatchPoint]
  /\ UNCHANGED <<score, kills, toldKills, scores, locked, feed, cleared>>

MatchNext ==
  \/ \E killer, victim \in Player : Kill(killer, victim)
  \/ MatchReset \/ ScoresSeen \/ KillTold \/ PaintMatch

MatchSpec == MatchInit /\ [][MatchNext]_matchVars

----------------------------------------------------------------------------
Newest(n) ==
  LET told == SubSeq(kills, cleared + 1, toldKills)
      kept == IF Len(told) > n THEN n ELSE Len(told)
  IN [i \in 1 .. kept |-> told[Len(told) + 1 - i]]

\* docs/M52: the feed shows the last kills that were told since it was cleared, the newest
\* first, none twice and none left out, however late they come; and (docs/M50) the controls
\* are locked while the scores that the page has seen name a winner, and free when they are
\* clean, so the overlay of a match that is over never stands over controls that still act.
\* What the page shows of the scores is what its caches say it shows.
FeedAndLockAreTrue ==
  /\ feed = Newest(FeedLength)
  /\ Winner # 0 => locked
  /\ scores = NoScore => ~locked
  /\ board.rows = boardCache.rows /\ board.point = boardCache.point
=============================================================================

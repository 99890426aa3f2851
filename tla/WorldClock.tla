---------------------------- MODULE WorldClock ----------------------------
(***************************************************************************)
(* The clock of the world, now_ms, is a binary32 number to which each tick *)
(* adds a sixtieth of a second, and every deadline is compared with it.    *)
(* This module adds as binary32 does, where the numbers of that format are *)
(* whole milliseconds or further apart: to the nearest of them, and to the *)
(* even one of two.  It follows one fighter that dies and should return.   *)
(***************************************************************************)
EXTENDS Integers

CONSTANT FirstNow   \* the clock, in milliseconds, when the model starts to watch

VARIABLES
  now,        \* now_ms
  dead,       \* the action of the fighter is Dead
  respawnAt   \* respawn_at_ms

vars == <<now, dead, respawnAt>>

\* The significand of binary32 has 24 bits: its numbers next to ms are this far apart.
Ulp(ms) == CHOOSE u \in {2 ^ k : k \in 0 .. 6} : 2 ^ 23 * u <= ms /\ ms < 2 ^ 24 * u

\* A third of a millisecond is the unit in which a tick is a whole number.
ThirdsPerTick == 50

RespawnThirds == 3 * 1250

\* The sum of a clock and a time.
Plus(ms, thirds) ==
  LET exact == 3 * ms + thirds
      step  == 3 * Ulp(exact \div 3)
      below == exact \div step
      over  == exact % step
      up    == 2 * over > step \/ (2 * over = step /\ below % 2 = 1)
  IN ((IF up THEN below + 1 ELSE below) * step) \div 3

Init == now = FirstNow /\ dead = FALSE /\ respawnAt = 0

\* step_by_into: the clock, and the respawn that is due.
Tick ==
  LET later == Plus(now, ThirdsPerTick)
      back  == dead /\ later >= respawnAt
  IN /\ now' = later
     /\ dead' = (dead /\ ~back)
     /\ respawnAt' = IF back THEN 0 ELSE respawnAt

\* resolve_attacks: a kill.
Die ==
  /\ ~dead
  /\ dead' = TRUE
  /\ respawnAt' = Plus(now, RespawnThirds)
  /\ UNCHANGED now

\* run_authoritative_clock ticks for as long as the process lives.
Spec == Init /\ [][Tick \/ Die]_vars /\ WF_vars(Tick)

\* server/tests/m4_authoritative.rs:901, death_is_temporary_and_respawns_at_the_spawn_point:
\* who dies comes back, however long the server has been up.
DeathIsTemporary == dead ~> ~dead
===========================================================================

----------------------------- MODULE TickLedger -----------------------------
(***************************************************************************)
(* What the ingress window promises of client ticks that do not wrap: a    *)
(* tick is accepted when it lies at most HistoryTicks behind the newest    *)
(* one and was not accepted before.                                        *)
(***************************************************************************)
EXTENDS Integers

CONSTANTS Tick, HistoryTicks, NoTick

VARIABLES
  newest,     \* the newest tick offered, NoTick before the first
  seen,       \* the accepted ticks that are still within the history
  accepted    \* whether the last tick offered was accepted

Newer(t) == IF newest = NoTick THEN t ELSE IF t > newest THEN t ELSE newest

Init ==
  /\ newest = NoTick
  /\ seen = {}
  /\ accepted = FALSE

Offer(t) ==
  /\ newest' = Newer(t)
  /\ accepted' = (t \notin seen /\ Newer(t) - t <= HistoryTicks)
  /\ seen' = {s \in seen \cup {t} : Newer(t) - s <= HistoryTicks}

Next == \E t \in Tick : Offer(t)

Spec == Init /\ [][Next]_<<newest, seen, accepted>>
=============================================================================

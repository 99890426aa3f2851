# myaso: TLA+ models and proofs

myaso is a browser melee free-for-all.  A Rust server (`server/src`) runs one
authoritative world at 60 Hz; browsers (`src/`, `web/`) send their inputs at
30 Hz and receive snapshots at 20 Hz, as WebTransport datagrams that may be
lost, delayed and reordered.  A reliable stream carries the first snapshot,
occasional catch-up snapshots and kill events.  Acceptance scripts
(`scripts/`) play gestures on two real browsers and judge by what the pages
tell.  Paths below are relative to the repository.

The program's hard logic is less in one algorithm than between its parts: what
the server believes the client has and what it has, which input a step of the
world has taken and what the client was told of it, what happened in a fight
and what the page makes of the few snapshots it got, two implementations of the
same rules, and a script that must conclude from late pages what the server
did.  The models follow these relations.

## Inventory

| Part | State | Operations | Hard behaviour | What makes it correct |
|---|---|---|---|---|
| Sequence numbers (`snapshot.rs`, `lib.rs`, `sequence.mjs`) | 16-bit numbers, 65535 reserved | allocate, compare, distance | the wrap skips a number, comparison is half-range | a distance identifies one number |
| Records and deltas (`snapshot.rs`, `snapshot-store.mjs`) | views of the world | build_delta, admit, apply on the server, apply on the client | two implementations, partial packets | what a snapshot says is the frame |
| `SnapshotSession` (`snapshot.rs`) | next number, bounded history, acknowledged number and state | build_from_frame, advance_acknowledged_state | the state is advanced in place; eviction | the state is what the acknowledged snapshot meant |
| Realtime channel (`main.rs` handler, `authoritative-client.mjs`) | acknowledged, ready; the client's map, latest, acknowledged | snapshot tick, input datagram, client handler | loss, delay, reordering both ways | deltas meet their baseline; acknowledgements never move back |
| Reliable catch-up, kill events (`main.rs`, `reliable.rs`, `authoritative-client.mjs`) | one-place queue, second session, cursor, merge state | enqueue, write, checkpoint, merge | a full queue, reliable data older than realtime data | the chain of catch-ups never breaks, each death is told once |
| Ingress window (`lib.rs`) | newest tick, ring of seen bits | ingest, advance_newest | ring aliasing, wrap, jumps | each tick is accepted at most once |
| Input path (`lib.rs`, `main.rs`, `simulation.rs`) | latest input, pending bits, buttons of the last step, queue of acknowledgements | coalesce, set_input, step, respawn, rematch, take_safe_input_ack | several packets between two steps, deaths, rematches, overflow | a press acts once; an acknowledged input has been taken |
| Combat (`simulation.rs`) | a fighter's action, timers, guard, stamina, score | step, requests, attack resolution | order of attacks in a tick, buffers, interrupts | no action without its cost and its time; one meeting per swing and target |
| World clock (`simulation.rs`) | `now_ms` | tick | a binary32 sum | every deadline is reached |
| Offline practice (`combat/model.mjs`, `sparring-ai.mjs`) | the same fighters, the partner's cooldowns | stepWorld, resolveAttacks, decide | a second implementation of the rules | the same buttons give the same fight |
| Prediction (`reconciliation.mjs`, `own-snapshot-ack-gate.mjs`) | history of inputs, one pending acknowledgement, the own fighter | offer, flush, replay | acknowledgements overtake snapshots | no input is forgotten |
| Gestures and page loops (`*-gesture.mjs`, `left-button-charge.mjs`, `online-game.mjs`, `game.mjs`) | recognisers, requests, the frame loop | pointer, mouse, key, wheel and visibility handlers, frame | several events for one press; hidden pages | one press is one strike; the loop is neither lost nor doubled |
| Readability and HUD (`combat-readability.mjs`, `online-game.mjs`) | previous snapshot, caches, pending denials, feed | scan, paint, settle a denial | lost snapshots, stale caches, late kills | what is told did happen and what is shown is current |
| Sound (`game-audio.mjs`) | context, samples, two workers, music | warm, unlock, play, dispose | dispose while a fetch or a decode runs | sound only where asked for, nothing left behind |
| Paint clock (`smooth-motion.mjs`, `online-game.mjs`) | age of the newest snapshot and of the paint | frame | bursts after a stall | the paint catches up and never leaps |
| Wire records (`snapshot-codec.mjs`, `snapshot.rs`) | none | measure, put, read, in eight encodings | limits of cells, varints and half bytes | a packet costs what was measured and is read as it was meant |
| Transport (`transport.mjs`) | the waiting datagram, the open frame | send, write, chunk, fall back | a congested writer, frames cut anywhere | the freshest datagram, whole frames in order |
| Browser flights (`scripts/pvp_browser_flight_runner.mjs`) | stage, attempt, offsets into what the pages told | gestures, judgements, retries | lost gestures, late pages | an accepted flight has shown what it claims |
| Session lifecycle (`main.rs`, `lib.rs`) | permits, ids, membership | admit, join, leave | racing accepts, joining during an intermission | permits are neither lost nor exceeded |
| Planner and interest grid (`snapshot.rs`, `replication-planner.mjs`) | ages of the last record of an entity | buckets, cadence, byte budget | starvation | every change is eventually sent |
| Zone authority (`zone.rs`, not wired in) | zone, nonce and cooldown of a member | register, authorize | wrapping nonces and ticks | one zone at a time, no replay |

The parts meet in five places: the lock around the world (the clock, the
handlers and the accept loop take it), the published frame (replaced every
third tick, read by every handler), the datagrams (snapshots and input
acknowledgements down, samples and snapshot acknowledgements up), the reliable
stream, and on the page the map of fighters that the handlers of both channels
write and every frame reads.

`PROJECT.json` lists the hazards of this code, each at its line, with the
properties that would catch it and, where none does, the reason.

## Modules

Channel of snapshots:

| Module | Models | State and actions |
|---|---|---|
| `SequenceNumbers` | allocation, half-range comparison and distance of the snapshot numbers | operators; `NoSequence` is 65535 in the program |
| `SnapshotRecords` | `build_delta`, `plan_records`, `apply_records`, `applySnapshotPacketInPlace` | operators on views (net id to entity or absent) |
| `SnapshotSession` | `SnapshotSession` of `snapshot.rs` | a session is a record, its methods are operators, because a connection owns two |
| `RealtimeReplication` | the realtime half of `handle_connection`, both channels, the client's handlers | `WorldChanges`, `ReceiveBaseline`, `MergeCatchup`, `SendInput`, `ReceiveInput`, `TakeSnapshot`, `ReceiveSnapshot` |
| `SnapshotSessionProofs`, `RealtimeReplicationProofs` | the lemmas and theorems on the four modules above | |
| `ReliableCatchup` | the reliable half: queue, writer, second session, kill history, the merge on the client | `ClockStep`, `HandlerTick` (`QueueKill`, `LeaveTick`), `WriteReliable`, `ReceiveReliable`, beside realtime snapshots (`ReceiveRealtime`) |
| `SnapshotWire` | the packed records, eight encodings | `Put` writes a record after the others; reading is an operator, a recursive function over the records |
| `Transport` | the datagram writer, the framing of the stream, the fallback | sends, writes that block, chunks, closing |
| `ReliableCatchupProofs` | the lemmas and theorems on `ReliableCatchup` | |
| `WireProofs` | the lemmas and theorems on `SnapshotWire` and `Transport` | |

Inputs:

| Module | Models | State and actions |
|---|---|---|
| `Controls` | the recognisers of both mouse buttons, keys, wheel, the frame loops of both pages | one action per kind of event, `Frame`, connection and visibility |
| `InputWindow` | `InputIngressWindow` | a window is a record, `ingest` an operator |
| `TickLedger` | what the window promises, over ticks that do not wrap | `Offer` |
| `InputWindowTrace` | a window under any sequence of samples | `IngestSample`; implements `TickLedger` |
| `InputConnection` | the input half of `handle_connection`, the latch and the edges of `simulation.rs`, the acknowledgement queue | `SendInput`, `ReceiveInput`, the kinds of `WorldStep`, `SnapshotTick` |
| `Prediction` | the history of inputs, the gate, the replay | `Predict`, `Publish`, `ReceiveOwnSnapshot`, `ReceiveAck`, `ReceiveReliableOwn` |
| `InputProofs` | the lemmas and theorems on `InputWindowTrace` and `InputConnection` | |

The fight:

| Module | Models | State and actions |
|---|---|---|
| `FighterActions` | one fighter in one tick of `simulation.rs`: requests, buffer, charge, timers, stamina, guard | a fighter is a record, the functions of the tick are operators on it |
| `Combat` | `World`: joining, leaving, the loops of `step_by_into`, the match | one action per iteration: `ActLiving`, `ActDead`, `RollInto`, `Evade`, `Parry`, `BlockHit`, `GuardBreak`, `KickDown`, `Hit`, `Kill`, ... |
| `WorldClock` | `now_ms` as a binary32 number, and one deadline | `Tick`, `Die` |
| `PracticeFighter`, `PracticeParity` | `combat/model.mjs`, and its comparison with every step of `Combat` | operators, action properties of `Combat` |
| `SparringAi` | `createSparringAi` | `Spar`, `BeStruck` |
| `CombatProofs` | the lemmas and theorems on `Combat`, `PracticeParity` and `SparringAi` | |

The page and the scripts:

| Module | Models |
|---|---|
| `CombatFeedback` | `createCombatReadabilityTracker`, beside `Combat`, under lost snapshots |
| `CombatFeedbackProofs` | the lemmas and theorems on `CombatFeedback` |
| `ThreatCue` | the ranks of threats, the remembered jump, the painted cue |
| `FocusHud` | the focus, its plight, the PUNISH panel with its range, readiness |
| `MatchHud` | scoreboard, match point, the lock of the controls, the feed of kills |
| `StaminaDenial` | pending denials of presses, settled by snapshots and acknowledgements |
| `GameAudio` | the context, the two workers, effects, music, `dispose` |
| `RenderClock` | the clock that the paint of rivals follows |
| `FlightEvidence`, `FlightScripts`, `StaminaFlights`, `JumpFlights`, `Flights` | the evidence that scripts judge by, the scripts, their dispatch and what each claims |
| `PageProofs` | the lemmas and theorems on `Prediction`, `GameAudio`, `ThreatCue`, `FocusHud`, `MatchHud`, `StaminaDenial`, and on `Controls` above |

`MCRealtimeReplication`, `MCInputConnection`, `MCCombat`, `MCCombatDuel`,
`MCInputLoops` and `MCPageParts` give the constants of a run their values, and
`ReliableCatchup` needs none but its configuration; `MCActions` has the durations
and costs that several of them use.
`MCInputLoops` and `MCPageParts` hold several parts that share no state: the
variable `part` is chosen at the start, and a behaviour runs that part alone,
the others resting in one initial state.  The properties of a part say of its
own variables what they say of it alone.

### Realtime channel

`frame` is the published frame; `session`, `acknowledged` and `ready` are the
handler's variables of these meanings; `clientView`, `latest` and `clientAck`
are the client's `state`, `latestSnapshotSequence` and
`acknowledgedSnapshotSequence`.  `sent` and `acksSent` only grow: a delivery
takes any element at any time, so loss, delay and reordering need no action of
their own.  `meant`, `applied`, `linked` and `merged` are history variables.

The first reliable packet is `ReceiveBaseline`.  Every later one is merged into
the same map, and neither the acknowledgement nor the server's session knows of
it: `MergeCatchup` writes any records that such a merge could write, and `merged`
is the set of entities so written since a realtime snapshot last said all of
them.  Which records a catch-up has, and when it may write them, is left to
`ReliableCatchup`.

An entity's fields are the groups that the record mask selects as a unit.  The
planner is every choice it could make: it may leave out any due record but the
owner's, which is first in the first bucket and always fits.  An entity outside
the viewer's interest radius is absent from its frame.  The best-effort stamina
of other fighters is left out, which the code excludes from a delta on purpose.

### Reliable stream

`ReliableCatchup` gives the second session of a connection its own records, a
queue of one place, the writer task and the client's replica.  The handler's
tick asks for a kill event, then for a catch-up when the realtime snapshots are
late with somebody, and either finds the place taken or takes it.  Realtime
snapshots appear as what they do to the map that the catch-ups are merged into,
entity by entity and by tick.

### Input path

`Controls` ends where a sample is taken, `InputConnection` begins there.
Samples are numbered; an intent is the pair of the sample its held state comes
from and the sample its actions come from, so that what a batch mixes stays
visible.  `latest`, `pending` and `wasDown` are `latest_input`, the `pending_*`
bits and the `*_input_was_down` bits; a pending bit remembers which sample set
it.  `StepLiving`, `StepDead`, `StepRespawn`, `StepOver` and `StepRematch` are
the paths of `step_by_into` for one fighter: whether it dies, and whether
anybody wins the match, is left open, and so are the delays of respawn and
rematch.  The world's tick wraps; an input never waits half a cycle (a year) for
its acknowledgement, which is a guard of `Tick`.

In `Controls` only the transitions between no button and some button are pointer
events, as in a browser; what is pressed or released in between is a mouse
event.  In `Prediction` a state of the own fighter is the number of the newest
input that the server had processed for it, and a shown state is such a number
and the set of inputs applied since.

### Combat

Time is counted in ticks and a deadline is the ticks left until it.  An action
of `Combat` is one iteration of a loop of `step_by_into`; `phase`, `turn` and
`other` are the cursor, and joining and leaving wait until the step is over, as
they wait for the lock.  `swing` is the profile of `resolve_attacks`, which is
read once for a row of targets and outlives a parry that stuns the attacker.
The order of the net ids is the order of the vector; `allocate_player_id` uses
none twice, which `gone` remembers.  `met`, `touched` and `broken` are history
variables, kept apart from the program's own sets so that a target wrongly left
out of those sets shows.

Positions and facings are left open: a target may be in reach or not
(`Miss`, `RollPast`), a block may face the blow or not (`Hit`, `KickDown` and
`Kill` on a block), whatever happened before.  Movement, `separate_fighters` and
knock-back are therefore not modelled, nor are the three lanes of a light attack,
the events and `recently_interacted_with`, which only the planner reads.  The
input of a tick is any that the run lists, since `InputConnection` is about which
one it is; a dead fighter sends none, because none is read.

`PracticeParity` asks of every step of `Combat` what the browser's own rules,
translated apart from `model.mjs`, make of the same fighters.  `CombatFeedback`
keeps the deeds of the world beside the snapshots that reach one page, which may
miss up to `LongestGap` of them.  `WorldClock` looks at the one deadline
arithmetic that ticks hide: its numbers are the program's own, in thirds of a
millisecond.

### The page

Each module is one concern of `online-game.mjs` with what the server or the
network may do to it left open: `ThreatCue` and `FocusHud` take any rivals in
any snapshot, `MatchHud` any scores and late kills, `StaminaDenial` a coarse
server that grants, refuses or interrupts, `GameAudio` any order of gestures,
answers, settings and disposal.  They keep the page's caches apart from what it
shows, since a cache that lags behind is what can go wrong.

### Browser flights

`deeds` is what the server did, in order; `tellings` is how much of it each page
has told; `hands` is what each page has heard.  A script acts (the gestures may
be lost, and the server makes any listed story of them), then judges by the told
prefix alone: it goes on, plays again if the attempt left no trace, or throws.
Abstractions: a page tells a prefix and skips nothing; sleeps and deadlines are
not modelled, so a script may judge at any time; one sample stands for the three
of a calibration; aiming is a gesture only where its arrival is judged; of a
lost gesture nothing comes; the page that does nothing in the flights of a
denied fighter is silent; the confirmed-stamina flight proves two of its six
cases in any order; a retry does not calibrate again.  Most
stories hold one strike an attempt, so that only the flights with retries could
count a second one; what a single attempt cannot get wrong is not claimed.
`Claim` says what an accepted flight has shown.

The dodge of a jump attack is accepted on any of three kinds of evidence: both
pages told the evasion, the roll brought the attacker down (`rollCounter`, for
which the attacker's page need not have seen the windup), or both pages saw the
strike become active while the roll was under way (`hasReplicatedDodgeOverlap`).
The last compares server ticks of snapshots; here it compares places in the
story, and whether a page got the roll and the strike with one snapshot is left
open (`together`).  The roll may begin and end anywhere in the strike
(`RollAmid`), so an accepted overlap has to be one.  A light that is played again while the
hit before is still told late can hit twice, so the flights that only need a hit
claim no more than one happened.

## Runs

| Run | Question | Result |
|---|---|---|
| `realtime_replication` | do deltas meet baselines, does the in-place acknowledged state stay exact and does a snapshot show the frame, under loss, delay and reordering? | passes |
| `reliable_catchup` | does the chain of catch-ups hold, is each death told once and in order, is what a late catch-up put back taken out again? | passes (liveness) |
| `input_connection` | does a press act once in a life, is a released charge forgotten, an acknowledged input taken? | passes |
| `input_loops` | is one press one strike, does the frame loop survive hiding, does the paint catch up, does the ring implement the ledger, is every batch answered? | passes (liveness, refinement) |
| `page_parts` | prediction, denials, threats, focus, match, sound, wire, transport, sparring partner and flights, each by its property | passes |
| `combat_control` | is a fighter's buffer, charge and stamina consistent, is a denied chord or an early release ever a stronger attack, does the practice make the same of every tick? | passes |
| `combat_duel` | does a swing or a roll meet a target once, does anybody stay down longer, a broken guard come back early, the practice fight otherwise, or the page tell what did not happen? | passes |
| `combat_brawl` | is there one winner, do the dead return and matches follow? | passes (liveness) |
| `settled_client` | when nothing is due, does the client show the frame? | violated |
| `latched_press` | does the next step act on a latched press? | violated |
| `frozen_clock` | does a death end however long the server is up? | violated |
| `stuck_run` | does the fighter run only while the right button is held? | violated |

`FighterInv` and `AckedInputIsTaken` have the type invariant of their module as
their first conjunct; `RealtimeReplication` states its own, `TypeOK`.

The four violated runs state what the documentation or a test says:

- *A client may keep a fighter that is gone.*  Snapshots 1 and 2 are both
  built on snapshot 0; a fighter appears in 1 and is gone in 2, which therefore
  does not mention it.  The client applies both in place, without looking at the
  baseline, acknowledges 2, and has the fighter; the server has nothing to send.
  It heals when the fighter is seen and removed again, or by a full snapshot.
  What does hold is `LinkedClientMatches`: a client whose deltas all met their
  baseline is exact, but for the entities that a catch-up has written since.
- *A latched press may not act.*  A press and its release merged into one step
  leave the button down for the edge detection; the next press, received before
  the following step, is latched and then masked.
- *The clock stops.*  `now_ms` is an `f32`.  From 2^28 ms on (3.1 days) it can
  only move by 32 ms, and each tick of 16.67 ms moves it by that much; from 2^29
  ms on (4.8 days, 25 116 055 ticks) it could only move by 64 ms and does not
  move.  A fighter that is dead then, or a match that is over, stays so until the
  process is restarted.  The run starts two seconds before, at a value that the
  clock takes: from 2^28 to 2^29 it visits every multiple of 32.
- *A run may go on by itself.*  With the right button held, the left one goes
  down and the right one up: the page gets a `mouseup` and no `pointerup`, and
  the recogniser of the right button listens to the latter only.  The fighter
  runs until the next right press or until the window loses the focus.

More facts that the models show and that need no run of their own:

- A respawn forgets which buttons were down but keeps the last input, so a press
  of a client that is silent from its death to its respawn acts in both lives,
  which is why `PressesActOnce` speaks of a life.
- A retained snapshot whose baseline is no longer the acknowledged one is
  answered with a full snapshot, where `docs/M4_AUTHORITATIVE_SIMULATION.md`
  promises a delta.
- A release as a heavy attack that the server's step finds a tick early is turned
  into a light attack (`EarlyReleaseIsNoHeavy`); the comment in the code says so,
  the practice lets it ripen, and so `PracticeActsAlike` leaves it out by name,
  as `PracticeFightsAlike` does the stun of a guard broken by a heavy attack (650
  and 835 ms).
- A page that misses a snapshot between a shove and a roll-over takes one for
  the other, the second break of an empty guard is not told, and a dodge is told
  as a block when the guard has regenerated since: `FeedbackIsTrue` speaks of
  gaps up to `LongestGap`.  A parry may be told that the server did not resolve
  (`docs/M29_ONLINE_COMBAT_READABILITY.md:16`).
- A press that is granted and broken off by somebody before the page sees it can
  be told as LOW STAMINA (`DenialIsTrue` excepts it), and a chord whose jump was
  sent before its denial stays pending.
- A kill of the match before that is delivered after the first clean snapshot
  shows in the feed of the next match; a page that misses every clean snapshot
  keeps its controls locked.  `FeedAndLockAreTrue` says what remains.
- A page whose frames stay 72.5 ms apart or more (50 ms at a rate of 1.45) paints
  ever further behind the server, for as long as that lasts: `PaintCatchesUp`
  asks for frames that the rate reaches (`FrameGains`), and then holds whatever
  came before.
- An online game that is hidden and shown again while it waits for its connection
  runs two frame loops (`OneFrameLoop` excepts it).

### Bounds

- `realtime_replication`: eleven numbers, a history of two and five snapshots
  after the first, two fighters, of whom `foe` may come and go.  Two snapshots are needed on one baseline, a
  third to be built after one of them was acknowledged, a fourth to be the full
  one that answers a refused or evicted baseline, and a fifth to be a delta on
  that; the history of two evicts an entry that may still be acknowledged.  In
  sessions of up to three snapshots the field of the other fighter changes between
  two values, of which one is the default, in those of up to two the owner's may
  instead, and longer ones keep both (`LongSessionIsPlain`): three tell a default
  from a patch.  In the longer ones no input was sent before the first snapshot
  came.  Catch-ups write the other fighter only, beside up to two snapshots (`FewCatchups`, `LastCatchup`): one
  that is written, a delta over it, and a record that makes it whole again.
  `settled_client` has no catch-up at all.
- `reliable_catchup`: nine numbers, a history of two, ticks to 3, two deaths and a
  kill history of one, so that one is evicted; a checkpoint after one delta and
  two catch-ups, so that a delta follows a checkpoint.
- `input_connection`: three samples, two in a datagram, a history of two ticks,
  a queue of two acknowledgements, ticks of three bits from 6 on and gestures of
  no button, a press, and the hold of a charge.  Three samples give hold, release
  and neutral in one interval, a sample later than two newer ones, and one more
  acknowledgement than the queue holds.  The client's ticks wrap.
- `input_loops`: the samples of `input_connection` with buttons left alone; a
  ring of four slots with ticks to 20: every residue, two wraps and jumps longer
  than the ring; at most two buttons and keys held and one thing asked for between
  two samples (`FewRequests`), which is what chords are made of; a paint one tick
  behind the newest snapshot, which is up to four ticks old.  A tick is 16.7 ms, a
  frame counts for three of them (50 ms) and its rate is 29/20, as in the program;
  frames are up to five ticks apart, so that those of three are exact, four are
  cut and made up for by the rate, and five fall behind; a paint that is eleven
  ticks old falls behind no further (`Furthest`).
- `page_parts`: three inputs and three published states with a history of two;
  stamina of two with presses of one and two; three rivals at two distances, of
  which one is only ranked (`TwoFollowed`); two rivals in reach, near or far,
  of whom the second is never parried nor guard broken and near when it is down,
  a fighter that blocks faces the first (`HudIsSmall`); two players, two kills
  to win and a feed of two; three samples, two workers, two tracks; packets of
  up to two of twelve records on both sides of every limit of
  the encodings; four payloads and four frames; a partner whose stamina pays one
  roll; two attempts of a retry and a page at most three deeds behind when a
  script acts again.  A light's story has four deeds, so a retry may meet a hit
  that is still untold.
- `combat_control`: one fighter with every press, alone and with the light attack,
  the chords of a charge and a sprint.  Costs keep the order of the program's, a
  full stamina pays one roll and not two, and windups last two ticks or three,
  so that there is a tick before, in and after every window.
- `combat_duel`: one fighter attacks, kicks and rolls, the other blocks and
  rolls.  A light attack is active for two ticks, of which a roll's protection
  covers one; a roll lasts three; a fall outlasts a roll and the windup of a
  kick; every blow takes half of a guard, and two blows kill.  Stamina is free
  here.  The snapshots of the page are up to three ticks apart, and a respawn takes
  as long.
- `combat_brawl`: two fighters, of whom one strikes and blocks and the other kicks
  and rolls, two kills to win, who join and leave.
- `frozen_clock`: the real numbers of the last two seconds before 2^29 ms.

Deadlock is not checked where a bound ends a session (`reliable_catchup`,
`input_loops`, `page_parts`, `frozen_clock`, in which the clock stands still).

### Fairness

`InputConnection` states weak fairness of the clock and of the handler's tick,
`Combat` and `WorldClock` of the clock alone.  Both are `tokio` intervals in
tasks that run as long as the process or the connection does, and neither waits
for the other except for the lock, which no task holds across an await.
`ReliableCatchup` adds the handler's reliable half (the same interval), the
writer task and the delivery of the stream, which is reliable and in order.
`Controls` and `RenderClock` state it of the animation frames, which a browser
gives to a page that is shown and has asked for one; the guard of `Frame` has
both.  Nothing is assumed of the player, of datagrams or of a hidden page.

## Proofs

`tlapm` checks eight modules of theorems; each theorem holds for every value of
the constants that its module's `ASSUME` allows.  The runs check the same
properties on small instances, and their instances meet these assumptions.

| Theorem | of | Property |
|---|---|---|
| `HistoryIndexExact`, `PlannedRecordsShowFrame` | operators of `SnapshotSession` | what an index and a planned record mean |
| `TypeCorrect`, `DeltaBaselineApplied`, `BaselineIsReconstructed`, `LinkedClientShowsMeant`, `AcksNeverMoveBack`, `SnapshotsShowTheFrame` | `RealtimeReplication` | all six properties of its run |
| `TheReplicaFollows`, `DeathsAreToldInOrder`, `OmissionsAreReconciled` | `ReliableCatchup` | `ReplicaFollowsSession`, `KillsInOrder`, `OmissionReconciled` |
| `TheWindowIsALedger` | `InputWindowTrace` | `ImplementsLedger`, the refinement of `TickLedger` |
| `NothingAckedWaits`, `NoHoldIsLeft`, `APressActsOnce` | `InputConnection` | `AckedInputIsTaken`, `ReleasedHoldIsForgotten`, `PressesActOnce` |
| `TheWinnerHasTheKills`, `NothingFallsTwice`, `TheGroundIsNotRefreshed`, `TheGuardStaysBroken` | `Combat` | `WinnerHasTheKills`, `MeetsOnce`, `KnockdownNotRefreshed`, `GuardStaysBroken` |
| `EveryFighterIsConsistent`, `EarlyReleases`, `DeniedPressesAreLost` | `Combat` | `FighterInv`, `EarlyReleaseIsNoHeavy`, `DeniedPressIsLost` |
| `PracticeActsAsTheServer`, `PracticeFightsAsTheServer` | `Combat` | `PracticeActsAlike`, `PracticeFightsAlike` |
| `WhatIsToldIsTrue`, `WhatIsToldHappened` | `CombatFeedback` | `FeedbackIsTrue` in a duel, and `CrowdIsTrue`, what is left of it among more fighters |
| `ThePartnerActs` | `SparringAi` | `PartnerActs` |
| `NoInputIsForgotten` | `Prediction` | `NoInputForgotten` |
| `SoundIsOnlyAskedFor` | `GameAudio` | `SoundIsAskedFor` |
| `TheCueShowsThreats` | `ThreatCue` | `CueShowsThreats` |
| `TheHudIsCurrent`, `TheFeedAndTheLockAreTrue` | `FocusHud`, `MatchHud` | `HudIsCurrent`, `FeedAndLockAreTrue` |
| `APressStrikesOnce`, `TheLoopIsThere` | `Controls` | `OnePressOneStrike`, and `OneFrameLoop`, the safety half of `LoopServes` |
| `TheDenialIsTrue` | `StaminaDenial` | `DenialIsTrue` |
| `TheTransportDelivers` | `Transport` | `TransportDelivers`, with `TheFreshestGoesOut` for its half about datagrams |
| `TheWireIsExact` | `SnapshotWire` | `WireIsExact` |

### Realtime channel

`SnapshotSessionProofs` says of the session's operators that in a contiguous
history the index computed from the distance is the position of the number, and
0 exactly for numbers that are not retained, across the wrap
(`HistoryIndexExact`); that `build_from_frame` and `advance_acknowledged_state`
keep the history contiguous and bounded (`SessionInv`); and that planned
records, applied to the baseline, give the frame on every record they contain.

The inductive invariant `IInv` of `RealtimeReplicationProofs` adds to the types
what relates the ends of the channel: a history entry is the datagram that was
sent under its number and means what applying it to its baseline gives
(`HistoryInv`); what the session has acknowledged was applied by the client
(`AckedInv`); every sent delta names an applied baseline that is older
(`SentInv`); and every acknowledgement in flight or in the handler is of an
applied snapshot and not newer than the client's own (`AckInv`).
A catch-up touches none of these but the client's view, and there only what it
adds to `merged`; a record that leaves `merged` says all of its entity, so the
view has it from the record alone (`MergeCatchupStep`, `LinkedClientShowsMeant`).
`BaselineReconstructed` alone is not inductive: it is preserved because an entry
is accepted only on the state it was built on, and because the entry's records
are those that `meant` was computed from.

### Reliable stream

`CatchupInv` follows the pipe from end to end.  What is queued, being written or
in the stream is well formed (`Pipes`) and in the order in which it was made
(`InOrder`); the deltas among it form a chain, each built on the one before and
the first on the client's replica, which ends at what the server builds the next
catch-up on (`ChainOf`); that one is the newest of the second session's history
and may become its baseline (`Current`); and what was told of a fighter is known
to the replica.  A delta that is skipped because the place is taken leaves the
chain as it was, and this is why the session may only advance with a snapshot
that found the place free.  `KillsInOrder` needs the order of the deaths under
way relative to the cursor, `OmissionReconciled` that the map of the client lags
behind its replica only where a realtime snapshot was newer.  The row of
snapshots that a client has applied is data of any length: what holds of it is
proved by taking the least place at which it would fail.

### Input path

The ring of `InputWindow` is related to the unwrapped ledger by three facts: the
newest tick of the window is the residue of the newest tick of the ledger
(`At`); its set slots are exactly the seen ticks of the last `HistoryTicks`
(`Held`), since two of those never share a slot; and the next sample is within
half a cycle (`Near`), as the trace assumes.  A step then maps to the step of the
ledger with the same answer.

`ConnectionInv` is the inductive invariant of the latch: what the server holds
of a sample it has accepted (`Sources`), the window knows every sample it has
accepted as far back as one may be accepted again (`Knows`), what is published
follows the tick (`Published`), a bit that waits in the latch was set since the
last step, so the acknowledgement of its sample is still too young to be sent
(`PendingIsUnsafe`), a press that has acted is down until the life ends and
nothing latches it again (`StruckIsDown`), a rematch leaves nothing behind
(`SwallowedIsGone`), and a release forgets the hold.  A datagram carries several
samples that are taken in one by one; the windows in between are again a row,
of which the least bad place is refuted.

### The fight

`CombatProofs` uses only the part of a fighter that concerns others, and has one
lemma for what each press, timer and blow makes of it.  On `Shape`, the types and
the order of the cursor, rest four arguments.

- *The score* (`ScoreInv`): who is absent has no kills, nobody has the kills of a
  winner while a match goes on, and who is announced has them.
- *Meetings* (`MeetInv`): whom a swing has met is in the attacker's own mask for
  as long as it strikes, and whom a roll has touched for as long as it rolls
  (`Remembers`).  The attacker of the row under way, whose profile is read once,
  is in no windup whatever became of it (`RowInv`): a parry takes it out of the
  swing but never into a new one, so the mask that a new windup clears is not
  cleared in mid-row.
- *The ground*: a step of a fighter that is down leaves it no more time there
  (`NoLonger`), for every lemma of a step.
- *The guard* (`GuardInv`): whoever was broken is stunned with a guard of 0 and
  waits for its guard at least until the stun is over, but for the tick that some
  fighters of the step have had and others have not (`Ahead`).

Its second half proves what `FighterInv` says of each fighter, by `AllGood`:
every fighter is typed, remembers at most one press of a recovery (`Lone`), has
a buffer and a charge that belong to its action and that it can pay, and a
charge waits at the end of its windup and not beyond (`HoldWaits`, without which
`FighterInv` is not inductive: a charge past its time would be let go early).
One lemma per operator of `FighterActions` says what it does to such a fighter.
The parity of the practice is an equality of operators: each of
`PracticeFighter` gives the same fighter as its counterpart of `FighterActions`,
on every fighter as `AllGood` has it, and so does every step of the world. The
two exceptions that the properties name are the cases in which the equality
fails.

The sparring partner is one more such fighter, to which `PartnerInv` adds that it
buffers and charges nothing (`Calm`), that a button which is down when it could be
pressed again is followed by a pause (`PausesWhileDown`), and that a jump which is
to become an attack can pay it (`JumpIsPaid`).  Every decision is one of three: to
begin nothing, to press from rest what can be paid, or to use a jump
(`SampleDecides`).

### What the page tells

`CombatFeedbackProofs` relates the last snapshot of a fighter to the fighter as it
is now and to the deeds in between.  Its invariant `PageInv` says, of each fighter:
what it lost since it was seen, or fell into, some deed explains (`Explained`);
health or guard that came back took a match that began anew or ticks at rest
(`Healed`, `Rested`), and a respawn takes longer than a gap (`Fell`); and every deed still shows on the fighter
it was done to, or the strike that did it is `Late`, which is to say that it began
less than a gap ago (`Shows`).  The last part is what a dodge needs: the page tells
one when a strike ends that left no trace, so what has to be proved is that nothing
happened, and a strike that is over is older than the longest gap.

With two fighters whoever did a deed is known, and `FeedbackIsTrue` follows.  Among
more, the page may take one fighter's parry, shove or roll-over for another's who
stood as near: `CrowdIsTrue` keeps the deed and gives up its author.

### The page

The inductive invariants of `PageProofs`:

- `PredictionInv`: a snapshot at or after the tick of an acknowledgement reflects
  its input (`NetworkIsOrdered`); the history lacks no input that is neither
  applied nor too old for it (`Follows`).
- `AudioInv`: music plays only as the settings ask (`MusicIsAskedFor`), a disposed
  page holds nothing (`DisposedIsSilent`), and a sample is loaded, at a worker, or
  to come, but not two of these (`WorkIsDivided`).
- `CueInv`: the rivals of the map have ids of their own, a latch is that of a rival,
  and the page stands as it is remembered.  That one pass ranks and counts the
  threats is an induction over the places of the map (`PassRanks`): after each rival
  the first and the second of those before are found.  The pass is a recursive
  function, and an induction on its domain is a least counterexample.
- `HudInv`: the focus that the page shows is the cached one, and so is the
  readiness unless it is hidden (`CachesAreTrue`).  The choice of a focus, a
  search through five modes, is shown to be the least by rank, distance and id.
- `MatchInv`: the feed row by row (`FeedIsNewest`), the lock, and the first row of
  the scoreboard as one that nobody is ahead of, which a finite set of players
  has.
- `ControlsInv`: a press that can still strike has not (`AtMostOnce`), and the
  frames that wait are the one the loop knows of and the one of a page that was
  shown before its connection (`LoopIsCounted`).
- `DenialInv`: what was begun for a press that was granted, or what followed from
  it, still goes on when the page hears of it (`GrantedGoesOn`): the steps left
  and the snapshots missed add up to more than the action lasts.

### The wire

The inductive invariants of `WireProofs`:

- `TransportInv`: what waits is the newest payload (`NewestWaits`).
- `StreamInv`: the delivered frames, the bytes that wait and those still to come are
  the stream that was sent, each byte at its place in it (`IsLayout`).  The reader's
  loop is a recursive function; after as many rounds as a chunk has bytes no frame is
  left in it, since each round that finds one shortens it (`RoundsUnpack`).
- `WireInv`: the records so far are read one by one to the end of the packet, and the
  reader then knows the position that the writer compares the next one with.  What
  preserves it are two facts about one record.  A record that stands in a packet is
  read as the encoding can say it (`RecordIsRead`), of which the parts are lemmas:
  words and varints, the packed header, the rounding of positions and facings, the
  halves of a byte.  And a record that is read is read alike whatever follows it,
  since no byte behind its end is looked at (`RecordIsLocal`): so the records before
  are read in the longer packet as they were (`LongerReads`), and a packet that was
  cut short would end where the whole one does if it were accepted.

### Assumptions

All are named in the modules and TLC evaluates them in the runs.  Most give types.
Those that say more:

- `NoSequenceAssumption`, `HistoryLimitAssumption`: at least three numbers, and a
  history shorter than a cycle (65535 and 64 in the program).
- `LastSnapshotAssumption`, `CatchupAssumption`: a session is shorter than half a
  cycle of the numbers (27 minutes of snapshots at 20 Hz).  Within it no wrap of
  the numbers of a session can occur; `HistoryIndexExact` covers the wrap of the
  history itself.
- `WindowAssumption`: the ring has more slots than the history has ticks and its
  length divides the cycle of the ticks (a power of two in the program).
- `ConnectionAssumption`: the frames are published more often than twice per cycle
  of the ticks, and a session sends fewer samples than half a cycle has ticks.
- `FighterAssumption`: no windup begins and ends in one tick.  The shortest windup
  of the program lasts several.
- `DenialConstants`: an action lasts longer than the page may go without a
  snapshot; beyond that `DenialIsTrue` does not hold.
- `GapAssumption`: the snapshots of the page are no further apart than a windup and
  one tick, than the parry window and two, than the guard waits, and than a respawn,
  and every blow takes something.  In the program the shortest windup is 135 ms, the
  window 125 ms and the other two 520 and 1250 ms, so nine ticks are allowed, three
  snapshots at 20 Hz.  It is what the proof uses, not the least that would do; but
  in a gap that a whole strike fits into, a dodge may be told that was none.
- `SparringAssumption`: the partner's thresholds are no less than the prices, and
  its pauses, a roll and a jump outlast one step.
- `TransportAssumption`: a reliable frame has at most 65535 bytes, which both ends
  refuse to exceed.
- `WireAssumption`: the fields of a record are what `quantizeEntity` makes of an
  entity: an id of four bytes, words and bytes.
- `MatchAssumption`: there is somebody on the board, as the page's own fighter is.

### Model-checked only

- Liveness, and with it ENABLED, is out of the prover's reach: `EveryInputAnswered`,
  `KillsAreTold`, `PaintCatchesUp`, `GameGoesOn` and the half `RequestsAreServed` of
  `LoopServes`.
- `AcceptedIsTrue` quantifies over the scripts' own stages, a finite table that
  TLC goes through entirely.

## Not modelled

- Admission and the life of a session: the gate is a semaphore of the runtime and
  the tasks around it do input and output; the models start with an admitted
  session, and `Combat` lets fighters join and leave at any time.
- The planner's priorities and cadences and the interest grid: a realtime
  snapshot may carry any choice of due records, so what is proved holds for every
  planner, and says nothing of how long a record may wait.
- Zone authority: not wired into the server.
- Geometry: movement, reach, facing, arcs and knock-back are left open in the
  fight and on the page; interpolation and drawing change no state that another
  part reads.
- The fixed layouts of input, acknowledgement and kill event datagrams, the TLS
  and WebTransport handshakes.
- Flights of three and more fighters, of respawns, matches and guard breaks, of
  lost inputs, the samplers of pixels, and the launch of servers and browsers.

What would come next: the planner's starvation, and the realtime channel across the
wrap of the numbers.

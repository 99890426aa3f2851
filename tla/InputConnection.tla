-------------------------- MODULE InputConnection --------------------------
(***************************************************************************)
(* The input path of one connection, from the buttons the client samples   *)
(* to the actions its fighter starts: redundant datagrams that may be      *)
(* lost, delayed and reordered, the ingress window, the coalescing of a    *)
(* batch, the latch between two server ticks, the edges of the world step, *)
(* and the acknowledgement of processed inputs.                            *)
(*                                                                         *)
(* Samples are numbered from 1; what the other fields of a sample hold is  *)
(* told apart by its number, so an intent is a pair of numbers: the sample *)
(* its held state comes from and the sample its actions come from.         *)
(***************************************************************************)
EXTENDS Sequences, InputWindow

CONSTANTS
  Attack, Heavy,   \* the two buttons of a charge
  OtherButton,     \* the other one-shot buttons: dodge, kick, jump, dash
  Gesture,         \* the sets of one-shot buttons that a sample may carry
  NoSample,
  Redundancy,      \* samples in a datagram, 3 in the program
  MaxAcks,         \* MAX_PENDING_INPUT_ACKS, 256 in the program
  PublishEvery,    \* SNAPSHOT_EVERY_SERVER_TICKS, 3 in the program
  FirstTick,       \* the client tick before the first sample
  LastInput        \* bound: the number of samples

InputButton == {Attack, Heavy} \cup OtherButton

SampleNumber == 1 .. LastInput

ASSUME ConnectionAssumption ==
  /\ Attack # Heavy
  /\ Gesture \subseteq SUBSET InputButton /\ {} \in Gesture
  /\ Redundancy \in Nat \ {0} /\ MaxAcks \in Nat \ {0} /\ PublishEvery \in Nat \ {0}
  /\ 2 * PublishEvery <= TickModulus
  /\ FirstTick \in WireTick
  /\ LastInput \in Nat /\ 2 * LastInput < TickModulus
  /\ NoSample \notin Int

VARIABLES
  sampled,      \* the buttons of every sample so far
  window,       \* ingress of the handler
  latest,       \* latest_input of the fighter
  pending,      \* the pending_* bits: the sample that set each
  wasDown,      \* the *_input_was_down bits
  alive,        \* the fighter's action is not Dead
  over,         \* the match has a winner
  tick,         \* world.tick
  frameTick,    \* the tick of replication_frame
  pendingAcks,  \* pending_input_acks of the handler
  received,     \* history: the samples that the window has accepted
  taken,        \* history: the newest sample of every accepted batch
  answered,     \* history: the inputs that have been acknowledged
  struck,       \* history: the presses that started an action in this life
  spent,        \* history: the presses that started an action in a former life
  swallowed     \* history: the samples received before the last rematch

clientVars == <<sampled>>
inputVars  == <<window, pendingAcks>>
latchVars  == <<latest, pending>>
stateVars  == <<wasDown, alive, over, tick, frameTick>>
batchVars  == <<received, taken>>
strikeVars == <<struck, spent, swallowed>>
vars == <<clientVars, inputVars, latchVars, stateVars, batchVars, answered, strikeVars>>

Intent == [newest : SampleNumber \cup {NoSample}, action : SampleNumber \cup {NoSample}]

NeutralIntent == [newest |-> NoSample, action |-> NoSample]

Press == InputButton \X SampleNumber

NoPresses == [b \in {} |-> NoSample]

TypeOK ==
  /\ sampled \in Seq(Gesture) /\ Len(sampled) <= LastInput
  /\ window \in Window
  /\ latest \in Intent
  /\ DOMAIN pending \subseteq InputButton /\ \A b \in DOMAIN pending : pending[b] \in SampleNumber
  /\ wasDown \subseteq InputButton
  /\ alive \in BOOLEAN /\ over \in BOOLEAN
  /\ tick \in WireTick /\ frameTick \in WireTick
  /\ pendingAcks \in Seq([input : SampleNumber, at : WireTick]) /\ Len(pendingAcks) <= MaxAcks
  /\ received \subseteq SampleNumber
  /\ taken \in Seq(SampleNumber)
  /\ answered \subseteq SampleNumber
  /\ struck \subseteq Press /\ spent \subseteq Press
  /\ swallowed \subseteq SampleNumber

Wire(n) == (FirstTick + n) % TickModulus

\* The one-shot buttons of an intent.
Bits(intent) == IF intent.action = NoSample THEN {} ELSE sampled[intent.action]

Charging(bits) == {Attack, Heavy} \subseteq bits

Init ==
  /\ sampled = << >>
  /\ window = NewWindow
  /\ latest = NeutralIntent
  /\ pending = NoPresses
  /\ wasDown = {}
  /\ alive = TRUE
  /\ over = FALSE
  /\ tick = 0
  /\ frameTick = 0
  /\ pendingAcks = << >>
  /\ received = {}
  /\ taken = << >>
  /\ answered = {}
  /\ struck = {}
  /\ spent = {}
  /\ swallowed = {}
-----------------------------------------------------------------------------
(***************************************************************************)
(* The client and the datagram handler.                                    *)
(***************************************************************************)

\* The client samples its buttons and sends them with the samples before.
SendInput(bits) ==
  /\ Len(sampled) < LastInput
  /\ sampled' = Append(sampled, bits)
  /\ UNCHANGED <<inputVars, latchVars, stateVars, batchVars, answered, strikeVars>>

\* The samples of a datagram, newest first.
PacketSamples(n) ==
  [k \in 1 .. (IF n < Redundancy THEN n ELSE Redundancy) |-> n + 1 - k]

\* The window of the loop over a datagram, before its first sample and after each.
Windows(n) ==
  LET after[k \in 0 .. Len(PacketSamples(n))] ==
        IF k = 0 THEN window ELSE Ingest(after[k - 1], Wire(PacketSamples(n)[k]))
  IN after

\* The samples of a datagram that the window accepts, one after the other.
AcceptedSamples(n) ==
  {PacketSamples(n)[k] : k \in
     {j \in DOMAIN PacketSamples(n) : Accepts(Windows(n)[j - 1], Wire(PacketSamples(n)[j]))}}

\* The last of a batch sorted from the oldest to the newest.
NewestOf(samples, newestTick) ==
  CHOOSE n \in samples : \A m \in samples :
    TickDistance(newestTick, Wire(n)) <= TickDistance(newestTick, Wire(m))

\* coalesce_accepted_input_batch: held state of the newest sample, actions of the
\* newest sample that has one.
Coalesce(samples, newestTick) ==
  LET acting == {n \in samples : sampled[n] # {}}
  IN [newest |-> NewestOf(samples, newestTick),
      action |-> IF acting = {} THEN NoSample ELSE NewestOf(acting, newestTick)]

\* Latching that keeps what a released charge had set.
LatchRisingOnly(intent) ==
  LET rising == Bits(intent) \ Bits(latest)
  IN [b \in DOMAIN pending \cup rising |->
        IF b \in DOMAIN pending THEN pending[b] ELSE intent.action]

\* latch_action_edges: rising edges are remembered until the next step; the end
\* of a charge replaces the two charge bits by the mode of its release.
Latch(intent) ==
  LET released == IF Charging(Bits(latest)) /\ ~Charging(Bits(intent))
                  THEN {Attack, Heavy} ELSE {}
      kept     == DOMAIN pending \ released
      rising   == Bits(intent) \ (Bits(latest) \ released)
  IN [b \in kept \cup rising |-> IF b \in kept THEN pending[b] ELSE intent.action]

\* record_pending_input_ack with a full queue that keeps what it has.
RecordAckDroppingNewest(input) ==
  IF Len(pendingAcks) = MaxAcks
  THEN pendingAcks
  ELSE Append(pendingAcks, [input |-> input, at |-> tick])

\* record_pending_input_ack: a full queue drops its oldest entry.
RecordAck(input) ==
  Append(IF Len(pendingAcks) = MaxAcks THEN Tail(pendingAcks) ELSE pendingAcks,
         [input |-> input, at |-> tick])

\* An input datagram arrives, and may do so long after later ones.  An input is
\* acknowledged even when the world refuses it because the match is over.
ReceiveInput(n) ==
  LET accepted == AcceptedSamples(n)
      intent   == Coalesce(accepted, window'.newest)
  IN /\ n \in DOMAIN sampled
     /\ window' = Windows(n)[Len(PacketSamples(n))]
     /\ IF accepted = {}
        THEN UNCHANGED <<pendingAcks, latchVars, batchVars>>
        ELSE /\ pendingAcks' = RecordAck(intent.newest)
             /\ received' = received \cup accepted
             /\ taken' = Append(taken, intent.newest)
             /\ IF over
                THEN UNCHANGED latchVars
                ELSE latest' = intent /\ pending' = Latch(intent)
     /\ UNCHANGED <<clientVars, stateVars, answered, strikeVars>>
-----------------------------------------------------------------------------
(***************************************************************************)
(* The authoritative clock, as the fighter of this connection sees it.     *)
(***************************************************************************)

\* input_with_pending_actions.
StepInput == Bits(latest) \cup DOMAIN pending

\* The actions that a step asks for: buttons down now and not in the last step.
Edges == StepInput \ wasDown

\* The sample that each action of a step comes from.
Strikes ==
  {<<b, IF b \in DOMAIN pending THEN pending[b] ELSE latest.action>> : b \in Edges}

\* The tick advances, and every third one publishes a frame.  No input waits for
\* half a cycle of ticks, a year, to be acknowledged.
Tick ==
  /\ \A i \in DOMAIN pendingAcks :
       2 * TickDistance(tick + 1, pendingAcks[i].at) < TickModulus
  /\ tick' = (tick + 1) % TickModulus
  /\ frameTick' = IF tick' % PublishEvery = 0 THEN tick' ELSE frameTick

\* A living fighter takes its input; it may die of it, and the match be won.
StepLiving ==
  /\ alive /\ ~over
  /\ Tick
  /\ wasDown' = StepInput
  /\ pending' = NoPresses
  /\ struck' = struck \cup Strikes
  /\ alive' \in BOOLEAN
  /\ over' \in BOOLEAN
  /\ UNCHANGED <<clientVars, inputVars, latest, batchVars, answered, spent, swallowed>>

\* A dead fighter takes no input.
StepDead ==
  /\ ~alive /\ ~over
  /\ Tick
  /\ over' \in BOOLEAN
  /\ UNCHANGED <<clientVars, inputVars, latchVars, wasDown, alive, batchVars, answered,
                 strikeVars>>

\* A new life starts with every button up, but keeps the last input.
NewLife ==
  /\ wasDown' = {}
  /\ pending' = NoPresses
  /\ struck' = {}
  /\ spent' = spent \cup struck

\* respawn_fighter, when the respawn time has come; the attacks of the same step
\* may already hit the new life.
StepRespawn ==
  /\ ~alive /\ ~over
  /\ Tick
  /\ NewLife
  /\ alive' \in BOOLEAN
  /\ over' \in BOOLEAN
  /\ UNCHANGED <<clientVars, inputVars, latest, batchVars, answered, swallowed>>

\* Nothing moves while the result of a match is shown.
StepOver ==
  /\ over
  /\ Tick
  /\ UNCHANGED <<clientVars, inputVars, latchVars, wasDown, alive, over, batchVars, answered,
                 strikeVars>>

\* A rematch that respawns the fighter and forgets nothing else.
StepRematchKeepingInput ==
  /\ over
  /\ Tick
  /\ NewLife
  /\ alive' = TRUE
  /\ over' = FALSE
  /\ swallowed' = received
  /\ UNCHANGED <<clientVars, inputVars, latest, batchVars, answered>>

\* reset_match: every fighter starts anew, with a neutral input.
StepRematch ==
  /\ over
  /\ Tick
  /\ latest' = NeutralIntent
  /\ NewLife
  /\ alive' = TRUE
  /\ over' = FALSE
  /\ swallowed' = received
  /\ UNCHANGED <<clientVars, inputVars, batchVars, answered>>

\* take_safe_input_ack that is content with the tick of the frame itself.
SafeAtFrame(at) == at = frameTick \/ IsTickNewer(frameTick, at)

\* An input accepted at a tick is reflected by a frame of a later tick only.
Safe(at) == IsTickNewer(frameTick, at)

\* How many of the queued inputs the published frame reflects.
SafeCount ==
  CHOOSE k \in 0 .. Len(pendingAcks) :
    /\ \A i \in 1 .. k : Safe(pendingAcks[i].at)
    /\ k < Len(pendingAcks) => ~Safe(pendingAcks[k + 1].at)

\* The 50 ms tick of the handler acknowledges the last input that is safe.
SnapshotTick ==
  /\ SafeCount > 0
  /\ answered' = answered \cup {pendingAcks[SafeCount].input}
  /\ pendingAcks' = SubSeq(pendingAcks, SafeCount + 1, Len(pendingAcks))
  /\ UNCHANGED <<clientVars, window, latchVars, stateVars, batchVars, strikeVars>>

WorldStep ==
  StepLiving \/ StepDead \/ StepRespawn \/ StepOver \/ StepRematch

Next ==
  \/ \E bits \in Gesture : SendInput(bits)
  \/ \E n \in SampleNumber : ReceiveInput(n)
  \/ WorldStep
  \/ SnapshotTick

\* The clock and the handler's interval keep running; nothing obliges a client to
\* send or the network to deliver.
Spec == Init /\ [][Next]_vars /\ WF_vars(WorldStep) /\ WF_vars(SnapshotTick)
-----------------------------------------------------------------------------
(***************************************************************************)
(* Properties.                                                             *)
(***************************************************************************)

\* What the client is told was processed has been taken: nothing of an
\* acknowledged input waits in the latch of a living fighter, to act after the
\* client has stopped predicting it (take_safe_input_ack).  The types of the latch and of
\* the queue are checked with it.
AckedInputIsTaken ==
  /\ TypeOK
  /\ alive /\ ~over => \A b \in DOMAIN pending : pending[b] \notin answered

\* A charge that a newer input has ended leaves nothing of its hold in the latch,
\* however many datagrams arrive between two steps (latch_action_edges).
ReleasedHoldIsForgotten ==
  \A b \in DOMAIN pending \cap {Attack, Heavy} :
    Charging(sampled[pending[b]]) => Charging(Bits(latest))

Acts == alive /\ ~over /\ tick' # tick

\* Of all its redundant, late and coalesced copies, a press starts one action in
\* a life of the fighter (ingest, latch_action_edges, step_by_into).
PressStrikesOncePerLife ==
  [][Acts => Strikes \cap struck = {}]_vars

\* Nothing that the server received before a rematch acts in the new match
\* (reset_match, set_input).
NoStrikeAcrossMatches ==
  [][Acts => \A press \in Strikes : press[2] \notin swallowed]_vars

\* A press acts at most once, and in the match it was made in.
PressesActOnce == PressStrikesOncePerLife /\ NoStrikeAcrossMatches

\* Every batch of inputs is answered, by its own acknowledgement or by that of a
\* later one, even when the queue overflows (record_pending_input_ack).
EveryInputAnswered ==
  \A k \in SampleNumber :
    (Len(taken) >= k) ~> (\E j \in k .. Len(taken) : taken[j] \in answered)

\* What the documentation says of the latch and the code does not keep.

\* A press that was latched between two steps acts in the next one.
LatchedPressActs ==
  alive /\ ~over => \A b \in DOMAIN pending : b \in Edges
=============================================================================

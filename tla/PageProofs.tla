----------------------------- MODULE PageProofs -----------------------------
(***************************************************************************)
(* The parts of the page that share no state with one another, each for    *)
(* every value of its constants.                                           *)
(***************************************************************************)
EXTENDS Prediction, GameAudio, FocusHud, MatchHud, Controls, StaminaDenial, ThreatCue,
        FiniteSetTheorems, SequenceTheorems, WellFoundedInduction, TLAPS

\* Any set of numbers that is not empty has a least one.
LEMMA LeastOf ==
  ASSUME NEW h \in SUBSET Nat, h # {}
  PROVE  \E n \in h : \A m \in h : n <= m
<1>1. PICK n \in h : \A m \in h : <<m, n>> \notin OpToRel(<, Nat)
  BY WFMin, NatLessThanWellFounded, Zenon
<1>2. \A m \in h : ~(m < n)
  BY <1>1, Zenon DEF OpToRel
<1> QED
  BY <1>2

-----------------------------------------------------------------------------
(***************************************************************************)
(* Prediction: no input is forgotten, however many are sent, however often *)
(* the world is published and however long the history is.  What is        *)
(* published orders the snapshots and the acknowledgements among each      *)
(* other, and the history lacks nothing that is neither processed nor too  *)
(* old for it.                                                             *)
(***************************************************************************)

NetworkTypeOK ==
  /\ sentInputs \in Nat
  /\ authority \in [tick : Nat, input : Nat]
  /\ network.snapshots \subseteq [tick : Nat, input : Int]
  /\ network.acks \subseteq [tick : Nat, input : Nat]

\* A snapshot at or after the tick of an acknowledgement reflects its input.
NetworkIsOrdered ==
  /\ \A s \in network.snapshots : s.tick <= authority.tick
  /\ \A a \in network.acks : a.tick <= authority.tick /\ a.input <= authority.input
  /\ \A s \in network.snapshots, a \in network.acks :
       s.input # NoState /\ s.tick >= a.tick => s.input >= a.input

\* What a client holds came from the network; an acknowledgement that waits is newer than
\* the one that was applied; the history has every input that is neither applied nor too
\* old for it; and what is shown lacks none.
Follows(c) ==
  /\ DOMAIN c = {"own", "newest", "known", "pending", "applied", "history", "shown",
                 "base", "on", "since"}
  /\ c.own \in network.snapshots \cup {NoOwn}
  /\ c.pending \in network.acks \cup {NoAck}
  /\ c.applied \in Nat
  /\ c.pending = NoAck \/ c.pending.input > c.applied
  /\ c.history \subseteq 1 .. sentInputs
  /\ \A n \in 1 .. sentInputs :
       n > c.applied /\ n > sentInputs - MaxHistory => n \in c.history
  /\ c.shown => \A n \in 1 .. sentInputs : n <= c.base \/ n \in c.on \/ n <= c.since

PredictionInv == NetworkTypeOK /\ NetworkIsOrdered /\ Follows(predictor)
-----------------------------------------------------------------------------
(***************************************************************************)
(* The history.                                                            *)
(***************************************************************************)

\* The oldest of a history is one of it, and no later than any other.
LEMMA OldestIsLeast ==
  ASSUME NEW h \in SUBSET Nat, h # {}
  PROVE  Oldest(h) \in h /\ \A m \in h : Oldest(h) <= m
<1>1. PICK n \in h : \A m \in h : n <= m
  BY LeastOf
<1> QED
  BY <1>1 DEF Oldest

\* What a push drops is too old for the history.
LEMMA PushKeeps ==
  ASSUME NEW s \in Nat, NEW h \in SUBSET (1 .. s)
  PROVE  /\ Push(h, s + 1) \subseteq 1 .. (s + 1)
         /\ \A n \in h \cup {s + 1} : n > s + 1 - MaxHistory => n \in Push(h, s + 1)
<1> DEFINE longer == h \cup {s + 1}
           k == Oldest(longer)
<1>1. longer \subseteq 1 .. (s + 1) /\ longer # {}
  OBVIOUS
<1>2. k \in longer /\ \A m \in longer : k <= m
  BY <1>1, OldestIsLeast
<1>3. longer \subseteq k .. (s + 1) /\ k \in 1 .. (s + 1)
  <2> HIDE DEF longer, k
  <2> QED
    BY <1>1, <1>2
<1>4. Cardinality(longer) <= s + 2 - k /\ Cardinality(longer) \in Nat
  <2>1. IsFiniteSet(k .. (s + 1)) /\ Cardinality(k .. (s + 1)) = s + 2 - k
    BY <1>3, FS_Interval
  <2>2. IsFiniteSet(longer) /\ Cardinality(longer) <= Cardinality(k .. (s + 1))
    <3> HIDE DEF longer, k
    <3> QED
      BY <1>3, <2>1, FS_Subset
  <2>3. Cardinality(longer) \in Nat
    BY <2>2, FS_CardinalityType
  <2> QED
    BY <2>1, <2>2, <2>3
<1>5. Cardinality(longer) > MaxHistory => k <= s + 1 - MaxHistory
  BY <1>3, <1>4, PredictionAssumption
<1>6. Push(h, s + 1) = IF Cardinality(longer) > MaxHistory THEN longer \ {k} ELSE longer
  BY DEF Push
<1>7. \A n \in longer : n > s + 1 - MaxHistory => n \in Push(h, s + 1)
  BY <1>1, <1>3, <1>4, <1>5, <1>6, PredictionAssumption
<1> QED
  BY <1>1, <1>6, <1>7
-----------------------------------------------------------------------------
(***************************************************************************)
(* The handlers of the client.                                             *)
(***************************************************************************)

\* A client that is offered an acknowledgement fits what the network carries.
LEMMA OfferFollows ==
  ASSUME NetworkTypeOK, NEW c, Follows(c), NEW ack \in network.acks
  PROVE  Follows(Offer(c, ack))
<1>1. CASE ack.input <= c.applied \/ ack.input <= c.pending.input
  BY <1>1 DEF Offer
<1>2. CASE ~(ack.input <= c.applied \/ ack.input <= c.pending.input)
  <2> DEFINE d == [c EXCEPT !.pending = ack]
  <2>1. Offer(c, ack) = d
    BY <1>2 DEF Offer
  <2>2. /\ DOMAIN d = DOMAIN c /\ d.pending = ack
        /\ d.own = c.own /\ d.applied = c.applied /\ d.history = c.history
        /\ d.shown = c.shown /\ d.base = c.base /\ d.on = c.on /\ d.since = c.since
    BY DEF Follows
  <2>3. ack.input > c.applied
    BY <1>2 DEF Follows, NetworkTypeOK
  <2> HIDE DEF d
  <2> QED
    BY <2>1, <2>2, <2>3 DEF Follows
<1> QED
  BY <1>1, <1>2

\* A client that takes over a sample of its own fits what the network carries.
LEMMA CarriedFollows ==
  ASSUME NEW c, Follows(c), NEW s \in network.snapshots
  PROVE  Follows(Carried(c, s))
<1> DEFINE d == [c EXCEPT !.own = s]
<1>1. /\ DOMAIN d = DOMAIN c /\ d.own = s
      /\ d.pending = c.pending /\ d.applied = c.applied /\ d.history = c.history
      /\ d.shown = c.shown /\ d.base = c.base /\ d.on = c.on /\ d.since = c.since
  BY DEF Follows
<1> HIDE DEF d
<1>2. Follows(d)
  BY <1>1 DEF Follows
<1> QED
  BY <1>2 DEF Carried, d

\* A client that shows its fighter for the first time fits what the network carries.
LEMMA FirstShownFollows ==
  ASSUME NetworkTypeOK, NEW c, Follows(c)
  PROVE  Follows(FirstShown(c))
<1> DEFINE d == [c EXCEPT !.shown = TRUE, !.base = c.own.input, !.since = sentInputs]
<1>1. /\ DOMAIN d = DOMAIN c /\ d.own = c.own
      /\ d.pending = c.pending /\ d.applied = c.applied /\ d.history = c.history
      /\ d.since = sentInputs
  BY DEF Follows
<1> HIDE DEF d
<1>2. Follows(d)
  BY <1>1 DEF Follows, NetworkTypeOK
<1> QED
  BY <1>2 DEF FirstShown, d

\* An acknowledgement is applied only on a state that reflects its input, so that what
\* the history loses by it the new state has.
LEMMA FlushFollows ==
  ASSUME NetworkTypeOK, NetworkIsOrdered, NEW c, Follows(c)
  PROVE  Follows(Flush(c))
<1>1. CASE ~c.known \/ c.pending = NoAck \/ ~Anchors(c.own, c.pending)
  BY <1>1 DEF Flush
<1>2. CASE ~(~c.known \/ c.pending = NoAck \/ ~Anchors(c.own, c.pending))
  <2> DEFINE ack == c.pending
             left == DiscardThrough(c.history, ack.input)
             old == IF sentInputs > MaxHistory THEN sentInputs - MaxHistory ELSE 0
             d == Flush(c)
  <2>1. /\ ack \in network.acks /\ ack.input \in Nat /\ ack.input > c.applied
        /\ c.own \in network.snapshots /\ c.own.input \in Int
        /\ c.own.input >= ack.input
    BY <1>2 DEF Follows, NetworkTypeOK, NetworkIsOrdered, Anchors, NoOwn
  <2>2. d = Reconcile([c EXCEPT !.pending = NoAck, !.applied = ack.input], ack.input)
    BY <1>2 DEF Flush
  <2>3. /\ DOMAIN d = DOMAIN c /\ d.own = c.own
        /\ d.pending = NoAck /\ d.applied = ack.input /\ d.history = left
        /\ d.base = c.own.input /\ d.on = left /\ d.since = old
    BY <2>2 DEF Reconcile, Follows
  <2>4. /\ left \subseteq 1 .. sentInputs
        /\ \A n \in 1 .. sentInputs :
             n > ack.input /\ n > sentInputs - MaxHistory => n \in left
    BY <2>1 DEF DiscardThrough, Follows
  <2>5. \A n \in 1 .. sentInputs : n <= c.own.input \/ n \in left \/ n <= old
    BY <2>1, <2>4, PredictionAssumption DEF NetworkTypeOK
  <2> HIDE DEF d, ack, left, old
  <2>6. Follows(d)
    BY <2>1, <2>3, <2>4, <2>5 DEF Follows
  <2> QED
    BY <2>6 DEF d
<1> QED
  BY <1>1, <1>2

\* Ticks that the client counts do not matter to the fit.
LEMMA UncountedFollows ==
  ASSUME NEW c, Follows(c), NEW n
  PROVE  Follows([c EXCEPT !.newest = n]) /\ Follows([c EXCEPT !.known = n])
<1> DEFINE d == [c EXCEPT !.newest = n]
           e == [c EXCEPT !.known = n]
<1>1. /\ DOMAIN d = DOMAIN c /\ d.own = c.own
      /\ d.pending = c.pending /\ d.applied = c.applied /\ d.history = c.history
      /\ d.shown = c.shown /\ d.base = c.base /\ d.on = c.on /\ d.since = c.since
  BY DEF Follows
<1>2. /\ DOMAIN e = DOMAIN c /\ e.own = c.own
      /\ e.pending = c.pending /\ e.applied = c.applied /\ e.history = c.history
      /\ e.shown = c.shown /\ e.base = c.base /\ e.on = c.on /\ e.since = c.since
  BY DEF Follows
<1> HIDE DEF d, e
<1>3. Follows(d) /\ Follows(e)
  BY <1>1, <1>2 DEF Follows
<1> QED
  BY <1>3 DEF d, e
-----------------------------------------------------------------------------
(***************************************************************************)
(* The steps.                                                              *)
(***************************************************************************)

\* Sending and predicting an input keeps the invariant.
LEMMA PredictStep ==
  ASSUME PredictionInv, Predict
  PROVE  PredictionInv'
<1> DEFINE h == Push(predictor.history, sentInputs + 1)
<1>1. /\ sentInputs' = sentInputs + 1 /\ sentInputs \in Nat
      /\ UNCHANGED <<authority, network>>
  BY DEF Predict, PredictionInv, NetworkTypeOK
<1>2. /\ h \subseteq 1 .. (sentInputs + 1)
      /\ \A n \in predictor.history \cup {sentInputs + 1} :
           n > sentInputs + 1 - MaxHistory => n \in h
  BY <1>1, PushKeeps DEF PredictionInv, Follows
<1>3. /\ DOMAIN predictor' = DOMAIN predictor /\ predictor'.own = predictor.own
      /\ predictor'.pending = predictor.pending /\ predictor'.applied = predictor.applied
      /\ predictor'.history = h
      /\ predictor'.on = IF predictor.shown THEN predictor.on \cup {sentInputs + 1}
                         ELSE predictor.on
      /\ predictor'.shown = predictor.shown /\ predictor'.base = predictor.base
      /\ predictor'.since = predictor.since
  BY DEF Predict, PredictionInv, Follows
<1> HIDE DEF h
<1>4. \A n \in 1 .. sentInputs' :
        n > predictor'.applied /\ n > sentInputs' - MaxHistory => n \in predictor'.history
  BY <1>1, <1>2, <1>3, PredictionAssumption DEF PredictionInv, Follows
<1>5. predictor'.shown => \A n \in 1 .. sentInputs' :
        n <= predictor'.base \/ n \in predictor'.on \/ n <= predictor'.since
  BY <1>1, <1>3 DEF PredictionInv, Follows
<1>6. Follows(predictor)'
  BY <1>1, <1>2, <1>3, <1>4, <1>5 DEF PredictionInv, Follows
<1> QED
  BY <1>1, <1>6 DEF PredictionInv, NetworkTypeOK, NetworkIsOrdered

\* A publication of the authority keeps the invariant.
LEMMA PublishStep ==
  ASSUME PredictionInv, NEW n \in 0 .. LastSent, NEW carried \in BOOLEAN, Publish(n, carried)
  PROVE  PredictionInv'
<1> DEFINE s == [tick |-> authority.tick + 1, input |-> IF carried THEN n ELSE NoState]
           a == [tick |-> authority.tick + 1, input |-> n]
<1>1. /\ n \in Nat /\ n >= authority.input /\ authority.tick \in Nat /\ authority.input \in Nat
      /\ UNCHANGED <<sentInputs, predictor>>
      /\ authority' = a
      /\ network'.snapshots = network.snapshots \cup {s}
      /\ network'.acks = network.acks \/ network'.acks = network.acks \cup {a}
  BY PredictionAssumption DEF Publish, PredictionInv, NetworkTypeOK
<1>2. s \in [tick : Nat, input : Int] /\ a \in [tick : Nat, input : Nat]
  BY <1>1 DEF NoState
<1>3. s.tick = authority.tick + 1 /\ s.input \in {n, NoState}
  OBVIOUS
<1>4. a.tick = authority.tick + 1 /\ a.input = n
  OBVIOUS
<1> HIDE DEF s, a
<1>5. NetworkTypeOK'
  BY <1>1, <1>2 DEF PredictionInv, NetworkTypeOK
<1>6. NetworkIsOrdered'
  <2>1. \A x \in network'.snapshots : x.tick <= authority'.tick
    BY <1>1, <1>3, <1>4 DEF PredictionInv, NetworkTypeOK, NetworkIsOrdered
  <2>2. \A y \in network'.acks : y.tick <= authority'.tick /\ y.input <= authority'.input
    BY <1>1, <1>4 DEF PredictionInv, NetworkTypeOK, NetworkIsOrdered
  <2>3. ASSUME NEW x \in network'.snapshots, NEW y \in network'.acks,
               x.input # NoState, x.tick >= y.tick
        PROVE  x.input >= y.input
    <3>1. CASE x = s
      BY <1>1, <1>3, <1>4, <2>3, <3>1 DEF PredictionInv, NetworkTypeOK, NetworkIsOrdered
    <3>2. CASE x \in network.snapshots /\ y = a
      BY <1>1, <1>3, <1>4, <2>3, <3>2 DEF PredictionInv, NetworkTypeOK, NetworkIsOrdered
    <3>3. CASE x \in network.snapshots /\ y \in network.acks
      BY <2>3, <3>3 DEF PredictionInv, NetworkIsOrdered
    <3> QED
      BY <1>1, <2>3, <3>1, <3>2, <3>3
  <2> QED
    BY <2>1, <2>2, <2>3 DEF NetworkIsOrdered
<1>7. Follows(predictor)'
  BY <1>1 DEF PredictionInv, Follows
<1> QED
  BY <1>5, <1>6, <1>7 DEF PredictionInv

\* Receiving a sample or an acknowledgement keeps the invariant.
LEMMA ReceiveStep ==
  ASSUME PredictionInv,
         \/ \E s \in network.snapshots : ReceiveOwnSnapshot(s) \/ ReceiveReliableOwn(s)
         \/ \E ack \in network.acks : ReceiveAck(ack)
  PROVE  PredictionInv'
<1>1. ASSUME Follows(predictor'), UNCHANGED <<sentInputs, authority, network>>
      PROVE  PredictionInv'
  BY <1>1 DEF PredictionInv, NetworkTypeOK, NetworkIsOrdered, Follows
<1>2. ASSUME NEW s \in network.snapshots, ReceiveOwnSnapshot(s)
      PROVE  PredictionInv'
  <2> DEFINE c == [predictor EXCEPT !.newest = s.tick]
  <2>1. predictor' = FirstShown(Flush(Carried(c, s)))
        /\ UNCHANGED <<sentInputs, authority, network>>
    BY <1>2 DEF ReceiveOwnSnapshot
  <2>2. Follows(c)
    BY UncountedFollows DEF PredictionInv
  <2> HIDE DEF c
  <2>3. Follows(Carried(c, s))
    BY <2>2, CarriedFollows
  <2>4. Follows(Flush(Carried(c, s)))
    BY <2>3, FlushFollows DEF PredictionInv
  <2>5. Follows(FirstShown(Flush(Carried(c, s))))
    BY <2>4, FirstShownFollows DEF PredictionInv
  <2> QED
    BY <1>1, <2>1, <2>5
<1>3. ASSUME NEW s \in network.snapshots, ReceiveReliableOwn(s)
      PROVE  PredictionInv'
  <2>1. predictor' = Flush(Carried(predictor, s))
        /\ UNCHANGED <<sentInputs, authority, network>>
    BY <1>3 DEF ReceiveReliableOwn
  <2>2. Follows(Carried(predictor, s))
    BY CarriedFollows DEF PredictionInv
  <2>3. Follows(Flush(Carried(predictor, s)))
    BY <2>2, FlushFollows DEF PredictionInv
  <2> QED
    BY <1>1, <2>1, <2>3
<1>4. ASSUME NEW ack \in network.acks, ReceiveAck(ack)
      PROVE  PredictionInv'
  <2> DEFINE c == Offer(predictor, ack)
  <2>1. predictor' = Flush([c EXCEPT !.known = TRUE])
        /\ UNCHANGED <<sentInputs, authority, network>>
    BY <1>4 DEF ReceiveAck
  <2>2. Follows(c)
    BY OfferFollows DEF PredictionInv
  <2> HIDE DEF c
  <2>3. Follows([c EXCEPT !.known = TRUE])
    BY <2>2, UncountedFollows
  <2>4. Follows(Flush([c EXCEPT !.known = TRUE]))
    BY <2>3, FlushFollows DEF PredictionInv
  <2> QED
    BY <1>1, <2>1, <2>4
<1> QED
  BY <1>2, <1>3, <1>4
-----------------------------------------------------------------------------
\* The history of the client and what the network carries stay ordered.
THEOREM PredictionInvariant == PredictionSpec => []PredictionInv
<1>1. PredictionInit => PredictionInv
  <2> SUFFICES ASSUME PredictionInit
               PROVE  PredictionInv
    OBVIOUS
  <2>1. NetworkTypeOK /\ NetworkIsOrdered
    BY DEF PredictionInit, NetworkTypeOK, NetworkIsOrdered
  <2>2. Follows(predictor)
    BY DEF PredictionInit, Follows
  <2> QED
    BY <2>1, <2>2 DEF PredictionInv
<1>2. PredictionInv /\ [PredictionNext]_predictionVars => PredictionInv'
  <2> SUFFICES ASSUME PredictionInv, [PredictionNext]_predictionVars
               PROVE  PredictionInv'
    OBVIOUS
  <2>1. CASE UNCHANGED predictionVars
    BY <2>1 DEF predictionVars, PredictionInv, NetworkTypeOK, NetworkIsOrdered, Follows
  <2> QED
    BY <2>1, PredictStep, PublishStep, ReceiveStep DEF PredictionNext
<1> QED
  BY <1>1, <1>2, PTL DEF PredictionSpec

\* After any reconciliation each input is in the state it started from, was applied to it,
\* or was too old for the history (flushPendingAck, reconcilePrediction).
THEOREM NoInputIsForgotten == PredictionSpec => []NoInputForgotten
<1>1. PredictionInv => NoInputForgotten
  BY DEF PredictionInv, Follows, NoInputForgotten
<1> QED
  BY <1>1, PredictionInvariant, PTL
-----------------------------------------------------------------------------
(***************************************************************************)
(* The sound of the page is only ever what was asked for, with any number  *)
(* of samples, workers and tracks.                                         *)
(***************************************************************************)

Stages == {"idle", "free", "fetching", "decoding"}
Warmups == [next : Int, at : [Workers -> Stages], sample : [Workers -> Int]]

AudioTypeOK ==
  /\ context \in {"none", "open", "closed"}
  /\ settings \in [muted : BOOLEAN, loud : BOOLEAN, music : BOOLEAN, musicLoud : BOOLEAN]
  /\ music \in [track : {"none", "paused", "playing"}, index : Nat]
  /\ hidden \in BOOLEAN /\ disposed \in BOOLEAN /\ voice \in BOOLEAN
  /\ warmup \in Warmups

\* Every form of the music that the page leaves is what the settings ask for.
MusicIsAskedFor ==
  music.track = "playing" => settings.music /\ settings.musicLoud /\ ~hidden

\* After dispose nothing is left, and no track, so that a page that is hidden and shown
\* again starts none.
DisposedIsSilent ==
  disposed => loaded = {} /\ ~voice /\ context # "open" /\ music.track = "none"

\* A worker is at a sample that was taken before the next one, and at its own.
WorkIsDivided ==
  \A v \in Workers : warmup.at[v] \in AtWork =>
    /\ warmup.sample[v] < warmup.next
    /\ \A w \in Workers :
         v # w /\ warmup.at[w] \in AtWork => warmup.sample[v] # warmup.sample[w]

AudioInv == AudioTypeOK /\ MusicIsAskedFor /\ DisposedIsSilent /\ WorkIsDivided
-----------------------------------------------------------------------------
\* A warmup with other workers is a warmup.
LEMMA WarmupUpdated ==
  ASSUME NEW x \in Warmups, NEW n \in Int, NEW at \in [Workers -> Stages],
         NEW sample \in [Workers -> Int]
  PROVE  [x EXCEPT !.next = n, !.at = at, !.sample = sample] \in Warmups
  BY DEF Warmups

\* A sync plays only what is asked for, and never starts a track that there is not.
LEMMA SyncedIsAskedFor ==
  ASSUME NEW track \in {"none", "paused", "playing"}, NEW set, NEW away
  PROVE  /\ Synced(track, set, away) \in {"none", "paused", "playing"}
         /\ Synced(track, set, away) = "playing" => set.music /\ set.musicLoud /\ ~away
         /\ track = "none" => Synced(track, set, away) = "none"
  BY DEF Synced

\* Syncing the music plays only a track that the settings ask for.
LEMMA SyncMusicIsAskedFor ==
  ASSUME AudioTypeOK, NEW track \in {"none", "paused", "playing"}, NEW set, NEW away,
         SyncMusic(track, set, away)
  PROVE  /\ music' \in [track : {"none", "paused", "playing"}, index : Nat]
         /\ music'.track = "playing" => set.music /\ set.musicLoud /\ ~away
         /\ track = "none" => music'.track = "none"
<1>1. PICK refused \in BOOLEAN :
        music' = [music EXCEPT !.track =
                    IF refused /\ track = "paused" THEN "paused" ELSE Synced(track, set, away)]
  BY DEF SyncMusic
<1> QED
  BY <1>1, SyncedIsAskedFor DEF AudioTypeOK

\* What the music does: the four calls that sync it.
LEMMA MusicStep ==
  ASSUME AudioInv,
         \/ \E on \in BOOLEAN : SetMusic(on) \/ SetMusicVolume(on)
         \/ NextTrack
         \/ AudioVisibility
  PROVE  AudioInv'
<1> USE DEF AudioInv
<1>1. ASSUME NEW on \in BOOLEAN, SetMusic(on)
      PROVE  AudioInv'
  <2>1. settings' \in [muted : BOOLEAN, loud : BOOLEAN, music : BOOLEAN, musicLoud : BOOLEAN]
    BY <1>1 DEF SetMusic, AudioTypeOK
  <2>2. /\ music' \in [track : {"none", "paused", "playing"}, index : Nat]
        /\ music'.track = "playing" => settings'.music /\ settings'.musicLoud /\ ~hidden
    BY <1>1, SyncMusicIsAskedFor DEF SetMusic, AudioTypeOK
  <2> QED
    BY <1>1, <2>1, <2>2
    DEF SetMusic, AudioTypeOK, MusicIsAskedFor, DisposedIsSilent, WorkIsDivided
<1>2. ASSUME NEW on \in BOOLEAN, SetMusicVolume(on)
      PROVE  AudioInv'
  <2>1. settings' \in [muted : BOOLEAN, loud : BOOLEAN, music : BOOLEAN, musicLoud : BOOLEAN]
    BY <1>2 DEF SetMusicVolume, AudioTypeOK
  <2>2. /\ music' \in [track : {"none", "paused", "playing"}, index : Nat]
        /\ music'.track = "playing" => settings'.music /\ settings'.musicLoud /\ ~hidden
    BY <1>2, SyncMusicIsAskedFor DEF SetMusicVolume, AudioTypeOK
  <2> QED
    BY <1>2, <2>1, <2>2
    DEF SetMusicVolume, AudioTypeOK, MusicIsAskedFor, DisposedIsSilent, WorkIsDivided
<1>3. CASE NextTrack
  <2>1. (music.index + 1) % Tracks \in Nat
    BY AudioAssumption DEF AudioTypeOK
  <2>2. /\ music' \in [track : {"none", "paused", "playing"}, index : Nat]
        /\ music'.track = "playing" => settings.music /\ settings.musicLoud /\ ~hidden
    BY <1>3, <2>1, SyncedIsAskedFor DEF NextTrack, AudioTypeOK
  <2> QED
    BY <1>3, <2>2 DEF NextTrack, AudioTypeOK, MusicIsAskedFor, DisposedIsSilent, WorkIsDivided
<1>4. CASE AudioVisibility
  <2>1. /\ music' \in [track : {"none", "paused", "playing"}, index : Nat]
        /\ music'.track = "playing" => settings.music /\ settings.musicLoud /\ ~hidden'
        /\ music.track = "none" => music'.track = "none"
    BY <1>4, SyncMusicIsAskedFor DEF AudioVisibility, AudioTypeOK
  <2> QED
    BY <1>4, <2>1
    DEF AudioVisibility, AudioTypeOK, MusicIsAskedFor, DisposedIsSilent, WorkIsDivided
<1> QED
  BY <1>1, <1>2, <1>3, <1>4

\* What the effects do, on the page and in a worker.
LEMMA EffectStep ==
  ASSUME AudioInv,
         \/ Play
         \/ Dispose
         \/ \E opens, decodes \in BOOLEAN : Unlock(opens, decodes)
         \/ \E muted, loud \in BOOLEAN : SetEffects(muted, loud)
  PROVE  AudioInv'
<1> USE DEF AudioInv
<1>1. CASE Play
  BY <1>1 DEF Play, AudioTypeOK, MusicIsAskedFor, DisposedIsSilent, WorkIsDivided
<1>2. CASE Dispose
  BY <1>2 DEF Dispose, AudioTypeOK, MusicIsAskedFor, DisposedIsSilent, WorkIsDivided
<1>3. ASSUME NEW opens \in BOOLEAN, NEW decodes \in BOOLEAN, Unlock(opens, decodes)
      PROVE  AudioInv'
  <2>1. /\ music' \in [track : {"none", "paused", "playing"}, index : Nat]
        /\ music'.track = "playing" => settings.music /\ settings.musicLoud /\ ~hidden
    <3>1. CASE settings.music /\ music.track = "none"
      BY <1>3, <3>1, SyncMusicIsAskedFor DEF Unlock
    <3> QED
      BY <1>3, <3>1 DEF Unlock, AudioTypeOK, MusicIsAskedFor
  <2>2. warmup' = warmup \/ warmup' = Warmed(decodes)
    BY <1>3 DEF Unlock
  <2>3. warmup' \in Warmups
    <3> DEFINE free == [w \in Workers |-> "free"]
    <3>1. CASE warmup' = [warmup EXCEPT !.next = 1, !.at = free]
      <4>1. free \in [Workers -> Stages] /\ 1 \in Int
        BY DEF Stages
      <4>2. warmup' = [warmup EXCEPT !.next = 1, !.at = free, !.sample = warmup.sample]
        BY <3>1 DEF AudioTypeOK, Warmups
      <4> HIDE DEF free
      <4> QED
        BY <4>1, <4>2, WarmupUpdated DEF AudioTypeOK, Warmups
    <3> QED
      BY <2>2, <3>1 DEF Warmed, AudioTypeOK
  <2>4. WorkIsDivided'
    <3>1. CASE warmup' = warmup
      BY <3>1 DEF WorkIsDivided
    <3>2. CASE warmup' # warmup
      <4>1. warmup' = [warmup EXCEPT !.next = 1, !.at = [w \in Workers |-> "free"]]
        BY <2>2, <3>2 DEF Warmed
      <4>2. warmup'.at = [w \in Workers |-> "free"]
        BY <4>1 DEF AudioTypeOK, Warmups
      <4>3. \A w \in Workers : warmup'.at[w] = "free"
        BY <4>2
      <4> QED
        BY <4>3 DEF WorkIsDivided, AtWork
    <3> QED
      BY <3>1, <3>2
  <2> QED
    BY <1>3, <2>1, <2>3, <2>4 DEF Unlock, AudioTypeOK, MusicIsAskedFor, DisposedIsSilent
<1>4. ASSUME NEW muted \in BOOLEAN, NEW loud \in BOOLEAN, SetEffects(muted, loud)
      PROVE  AudioInv'
  BY <1>4 DEF SetEffects, AudioTypeOK, MusicIsAskedFor, DisposedIsSilent, WorkIsDivided
<1> QED
  BY <1>1, <1>2, <1>3, <1>4

\* A worker takes a sample that nobody is at, and keeps nothing after dispose.
LEMMA WorkerStep ==
  ASSUME AudioInv, NEW w \in Workers,
         TakeSample(w) \/ Fetched(w) \/ Decoded(w) \/ LoadFails(w)
  PROVE  AudioInv'
<1> USE DEF AudioInv
<1>1. warmup' \in Warmups
  <2>1. CASE TakeSample(w)
    <3> DEFINE at == [warmup.at EXCEPT ![w] = "fetching"]
               sample == [warmup.sample EXCEPT ![w] = warmup.next]
    <3>1. at \in [Workers -> Stages] /\ sample \in [Workers -> Int]
      BY DEF AudioTypeOK, Warmups, Stages
    <3>2. warmup.next + 1 \in Int
      BY DEF AudioTypeOK, Warmups
    <3>3. warmup' = [warmup EXCEPT !.next = warmup.next + 1, !.at = at, !.sample = sample]
      BY <2>1 DEF TakeSample
    <3> HIDE DEF at, sample
    <3> QED
      BY <3>1, <3>2, <3>3, WarmupUpdated DEF AudioTypeOK
  <2> QED
    BY <2>1 DEF Fetched, Decoded, LoadFails, AudioTypeOK, Warmups, Stages
<1>2. WorkIsDivided'
  <2>1. CASE TakeSample(w)
    BY <2>1 DEF TakeSample, AudioTypeOK, Warmups, WorkIsDivided, AtWork
  <2>2. CASE Fetched(w)
    BY <2>2 DEF Fetched, AudioTypeOK, Warmups, WorkIsDivided, AtWork
  <2>3. CASE Decoded(w)
    BY <2>3 DEF Decoded, AudioTypeOK, Warmups, WorkIsDivided, AtWork
  <2>4. CASE LoadFails(w)
    BY <2>4 DEF LoadFails, AudioTypeOK, Warmups, WorkIsDivided, AtWork
  <2> QED
    BY <2>1, <2>2, <2>3, <2>4
<1>3. loaded' # loaded => ~disposed
  BY DEF TakeSample, Fetched, Decoded, LoadFails, Kept
<1>4. UNCHANGED <<context, settings, music, hidden, disposed>> /\ voice' = FALSE
  BY DEF TakeSample, Fetched, Decoded, LoadFails
<1>5. AudioTypeOK' /\ MusicIsAskedFor'
  BY <1>1, <1>4 DEF AudioTypeOK, MusicIsAskedFor
<1>6. DisposedIsSilent'
  BY <1>3, <1>4 DEF DisposedIsSilent
<1> QED
  BY <1>2, <1>5, <1>6

\* What plays is asked for, a disposed context is silent, and the work is divided.
THEOREM AudioInvariant == AudioSpec => []AudioInv
<1>1. AudioInit => AudioInv
  <2> SUFFICES ASSUME AudioInit
               PROVE  AudioInv
    OBVIOUS
  <2>1. warmup \in Warmups /\ \A w \in Workers : warmup.at[w] = "idle"
    <3> DEFINE at == [w \in Workers |-> "idle"]
               sample == [w \in Workers |-> 0]
    <3>1. at \in [Workers -> Stages] /\ sample \in [Workers -> Int] /\ NotStarted \in Int
      BY DEF Stages, NotStarted
    <3>2. warmup = [next |-> NotStarted, at |-> at, sample |-> sample]
      BY DEF AudioInit
    <3>3. \A w \in Workers : at[w] = "idle"
      OBVIOUS
    <3> HIDE DEF at, sample
    <3> QED
      BY <3>1, <3>2, <3>3 DEF Warmups
  <2>2. AudioTypeOK /\ MusicIsAskedFor /\ DisposedIsSilent
    BY <2>1 DEF AudioInit, AudioTypeOK, MusicIsAskedFor, DisposedIsSilent
  <2>3. WorkIsDivided
    BY <2>1 DEF WorkIsDivided, AtWork
  <2> QED
    BY <2>2, <2>3 DEF AudioInv
<1>2. AudioInv /\ [AudioNext]_audioVars => AudioInv'
  <2> SUFFICES ASSUME AudioInv, [AudioNext]_audioVars
               PROVE  AudioInv'
    OBVIOUS
  <2>1. CASE AudioNext
    BY <2>1, MusicStep, EffectStep, WorkerStep DEF AudioNext
  <2>2. CASE UNCHANGED audioVars
    BY <2>2 DEF audioVars, AudioInv, AudioTypeOK, MusicIsAskedFor, DisposedIsSilent,
                WorkIsDivided
  <2> QED
    BY <2>1, <2>2
<1> QED
  BY <1>1, <1>2, PTL DEF AudioSpec

\* Music plays only while it is asked for and the page is in view, nothing outlives
\* dispose, and no two workers are at the same sample (createGameAudio).
THEOREM SoundIsOnlyAskedFor == AudioSpec => []SoundIsAskedFor
<1>1. AudioInv => SoundIsAskedFor
  BY DEF AudioInv, AudioTypeOK, MusicIsAskedFor, DisposedIsSilent, WorkIsDivided,
         SoundIsAskedFor
<1> QED
  BY <1>1, AudioInvariant, PTL
-----------------------------------------------------------------------------
(***************************************************************************)
(* The head-up display shows what is so, for any number of rivals, at any  *)
(* distances.                                                              *)
(***************************************************************************)

\* What the caches remember is what stands on the page.
HudTypeOK ==
  /\ DOMAIN others \subseteq HudRival
  /\ \A i \in DOMAIN others : others[i] \in OtherSeen
  /\ own \in OwnSeen

CachesAreTrue ==
  /\ page.focus = [id |-> cached.id, mode |-> cached.mode]
  /\ cached.readiness = Hidden \/ page.readiness = cached.readiness

HudInv == HudTypeOK /\ CachesAreTrue /\ HudIsCurrent

\* The nearest of some rivals is one of them, and the first by distance and number.
LEMMA NearestIs ==
  ASSUME HudTypeOK, NEW ids \in SUBSET DOMAIN others, ids # {}
  PROVE  /\ Nearest(ids) \in ids
         /\ \A j \in ids :
              \/ others[Nearest(ids)].near < others[j].near
              \/ others[Nearest(ids)].near = others[j].near /\ Nearest(ids) <= j
<1>1. \A i \in ids : i \in Nat /\ others[i].near \in Nat
  <2> TAKE i \in ids
  <2>1. others[i] \in [plight : Plights, near : 1 .. Farthest] /\ i \in HudRival
    BY DEF HudTypeOK, OtherSeen
  <2>2. Farthest \in Nat /\ HudRival \subseteq Nat
    BY HudAssumption
  <2> QED
    BY <2>1, <2>2
<1> DEFINE distances == {others[i].near : i \in ids}
<1>2. PICK d \in distances : \A e \in distances : d <= e
  <2>1. distances \in SUBSET Nat /\ distances # {}
    BY <1>1
  <2> QED
    BY <2>1, LeastOf
<1> DEFINE tied == {i \in ids : others[i].near = d}
<1>3. PICK i \in tied : \A j \in tied : i <= j
  BY <1>1, <1>2, LeastOf
<1>4. \A j \in ids :
        others[i].near < others[j].near \/ (others[i].near = others[j].near /\ i <= j)
  BY <1>1, <1>2, <1>3
<1> QED
  BY <1>3, <1>4 DEF Nearest

\* Nobody is the nearest of nobody alone.
LEMMA NobodyIsNearest ==
  ASSUME HudTypeOK, NEW ids \in SUBSET DOMAIN others
  PROVE  Nearest(ids) = Nobody <=> ids = {}
<1>1. Nobody \notin DOMAIN others
  BY HudAssumption DEF HudTypeOK, Nobody
<1>2. CASE ids = {}
  BY <1>2 DEF Nearest
<1>3. CASE ids # {}
  BY <1>1, <1>3, NearestIs
<1> QED
  BY <1>2, <1>3

\* The rivals that a mode is about.
InMode(n) == {i \in DOMAIN others : Fits(Modes[n], others[i])}

\* The focus is the nearest rival of the first mode that has any.
LEMMA FocusIs ==
  ASSUME HudTypeOK
  PROVE  \E n \in 1 .. 5 :
           /\ Focus = [id |-> BestOf(Modes[n]), mode |-> Modes[n]]
           /\ BestOf(Modes[n]) # Nobody \/ n = 5
           /\ \A m \in 1 .. n - 1 : BestOf(Modes[m]) = Nobody
<1> DEFINE found == {n \in 1 .. 5 : BestOf(Modes[n]) # Nobody \/ n = 5}
           first == CHOOSE n \in found : \A m \in found : n <= m
<1>1. found \in SUBSET Nat /\ 5 \in found
  OBVIOUS
<1>2. first \in found /\ \A m \in found : first <= m
  <2> HIDE DEF found
  <2>1. \E n \in found : \A m \in found : n <= m
    BY <1>1, LeastOf
  <2> QED
    BY <2>1
<1>3. Focus = [id |-> BestOf(Modes[first]), mode |-> Modes[first]]
  BY DEF Focus
<1> HIDE DEF first
<1>4. \A m \in 1 .. first - 1 : BestOf(Modes[m]) = Nobody
  BY <1>2
<1>5. first \in 1 .. 5 /\ (BestOf(Modes[first]) # Nobody \/ first = 5)
  BY <1>2
<1> QED
  BY <1>3, <1>4, <1>5

\* The rank of a plight, and which plights the modes are about.
LEMMA RankIs ==
  ASSUME NEW seen, seen.plight \in Plights
  PROVE  /\ \E n \in 1 .. 5 : FocusRank(seen) = n
         /\ Fits(Modes[1], seen) <=> FocusRank(seen) = 1
         /\ Fits(Modes[2], seen) <=> FocusRank(seen) = 2
         /\ Fits(Modes[3], seen) <=> FocusRank(seen) = 3
         /\ Fits(Modes[4], seen) <=> FocusRank(seen) = 3 \/ FocusRank(seen) = 4
         /\ Fits(Modes[5], seen) <=> seen.plight # "dead"
         /\ seen.plight = "dead" => FocusRank(seen) = 5
<1>1. /\ Modes[1] = "guard-break" /\ Modes[2] = "parry" /\ Modes[3] = "knockdown"
      /\ Modes[4] = "recovery" /\ Modes[5] = "nearest"
  BY DEF Modes
<1>2. /\ Fits(Modes[1], seen) <=> seen.plight = "guard broken"
      /\ Fits(Modes[2], seen) <=> seen.plight = "parried"
      /\ Fits(Modes[3], seen) <=> seen.plight = "knocked down"
      /\ Fits(Modes[4], seen) <=> seen.plight \in {"recovering", "knocked down"}
      /\ Fits(Modes[5], seen) <=> seen.plight # "dead"
  BY <1>1 DEF Fits
<1>3. CASE seen.plight = "guard broken"
  <2>1. FocusRank(seen) = 1
    BY <1>3 DEF FocusRank
  <2>2. /\ Fits(Modes[1], seen) <=> TRUE
        /\ Fits(Modes[2], seen) <=> FALSE
        /\ Fits(Modes[3], seen) <=> FALSE
        /\ Fits(Modes[4], seen) <=> FALSE
    BY <1>2, <1>3
  <2>3. \E n \in 1 .. 5 : FocusRank(seen) = n
    BY <2>1, 1 \in 1 .. 5
  <2> QED
    BY <2>1, <2>2, <2>3, <1>2, <1>3
<1>4. CASE seen.plight = "parried"
  <2>1. FocusRank(seen) = 2
    BY <1>4 DEF FocusRank
  <2>2. /\ Fits(Modes[1], seen) <=> FALSE
        /\ Fits(Modes[2], seen) <=> TRUE
        /\ Fits(Modes[3], seen) <=> FALSE
        /\ Fits(Modes[4], seen) <=> FALSE
    BY <1>2, <1>4
  <2>3. \E n \in 1 .. 5 : FocusRank(seen) = n
    BY <2>1, 2 \in 1 .. 5
  <2> QED
    BY <2>1, <2>2, <2>3, <1>2, <1>4
<1>5. CASE seen.plight = "knocked down"
  <2>1. FocusRank(seen) = 3
    BY <1>5 DEF FocusRank
  <2>2. /\ Fits(Modes[1], seen) <=> FALSE
        /\ Fits(Modes[2], seen) <=> FALSE
        /\ Fits(Modes[3], seen) <=> TRUE
        /\ Fits(Modes[4], seen) <=> TRUE
    BY <1>2, <1>5
  <2>3. \E n \in 1 .. 5 : FocusRank(seen) = n
    BY <2>1, 3 \in 1 .. 5
  <2> QED
    BY <2>1, <2>2, <2>3, <1>2, <1>5
<1>6. CASE seen.plight = "recovering"
  <2>1. FocusRank(seen) = 4
    BY <1>6 DEF FocusRank
  <2>2. /\ Fits(Modes[1], seen) <=> FALSE
        /\ Fits(Modes[2], seen) <=> FALSE
        /\ Fits(Modes[3], seen) <=> FALSE
        /\ Fits(Modes[4], seen) <=> TRUE
    BY <1>2, <1>6
  <2>3. \E n \in 1 .. 5 : FocusRank(seen) = n
    BY <2>1, 4 \in 1 .. 5
  <2> QED
    BY <2>1, <2>2, <2>3, <1>2, <1>6
<1>7. CASE seen.plight = "plain"
  <2>1. FocusRank(seen) = 5
    BY <1>7 DEF FocusRank
  <2>2. /\ Fits(Modes[1], seen) <=> FALSE
        /\ Fits(Modes[2], seen) <=> FALSE
        /\ Fits(Modes[3], seen) <=> FALSE
        /\ Fits(Modes[4], seen) <=> FALSE
    BY <1>2, <1>7
  <2>3. \E n \in 1 .. 5 : FocusRank(seen) = n
    BY <2>1, 5 \in 1 .. 5
  <2> QED
    BY <2>1, <2>2, <2>3, <1>2, <1>7
<1>8. CASE seen.plight = "dead"
  <2>1. FocusRank(seen) = 5
    BY <1>8 DEF FocusRank
  <2>2. /\ Fits(Modes[1], seen) <=> FALSE
        /\ Fits(Modes[2], seen) <=> FALSE
        /\ Fits(Modes[3], seen) <=> FALSE
        /\ Fits(Modes[4], seen) <=> FALSE
    BY <1>2, <1>8
  <2>3. \E n \in 1 .. 5 : FocusRank(seen) = n
    BY <2>1, 5 \in 1 .. 5
  <2> QED
    BY <2>1, <2>2, <2>3, <1>2, <1>8
<1> QED
  BY <1>3, <1>4, <1>5, <1>6, <1>7, <1>8 DEF Plights

\* The rivals that can be in the focus.
Alive == {i \in DOMAIN others : others[i].plight # "dead"}

\* Somebody alive: the focus has the least rank, and is the first of that rank.
LEMMA FocusIsTheFirst ==
  ASSUME HudTypeOK, own # NoFighter, Alive # {}
  PROVE  /\ Focus.id \in Alive
         /\ \A i \in Alive \ {Focus.id} :
              \/ FocusRank(others[Focus.id]) < FocusRank(others[i])
              \/ /\ FocusRank(others[Focus.id]) = FocusRank(others[i])
                 /\ others[Focus.id].near < others[i].near
              \/ /\ FocusRank(others[Focus.id]) = FocusRank(others[i])
                 /\ others[Focus.id].near = others[i].near /\ Focus.id < i
         /\ Focus.mode = Modes[FocusRank(others[Focus.id])]
         /\ FocusRank(others[Focus.id]) \in 1 .. 5
<1>1. PICK n \in 1 .. 5 :
        /\ Focus = [id |-> BestOf(Modes[n]), mode |-> Modes[n]]
        /\ BestOf(Modes[n]) # Nobody \/ n = 5
        /\ \A m \in 1 .. n - 1 : BestOf(Modes[m]) = Nobody
  BY FocusIs
<1>2. \A m \in 1 .. 5 : /\ BestOf(Modes[m]) = Nearest(InMode(m))
                        /\ InMode(m) \in SUBSET DOMAIN others
  BY DEF BestOf, InMode
<1>3. \A m \in 1 .. n - 1 : InMode(m) = {}
  <2> TAKE m \in 1 .. n - 1
  <2>1. m \in 1 .. 5
    OBVIOUS
  <2> QED
    BY <1>1, <1>2, <2>1, NobodyIsNearest
<1>0. ASSUME NEW i \in DOMAIN others
      PROVE  /\ \E q \in 1 .. 5 : FocusRank(others[i]) = q
             /\ i \in InMode(1) <=> FocusRank(others[i]) = 1
             /\ i \in InMode(2) <=> FocusRank(others[i]) = 2
             /\ i \in InMode(3) <=> FocusRank(others[i]) = 3
             /\ i \in InMode(4) <=> FocusRank(others[i]) = 3 \/ FocusRank(others[i]) = 4
             /\ i \in InMode(5) <=> i \in Alive
             /\ i \notin Alive => FocusRank(others[i]) = 5
  BY RankIs DEF HudTypeOK, OtherSeen, InMode, Alive
<1>4. InMode(5) = Alive
  BY <1>0 DEF Alive, InMode
<1>5. InMode(n) # {}
  BY <1>1, <1>2, <1>4, NobodyIsNearest
<1>6. /\ Focus.id \in InMode(n)
      /\ \A j \in InMode(n) :
           \/ others[Focus.id].near < others[j].near
           \/ others[Focus.id].near = others[j].near /\ Focus.id <= j
  <2>1. Focus.id = Nearest(InMode(n))
    BY <1>1, <1>2
  <2> QED
    BY <2>1, <1>2, <1>5, NearestIs
<1>7. ASSUME NEW i \in DOMAIN others
      PROVE  \E q \in 1 .. 5 :
               /\ FocusRank(others[i]) = q
               /\ i \in InMode(n) => q = n /\ i \in Alive
               /\ i \in Alive => q >= n
               /\ i \in Alive /\ q = n => i \in InMode(n)
  <2>1. PICK q \in 1 .. 5 : FocusRank(others[i]) = q
    BY <1>0
  <2>2. /\ i \in InMode(1) <=> q = 1
        /\ i \in InMode(2) <=> q = 2
        /\ i \in InMode(3) <=> q = 3
        /\ i \in InMode(4) <=> q = 3 \/ q = 4
        /\ i \in InMode(5) <=> i \in Alive
        /\ i \notin Alive => q = 5
    BY <1>0, <2>1
  <2>3. /\ n > 1 => q # 1
        /\ n > 2 => q # 2
        /\ n > 3 => q # 3
        /\ n > 4 => q # 4
    BY <1>3, <2>2
  <2>4. q >= n
    BY <2>3
  <2>5. i \in InMode(n) => q = n /\ i \in Alive
    <3>1. n = 1 \/ n = 2 \/ n = 3 \/ n = 4 \/ n = 5
      OBVIOUS
    <3> QED
      BY <3>1, <2>2, <2>3
  <2>6. i \in Alive /\ q = n => i \in InMode(n)
    <3>1. n = 1 \/ n = 2 \/ n = 3 \/ n = 4 \/ n = 5
      OBVIOUS
    <3> QED
      BY <3>1, <2>2
  <2> QED
    BY <2>1, <2>4, <2>5, <2>6
<1>8. FocusRank(others[Focus.id]) = n /\ Focus.id \in Alive /\ Focus.mode = Modes[n]
  <2>1. Focus.id \in DOMAIN others
    BY <1>2, <1>6
  <2> QED
    BY <1>1, <1>6, <1>7, <2>1
<1>9. ASSUME NEW i \in Alive \ {Focus.id}
      PROVE  \/ n < FocusRank(others[i])
             \/ n = FocusRank(others[i]) /\ others[Focus.id].near < others[i].near
             \/ /\ n = FocusRank(others[i])
                /\ others[Focus.id].near = others[i].near /\ Focus.id < i
  <2>1. CASE FocusRank(others[i]) = n
    <3>1. i \in InMode(n) /\ i \in Nat /\ Focus.id \in Nat
      BY <1>7, <1>8, <2>1, HudAssumption DEF HudTypeOK, Alive
    <3> QED
      BY <1>6, <2>1, <3>1
  <2>2. CASE FocusRank(others[i]) # n
    <3>1. PICK q \in 1 .. 5 : FocusRank(others[i]) = q /\ q >= n
      BY <1>7 DEF Alive
    <3>2. n < q
      BY <2>2, <3>1
    <3> QED
      BY <3>1, <3>2
  <2> QED
    BY <2>1, <2>2
<1> QED
  BY <1>8, <1>9

\* Nobody there, nobody in the focus.
LEMMA FocusOfNobody ==
  ASSUME HudTypeOK, own = NoFighter \/ Alive = {}
  PROVE  Focus.id = Nobody
<1>1. PICK n \in 1 .. 5 :
        /\ Focus = [id |-> BestOf(Modes[n]), mode |-> Modes[n]]
        /\ BestOf(Modes[n]) # Nobody \/ n = 5
  BY FocusIs
<1>2. CASE own = NoFighter
  BY <1>1, <1>2 DEF BestOf
<1>3. CASE own # NoFighter
  <2>1. InMode(n) = {}
    <3>1. ASSUME NEW i \in DOMAIN others PROVE ~Fits(Modes[n], others[i])
      <4>1. others[i].plight = "dead" /\ others[i].plight \in Plights
        BY <1>3 DEF Alive, HudTypeOK, OtherSeen
      <4>2. n = 1 \/ n = 2 \/ n = 3 \/ n = 4 \/ n = 5
        OBVIOUS
      <4> QED
        BY <4>1, <4>2, RankIs
    <3> QED
      BY <3>1 DEF InMode
  <2>2. BestOf(Modes[n]) = Nearest(InMode(n))
    BY <1>3 DEF BestOf, InMode
  <2> QED
    BY <1>1, <2>1, <2>2 DEF Nearest
<1> QED
  BY <1>2, <1>3

\* A frame paints what the state asks for, whatever the caches held.
LEMMA FramePaints ==
  ASSUME HudTypeOK, CachesAreTrue, PaintHud
  PROVE  /\ page'.focus = [id |-> Focus.id, mode |-> Focus.mode]
         /\ cached'.id = Focus.id /\ cached'.mode = Focus.mode
         /\ cached'.readiness = Readiness
         /\ Readiness # Hidden => page'.readiness = Readiness
         /\ page'.readinessShown = (Readiness # Hidden)
         /\ page'.panel = PanelOf(Focus) /\ page'.range = RangeCue(Focus)
         /\ UNCHANGED <<others, own>>
<1>1. Focus = [id |-> Focus.id, mode |-> Focus.mode]
  BY FocusIs
<1>2. /\ page' = [focus |-> FocusPainted(Focus),
                  panel |-> PanelOf(Focus),
                  panelOf |-> IF PanelOf(Focus) = "hidden" THEN "" ELSE PanelOf(Focus),
                  range |-> RangeCue(Focus),
                  readiness |-> ReadinessPainted,
                  readinessShown |-> Readiness # Hidden]
      /\ cached' = [id |-> Focus.id, mode |-> Focus.mode, readiness |-> Readiness]
      /\ UNCHANGED <<others, own>>
  BY DEF PaintHud
<1>3. FocusPainted(Focus) = [id |-> Focus.id, mode |-> Focus.mode]
  BY <1>1 DEF FocusPainted, CachesAreTrue
<1>4. ASSUME Readiness # Hidden PROVE ReadinessPainted = Readiness
  <2>1. PICK s, l : Readiness = [state |-> s, label |-> l] /\ s # "" /\ l # ""
    BY <1>4 DEF Readiness, Hidden
  <2>2. ReadinessPainted =
          [state |-> IF cached.readiness.state # Readiness.state THEN Readiness.state
                     ELSE page.readiness.state,
           label |-> IF cached.readiness.label # Readiness.label THEN Readiness.label
                     ELSE page.readiness.label]
    BY <1>4 DEF ReadinessPainted
  <2>3. CASE cached.readiness = Hidden
    <3>1. cached.readiness.state = "" /\ cached.readiness.label = ""
      <4>1. Hidden.state = "" /\ Hidden.label = ""
        BY DEF Hidden
      <4> QED
        BY <2>3, <4>1
    <3> QED
      BY <2>1, <2>2, <3>1
  <2>4. CASE page.readiness = cached.readiness
    BY <2>1, <2>2, <2>4
  <2> QED
    BY <2>3, <2>4 DEF CachesAreTrue
<1> QED
  BY <1>2, <1>3, <1>4

\* Which panel, and which range for the rival in focus.
LEMMA PanelIs ==
  ASSUME HudTypeOK, NEW n \in 1 .. 5, Focus.mode = Modes[n], Focus.id \in DOMAIN others
  PROVE  /\ (PanelOf(Focus) = "hidden") = (n = 5)
         /\ RangeCue(Focus) # "" <=> n # 5 /\ own.action \in FreeToStrike
         /\ RangeCue(Focus) = "IN LIGHT ARC" <=>
              /\ n # 5 /\ own.action \in FreeToStrike
              /\ others[Focus.id].near <= Reach /\ own.faces = Focus.id
<1>1. /\ Modes[1] = "guard-break" /\ Modes[2] = "parry" /\ Modes[3] = "knockdown"
      /\ Modes[4] = "recovery" /\ Modes[5] = "nearest"
  BY DEF Modes
<1>2. /\ n = 5 <=> Focus.mode = "nearest"
      /\ PanelOf(Focus) = "hidden" <=> n = 5
  BY <1>1 DEF PanelOf
<1>3. ASSUME Focus.mode = "nearest" \/ own.action \notin FreeToStrike
      PROVE  RangeCue(Focus) = ""
  BY <1>3 DEF RangeCue
<1>4. ASSUME Focus.mode # "nearest", own.action \in FreeToStrike
      PROVE  /\ RangeCue(Focus) # ""
             /\ RangeCue(Focus) = "IN LIGHT ARC" <=>
                  others[Focus.id].near <= Reach /\ own.faces = Focus.id
  <2>1. others[Focus.id].near \in Nat /\ Reach \in Nat
    BY HudAssumption DEF HudTypeOK, OtherSeen
  <2>2. RangeCue(Focus) = IF others[Focus.id].near > Reach THEN "CLOSE FOR LIGHT"
                          ELSE IF own.faces # Focus.id THEN "FACE TARGET" ELSE "IN LIGHT ARC"
    BY <1>4 DEF RangeCue
  <2>3. CASE others[Focus.id].near > Reach
    <3>1. RangeCue(Focus) = "CLOSE FOR LIGHT"
      BY <2>2, <2>3, Zenon
    <3>2. ~(others[Focus.id].near <= Reach)
      BY <2>1, <2>3
    <3> QED
      BY <3>1, <3>2, Zenon
  <2>4. CASE ~(others[Focus.id].near > Reach)
    <3>1. RangeCue(Focus) = IF own.faces # Focus.id THEN "FACE TARGET" ELSE "IN LIGHT ARC"
      BY <2>2, <2>4, Zenon
    <3>2. others[Focus.id].near <= Reach
      BY <2>1, <2>4
    <3> QED
      BY <3>1, <3>2, Zenon
  <2> QED
    BY <2>3, <2>4
<1> QED
  BY <1>2, <1>3, <1>4

\* The readiness is hidden unless the own fighter stands, blocks or evades.
LEMMA ReadinessIs ==
  ASSUME own \in OwnSeen
  PROVE  (Readiness # Hidden) = (own.action \in OwnActions \ {"Dead"})
<1>1. own.action \in OwnActions \cup {"none"}
  BY DEF OwnSeen, NoFighter, OwnActions, FreeToStrike
<1>2. (Readiness # Hidden) <=> (own.action \in {"Idle", "Block", "Dash", "Dodge"})
  BY DEF Readiness, Hidden
<1> QED
  BY <1>1, <1>2 DEF OwnActions

\* A frame keeps the caches true and shows the state of now.
LEMMA PaintHudStep ==
  ASSUME HudInv, PaintHud
  PROVE  HudInv'
<1>1. HudTypeOK /\ CachesAreTrue
  BY DEF HudInv
<1>2. HudTypeOK' /\ UNCHANGED <<others, own>>
  BY <1>1, FramePaints DEF HudTypeOK
<1>3. CachesAreTrue'
  BY <1>1, FramePaints DEF CachesAreTrue
<1>4. page'.focus.id = Focus.id /\ page'.focus.mode = Focus.mode
  BY <1>1, FramePaints
<1>5. own = NoFighter \/ Alive = {} => page'.focus.id = Nobody
  BY <1>1, <1>4, FocusOfNobody
<1>6. page'.readinessShown = (own.action \in OwnActions \ {"Dead"})
  BY <1>1, FramePaints, ReadinessIs DEF HudTypeOK
<1>7. page'.readinessShown => page'.readiness = Readiness
  BY <1>1, FramePaints
<1>8. ASSUME own # NoFighter, Alive # {}
      PROVE  /\ (page'.panel = "hidden") = (FocusRank(others[Focus.id]) = 5)
             /\ page'.range # "" <=> page'.panel # "hidden" /\ own.action \in FreeToStrike
             /\ page'.range = "IN LIGHT ARC" <=>
                  /\ page'.panel # "hidden" /\ own.action \in FreeToStrike
                  /\ others[Focus.id].near <= Reach /\ own.faces = Focus.id
  <2> DEFINE n == FocusRank(others[Focus.id])
  <2>1. n \in 1 .. 5 /\ Focus.mode = Modes[n] /\ Focus.id \in DOMAIN others
    BY <1>1, <1>8, FocusIsTheFirst DEF FocusRank, Alive
  <2> HIDE DEF n
  <2>2. page'.panel = PanelOf(Focus) /\ page'.range = RangeCue(Focus)
    BY <1>1, FramePaints
  <2>3. /\ (PanelOf(Focus) = "hidden") = (n = 5)
        /\ RangeCue(Focus) # "" <=> n # 5 /\ own.action \in FreeToStrike
        /\ RangeCue(Focus) = "IN LIGHT ARC" <=>
             /\ n # 5 /\ own.action \in FreeToStrike
             /\ others[Focus.id].near <= Reach /\ own.faces = Focus.id
    BY <1>1, <2>1, PanelIs
  <2> QED
    BY <2>2, <2>3 DEF n
<1>9. HudIsCurrent'
  <2> DEFINE Rank(i) == FocusRank(others[i])
             shown == page'.focus
  <2>1. own # NoFighter /\ Alive # {} =>
          /\ shown.id \in Alive
          /\ \A i \in Alive \ {shown.id} :
               \/ Rank(shown.id) < Rank(i)
               \/ Rank(shown.id) = Rank(i) /\ others[shown.id].near < others[i].near
               \/ /\ Rank(shown.id) = Rank(i)
                  /\ others[shown.id].near = others[i].near /\ shown.id < i
          /\ shown.mode = Modes[Rank(shown.id)]
          /\ (page'.panel = "hidden") = (Rank(shown.id) = 5)
          /\ page'.range # "" <=> page'.panel # "hidden" /\ own.action \in FreeToStrike
          /\ page'.range = "IN LIGHT ARC" <=>
               /\ page'.panel # "hidden" /\ own.action \in FreeToStrike
               /\ others[shown.id].near <= Reach /\ own.faces = shown.id
    BY <1>1, <1>4, <1>8, FocusIsTheFirst
  <2>2. /\ own' = own /\ others' = others /\ Alive' = Alive /\ Readiness' = Readiness
        /\ \A i : FocusRank(others[i])' = FocusRank(others[i])
    BY <1>2 DEF Alive, Readiness, FocusRank
  <2> QED
    BY <2>1, <2>2, <1>5, <1>6, <1>7 DEF HudIsCurrent, Alive
<1> QED
  BY <1>2, <1>3, <1>9 DEF HudInv

\* docs/M53: what the head-up display shows after a frame is true of the state that the
\* frame was painted from, whatever its caches held.
THEOREM TheHudIsCurrent == HudSpec => []HudIsCurrent
<1>1. HudInit => HudInv
  <2> SUFFICES ASSUME HudInit
               PROVE  HudInv
    OBVIOUS
  <2>1. HudTypeOK
    <3>1. others = << >> /\ own = NoFighter
      BY DEF HudInit
    <3>2. DOMAIN others = {}
      BY <3>1
    <3> QED
      BY <3>1, <3>2 DEF HudTypeOK, OwnSeen
  <2>2. CachesAreTrue
    <3>1. /\ cached.id = Nobody /\ cached.mode = "none" /\ cached.readiness = Hidden
          /\ page.focus = [id |-> Nobody, mode |-> "none"]
      BY DEF HudInit
    <3> QED
      BY <3>1 DEF CachesAreTrue
  <2> QED
    BY <2>1, <2>2 DEF HudInit, HudInv, HudIsCurrent
<1>2. HudInv /\ [HudNext]_hudVars => HudInv'
  <2> SUFFICES ASSUME HudInv, [HudNext]_hudVars
               PROVE  HudInv'
    OBVIOUS
  <2>1. CASE UNCHANGED hudVars
    <3>1. UNCHANGED <<others, own, page, cached, fresh>>
      BY <2>1 DEF hudVars
    <3>2. HudTypeOK' /\ CachesAreTrue'
      BY <3>1 DEF HudInv, HudTypeOK, CachesAreTrue
    <3>3. Readiness' = Readiness /\ \A i : FocusRank(others[i])' = FocusRank(others[i])
      BY <3>1 DEF Readiness, FocusRank
    <3>4. HudIsCurrent'
      BY <3>1, <3>3 DEF HudInv, HudIsCurrent
    <3> QED
      BY <3>2, <3>4 DEF HudInv
  <2>2. CASE PaintHud
    BY <2>2, PaintHudStep
  <2>3. ASSUME NEW i \in HudRival, NEW seen \in OtherSeen, HudRivalSeen(i, seen)
        PROVE  HudInv'
    BY <2>3 DEF HudRivalSeen, HudInv, HudTypeOK, CachesAreTrue, HudIsCurrent
  <2>4. ASSUME NEW i \in DOMAIN others, HudRivalLeft(i) PROVE HudInv'
    BY <2>4 DEF HudRivalLeft, HudInv, HudTypeOK, CachesAreTrue, HudIsCurrent
  <2>5. ASSUME NEW seen \in OwnSeen, HudOwnChanged(seen) PROVE HudInv'
    BY <2>5 DEF HudOwnChanged, HudInv, HudTypeOK, CachesAreTrue, HudIsCurrent
  <2> QED
    BY <2>1, <2>2, <2>3, <2>4, <2>5 DEF HudNext
<1>3. HudInv => HudIsCurrent
  BY DEF HudInv
<1> QED
  BY <1>1, <1>2, <1>3, PTL DEF HudSpec
-----------------------------------------------------------------------------
(***************************************************************************)
(* The scoreboard, the lock of the controls and the feed of kills tell     *)
(* what was seen, for any number of players, rows and kills.               *)
(***************************************************************************)

\* The kills that were told are kills, and the feed was cleared before the last of them.
MatchTypeOK ==
  /\ score \in [Player -> Nat] /\ scores \in [Player -> Nat]
  /\ kills \in Seq(Player \X Player)
  /\ toldKills \in Nat /\ cleared \in Nat
  /\ cleared <= toldKills /\ toldKills <= Len(kills)
  /\ locked \in BOOLEAN

\* The feed, row by row.
FeedIsNewest ==
  /\ feed \in Seq(Player \X Player)
  /\ Len(feed) <= FeedLength /\ Len(feed) <= toldKills - cleared
  /\ Len(feed) = FeedLength \/ Len(feed) = toldKills - cleared
  /\ \A i \in 1 .. Len(feed) : feed[i] = kills[toldKills + 1 - i]

LockIsTrue == (Winner # 0 => locked) /\ (scores = NoScore => ~locked)

BoardIsCached == board.rows = boardCache.rows /\ board.point = boardCache.point

MatchInv == MatchTypeOK /\ FeedIsNewest /\ LockIsTrue /\ BoardIsCached

\* Row by row is the feed.
LEMMA RowByRow ==
  ASSUME MatchTypeOK, FeedIsNewest
  PROVE  feed = Newest(FeedLength)
<1> DEFINE news == SubSeq(kills, cleared + 1, toldKills)
           kept == IF Len(news) > FeedLength THEN FeedLength ELSE Len(news)
<1>1. /\ Len(news) = toldKills - cleared
      /\ \A i \in 1 .. Len(news) : news[i] = kills[cleared + i]
  <2>1. /\ cleared + 1 \in Int /\ toldKills \in Int /\ cleared \in Int
        /\ cleared <= toldKills
        /\ \A i \in cleared + 1 .. toldKills : kills[i] \in Player \X Player
    <3>1. /\ toldKills \in Nat /\ cleared \in Nat /\ cleared <= toldKills
          /\ toldKills <= Len(kills) /\ kills \in Seq(Player \X Player)
      BY DEF MatchTypeOK
    <3>2. \A i \in 1 .. Len(kills) : kills[i] \in Player \X Player
      BY <3>1
    <3>3. Len(kills) \in Nat
      BY <3>1
    <3>4. cleared + 1 .. toldKills \subseteq 1 .. Len(kills)
      BY <3>1, <3>3
    <3> QED
      BY <3>1, <3>2, <3>4
  <2>2. /\ Len(news) = IF cleared + 1 <= toldKills THEN toldKills - (cleared + 1) + 1 ELSE 0
        /\ \A i \in 1 .. toldKills - (cleared + 1) + 1 : news[i] = kills[cleared + 1 + i - 1]
    BY <2>1, SubSeqProperties
  <2>3. Len(news) = toldKills - cleared /\ toldKills - (cleared + 1) + 1 = toldKills - cleared
    BY <2>1, <2>2
  <2>4. \A i \in Int : cleared + 1 + i - 1 = cleared + i
    BY <2>1
  <2>5. \A i \in 1 .. toldKills - cleared : news[i] = kills[cleared + i]
    <3> HIDE DEF news
    <3> TAKE i \in 1 .. toldKills - cleared
    <3>1. news[i] = kills[cleared + 1 + i - 1]
      BY <2>2, <2>3
    <3>2. cleared + 1 + i - 1 = cleared + i
      BY <2>4
    <3> QED
      BY <3>1, <3>2
  <2> HIDE DEF news
  <2> QED
    BY <2>3, <2>5
<1>2. FeedLength \in Nat
  BY MatchAssumption
<1>3. Len(feed) = kept /\ kept \in Nat
  <2>1. /\ Len(feed) \in Nat /\ toldKills - cleared \in Nat
        /\ Len(feed) <= FeedLength /\ Len(feed) <= toldKills - cleared
        /\ Len(feed) = FeedLength \/ Len(feed) = toldKills - cleared
    <3>1. toldKills - cleared \in Nat
      BY DEF MatchTypeOK
    <3>2. Len(feed) \in Nat
      BY LenProperties DEF FeedIsNewest
    <3> QED
      BY <3>1, <3>2 DEF FeedIsNewest
  <2> HIDE DEF news
  <2> QED
    BY <1>1, <1>2, <2>1
<1>4. \A i \in 1 .. kept : feed[i] = news[Len(news) + 1 - i]
  <2> TAKE i \in 1 .. kept
  <2>1. Len(news) + 1 - i \in 1 .. Len(news)
    BY <1>1, <1>2 DEF MatchTypeOK
  <2>2. cleared + (Len(news) + 1 - i) = toldKills + 1 - i
    BY <1>1 DEF MatchTypeOK
  <2>3. news[Len(news) + 1 - i] = kills[cleared + (Len(news) + 1 - i)]
    BY <1>1, <2>1
  <2> QED
    BY <1>3, <2>2, <2>3 DEF FeedIsNewest
<1>5. feed = [i \in 1 .. Len(feed) |-> feed[i]]
  BY DEF FeedIsNewest
<1>6. Newest(FeedLength) = [i \in 1 .. kept |-> news[Len(news) + 1 - i]]
  BY DEF Newest
<1> HIDE DEF news, kept
<1> QED
  BY <1>3, <1>4, <1>5, <1>6

\* Some players that are not none have one that none of them is ahead of.
LEMMA HasFirst ==
  ASSUME scores \in [Player -> Nat], Player \subseteq Nat, IsFiniteSet(Player), Player # {}
  PROVE  \E p \in Player : \A q \in Player : ~AheadOf(q, p)
<1> DEFINE First(T) == \E p \in T : \A q \in T : ~AheadOf(q, p)
           Without == {T \in SUBSET Player : T # {} /\ ~First(T)}
           sizes == {n \in Nat : \E T \in Without : Cardinality(T) = n}
<1>1. SUFFICES ASSUME Without # {} PROVE FALSE
  OBVIOUS
<1>2. \A T \in SUBSET Player : IsFiniteSet(T) /\ Cardinality(T) \in Nat
  BY FS_Subset, FS_CardinalityType
<1>3. PICK n \in sizes : \A m \in sizes : n <= m
  <2>1. sizes \in SUBSET Nat /\ sizes # {}
    BY <1>1, <1>2
  <2> HIDE DEF sizes
  <2> QED
    BY <2>1, LeastOf
<1>4. PICK T \in Without : Cardinality(T) = n
  BY <1>3
<1>5. PICK x \in T : TRUE
  OBVIOUS
<1>6. Cardinality(T \ {x}) = n - 1 /\ T \ {x} \in SUBSET Player
  BY <1>2, <1>4, FS_RemoveElement
<1>7. T \ {x} \notin Without
  <2>1. n \in Nat /\ n - 1 < n
    BY <1>3
  <2>2. ASSUME T \ {x} \in Without PROVE n - 1 \in sizes
    BY <1>2, <1>6, <2>2
  <2> QED
    BY <1>3, <2>1, <2>2
<1>8. First(T)
  <2>1. CASE T \ {x} = {}
    <3>1. ~AheadOf(x, x)
      BY DEF AheadOf
    <3> QED
      BY <1>5, <2>1, <3>1
  <2>2. CASE T \ {x} # {}
    <3>1. PICK p \in T \ {x} : \A q \in T \ {x} : ~AheadOf(q, p)
      BY <1>6, <1>7, <2>2
    <3>2. \A q \in T : q \in Nat /\ scores[q] \in Nat
      OBVIOUS
    <3>3. CASE AheadOf(x, p)
      <4>1. \A q \in T : ~AheadOf(q, x)
        BY <1>5, <3>1, <3>2, <3>3 DEF AheadOf
      <4> QED
        BY <1>5, <4>1
    <3>4. CASE ~AheadOf(x, p)
      BY <1>5, <3>1, <3>4
    <3> QED
      BY <3>3, <3>4
  <2> QED
    BY <2>1, <2>2
<1> QED
  BY <1>4, <1>8

\* The first of the rows is one's with the most kills.
LEMMA LeaderIs ==
  ASSUME scores \in [Player -> Nat]
  PROVE  /\ Ranked(1) \in Player
         /\ Rows[1] = [id |-> Ranked(1), kills |-> scores[Ranked(1)]]
<1>1. Player \subseteq Nat \ {0} /\ IsFiniteSet(Player) /\ Player # {}
  BY MatchAssumption
<1>2. 1 \in 1 .. Cardinality(Player)
  BY <1>1, FS_CardinalityType, FS_EmptySet
<1>3. PICK p \in Player : \A q \in Player : ~AheadOf(q, p)
  BY <1>1, HasFirst
<1>4. {q \in Player : AheadOf(q, p)} = {}
  BY <1>3
<1>5. Cardinality({q \in Player : AheadOf(q, p)}) = 1 - 1
  BY <1>4, FS_EmptySet
<1>6. Ranked(1) \in Player
  BY <1>5 DEF Ranked
<1>7. Rows[1] = [id |-> Ranked(1), kills |-> scores[Ranked(1)]]
  BY <1>2 DEF Rows
<1> QED
  BY <1>6, <1>7

\* Nobody has won a match in which nobody has killed.
LEMMA NobodyHasWon == scores = NoScore => Winner = 0
<1> SUFFICES ASSUME scores = NoScore PROVE Winner = 0
  OBVIOUS
<1>1. scores \in [Player -> Nat] /\ \A p \in Player : scores[p] = 0
  BY DEF NoScore
<1>2. Rows[1].kills = 0
  BY <1>1, LeaderIs
<1> QED
  BY <1>2, MatchAssumption DEF Winner

\* A snapshot locks the controls for a winner and frees them for a clean score.
LEMMA ScoresSeenStep ==
  ASSUME MatchInv, ScoresSeen
  PROVE  MatchInv'
<1>1. MatchTypeOK' /\ BoardIsCached'
  <2>1. locked' = (Winner' # 0 \/ (locked /\ score # NoScore))
    BY DEF ScoresSeen
  <2>2. locked' \in BOOLEAN
    BY <2>1
  <2>3. /\ scores' = score /\ UNCHANGED <<score, kills, toldKills, board, boardCache>>
        /\ cleared' = toldKills \/ cleared' = cleared
    BY DEF ScoresSeen
  <2>4. toldKills \in Nat /\ cleared' \in Nat /\ cleared' <= toldKills
    BY <2>3 DEF MatchInv, MatchTypeOK
  <2>5. MatchTypeOK'
    BY <2>2, <2>3, <2>4 DEF MatchInv, MatchTypeOK
  <2>6. BoardIsCached'
    BY <2>3 DEF MatchInv, BoardIsCached
  <2> QED
    BY <2>5, <2>6
<1>2. LockIsTrue'
  <2>1. locked' <=> (Winner' # 0 \/ (locked /\ score # NoScore))
    BY DEF ScoresSeen
  <2>2. ASSUME scores' = NoScore PROVE ~locked'
    <3>1. score = NoScore
      BY <2>2 DEF ScoresSeen
    <3>2. (scores = NoScore => Winner = 0)'
      BY NobodyHasWon, PTL
    <3>3. NoScore' = NoScore
      BY DEF NoScore
    <3> QED
      BY <2>1, <2>2, <3>1, <3>2, <3>3
  <2>3. NoScore' = NoScore
    BY DEF NoScore
  <2> QED
    BY <2>1, <2>2, <2>3 DEF LockIsTrue
<1>3. FeedIsNewest'
  <2>1. CASE locked /\ ~locked'
    <3>1. feed' = << >> /\ cleared' = toldKills /\ UNCHANGED <<kills, toldKills>>
      BY <2>1 DEF ScoresSeen
    <3>2. toldKills - toldKills = 0
      BY DEF MatchInv, MatchTypeOK
    <3> QED
      BY <3>1, <3>2, MatchAssumption DEF FeedIsNewest
  <2>2. CASE ~(locked /\ ~locked')
    BY <2>2 DEF ScoresSeen, MatchInv, FeedIsNewest
  <2> QED
    BY <2>1, <2>2
<1> QED
  BY <1>1, <1>2, <1>3 DEF MatchInv

\* A kill that is told comes first, and the oldest goes when the feed is full.
LEMMA KillToldStep ==
  ASSUME MatchInv, KillTold
  PROVE  MatchInv'
<1>1. /\ toldKills' = toldKills + 1 /\ toldKills < Len(kills)
      /\ feed' = Recorded(kills[toldKills + 1])
      /\ UNCHANGED <<score, kills, scores, locked, cleared, board, boardCache>>
  BY DEF KillTold
<1>2. MatchTypeOK' /\ BoardIsCached'
  <2>1. /\ toldKills \in Nat /\ cleared \in Nat /\ cleared <= toldKills
        /\ Len(kills) \in Nat
    BY DEF MatchInv, MatchTypeOK
  <2>2. toldKills' \in Nat /\ cleared <= toldKills' /\ toldKills' <= Len(kills)
    BY <1>1, <2>1
  <2>3. MatchTypeOK'
    BY <1>1, <2>2 DEF MatchInv, MatchTypeOK
  <2>4. BoardIsCached'
    BY <1>1 DEF MatchInv, BoardIsCached
  <2> QED
    BY <2>3, <2>4
<1>3. LockIsTrue'
  <2>1. Winner' = Winner
    BY <1>1 DEF Winner, Rows, Ranked, AheadOf
  <2> QED
    BY <1>1, <2>1 DEF MatchInv, LockIsTrue, NoScore
<1>4. FeedIsNewest'
  <2> DEFINE event == kills[toldKills + 1]
             longer == <<event>> \o feed
             n == IF Len(longer) > FeedLength THEN FeedLength ELSE Len(longer)
  <2>1. event \in Player \X Player
    BY <1>1 DEF MatchInv, MatchTypeOK
  <2>2. /\ longer \in Seq(Player \X Player) /\ Len(longer) = Len(feed) + 1
        /\ longer[1] = event
        /\ \A i \in 2 .. Len(feed) + 1 : longer[i] = feed[i - 1]
    <3>1. feed \in Seq(Player \X Player) /\ <<event>> \in Seq(Player \X Player)
      BY <2>1 DEF MatchInv, FeedIsNewest
    <3>2. Len(<<event>>) = 1 /\ <<event>>[1] = event
      OBVIOUS
    <3>3. Len(feed) \in Nat
      BY <3>1
    <3> HIDE DEF event
    <3> QED
      BY <3>1, <3>2, <3>3, ConcatProperties
  <2>3. n \in Nat /\ n <= Len(longer) /\ n <= FeedLength
        /\ (n = FeedLength \/ n = Len(longer)) /\ Len(feed) \in Nat /\ FeedLength \in Nat
    <3> HIDE DEF longer
    <3>1. Len(feed) \in Nat /\ FeedLength \in Nat
      BY MatchAssumption DEF MatchInv, FeedIsNewest
    <3> QED
      BY <2>2, <3>1
  <2>4. feed' = SubSeq(longer, 1, n)
    BY <1>1 DEF Recorded
  <2> HIDE DEF n, longer
  <2>5. /\ feed' \in Seq(Player \X Player) /\ Len(feed') = n
        /\ \A i \in 1 .. n : feed'[i] = longer[i]
    <3>1. \A i \in 1 .. n : longer[i] \in Player \X Player
      BY <2>2, <2>3
    <3> QED
      BY <2>3, <2>4, <3>1, SubSeqProperties
  <2>6. /\ Len(feed) <= toldKills - cleared
        /\ Len(feed) = FeedLength \/ Len(feed) = toldKills - cleared
        /\ \A i \in 1 .. Len(feed) : feed[i] = kills[toldKills + 1 - i]
        /\ toldKills \in Nat /\ cleared \in Nat
    BY DEF MatchInv, FeedIsNewest, MatchTypeOK
  <2>7. \A i \in 1 .. n : feed'[i] = kills[toldKills' + 1 - i]
    <3> TAKE i \in 1 .. n
    <3>1. CASE i = 1
      <4>1. toldKills' + 1 - i = toldKills + 1
        BY <1>1, <2>6, <3>1
      <4> QED
        BY <2>2, <2>5, <3>1, <4>1
    <3>2. CASE i # 1
      <4>1. i \in 2 .. Len(feed) + 1 /\ i - 1 \in 1 .. Len(feed)
        BY <2>2, <2>3, <3>2
      <4>2. toldKills' + 1 - i = toldKills + 1 - (i - 1)
        BY <1>1, <2>6
      <4>3. longer[i] = feed[i - 1]
        BY <2>2, <4>1
      <4>4. feed[i - 1] = kills[toldKills + 1 - (i - 1)]
        BY <2>6, <4>1
      <4> QED
        BY <2>5, <4>2, <4>3, <4>4
    <3> QED
      BY <3>1, <3>2
  <2>8. Len(feed') <= toldKills' - cleared
    BY <1>1, <2>2, <2>3, <2>5, <2>6
  <2>9. Len(feed') = FeedLength \/ Len(feed') = toldKills' - cleared
    BY <1>1, <2>2, <2>3, <2>5, <2>6
  <2> QED
    BY <1>1, <2>3, <2>5, <2>7, <2>8, <2>9 DEF FeedIsNewest
<1> QED
  BY <1>2, <1>3, <1>4 DEF MatchInv

\* A kill on the server changes nothing that was told.
LEMMA KillStep ==
  ASSUME MatchInv, NEW killer \in Player, NEW victim \in Player, Kill(killer, victim)
  PROVE  MatchInv'
<1>1. /\ score' = [score EXCEPT ![killer] = @ + 1]
      /\ kills' = Append(kills, <<killer, victim>>)
      /\ UNCHANGED <<toldKills, scores, locked, feed, cleared, board, boardCache>>
  BY DEF Kill
<1>2. /\ kills' \in Seq(Player \X Player) /\ Len(kills') = Len(kills) + 1
      /\ Len(kills) \in Nat
      /\ \A i \in 1 .. Len(kills) : kills'[i] = kills[i]
  BY <1>1, AppendProperties DEF MatchInv, MatchTypeOK
<1>3. MatchTypeOK'
  <2>1. score' \in [Player -> Nat]
    BY <1>1 DEF MatchInv, MatchTypeOK
  <2>2. toldKills \in Nat /\ toldKills <= Len(kills)
    BY DEF MatchInv, MatchTypeOK
  <2>3. toldKills' <= Len(kills')
    BY <1>1, <1>2, <2>2
  <2> QED
    BY <1>1, <1>2, <2>1, <2>3 DEF MatchInv, MatchTypeOK
<1>4. FeedIsNewest'
  <2>1. /\ toldKills \in Nat /\ cleared \in Nat /\ toldKills <= Len(kills)
        /\ Len(feed) \in Nat /\ Len(feed) <= toldKills - cleared
    BY DEF MatchInv, FeedIsNewest, MatchTypeOK
  <2>2. \A i \in 1 .. Len(feed) : toldKills + 1 - i \in 1 .. Len(kills)
    BY <1>2, <2>1
  <2> QED
    BY <1>1, <1>2, <2>2 DEF MatchInv, FeedIsNewest
<1>5. LockIsTrue' /\ BoardIsCached'
  <2>1. Winner' = Winner
    BY <1>1 DEF Winner, Rows, Ranked, AheadOf
  <2> QED
    BY <1>1, <2>1 DEF MatchInv, LockIsTrue, NoScore, BoardIsCached
<1> QED
  BY <1>3, <1>4, <1>5 DEF MatchInv

\* docs/M50 and M52: whatever snapshots are lost and however late the kills are told,
\* the feed is of the last kills told, and the controls are locked for a winner.
THEOREM TheFeedAndTheLockAreTrue == MatchSpec => []FeedAndLockAreTrue
<1>1. MatchInit => MatchInv
  <2> SUFFICES ASSUME MatchInit
               PROVE  MatchInv
    OBVIOUS
  <2>1. MatchTypeOK
    <3>1. /\ score = NoScore /\ scores = NoScore /\ kills = << >>
          /\ toldKills = 0 /\ cleared = 0 /\ locked = FALSE
      BY DEF MatchInit
    <3>2. NoScore \in [Player -> Nat]
      BY DEF NoScore
    <3>3. kills \in Seq(Player \X Player) /\ Len(kills) = 0
      BY <3>1
    <3>4. locked \in BOOLEAN
      BY <3>1
    <3>5. /\ score \in [Player -> Nat] /\ scores \in [Player -> Nat]
          /\ toldKills \in Nat /\ cleared \in Nat
      BY <3>1, <3>2
    <3>6. cleared <= toldKills /\ toldKills <= Len(kills)
      BY <3>1, <3>3
    <3> QED
      BY <3>3, <3>4, <3>5, <3>6 DEF MatchTypeOK
  <2>4. BoardIsCached
    BY DEF MatchInit, BoardIsCached
  <2>3. FeedIsNewest
    BY MatchAssumption DEF MatchInit, FeedIsNewest
  <2>2. LockIsTrue
    BY NobodyHasWon DEF MatchInit, LockIsTrue
  <2> QED
    BY <2>1, <2>2, <2>3, <2>4 DEF MatchInv
<1>2. MatchInv /\ [MatchNext]_matchVars => MatchInv'
  <2> SUFFICES ASSUME MatchInv, [MatchNext]_matchVars
               PROVE  MatchInv'
    OBVIOUS
  <2>1. ASSUME UNCHANGED <<kills, toldKills, scores, locked, feed, cleared>>,
               score' \in [Player -> Nat], BoardIsCached'
        PROVE  MatchInv'
    <3>1. Winner' = Winner
      BY <2>1 DEF Winner, Rows, Ranked, AheadOf
    <3>2. LockIsTrue'
      BY <2>1, <3>1 DEF MatchInv, LockIsTrue, NoScore
    <3> QED
      BY <2>1, <3>2 DEF MatchInv, MatchTypeOK, FeedIsNewest
  <2>2. CASE UNCHANGED matchVars
    BY <2>1, <2>2 DEF matchVars, MatchInv, MatchTypeOK, BoardIsCached
  <2>3. CASE MatchReset
    BY <2>1, <2>3 DEF MatchReset, MatchInv, BoardIsCached, NoScore
  <2>4. CASE PaintMatch
    BY <2>1, <2>4 DEF PaintMatch, MatchInv, MatchTypeOK, BoardIsCached
  <2> QED
    BY <2>2, <2>3, <2>4, KillStep, ScoresSeenStep, KillToldStep DEF MatchNext
<1>3. MatchInv => FeedAndLockAreTrue
  BY RowByRow DEF MatchInv, FeedAndLockAreTrue, LockIsTrue, BoardIsCached
<1> QED
  BY <1>1, <1>2, <1>3, PTL DEF MatchSpec
-----------------------------------------------------------------------------
(***************************************************************************)
(* The gestures: one press of the left button is one strike, and the loop  *)
(* that takes what the hands ask for is there, and only once.              *)
(***************************************************************************)

\* What the controls are made of.
Fields == {"pointer", "full", "committed", "right", "keys", "left", "chord", "middle",
           "short", "asked", "strikes"}

\* The left press has struck at most once, and not yet while it can still strike.
AtMostOnce(c) ==
  /\ c = [x \in Fields |-> c[x]] /\ c.committed \in BOOLEAN
  /\ c.strikes = 0 \/ c.strikes = 1
  /\ c.pointer # "none" /\ ~c.committed => c.strikes = 0

LoopFields == {"online", "frames", "id", "odd", "started", "hidden", "early"}

\* The frames that wait: the one that the loop knows of, and one that a page which was
\* shown again asked for before it had started.
LoopIsCounted ==
  /\ loop = [x \in LoopFields |-> loop[x]]
  /\ loop.id \in BOOLEAN /\ loop.early \in BOOLEAN
  /\ loop.started \in BOOLEAN /\ loop.hidden \in BOOLEAN
  /\ loop.started => loop.id \/ loop.hidden
  /\ ~loop.started => (loop.early <=> loop.id) /\ (loop.hidden => ~loop.id)
  /\ loop.frames =
       IF ~loop.started THEN IF loop.id THEN 1 ELSE 0
       ELSE (IF loop.id THEN 1 ELSE 0) + (IF loop.early THEN 1 ELSE 0)

ControlsInv == AtMostOnce(controls) /\ LoopIsCounted

\* What leaves the pointer, the commitment and the strikes alone keeps the press.
LEMMA SameCharge ==
  ASSUME NEW c, AtMostOnce(c), NEW d, d = [x \in Fields |-> d[x]],
         d.pointer = c.pointer, d.committed = c.committed, d.strikes = c.strikes
  PROVE  AtMostOnce(d)
BY DEF AtMostOnce

\* A strike of a press that has not struck.
LEMMA Strikes ==
  ASSUME NEW c, AtMostOnce(c), c.strikes = 0, c.pointer = "none" \/ c.committed, NEW airborne
  PROVE  AtMostOnce(OnLight(c, airborne)) /\ AtMostOnce(OnHeavy(c))
<1> DEFINE light == OnLight(c, airborne)
           heavy == OnHeavy(c)
<1>1. /\ light = [x \in Fields |-> light[x]] /\ light.strikes = c.strikes + 1
      /\ light.pointer = c.pointer /\ light.committed = c.committed
  BY DEF OnLight, AtMostOnce, Fields
<1>2. /\ heavy = [x \in Fields |-> heavy[x]] /\ heavy.strikes = c.strikes + 1
      /\ heavy.pointer = c.pointer /\ heavy.committed = c.committed
  BY DEF OnHeavy, AtMostOnce, Fields
<1> HIDE DEF light, heavy
<1>3. c.strikes + 1 = 1 /\ c.committed \in BOOLEAN
  BY DEF AtMostOnce
<1>4. AtMostOnce(light)
  BY <1>1, <1>3 DEF AtMostOnce
<1>5. AtMostOnce(heavy)
  BY <1>2, <1>3 DEF AtMostOnce
<1> QED
  BY <1>4, <1>5 DEF light, heavy

\* A press of the button that has not struck.
LEMMA ChargePressKeeps ==
  ASSUME NEW c, AtMostOnce(c), c.strikes = 0, NEW pointer, NEW immediate \in BOOLEAN,
         NEW airborne
  PROVE  AtMostOnce(ChargePress(c, pointer, immediate, airborne))
<1> DEFINE d == [c EXCEPT !.pointer = pointer, !.full = FALSE, !.committed = immediate]
<1>1. /\ d = [x \in Fields |-> d[x]] /\ d.strikes = 0 /\ d.committed = immediate
  BY DEF AtMostOnce, Fields
<1>2. ChargePress(c, pointer, immediate, airborne) =
        IF c.pointer # "none" THEN c ELSE IF immediate THEN OnLight(d, airborne) ELSE d
  BY DEF ChargePress
<1> HIDE DEF d
<1>3. AtMostOnce(d)
  BY <1>1 DEF AtMostOnce
<1>4. immediate => AtMostOnce(OnLight(d, airborne))
  BY <1>1, <1>3, Strikes
<1> QED
  BY <1>2, <1>3, <1>4

\* Space commits a press once.
LEMMA CommitLightKeeps ==
  ASSUME NEW c, AtMostOnce(c), NEW airborne
  PROVE  AtMostOnce(CommitLight(c, airborne))
<1> DEFINE d == [c EXCEPT !.committed = TRUE]
<1>1. /\ d = [x \in Fields |-> d[x]] /\ d.strikes = c.strikes /\ d.committed = TRUE
  BY DEF AtMostOnce, Fields
<1>2. CommitLight(c, airborne) =
        IF c.pointer = "none" \/ c.committed THEN c ELSE OnLight(d, airborne)
  BY DEF CommitLight
<1> HIDE DEF d
<1>3. AtMostOnce(d)
  BY <1>1 DEF AtMostOnce
<1>4. ~(c.pointer = "none" \/ c.committed) => AtMostOnce(OnLight(d, airborne))
  BY <1>1, <1>3, Strikes DEF AtMostOnce
<1> QED
  BY <1>2, <1>4

\* A charge that is cancelled strikes no more.
LEMMA ChargeCancelKeeps ==
  ASSUME NEW c, AtMostOnce(c), NEW pointer
  PROVE  AtMostOnce(ChargeCancel(c, pointer))
<1> DEFINE d == [c EXCEPT !.pointer = "none", !.full = FALSE, !.committed = FALSE]
<1>1. /\ d = [x \in Fields |-> d[x]] /\ d.strikes = c.strikes /\ d.committed = FALSE
      /\ d.pointer = "none"
  BY DEF AtMostOnce, Fields
<1>2. ChargeCancel(c, pointer) = IF c.pointer = pointer THEN d ELSE c
  BY DEF ChargeCancel
<1> HIDE DEF d
<1>3. AtMostOnce(d)
  BY <1>1 DEF AtMostOnce
<1> QED
  BY <1>2, <1>3

\* A release strikes for a press that has not struck.
LEMMA ChargeReleaseKeeps ==
  ASSUME NEW c, AtMostOnce(c), NEW pointer, pointer # "none", NEW airborne
  PROVE  AtMostOnce(ChargeRelease(c, pointer, airborne))
<1> DEFINE d == ChargeCancel(c, pointer)
<1>1. AtMostOnce(d)
  BY ChargeCancelKeeps
<1>2. ChargeRelease(c, pointer, airborne) =
        IF c.pointer # pointer THEN c
        ELSE IF c.committed THEN d ELSE IF c.full THEN OnHeavy(d) ELSE OnLight(d, airborne)
  BY DEF ChargeRelease
<1>3. c.pointer = pointer => d.strikes = c.strikes /\ d.pointer = "none"
  BY DEF ChargeCancel, AtMostOnce, Fields
<1> HIDE DEF d
<1>4. c.pointer = pointer /\ ~c.committed =>
        AtMostOnce(OnHeavy(d)) /\ AtMostOnce(OnLight(d, airborne))
  <2> SUFFICES ASSUME c.pointer = pointer, ~c.committed
               PROVE  AtMostOnce(OnHeavy(d)) /\ AtMostOnce(OnLight(d, airborne))
    OBVIOUS
  <2>1. d.strikes = 0 /\ d.pointer = "none"
    BY <1>3 DEF AtMostOnce
  <2> QED
    BY <1>1, <2>1, Strikes
<1> QED
  BY <1>1, <1>2, <1>4
-----------------------------------------------------------------------------
\* Flags of the buttons: setting one leaves the press as it is.
LEMMA FlagsKeep ==
  ASSUME NEW c, AtMostOnce(c), NEW v, NEW w
  PROVE  /\ AtMostOnce([c EXCEPT !.left = v]) /\ AtMostOnce([c EXCEPT !.middle = v])
         /\ AtMostOnce([c EXCEPT !.right = v]) /\ AtMostOnce([c EXCEPT !.short = v])
         /\ AtMostOnce([c EXCEPT !.asked = v]) /\ AtMostOnce([c EXCEPT !.keys = v])
         /\ AtMostOnce([c EXCEPT !.left = v, !.chord = w])
         /\ AtMostOnce([c EXCEPT !.chord = v, !.left = w])
         /\ AtMostOnce([c EXCEPT !.right = v, !.asked = w])
         /\ AtMostOnce([c EXCEPT !.left = v, !.right = w])
         /\ AtMostOnce([c EXCEPT !.keys = v, !.asked = w])
         /\ AtMostOnce([c EXCEPT !.strikes = 0])
         /\ [c EXCEPT !.strikes = 0].strikes = 0
         /\ [c EXCEPT !.left = v].strikes = c.strikes
         /\ [c EXCEPT !.left = v, !.chord = w].strikes = c.strikes
BY DEF AtMostOnce, Fields

\* Nothing but the strikes of the press is left of controls that are released.
LEMMA ReleaseKeeps ==
  ASSUME NEW c, AtMostOnce(c)
  PROVE  AtMostOnce(ReleaseInputs(c))
BY DEF AtMostOnce, Fields, ReleaseInputs, ReleasedControls

\* A button that goes down makes one press at most, and a fresh one.
LEMMA PressButtonStep ==
  ASSUME AtMostOnce(controls), NEW b \in Buttons, NEW airborne \in BOOLEAN,
         PressButton(b, airborne)
  PROVE  AtMostOnce(controls')
<1> DEFINE before == IF b = "left" THEN [controls EXCEPT !.strikes = 0] ELSE controls
           pointed == IF held = {} THEN PointerDown(before, b, airborne) ELSE before
<1>1. controls' = MouseDown(pointed, b, held', airborne) /\ held' = held \cup {b}
  BY DEF PressButton
<1>2. AtMostOnce(before) /\ (b = "left" => before.strikes = 0)
  BY FlagsKeep
<1>3. b = "left" \/ b = "middle" \/ b = "right"
  BY DEF Buttons
<1>4. AtMostOnce(pointed)
  <2> HIDE DEF before
  <2>1. ASSUME b = "left" PROVE AtMostOnce(PointerDown(before, b, airborne))
    <3> DEFINE d == [before EXCEPT !.left = TRUE]
    <3>1. AtMostOnce(d) /\ d.strikes = 0
      BY <1>2, <2>1, FlagsKeep
    <3>2. PointerDown(before, b, airborne) =
            ChargePress(d, "mouse", Immediate(before, airborne), airborne)
      BY <2>1 DEF PointerDown
    <3>3. Immediate(before, airborne) \in BOOLEAN
      BY DEF Immediate
    <3> HIDE DEF d
    <3> QED
      BY <3>1, <3>2, <3>3, ChargePressKeeps
  <2>2. ASSUME b = "middle" PROVE AtMostOnce(PointerDown(before, b, airborne))
    <3>1. PointerDown(before, b, airborne) = [before EXCEPT !.middle = TRUE]
      BY <2>2 DEF PointerDown
    <3> QED
      BY <1>2, <3>1 DEF AtMostOnce, Fields
  <2>3. ASSUME b = "right" PROVE AtMostOnce(PointerDown(before, b, airborne))
    <3>1. PointerDown(before, b, airborne) = RightDown(before)
      BY <2>3 DEF PointerDown
    <3>2. RightDown(before) = before \/ RightDown(before) = [before EXCEPT !.right = "down"]
      BY DEF RightDown
    <3> HIDE DEF before
    <3>3. AtMostOnce([before EXCEPT !.right = "down"])
      BY <1>2 DEF AtMostOnce, Fields
    <3> QED
      BY <1>2, <3>1, <3>2, <3>3
  <2> QED
    BY <1>2, <1>3, <2>1, <2>2, <2>3
<1>5. ASSUME b = "left", "right" \in held' PROVE pointed = before
  BY <1>1, <1>5
<1>6. AtMostOnce(MouseDown(pointed, b, held', airborne))
  <2> HIDE DEF before, pointed
  <2>1. CASE b # "left" \/ "right" \notin held' \/ pointed.pointer # "none"
    BY <1>4, <2>1 DEF MouseDown
  <2>2. CASE ~(b # "left" \/ "right" \notin held' \/ pointed.pointer # "none")
    <3> DEFINE d == [pointed EXCEPT !.left = TRUE, !.chord = TRUE]
    <3>1. MouseDown(pointed, b, held', airborne) =
            ChargePress(d, "chord", Immediate(pointed, airborne), airborne)
      BY <2>2 DEF MouseDown
    <3>2. pointed.strikes = 0
      BY <1>2, <1>5, <2>2
    <3>3. AtMostOnce(d) /\ d.strikes = 0
      BY <1>4, <3>2, FlagsKeep
    <3>4. Immediate(pointed, airborne) \in BOOLEAN
      BY DEF Immediate
    <3> HIDE DEF d
    <3> QED
      BY <3>1, <3>3, <3>4, ChargePressKeeps
  <2> QED
    BY <2>1, <2>2
<1> QED
  BY <1>1, <1>6

\* A button that comes up is heard twice and strikes once.
LEMMA ReleaseButtonStep ==
  ASSUME AtMostOnce(controls), NEW b \in Buttons, NEW airborne, ReleaseButton(b, airborne)
  PROVE  AtMostOnce(controls')
<1>1. ASSUME NEW c, AtMostOnce(c) PROVE AtMostOnce(PointerUp(c, b, airborne))
  <2>1. CASE b = "left"
    <3> DEFINE d == [c EXCEPT !.left = FALSE]
    <3>1. PointerUp(c, b, airborne) = ChargeRelease(d, "mouse", airborne)
      BY <2>1 DEF PointerUp
    <3>2. AtMostOnce(d)
      BY <1>1 DEF AtMostOnce, Fields
    <3> HIDE DEF d
    <3> QED
      BY <3>1, <3>2, ChargeReleaseKeeps
  <2>2. CASE b = "middle"
    <3>1. PointerUp(c, b, airborne) = [c EXCEPT !.middle = FALSE]
      BY <2>2 DEF PointerUp
    <3> QED
      BY <1>1, <3>1 DEF AtMostOnce, Fields
  <2>3. CASE b = "right"
    <3>1. PointerUp(c, b, airborne) =
            [c EXCEPT !.right = "up",
                      !.asked = IF c.right = "down" THEN @ \cup {"kick"} ELSE @]
      BY <2>3 DEF PointerUp, RightUp
    <3> QED
      BY <1>1, <3>1 DEF AtMostOnce, Fields
  <2> QED
    BY <2>1, <2>2, <2>3 DEF Buttons
<1>2. ASSUME NEW c, AtMostOnce(c) PROVE AtMostOnce(MouseUp(c, b, airborne))
  <2> DEFINE d == [c EXCEPT !.chord = FALSE, !.left = FALSE]
  <2>1. \/ MouseUp(c, b, airborne) = c
        \/ MouseUp(c, b, airborne) = ChargeRelease(d, "chord", airborne)
    BY DEF MouseUp
  <2>2. AtMostOnce(d)
    BY <1>2 DEF AtMostOnce, Fields
  <2> HIDE DEF d
  <2> QED
    BY <1>2, <2>1, <2>2, ChargeReleaseKeeps
<1>3. PICK c : AtMostOnce(c) /\ controls' = MouseUp(MouseUp(c, b, airborne), b, airborne)
  <2>1. AtMostOnce(PointerUp(PointerUp(controls, b, airborne), b, airborne))
    BY <1>1
  <2> QED
    BY <2>1 DEF ReleaseButton
<1> QED
  BY <1>2, <1>3

\* Everything else that hands and time do.
LEMMA OtherHandsStep ==
  ASSUME AtMostOnce(controls),
         \/ CancelPointer \/ PressHeavyKey \/ \E up \in BOOLEAN : Wheel(up)
         \/ \E k \in Keys : KeyUp(k)
         \/ \E k \in Keys, repeat, airborne, dash \in BOOLEAN :
              KeyDown(k, repeat, airborne, dash)
         \/ Blur \/ HoldMatures \/ ChargeFills \/ ShortBlockEnds
  PROVE  AtMostOnce(controls')
<1>1. CASE CancelPointer
  BY <1>1, ChargeCancelKeeps, FlagsKeep DEF CancelPointer
<1>2. CASE PressHeavyKey
  BY <1>2, FlagsKeep DEF PressHeavyKey
<1>3. ASSUME NEW up \in BOOLEAN, Wheel(up) PROVE AtMostOnce(controls')
  BY <1>3, FlagsKeep DEF Wheel
<1>4. ASSUME NEW k \in Keys, KeyUp(k) PROVE AtMostOnce(controls')
  BY <1>4, FlagsKeep DEF KeyUp
<1>5. ASSUME NEW k \in Keys, NEW repeat \in BOOLEAN, NEW airborne \in BOOLEAN,
             NEW dash \in BOOLEAN, KeyDown(k, repeat, airborne, dash)
      PROVE  AtMostOnce(controls')
  <2> DEFINE c == [controls EXCEPT !.keys = @ \cup {k},
                                   !.asked = @ \cup IF dash THEN {"dash"} ELSE {}]
             jumps == [c EXCEPT !.asked = @ \cup {"jump"}]
  <2>1. AtMostOnce(c)
    BY FlagsKeep
  <2>2. \/ controls' = c \/ controls' = jumps \/ controls' = CommitLight(jumps, airborne)
    BY <1>5 DEF KeyDown
  <2> HIDE DEF c
  <2>3. AtMostOnce(jumps)
    BY <2>1, FlagsKeep
  <2> HIDE DEF jumps
  <2> QED
    BY <2>1, <2>2, <2>3, CommitLightKeeps
<1>6. CASE Blur
  BY <1>6, ReleaseKeeps DEF Blur
<1>7. CASE HoldMatures
  BY <1>7, FlagsKeep DEF HoldMatures
<1>8. CASE ChargeFills
  <2>1. controls' = [controls EXCEPT !.full = TRUE]
    BY <1>8 DEF ChargeFills
  <2> QED
    BY <2>1 DEF AtMostOnce, Fields
<1>9. CASE ShortBlockEnds
  BY <1>9, FlagsKeep DEF ShortBlockEnds
<1> QED
  BY <1>1, <1>2, <1>3, <1>4, <1>5, <1>6, <1>7, <1>8, <1>9

\* Its flags are truth values.
LEMMA FlagsOfLoop ==
  ASSUME LoopIsCounted
  PROVE  /\ loop.id \in BOOLEAN /\ loop.early \in BOOLEAN
         /\ loop.started \in BOOLEAN /\ loop.hidden \in BOOLEAN
         /\ loop.frames = 0 \/ loop.frames = 1 \/ loop.frames = 2
BY DEF LoopIsCounted

\* The steps that the loop takes part in.
LEMMA LoopStep ==
  ASSUME ControlsInv, StartGame \/ VisibilityChange \/ Frame \/ ObserveMatch
  PROVE  ControlsInv'
<1> USE DEF ControlsInv
<1>1. CASE StartGame
  <2>1. loop' = [loop EXCEPT !.started = TRUE, !.frames = @ + 1, !.id = TRUE] /\ ~loop.started
    BY <1>1 DEF StartGame
  <2>3. /\ loop' = [x \in LoopFields |-> loop'[x]]
        /\ loop'.started = TRUE /\ loop'.frames = loop.frames + 1 /\ loop'.id = TRUE
        /\ loop'.early = loop.early /\ loop'.hidden = loop.hidden
    BY <2>1 DEF LoopIsCounted, LoopFields
  <2>4. loop.frames = IF loop.id THEN 1 ELSE 0
    BY <2>1 DEF LoopIsCounted
  <2>5. loop.early <=> loop.id
    BY <2>1 DEF LoopIsCounted
  <2>6. loop'.frames = 1 + (IF loop'.early THEN 1 ELSE 0)
    BY <2>3, <2>4, <2>5
  <2>2. LoopIsCounted'
    BY <2>3, <2>6, FlagsOfLoop DEF LoopIsCounted
  <2> QED
    BY <1>1, <2>2 DEF StartGame
<1>2. CASE VisibilityChange
  <2>1. LoopIsCounted'
    <3>1. CASE loop.hidden
      <4> DEFINE l == [loop EXCEPT !.hidden = FALSE]
      <4>1. loop' = IF l.id THEN l
                    ELSE [l EXCEPT !.frames = @ + 1, !.id = TRUE, !.early = @ \/ ~l.started]
        BY <1>2, <3>1 DEF VisibilityChange, Schedule
      <4>2. /\ l = [x \in LoopFields |-> l[x]] /\ l.hidden = FALSE
            /\ l.id = loop.id /\ l.frames = loop.frames /\ l.started = loop.started
            /\ l.early = loop.early
        BY DEF LoopIsCounted, LoopFields
      <4> HIDE DEF l
      <4>3. CASE l.id
        BY <3>1, <4>1, <4>2, <4>3 DEF LoopIsCounted
      <4>4. CASE ~l.id
        <5>1. /\ loop' = [x \in LoopFields |-> loop'[x]] /\ loop'.hidden = FALSE
              /\ loop'.id = TRUE /\ loop'.frames = l.frames + 1
              /\ loop'.started = l.started /\ loop'.early = (l.early \/ ~l.started)
          BY <4>1, <4>2, <4>4 DEF LoopFields
        <5>2. loop'.frames = 1 + (IF loop'.started /\ loop'.early THEN 1 ELSE 0)
          <6>1. loop.frames = IF loop.started /\ loop.early THEN 1 ELSE 0
            BY <3>1, <4>2, <4>4 DEF LoopIsCounted
          <6>2. loop.started => (loop'.early <=> loop.early)
            BY <4>2, <5>1
          <6> QED
            BY <4>2, <5>1, <6>1, <6>2
        <5>3. ~loop'.started => (loop'.early <=> loop'.id)
          BY <4>2, <5>1
        <5>4. loop'.early \in BOOLEAN
          BY <5>1
        <5>5. /\ loop'.started \in BOOLEAN /\ loop'.hidden \in BOOLEAN
              /\ loop'.id \in BOOLEAN /\ loop'.id /\ ~loop'.hidden
          BY <4>2, <5>1, FlagsOfLoop
        <5> QED
          BY <5>1, <5>2, <5>3, <5>4, <5>5 DEF LoopIsCounted
      <4> QED
        BY <4>3, <4>4
    <3>2. CASE ~loop.hidden
      <4>1. loop' = [loop EXCEPT !.hidden = TRUE, !.id = FALSE,
                                 !.frames = IF loop.id THEN @ - 1 ELSE @,
                                 !.early = @ /\ loop.started]
        BY <1>2, <3>2 DEF VisibilityChange
      <4>2. /\ loop' = [x \in LoopFields |-> loop'[x]] /\ loop'.hidden = TRUE
            /\ loop'.id = FALSE
            /\ loop'.frames = IF loop.id THEN loop.frames - 1 ELSE loop.frames
            /\ loop'.started = loop.started /\ loop'.early = (loop.early /\ loop.started)
        BY <4>1 DEF LoopIsCounted, LoopFields
      <4>3. loop'.frames = IF loop'.started /\ loop'.early THEN 1 ELSE 0
        <5>1. CASE loop.started
          <6>1. loop.id /\ loop.frames = 1 + (IF loop.early THEN 1 ELSE 0)
            BY <3>2, <5>1 DEF LoopIsCounted
          <6>2. loop'.started /\ (loop'.early <=> loop.early)
            BY <4>2, <5>1
          <6> QED
            BY <4>2, <6>1, <6>2
        <5>2. CASE ~loop.started
          <6>1. loop.frames = IF loop.id THEN 1 ELSE 0
            BY <5>2 DEF LoopIsCounted
          <6>2. ~loop'.started
            BY <4>2, <5>2
          <6> QED
            BY <4>2, <6>1, <6>2
        <5> QED
          BY <5>1, <5>2
      <4>4. ~loop'.started => ~loop'.early
        BY <4>2
      <4>5. loop'.early \in BOOLEAN
        BY <4>2
      <4>6. /\ loop'.started \in BOOLEAN /\ loop'.hidden \in BOOLEAN
            /\ loop'.id \in BOOLEAN /\ ~loop'.id /\ loop'.hidden
        BY <4>2, FlagsOfLoop
      <4> QED
        BY <4>2, <4>3, <4>4, <4>5, <4>6 DEF LoopIsCounted
    <3> QED
      BY <3>1, <3>2
  <2> QED
    BY <1>2, <2>1, ReleaseKeeps DEF VisibilityChange
<1>3. CASE Frame
  <2>1. LoopIsCounted'
    <3>1. \/ UNCHANGED loop \/ loop' = [loop EXCEPT !.odd = ~@]
      BY <1>3 DEF Frame, PredictionStep, PracticeStep
    <3>2. CASE UNCHANGED loop
      BY <3>2 DEF LoopIsCounted
    <3>3. CASE loop' = [loop EXCEPT !.odd = ~@]
      <4>1. /\ loop' = [x \in LoopFields |-> loop'[x]] /\ loop'.id = loop.id
            /\ loop'.frames = loop.frames /\ loop'.started = loop.started
            /\ loop'.hidden = loop.hidden /\ loop'.early = loop.early
        BY <3>3 DEF LoopIsCounted, LoopFields
      <4> QED
        BY <4>1 DEF LoopIsCounted
    <3> QED
      BY <3>1, <3>2, <3>3
  <2>2. controls' = controls \/ controls' = [controls EXCEPT !.asked = {}]
    BY <1>3 DEF Frame, PredictionStep, PracticeStep
  <2>3. AtMostOnce([controls EXCEPT !.asked = {}])
    BY DEF AtMostOnce, Fields
  <2> QED
    BY <2>1, <2>2, <2>3
<1>4. CASE ObserveMatch
  <2>1. LoopIsCounted'
    BY <1>4 DEF ObserveMatch, LoopIsCounted
  <2>2. controls' = controls \/ controls' = ReleaseInputs(controls)
    BY <1>4 DEF ObserveMatch
  <2> QED
    BY <2>1, <2>2, ReleaseKeeps
<1> QED
  BY <1>1, <1>2, <1>3, <1>4
-----------------------------------------------------------------------------
\* The press has struck at most once and the frames are counted.
THEOREM ControlsInvariant == ControlsSpec => []ControlsInv
<1>1. ControlsInit => ControlsInv
  <2> SUFFICES ASSUME ControlsInit
               PROVE  ControlsInv
    OBVIOUS
  <2>1. AtMostOnce(controls)
    BY DEF ControlsInit, ReleasedControls, AtMostOnce, Fields
  <2>2. LoopIsCounted
    <3>1. PICK online \in BOOLEAN : loop = NewLoop(online)
      BY DEF ControlsInit
    <3>2. /\ loop = [x \in LoopFields |-> loop[x]] /\ loop.frames = 0
          /\ loop.id = FALSE /\ loop.started = FALSE /\ loop.hidden = FALSE
          /\ loop.early = FALSE
      BY <3>1 DEF NewLoop, LoopFields
    <3> QED
      BY <3>2 DEF LoopIsCounted
  <2> QED
    BY <2>1, <2>2 DEF ControlsInv
<1>2. ControlsInv /\ [ControlsNext]_controlVars => ControlsInv'
  <2> SUFFICES ASSUME ControlsInv, [ControlsNext]_controlVars
               PROVE  ControlsInv'
    OBVIOUS
  <2>1. ASSUME UNCHANGED loop, AtMostOnce(controls') PROVE ControlsInv'
    BY <2>1 DEF ControlsInv, LoopIsCounted
  <2>2. CASE UNCHANGED controlVars
    BY <2>1, <2>2 DEF controlVars, ControlsInv
  <2>3. ASSUME NEW airborne \in BOOLEAN, NEW b \in Buttons,
               PressButton(b, airborne) \/ ReleaseButton(b, airborne)
        PROVE  ControlsInv'
    <3>1. UNCHANGED loop
      BY <2>3 DEF PressButton, ReleaseButton
    <3>2. AtMostOnce(controls')
      BY <2>3, PressButtonStep, ReleaseButtonStep DEF ControlsInv
    <3> QED
      BY <2>1, <3>1, <3>2
  <2>4. ASSUME \/ CancelPointer \/ PressHeavyKey \/ \E up \in BOOLEAN : Wheel(up)
               \/ \E k \in Keys : KeyUp(k)
               \/ \E k \in Keys, repeat, airborne, dash \in BOOLEAN :
                     KeyDown(k, repeat, airborne, dash)
               \/ Blur \/ HoldMatures \/ ChargeFills \/ ShortBlockEnds
        PROVE  ControlsInv'
    <3>1. UNCHANGED loop
      BY <2>4 DEF CancelPointer, PressHeavyKey, Wheel, KeyUp, KeyDown, Blur, HoldMatures,
                  ChargeFills, ShortBlockEnds
    <3>2. AtMostOnce(controls')
      BY <2>4, OtherHandsStep DEF ControlsInv
    <3> QED
      BY <2>1, <3>1, <3>2
  <2> QED
    BY <2>2, <2>3, <2>4, LoopStep DEF ControlsNext, Hands
<1> QED
  BY <1>1, <1>2, PTL DEF ControlsSpec

\* One press of the left button strikes at most once, through whatever comes between its
\* two ends (createLeftButtonCharge, onLeftPointerUp, onChordedLeftMouseUp).
THEOREM APressStrikesOnce == ControlsSpec => []OnePressOneStrike
<1>1. ControlsInv => OnePressOneStrike
  BY DEF ControlsInv, AtMostOnce, OnePressOneStrike
<1> QED
  BY <1>1, ControlsInvariant, PTL

\* A game that is shown has its frame loop, and no second one but the one of a game that
\* was shown again before its connection (start, handleVisibilityChange).
THEOREM TheLoopIsThere == ControlsSpec => []OneFrameLoop
<1>1. ControlsInv => OneFrameLoop
  BY DEF ControlsInv, LoopIsCounted, OneFrameLoop
<1> QED
  BY <1>1, ControlsInvariant, PTL
-----------------------------------------------------------------------------
(***************************************************************************)
(* LOW STAMINA is told only of what was refused, for any costs, any length *)
(* of the actions and any run of lost snapshots that is shorter.           *)
(***************************************************************************)

\* What was begun for a press that was granted still goes on when the page hears of it.
GrantedGoesOn ==
  denial.submitted /\ verdict = "accepted" =>
    Accepted(denial.press, server.action) /\ server.left + missed >= ActionSteps + 1

DenialTypeOK ==
  /\ denial = [x \in {"press", "baseline", "submitted"} |-> denial[x]]
  /\ denial.press \in Presses \cup {"none"} /\ denial.submitted \in BOOLEAN
  /\ server = [x \in {"action", "left", "stamina"} |-> server[x]] /\ server.left \in Nat
  /\ missed \in 0 .. LongestGap
  /\ \/ verdict = "none" \/ verdict = "unseen" \/ verdict = "refused"
     \/ verdict = "interrupted" \/ verdict = "accepted"

\* A press that was submitted is in one of the ways it can go, and nobody else's is.
SubmittedIsJudged ==
  denial.submitted => denial.press # "none" /\ verdict # "none"

DenialInv == DenialTypeOK /\ SubmittedIsJudged /\ GrantedGoesOn /\ DenialIsTrue

\* Only one at rest or in a jump begins anything.
LEMMA BegunFrom ==
  ASSUME NEW f, NEW input
  PROVE  /\ f.action \notin {"Idle", "Jump"} => Begun(f, input) = "none"
         /\ f.action = "Jump" => Begun(f, input) = "jump-attack" \/ Begun(f, input) = "none"
<1>1. ASSUME f.action \notin {"Idle", "Jump"} PROVE Begun(f, input) = "none"
  BY <1>1 DEF Begun
<1>2. ASSUME f.action = "Jump"
      PROVE  Begun(f, input) = "jump-attack" \/ Begun(f, input) = "none"
  BY <1>2 DEF Begun
<1> QED
  BY <1>1, <1>2

\* Which action each press begins, and which actions a page takes for it.
LEMMA ActionIs ==
  /\ ActionOf("roll") = "Dodge" /\ ActionOf("kick") = "Kick" /\ ActionOf("jump") = "Jump"
  /\ ActionOf("jump-attack") = "JumpAttack" /\ ActionOf("jump-attack-chord") = "JumpAttack"
  /\ ActionOf("running-attack") = "RunningAttack"
BY DEF ActionOf, JumpAttacks

\* A press that is granted is accepted by what it began.
LEMMA GrantedIsAccepted ==
  ASSUME NEW press \in Presses, NEW begun, Grants(press, begun)
  PROVE  begun # "none" /\ Accepted(press, ActionOf(begun))
BY ActionIs DEF Grants, Accepted, JumpAttacks, Presses

\* An action that the page would accept goes on, or becomes another that it accepts.
LEMMA AcceptedGoesOn ==
  ASSUME NEW press \in Presses, NEW f, f = [x \in {"action", "left", "stamina"} |-> f[x]],
         f.left \in Nat, f.left > 1, Accepted(press, f.action), NEW input,
         NEW next \in Steps(f, input)
  PROVE  /\ Accepted(press, next.action)
         /\ next.left = ActionSteps \/ next.left = f.left - 1
         /\ next = [x \in {"action", "left", "stamina"} |-> next[x]]
<1> DEFINE begun == [action |-> ActionOf(Begun(f, input)), left |-> ActionSteps,
                     stamina |-> f.stamina - PressCost[Begun(f, input)]]
           going == [f EXCEPT !.left = @ - 1]
           rested == [going EXCEPT !.stamina = IF @ < MostStamina THEN @ + 1 ELSE @]
<1>1. IF Begun(f, input) # "none" THEN next = begun ELSE next = going \/ next = rested
  BY DEF Steps
<1>2. CASE Begun(f, input) = "none"
  <2>1. /\ going.action = f.action /\ going.left = f.left - 1
        /\ going = [x \in {"action", "left", "stamina"} |-> going[x]]
        /\ rested.action = f.action /\ rested.left = f.left - 1
        /\ rested = [x \in {"action", "left", "stamina"} |-> rested[x]]
    OBVIOUS
  <2> HIDE DEF going, rested
  <2> QED
    BY <1>1, <1>2, <2>1
<1>3. CASE Begun(f, input) # "none"
  <2>1. next = begun
    BY <1>1, <1>3
  <2>2. next.action = ActionOf(Begun(f, input)) /\ next.left = ActionSteps
        /\ next = [x \in {"action", "left", "stamina"} |-> next[x]]
    BY <2>1
  <2>3. f.action # "Idle"
    BY ActionIs DEF Accepted, Presses
  <2>4. f.action = "Jump" /\ Begun(f, input) = "jump-attack"
    BY <1>3, <2>3, BegunFrom
  <2>5. press = "jump"
    BY <2>4, ActionIs DEF Accepted, Presses
  <2> QED
    BY <2>2, <2>4, <2>5, ActionIs DEF Accepted
<1> QED
  BY <1>2, <1>3

\* Every step leaves a fighter with a time that is left.
LEMMA StepsAre ==
  ASSUME NEW f, f = [x \in {"action", "left", "stamina"} |-> f[x]], f.left \in Nat,
         NEW input, NEW next \in Steps(f, input)
  PROVE  /\ next = [x \in {"action", "left", "stamina"} |-> next[x]] /\ next.left \in Nat
         /\ Begun(f, input) # "none" =>
              next.action = ActionOf(Begun(f, input)) /\ next.left = ActionSteps
<1> DEFINE begun == [action |-> ActionOf(Begun(f, input)), left |-> ActionSteps,
                     stamina |-> f.stamina - PressCost[Begun(f, input)]]
           going == IF f.left > 1 THEN [f EXCEPT !.left = @ - 1]
                    ELSE [f EXCEPT !.action = "Idle", !.left = 0]
           rested == [going EXCEPT !.stamina = IF @ < MostStamina THEN @ + 1 ELSE @]
<1>1. IF Begun(f, input) # "none" THEN next = begun ELSE next = going \/ next = rested
  BY DEF Steps
<1>2. going = [x \in {"action", "left", "stamina"} |-> going[x]] /\ going.left \in Nat
  <2>1. CASE f.left > 1
    <3> DEFINE on == [f EXCEPT !.left = @ - 1]
    <3>1. on = [x \in {"action", "left", "stamina"} |-> on[x]] /\ on.left = f.left - 1
      OBVIOUS
    <3>2. going = on
      BY <2>1
    <3> HIDE DEF on
    <3> QED
      BY <2>1, <3>1, <3>2
  <2>2. CASE ~(f.left > 1)
    <3> DEFINE over == [f EXCEPT !.action = "Idle", !.left = 0]
    <3>1. over = [x \in {"action", "left", "stamina"} |-> over[x]] /\ over.left = 0
      OBVIOUS
    <3>2. going = over
      BY <2>2
    <3> HIDE DEF over
    <3> QED
      BY <3>1, <3>2
  <2> QED
    BY <2>1, <2>2
<1> HIDE DEF going
<1>3. rested = [x \in {"action", "left", "stamina"} |-> rested[x]] /\ rested.left \in Nat
  BY <1>2
<1>4. /\ begun = [x \in {"action", "left", "stamina"} |-> begun[x]] /\ begun.left = ActionSteps
      /\ begun.action = ActionOf(Begun(f, input)) /\ ActionSteps \in Nat
  BY DenialConstants
<1> HIDE DEF rested, begun
<1> QED
  BY <1>1, <1>2, <1>3, <1>4

\* A press replaces what was pending, and is not submitted yet; and so does a release.
LEMMA PressStep ==
  ASSUME DenialInv,
         \/ WheelForward \/ ShortRight \/ SpaceDown \/ SpaceUp \/ Release
         \/ \E running \in BOOLEAN : Light(running)
  PROVE  DenialInv'
<1> USE DEF DenialInv
<1>1. /\ UNCHANGED <<server, missed>> /\ told' = "none"
      /\ \/ UNCHANGED <<denial, verdict>>
         \/ denial' = NoDenial /\ verdict' = "none"
         \/ /\ verdict' = "none"
            /\ \E press \in Presses :
                 denial' = [press |-> press, baseline |-> client.stamina, submitted |-> FALSE]
  <2>1. ASSUME NEW press \in Presses, QueueStaminaDenial(press, client)
        PROVE  \/ UNCHANGED <<denial, verdict>>
               \/ /\ verdict' = "none"
                  /\ denial' = [press |-> press, baseline |-> client.stamina,
                                submitted |-> FALSE]
    BY <2>1 DEF QueueStaminaDenial
  <2>2. /\ "roll" \in Presses /\ "kick" \in Presses /\ "jump" \in Presses
        /\ "jump-attack" \in Presses /\ "jump-attack-chord" \in Presses
        /\ "running-attack" \in Presses
    BY DEF Presses
  <2>3. CASE Release
    BY <2>3 DEF Release
  <2>4. CASE WheelForward
    BY <2>1, <2>2, <2>4 DEF WheelForward, Ask
  <2>5. CASE ShortRight
    BY <2>1, <2>2, <2>5 DEF ShortRight, Ask
  <2>6. CASE SpaceDown
    BY <2>1, <2>2, <2>6 DEF SpaceDown, Ask
  <2>7. CASE SpaceUp
    BY <2>7 DEF SpaceUp, Ask
  <2>8. ASSUME NEW running \in BOOLEAN, Light(running)
        PROVE  /\ UNCHANGED <<server, missed>> /\ told' = "none"
               /\ \/ UNCHANGED <<denial, verdict>>
                  \/ \E press \in Presses : QueueStaminaDenial(press, client)
    BY <2>2, <2>8 DEF Light, Ask
  <2> QED
    BY <2>1, <2>3, <2>4, <2>5, <2>6, <2>7, <2>8
<1>2. DenialIsTrue'
  BY <1>1 DEF DenialIsTrue
<1>3. CASE UNCHANGED <<denial, verdict>>
  BY <1>1, <1>2, <1>3 DEF DenialTypeOK, SubmittedIsJudged, GrantedGoesOn
<1>4. ASSUME NEW press \in Presses \cup {"none"}, NEW baseline,
             denial' = [press |-> press, baseline |-> baseline, submitted |-> FALSE],
             verdict' = "none"
      PROVE  DenialInv'
  <2>1. /\ denial' = [x \in {"press", "baseline", "submitted"} |-> denial'[x]]
        /\ denial'.press = press /\ ~denial'.submitted /\ denial'.submitted \in BOOLEAN
    BY <1>4
  <2>2. DenialTypeOK'
    BY <1>1, <1>4, <2>1 DEF DenialTypeOK
  <2> QED
    BY <1>2, <2>1, <2>2 DEF SubmittedIsJudged, GrantedGoesOn
<1>5. CASE denial' = NoDenial /\ verdict' = "none"
  BY <1>4, <1>5 DEF NoDenial
<1> QED
  BY <1>1, <1>3, <1>4, <1>5

\* What becomes of a press while nobody strikes the fighter.
LEMMA ExchangeStep ==
  ASSUME DenialInv, NEW arrives \in BOOLEAN, NEW struck \in BOOLEAN, NEW hears \in BOOLEAN,
         Exchange(arrives, struck, hears)
  PROVE  DenialInv'
<1> DEFINE input == client.asks
           now == MarkSubmitted(denial, input)
           judged == Judged(now, input, arrives, struck)
           answered == hears /\ Answered(now, judged # "unseen")
<1>1. /\ hears \/ missed < LongestGap
      /\ \E next \in Steps(server, IF arrives THEN input ELSE {}) :
           server' = IF struck THEN StruckDown(next) ELSE next
      /\ denial' = IF answered THEN NoDenial ELSE now
      /\ told' = IF answered /\ Told(now, server') THEN now.press ELSE "none"
      /\ verdict' = judged
      /\ missed' = IF hears THEN 0 ELSE missed + 1
  BY DEF Exchange
<1>2. PICK next \in Steps(server, IF arrives THEN input ELSE {}) :
        server' = IF struck THEN StruckDown(next) ELSE next
  BY <1>1
<1>3. /\ now = [x \in {"press", "baseline", "submitted"} |-> now[x]]
      /\ now.press = denial.press /\ now.submitted \in BOOLEAN
      /\ now.submitted <=> denial.submitted \/ Included(denial.press, input)
  <2>1. /\ now = [denial EXCEPT !.submitted =
                     denial.submitted \/ Included(denial.press, input)]
        /\ denial = [x \in {"press", "baseline", "submitted"} |-> denial[x]]
    BY DEF MarkSubmitted, DenialInv, DenialTypeOK
  <2>2. /\ now = [x \in {"press", "baseline", "submitted"} |-> now[x]]
        /\ now.press = denial.press
        /\ now.submitted = (denial.submitted \/ Included(denial.press, input))
    BY <2>1
  <2> HIDE DEF now
  <2> QED
    BY <2>2
<1>4. ~Included("none", input)
  BY DEF Included
<1>5. now.submitted => now.press # "none" /\ now.press \in Presses
  BY <1>3, <1>4 DEF DenialInv, SubmittedIsJudged, DenialTypeOK
<1>6. missed \in Nat /\ LongestGap \in Nat /\ ActionSteps \in Nat /\ LongestGap < ActionSteps
      /\ missed <= LongestGap /\ missed' \in 0 .. LongestGap
  BY <1>1, DenialConstants DEF DenialInv, DenialTypeOK
<1>7. /\ next = [x \in {"action", "left", "stamina"} |-> next[x]] /\ next.left \in Nat
      /\ Begun(server, IF arrives THEN input ELSE {}) # "none" =>
           /\ next.action = ActionOf(Begun(server, IF arrives THEN input ELSE {}))
           /\ next.left = ActionSteps
  BY StepsAre DEF DenialInv, DenialTypeOK
<1>8. now.submitted => judged # "none"
  BY <1>3 DEF Judged, DenialInv, SubmittedIsJudged
<1>9. ASSUME now.submitted, judged = "accepted"
      PROVE  /\ Accepted(now.press, server'.action)
             /\ server'.left + missed' >= ActionSteps + 1 \/ hears
  <2>1. CASE ~denial.submitted
    <3>1. arrives /\ Grants(now.press, Begun(server, input)) /\ ~struck
      BY <1>9, <2>1 DEF Judged
    <3>2. /\ Begun(server, input) # "none"
          /\ Accepted(now.press, ActionOf(Begun(server, input)))
      BY <1>5, <1>9, <3>1, GrantedIsAccepted
    <3>3. server' = next /\ next.left = ActionSteps
          /\ next.action = ActionOf(Begun(server, input))
      BY <1>2, <1>7, <3>1, <3>2
    <3> QED
      BY <1>1, <1>6, <3>2, <3>3
  <2>2. CASE denial.submitted
    <3>1. verdict = "accepted" /\ ~struck
      BY <1>9, <2>2 DEF Judged
    <3>2. Accepted(denial.press, server.action) /\ server.left + missed >= ActionSteps + 1
      BY <2>2, <3>1 DEF DenialInv, GrantedGoesOn
    <3>3. /\ server = [x \in {"action", "left", "stamina"} |-> server[x]]
          /\ server.left \in Nat
      BY DEF DenialInv, DenialTypeOK
    <3>4. server.left > 1
      BY <1>6, <3>2, <3>3
    <3>5. Accepted(now.press, next.action)
          /\ (next.left = ActionSteps \/ next.left = server.left - 1)
      BY <1>3, <1>5, <1>9, <3>2, <3>3, <3>4, AcceptedGoesOn
    <3>6. server' = next
      BY <1>2, <3>1
    <3> QED
      BY <1>1, <1>6, <3>2, <3>3, <3>5, <3>6
  <2> QED
    BY <2>1, <2>2 DEF DenialInv, DenialTypeOK
<1>10. /\ server' = [x \in {"action", "left", "stamina"} |-> server'[x]]
       /\ server'.left \in Nat
  <2>1. CASE struck
    <3>1. server' = [next EXCEPT !.action = "Stunned", !.left = ActionSteps]
      BY <1>2, <2>1 DEF StruckDown
    <3> QED
      BY <1>6, <1>7, <3>1
  <2>2. CASE ~struck
    BY <1>2, <1>7, <2>2
  <2> QED
    BY <2>1, <2>2
<1>11. answered => now.submitted /\ hears /\ judged # "unseen"
  BY DEF Answered
<1>12. \/ judged = "none" \/ judged = "unseen" \/ judged = "refused"
       \/ judged = "interrupted" \/ judged = "accepted"
  BY DEF Judged, DenialInv, DenialTypeOK
<1>13. CASE answered
  <2>1. denial' = [press |-> "none", baseline |-> 0, submitted |-> FALSE]
    BY <1>1, <1>13 DEF NoDenial
  <2> HIDE DEF judged, now, answered
  <2>6. /\ denial' = [x \in {"press", "baseline", "submitted"} |-> denial'[x]]
        /\ denial'.press = "none" /\ ~denial'.submitted /\ denial'.submitted \in BOOLEAN
    BY <2>1
  <2>7. DenialTypeOK'
    BY <1>1, <1>6, <1>10, <1>12, <2>6 DEF DenialTypeOK
  <2>2. DenialTypeOK' /\ SubmittedIsJudged' /\ GrantedGoesOn'
    BY <2>6, <2>7 DEF SubmittedIsJudged, GrantedGoesOn
  <2>3. judged = "accepted" => ~Told(now, server')
    BY <1>9, <1>11, <1>13 DEF Told
  <2>4. told' # "none" => judged = "refused" \/ judged = "interrupted"
    BY <1>1, <1>8, <1>11, <1>12, <1>13, <2>3
  <2>5. DenialIsTrue'
    BY <1>1, <2>4 DEF DenialIsTrue
  <2> QED
    BY <2>2, <2>5 DEF DenialInv
<1>14. CASE ~answered
  <2>1. now.submitted /\ hears => judged = "unseen"
    BY <1>5, <1>14 DEF Answered
  <2> HIDE DEF judged, now, answered
  <2>2. denial' = now /\ told' = "none" /\ verdict' = judged
    BY <1>1, <1>14
  <2>3. GrantedGoesOn'
    BY <1>9, <2>1, <2>2 DEF GrantedGoesOn
  <2>4. SubmittedIsJudged'
    BY <1>5, <1>8, <2>2 DEF SubmittedIsJudged
  <2>5. now.press \in Presses \cup {"none"}
    BY <1>3 DEF DenialInv, DenialTypeOK
  <2>6. DenialTypeOK'
    BY <1>3, <1>6, <1>10, <1>12, <2>2, <2>5 DEF DenialTypeOK
  <2> QED
    BY <2>2, <2>3, <2>4, <2>6 DEF DenialInv, DenialIsTrue
<1> QED
  BY <1>13, <1>14

\* docs/M168: LOW STAMINA is told only of a press that the server has taken and refused,
\* or that a blow broke off, whatever is missed between the press and the answer.
THEOREM TheDenialIsTrue == DenialSpec => []DenialIsTrue
<1>1. DenialInit => DenialInv
  <2> SUFFICES ASSUME DenialInit
               PROVE  DenialInv
    OBVIOUS
  <2>1. PICK s \in [action : {"Idle"}, left : {0}, stamina : 0 .. MostStamina] : server = s
    BY DEF DenialInit
  <2>2. server = [x \in {"action", "left", "stamina"} |-> server[x]] /\ server.left = 0
    BY <2>1
  <2>3. denial = NoDenial /\ verdict = "none" /\ missed = 0 /\ told = "none"
    BY DEF DenialInit
  <2>4. LongestGap \in Nat
    BY DenialConstants
  <2> QED
    BY <2>2, <2>3, <2>4
    DEF DenialInv, DenialTypeOK, SubmittedIsJudged, GrantedGoesOn, DenialIsTrue, NoDenial
<1>2. DenialInv /\ [DenialNext]_denialVars => DenialInv'
  <2> SUFFICES ASSUME DenialInv, [DenialNext]_denialVars
               PROVE  DenialInv'
    OBVIOUS
  <2>1. CASE UNCHANGED denialVars
    BY <2>1 DEF denialVars, DenialInv, DenialTypeOK, SubmittedIsJudged, GrantedGoesOn,
                DenialIsTrue
  <2> QED
    BY <2>1, PressStep, ExchangeStep DEF DenialNext
<1>3. DenialInv => DenialIsTrue
  BY DEF DenialInv
<1> QED
  BY <1>1, <1>2, <1>3, PTL DEF DenialSpec
-----------------------------------------------------------------------------
(***************************************************************************)
(* ThreatCue: one pass over the rivals finds the two most immediate        *)
(* threats, however many there are and in whatever order, and the cue of a *)
(* frame names them.  After each rival, the pass has ranked those before.  *)
(***************************************************************************)

\* The rivals of a map have ids of their own.
IsMap(map) ==
  /\ map \in Seq(RivalSeen)
  /\ \A i, j \in 1 .. Len(map) : map[i].id = map[j].id => i = j

\* The threats among the first n.
ThreatsTo(map, n) == {r \in {map[k] : k \in 1 .. n} : Threatens(r)}

\* The first of a set of rivals, if it is not empty.
IsFirst(rs, id) ==
  IF rs = {} THEN id = NoRival
  ELSE \E r \in rs : r.id = id /\ \A s \in rs \ {r} : ComesBefore(r, s)

\* What a pass has found of some threats.
IsRanked(rs, found) ==
  /\ IsFiniteSet(rs) /\ found.count = Cardinality(rs)
  /\ IsFirst(rs, found.best)
  /\ IsFirst({r \in rs : r.id # found.best}, found.second)

\* The pass, rival by rival.
IsPass(map, pass, n) ==
  pass = [k \in 0 .. n |-> IF k = 0 THEN NoThreat ELSE Consider(map, pass[k - 1], map[k])]

Latch == [id : Rival \cup {NoRival}, primary : BOOLEAN]

\* The painted cue is the remembered one, and that of the last frame is current; a latch
\* is that of a rival, or none.
CueInv ==
  /\ IsMap(rivals)
  /\ latch \in Latch /\ (latch.id = NoRival => latch = NoLatch)
  /\ painted = cache
  /\ current => painted = CuePresentation(WithLatch(Scan(rivals), latch))

\* The order of the threats is one (fighterThreatNetId).
LEMMA ThreatOrder ==
  ASSUME NEW r \in RivalSeen, NEW s \in RivalSeen, NEW t \in RivalSeen
  PROVE  /\ ComesBefore(r, s) /\ ComesBefore(s, t) => ComesBefore(r, t)
         /\ r.id # s.id => ComesBefore(r, s) \/ ComesBefore(s, r)
         /\ ~(ComesBefore(r, s) /\ ComesBefore(s, r))
<1>1. ASSUME NEW x \in RivalSeen
      PROVE  x.near \in Int /\ x.id \in Int /\ ThreatRank(x) \in Int
  <2>1. x.near \in Nearness /\ x.id \in Rival
    BY DEF RivalSeen
  <2>2. Nearness \subseteq Int /\ Rival \subseteq Int
    BY ThreatAssumption
  <2>3. ThreatRank(x) = 0 \/ ThreatRank(x) = 1
    BY DEF ThreatRank
  <2>4. ThreatRank(x) \in Int
    BY <2>3
  <2>5. x.near \in Int
    BY <2>1, <2>2
  <2>6. x.id \in Int
    BY <2>1, <2>2
  <2> QED
    BY <2>4, <2>5, <2>6
<1>2. /\ r.near \in Int /\ r.id \in Int /\ ThreatRank(r) \in Int
      /\ s.near \in Int /\ s.id \in Int /\ ThreatRank(s) \in Int
      /\ t.near \in Int /\ t.id \in Int /\ ThreatRank(t) \in Int
  BY <1>1
<1> QED
  BY <1>2 DEF ComesBefore

\* An id names one rival of a map.
LEMMA RivalIsNamed ==
  ASSUME NEW map, IsMap(map), NEW k \in 1 .. Len(map)
  PROVE  /\ map[k] \in RivalSeen /\ map[k].id # NoRival /\ map[k].id \in Rival
         /\ RivalOf(map, map[k].id) = map[k] /\ map[k] \in Range(map)
         /\ StanceOf(map, map[k].id) = map[k].stance
<1>1. map \in Seq(RivalSeen) /\ DOMAIN map = 1 .. Len(map) /\ map[k] \in RivalSeen
  BY DEF IsMap
<1>2. map[k].id \in Rival /\ map[k].id # NoRival
  BY <1>1, ThreatAssumption DEF RivalSeen, NoRival
<1>3. map[k] \in Range(map) /\ \A r \in Range(map) : \E j \in 1 .. Len(map) : r = map[j]
  BY <1>1 DEF Range
<1>4. \A r \in Range(map) : r.id = map[k].id => r = map[k]
  BY <1>3 DEF IsMap
<1>5. RivalOf(map, map[k].id) = map[k]
  BY <1>3, <1>4 DEF RivalOf
<1> QED
  BY <1>1, <1>2, <1>3, <1>5 DEF StanceOf

\* Another rival is the first now, or the first is still.
LEMMA AddRival ==
  ASSUME NEW map, IsMap(map), NEW n \in 1 .. Len(map), NEW rs, NEW id,
         rs \subseteq {map[k] : k \in 1 .. n - 1}, IsFirst(rs, id)
  PROVE  IsFirst(rs \cup {map[n]}, IF Beats(map, map[n], id) THEN map[n].id ELSE id)
<1> DEFINE x == map[n]
<1>1. \A r \in rs : /\ r \in RivalSeen /\ RivalOf(map, r.id) = r
                    /\ r.id # NoRival /\ r.id # x.id
  <2> SUFFICES ASSUME NEW r \in rs
               PROVE  /\ r \in RivalSeen /\ RivalOf(map, r.id) = r
                      /\ r.id # NoRival /\ r.id # x.id
    OBVIOUS
  <2>1. PICK k \in 1 .. n - 1 : r = map[k]
    OBVIOUS
  <2>2. k \in 1 .. Len(map) /\ k # n
    BY DEF IsMap
  <2> QED
    BY <2>1, <2>2, RivalIsNamed DEF IsMap
<1>2. x \in RivalSeen
  BY RivalIsNamed
<1> HIDE DEF x
<1>3. CASE rs = {}
  BY <1>3 DEF IsFirst, Beats, x
<1>4. CASE rs # {}
  <2>1. PICK r \in rs : r.id = id /\ \A s \in rs \ {r} : ComesBefore(r, s)
    BY <1>4 DEF IsFirst
  <2>2. Beats(map, x, id) <=> ComesBefore(x, r)
    BY <1>1, <2>1 DEF Beats
  <2>3. CASE ComesBefore(x, r)
    <3>1. \A s \in rs : ComesBefore(x, s)
      BY <1>1, <1>2, <2>1, <2>3, ThreatOrder
    <3>2. IsFirst(rs \cup {x}, x.id)
      BY <3>1 DEF IsFirst
    <3> QED
      BY <2>2, <2>3, <3>2 DEF x
  <2>4. CASE ~ComesBefore(x, r)
    <3>1. ComesBefore(r, x)
      BY <1>1, <1>2, <2>1, <2>4, ThreatOrder
    <3>2. \A s \in (rs \cup {x}) \ {r} : ComesBefore(r, s)
      BY <2>1, <3>1
    <3>3. IsFirst(rs \cup {x}, id)
      BY <2>1, <3>2 DEF IsFirst
    <3> QED
      BY <2>2, <2>4, <3>3 DEF x
  <2> QED
    BY <2>3, <2>4
<1> QED
  BY <1>3, <1>4

\* One more rival of the pass (fighterThreatNetId).
LEMMA ConsiderRanks ==
  ASSUME NEW map, IsMap(map), NEW n \in 1 .. Len(map), NEW found,
         found = [best |-> found.best, second |-> found.second, count |-> found.count],
         IsRanked(ThreatsTo(map, n - 1), found)
  PROVE  LET next == Consider(map, found, map[n])
         IN /\ next = [best |-> next.best, second |-> next.second, count |-> next.count]
            /\ IsRanked(ThreatsTo(map, n), next)
<1> DEFINE x == map[n]
           rs == ThreatsTo(map, n - 1)
           further == {r \in rs : r.id # found.best}
           next == Consider(map, found, x)
<1>1. n \in Nat /\ n >= 1 /\ Len(map) \in Nat /\ n <= Len(map)
  BY DEF IsMap
<1>2. ThreatsTo(map, n) = IF Threatens(x) THEN rs \cup {x} ELSE rs
  <2>1. \A k : k \in 1 .. n <=> (k \in 1 .. n - 1 \/ k = n)
    BY <1>1
  <2> QED
    BY <2>1 DEF ThreatsTo
<1>3. rs \subseteq {map[k] : k \in 1 .. n - 1} /\ further \subseteq {map[k] : k \in 1 .. n - 1}
  BY DEF ThreatsTo
<1>4. \A r \in rs : r.id # x.id /\ r.id # NoRival
  <2> SUFFICES ASSUME NEW r \in rs PROVE r.id # x.id /\ r.id # NoRival
    OBVIOUS
  <2>1. PICK k \in 1 .. n - 1 : r = map[k]
    BY <1>3
  <2>2. k \in 1 .. Len(map) /\ k # n
    BY <1>1
  <2> QED
    BY <2>1, <2>2, RivalIsNamed DEF IsMap
<1>5. x.id # NoRival
  BY RivalIsNamed
<1>6. IsFirst(rs \cup {x}, IF Beats(map, x, found.best) THEN x.id ELSE found.best)
      /\ IsFirst(further \cup {x}, IF Beats(map, x, found.second) THEN x.id ELSE found.second)
  BY <1>3, AddRival DEF IsRanked
<1>7. IsFirst(rs, found.best) /\ IsFirst(further, found.second)
  BY DEF IsRanked
<1>8. /\ IsFiniteSet(rs) /\ IsFiniteSet(rs \cup {x}) /\ found.count = Cardinality(rs)
      /\ Cardinality(rs \cup {x}) = found.count + 1
  BY <1>4, FS_AddElement DEF IsRanked
<1>9. ThreatsTo(map, n) = IF Threatens(x) THEN rs \cup {x} ELSE rs
  BY <1>2
<1> HIDE DEF rs
<1>10. CASE ~Threatens(x)
  <2>1. next = found
    BY <1>10 DEF Consider
  <2> QED
    BY <1>7, <1>8, <1>9, <1>10, <2>1 DEF IsRanked
<1>11. CASE Threatens(x) /\ Beats(map, x, found.best)
  <2>1. next = [best |-> x.id, second |-> found.best, count |-> found.count + 1]
    BY <1>11 DEF Consider
  <2>2. {r \in rs \cup {x} : r.id # x.id} = rs
    BY <1>4
  <2>3. /\ next = [best |-> next.best, second |-> next.second, count |-> next.count]
        /\ next.best = x.id /\ next.second = found.best /\ next.count = found.count + 1
    BY <2>1
  <2>4. IsFirst(rs \cup {x}, x.id)
    BY <1>6, <1>11
  <2>5. ThreatsTo(map, n) = rs \cup {x}
    BY <1>9, <1>11
  <2> HIDE DEF next, x
  <2>6. IsRanked(rs \cup {x}, next)
    BY <1>7, <1>8, <2>2, <2>3, <2>4 DEF IsRanked
  <2> QED
    BY <2>3, <2>5, <2>6 DEF next, x
<1>12. CASE Threatens(x) /\ ~Beats(map, x, found.best)
  <2>1. found.best # x.id
    <3>1. rs # {}
      BY <1>7, <1>12 DEF IsFirst, Beats
    <3> QED
      BY <1>4, <1>7, <3>1 DEF IsFirst
  <2>2. {r \in rs \cup {x} : r.id # found.best} = further \cup {x}
    BY <2>1
  <2>3. next = [best |-> found.best, count |-> found.count + 1,
                second |-> IF Beats(map, x, found.second) THEN x.id ELSE found.second]
    <3>1. CASE Beats(map, x, found.second)
      BY <1>12, <3>1 DEF Consider
    <3>2. CASE ~Beats(map, x, found.second)
      BY <1>12, <3>2 DEF Consider
    <3> QED
      BY <3>1, <3>2
  <2>4. /\ next = [best |-> next.best, second |-> next.second, count |-> next.count]
        /\ next.best = found.best /\ next.count = found.count + 1
        /\ next.second = IF Beats(map, x, found.second) THEN x.id ELSE found.second
    BY <2>3
  <2>5. IsFirst(rs \cup {x}, next.best) /\ IsFirst(further \cup {x}, next.second)
    BY <1>6, <1>12, <2>4
  <2>6. ThreatsTo(map, n) = rs \cup {x}
    BY <1>9, <1>12
  <2> HIDE DEF next, x
  <2>7. IsRanked(rs \cup {x}, next)
    BY <1>8, <2>2, <2>4, <2>5 DEF IsRanked
  <2> QED
    BY <2>4, <2>6, <2>7 DEF next, x
<1> QED
  BY <1>10, <1>11, <1>12

\* There is a pass over every map, and what it finds after each rival is ranked.
LEMMA PassRanks ==
  ASSUME NEW map, IsMap(map)
  PROVE  \A n \in 0 .. Len(map) :
           \E pass : /\ IsPass(map, pass, n)
                     /\ pass[n] = [best |-> pass[n].best, second |-> pass[n].second,
                                   count |-> pass[n].count]
                     /\ IsRanked(ThreatsTo(map, n), pass[n])
<1> DEFINE Fine(pass, n) == /\ pass[n] = [best |-> pass[n].best, second |-> pass[n].second,
                                          count |-> pass[n].count]
                            /\ IsRanked(ThreatsTo(map, n), pass[n])
           Bad == {n \in 0 .. Len(map) : ~(\E pass : IsPass(map, pass, n) /\ Fine(pass, n))}
<1>1. Len(map) \in Nat
  BY DEF IsMap
<1>2. SUFFICES ASSUME Bad # {} PROVE FALSE
  OBVIOUS
<1>3. PICK n \in Bad : \A m \in Bad : n <= m
  <2>1. Bad \in SUBSET Nat
    BY <1>1
  <2> HIDE DEF Bad
  <2> QED
    BY <1>2, <2>1, LeastOf
<1>4. n \in 0 .. Len(map) /\ ~(\E pass : IsPass(map, pass, n) /\ Fine(pass, n))
  BY <1>3
<1>5. CASE n = 0
  <2> DEFINE pass == [k \in 0 .. 0 |-> NoThreat]
  <2>1. pass[0] = NoThreat /\ IsPass(map, pass, 0)
    BY DEF IsPass
  <2>2. ThreatsTo(map, 0) = {} /\ {r \in {} : r.id # NoRival} = {}
    BY DEF ThreatsTo
  <2>3. IsFiniteSet({}) /\ Cardinality({}) = 0
    BY FS_EmptySet
  <2> HIDE DEF pass
  <2>4. /\ NoThreat = [best |-> NoThreat.best, second |-> NoThreat.second,
                       count |-> NoThreat.count]
        /\ NoThreat.best = NoRival /\ NoThreat.second = NoRival /\ NoThreat.count = 0
    BY DEF NoThreat
  <2>5. IsRanked({}, NoThreat)
    BY <2>2, <2>3, <2>4 DEF IsRanked, IsFirst
  <2>6. Fine(pass, 0)
    BY <2>1, <2>2, <2>4, <2>5
  <2> HIDE DEF Fine
  <2> QED
    BY <1>4, <1>5, <2>1, <2>6
<1>6. CASE n # 0
  <2>1. n - 1 \in 0 .. Len(map) /\ n \in 1 .. Len(map) /\ n \in Nat /\ ~(n <= n - 1)
    BY <1>1, <1>4, <1>6
  <2>2. n - 1 \notin Bad
    BY <1>3, <2>1
  <2>3. PICK pass : IsPass(map, pass, n - 1) /\ Fine(pass, n - 1)
    BY <2>1, <2>2
  <2> DEFINE next == Consider(map, pass[n - 1], map[n])
             longer == [k \in 0 .. n |-> IF k = n THEN next ELSE pass[k]]
  <2>4. /\ next = [best |-> next.best, second |-> next.second, count |-> next.count]
        /\ IsRanked(ThreatsTo(map, n), next)
    BY <2>1, <2>3, ConsiderRanks
  <2>5. \A k \in 0 .. n - 1 :
          pass[k] = IF k = 0 THEN NoThreat ELSE Consider(map, pass[k - 1], map[k])
    BY <2>3 DEF IsPass
  <2>6. longer[n] = next /\ \A k \in 0 .. n - 1 : longer[k] = pass[k]
    BY <2>1
  <2>7. longer = [k \in 0 .. n |-> longer[k]]
    OBVIOUS
  <2>8. ASSUME NEW k \in 0 .. n
        PROVE  longer[k] = IF k = 0 THEN NoThreat ELSE Consider(map, longer[k - 1], map[k])
    <3> HIDE DEF longer
    <3>1. CASE k = n
      BY <2>1, <2>6, <3>1
    <3>2. CASE k # n
      <4>1. k \in 0 .. n - 1 /\ (k # 0 => k - 1 \in 0 .. n - 1)
        BY <2>1, <3>2
      <4> HIDE DEF next
      <4> QED
        BY <2>5, <2>6, <4>1
    <3> QED
      BY <3>1, <3>2
  <2> HIDE DEF longer
  <2>9. IsPass(map, longer, n)
    BY <2>7, <2>8 DEF IsPass
  <2> HIDE DEF next
  <2>10. Fine(longer, n)
    BY <2>4, <2>6
  <2> HIDE DEF Fine
  <2> QED
    BY <1>4, <2>9, <2>10
<1> QED
  BY <1>5, <1>6

\* Two passes are the same: where they would first differ, they go on from the same.
LEMMA PassIsOne ==
  ASSUME NEW map, NEW n \in Nat, NEW pass, IsPass(map, pass, n), NEW other, IsPass(map, other, n)
  PROVE  pass = other
<1> DEFINE Differ == {k \in 0 .. n : pass[k] # other[k]}
<1>1. \A k \in 0 .. n :
        /\ pass[k] = IF k = 0 THEN NoThreat ELSE Consider(map, pass[k - 1], map[k])
        /\ other[k] = IF k = 0 THEN NoThreat ELSE Consider(map, other[k - 1], map[k])
  BY DEF IsPass
<1>2. pass = [k \in 0 .. n |-> pass[k]] /\ other = [k \in 0 .. n |-> other[k]]
  BY DEF IsPass
<1>3. ASSUME Differ # {} PROVE FALSE
  <2>1. Differ \in SUBSET Nat
    OBVIOUS
  <2>2. PICK k \in Differ : \A j \in Differ : k <= j
    BY <1>3, <2>1, LeastOf
  <2>3. k \in 0 .. n /\ pass[k] # other[k]
    BY <2>2
  <2>4. k # 0
    BY <1>1, <2>3
  <2>5. k - 1 \in 0 .. n /\ ~(k <= k - 1)
    BY <2>3, <2>4
  <2>6. pass[k - 1] = other[k - 1]
    BY <2>2, <2>5
  <2> QED
    BY <1>1, <2>3, <2>4, <2>6
<1> QED
  BY <1>2, <1>3

\* What the whole pass finds (fighterThreatNetId).
LEMMA ScanRanks ==
  ASSUME NEW map, IsMap(map)
  PROVE  IsRanked({r \in Range(map) : Threatens(r)}, Scan(map))
<1> DEFINE n == Len(map)
           whole == CHOOSE pass : IsPass(map, pass, n)
<1>1. n \in Nat /\ map \in Seq(RivalSeen)
  BY DEF IsMap
<1>2. PICK pass : IsPass(map, pass, n) /\ IsRanked(ThreatsTo(map, n), pass[n])
  <2>1. n \in 0 .. n
    BY <1>1
  <2> QED
    BY <2>1, PassRanks
<1>3. IsPass(map, whole, n)
  BY <1>2
<1>4. Scan(map) = whole[n]
  BY DEF Scan, IsPass
<1>5. whole = pass
  BY <1>1, <1>2, <1>3, PassIsOne
<1>6. {map[k] : k \in 1 .. n} = Range(map)
  BY <1>1 DEF Range
<1> QED
  BY <1>2, <1>4, <1>5, <1>6 DEF ThreatsTo

\* The first of some rivals of a map is the one that CHOOSE takes.
LEMMA FirstIsChosen ==
  ASSUME NEW rs \in SUBSET RivalSeen, NEW id, IsFirst(rs, id)
  PROVE  id = IF rs = {} THEN NoRival
              ELSE (CHOOSE r \in rs : \A s \in rs \ {r} : ComesBefore(r, s)).id
<1>1. CASE rs = {}
  BY <1>1 DEF IsFirst
<1>2. CASE rs # {}
  <2>1. PICK t \in rs : t.id = id /\ \A s \in rs \ {t} : ComesBefore(t, s)
    BY <1>2 DEF IsFirst
  <2>2. ASSUME NEW r \in rs, \A s \in rs \ {r} : ComesBefore(r, s) PROVE r = t
    BY <2>1, <2>2, ThreatOrder
  <2> DEFINE first == CHOOSE r \in rs : \A s \in rs \ {r} : ComesBefore(r, s)
  <2>3. first = t
    BY <2>1, <2>2
  <2> HIDE DEF first
  <2>4. id = first.id
    BY <2>1, <2>3
  <2>5. id = IF rs = {} THEN NoRival ELSE first.id
    BY <1>2, <2>4
  <2> QED
    BY <2>5 DEF first
<1> QED
  BY <1>1, <1>2

\* So the threats are ranked, in every map (fighterThreatNetId).
LEMMA MapIsRanked ==
  ASSUME IsMap(rivals)
  PROVE  ThreatsAreRanked
<1> DEFINE found == Scan(rivals)
           further == {r \in Threats : r.id # found.best}
<1>1. IsRanked(Threats, found)
  BY ScanRanks DEF Threats
<1>2. Threats \subseteq RivalSeen /\ further \subseteq RivalSeen
  BY DEF Threats, Range, IsMap
<1> HIDE DEF found
<1>3. /\ found.count = Cardinality(Threats)
      /\ IsFirst(Threats, found.best) /\ IsFirst(further, found.second)
  BY <1>1 DEF IsRanked
<1> HIDE DEF further
<1>4. /\ found.best = IF Threats = {} THEN NoRival
                      ELSE (CHOOSE r \in Threats : \A s \in Threats \ {r} : ComesBefore(r, s)).id
      /\ found.second = IF further = {} THEN NoRival
                        ELSE (CHOOSE r \in further :
                                \A s \in further \ {r} : ComesBefore(r, s)).id
  BY <1>2, <1>3, FirstIsChosen
<1> QED
  BY <1>3, <1>4 DEF ThreatsAreRanked, found, further

\* Who is found is a rival that threatens; a second one makes two (fighterThreatNetId).
LEMMA FoundThreatens ==
  ASSUME IsMap(rivals)
  PROVE  LET found == Scan(rivals)
         IN /\ found.count \in Nat
            /\ found.best # NoRival => StanceOf(rivals, found.best) \in Windups \cup Blows
            /\ found.second # NoRival => found.best # NoRival /\ found.count > 1
<1> DEFINE found == Scan(rivals)
           further == {r \in Threats : r.id # found.best}
<1>1. IsRanked(Threats, found)
  BY ScanRanks DEF Threats
<1> HIDE DEF found
<1>2. /\ IsFiniteSet(Threats) /\ found.count = Cardinality(Threats) /\ found.count \in Nat
      /\ IsFirst(Threats, found.best) /\ IsFirst(further, found.second)
  BY <1>1, FS_CardinalityType DEF IsRanked
<1>3. \A r \in Threats : Threatens(r) /\ StanceOf(rivals, r.id) = r.stance /\ r.id # NoRival
  <2> SUFFICES ASSUME NEW r \in Threats
               PROVE  Threatens(r) /\ StanceOf(rivals, r.id) = r.stance /\ r.id # NoRival
    OBVIOUS
  <2>1. Threatens(r) /\ r \in Range(rivals)
    BY DEF Threats
  <2>2. PICK k \in 1 .. Len(rivals) : r = rivals[k]
    BY <2>1 DEF Range, IsMap
  <2> QED
    BY <2>1, <2>2, RivalIsNamed
<1>4. ASSUME found.best # NoRival PROVE StanceOf(rivals, found.best) \in Windups \cup Blows
  <2>1. PICK r \in Threats : r.id = found.best
    BY <1>2, <1>4 DEF IsFirst
  <2> QED
    BY <1>3, <2>1 DEF Threatens
<1>5. ASSUME found.second # NoRival PROVE found.best # NoRival /\ found.count > 1
  <2>1. PICK s \in further : s.id = found.second
    BY <1>2, <1>5 DEF IsFirst
  <2>2. PICK r \in Threats : r.id = found.best
    BY <1>2, <2>1 DEF IsFirst
  <2>3. s \in Threats /\ s # r
    BY <2>1, <2>2
  <2>4. IsFiniteSet({r, s}) /\ Cardinality({r, s}) = 2
    <3> DEFINE one == {r}
    <3>1. IsFiniteSet(one) /\ Cardinality(one) = 1 /\ s \notin one
      BY <2>3, FS_Singleton
    <3>2. one \cup {s} = {r, s}
      OBVIOUS
    <3> HIDE DEF one
    <3>3. IsFiniteSet(one \cup {s}) /\ Cardinality(one \cup {s}) = 2
      BY <3>1, FS_AddElement
    <3> QED
      BY <3>2, <3>3
  <2>5. Cardinality({r, s}) <= Cardinality(Threats)
    BY <1>2, <2>2, <2>3, FS_Subset
  <2>6. found.count > 1
    BY <1>2, <2>4, <2>5
  <2> QED
    BY <1>3, <2>2, <2>6
<1> QED
  BY <1>2, <1>4, <1>5 DEF found

\* Wherever the strike of a committed jump ranks, the cue has it beside the most
\* immediate threat (updateThreatCue).
LEMMA CueShows ==
  ASSUME IsMap(rivals), NEW kept \in Latch,
         kept.id = NoRival => kept = NoLatch
  PROVE  LET found == Scan(rivals)
             cue == CuePresentation(WithLatch(found, kept))
         IN /\ found.best \in {NoRival, cue.id, cue.next}
            /\ StanceOf(rivals, kept.id) = "jump strike" => kept.id \in {cue.id, cue.next}
<1> DEFINE found == Scan(rivals)
           with == WithLatch(found, kept)
           cue == CuePresentation(with)
           Warned(id) == StanceOf(rivals, id) \in Windups \cup Blows
<1>1. /\ found.count \in Nat
      /\ found.best # NoRival => Warned(found.best)
      /\ found.second # NoRival => found.best # NoRival /\ found.count > 1
  BY FoundThreatens
<1>2. "" \notin Windups \cup Blows /\ "strike" # "" /\ "windup" # "" /\ "jump strike" \in Blows
  BY DEF Windups, Blows
<1>3. \A id : Warned(id) => /\ ThreatPhase(id) \in Windups \cup Blows
                       /\ ThreatState(ThreatPhase(id)) # ""
  BY <1>2 DEF ThreatPhase, ThreatState
<1>4. ASSUME NEW w, w.best # NoRival, Warned(w.best)
      PROVE  /\ CuePresentation(w).id = w.best
             /\ w.count > 1 /\ w.second # NoRival => CuePresentation(w).next = w.second
  BY <1>3, <1>4 DEF CuePresentation
<1> HIDE DEF found, Warned
<1>5. StanceOf(rivals, NoRival) = "other"
  <2>1. \A r \in Range(rivals) : r.id # NoRival
    BY RivalIsNamed DEF Range, IsMap
  <2> QED
    BY <2>1 DEF StanceOf
<1>6. ASSUME StanceOf(rivals, kept.id) = "jump strike"
      PROVE  kept.id # NoRival /\ kept # NoLatch /\ Warned(kept.id)
  <2>1. kept.id # NoRival
    BY <1>5, <1>6
  <2>2. NoLatch.id = NoRival
    BY DEF NoLatch
  <2>3. Warned(kept.id)
    BY <1>2, <1>6 DEF Warned
  <2> QED
    BY <2>1, <2>2, <2>3
<1>7. CASE ~LeftOut(found, kept)
  <2>1. with = found
    BY <1>7 DEF WithLatch
  <2>2. found.best \in {NoRival, cue.id, cue.next}
    BY <1>1, <1>4, <2>1
  <2>3. ASSUME StanceOf(rivals, kept.id) = "jump strike" PROVE kept.id \in {cue.id, cue.next}
    <3>1. kept.id \in {found.best, found.second} /\ kept.id # NoRival
      BY <1>6, <1>7, <2>3 DEF LeftOut
    <3>2. found.best # NoRival /\ Warned(found.best)
      BY <1>1, <3>1
    <3>3. cue.id = found.best
      BY <1>4, <2>1, <3>2
    <3>4. CASE kept.id = found.second
      <4>1. found.second # NoRival /\ found.count > 1
        BY <1>1, <3>1, <3>4
      <4> QED
        BY <1>4, <2>1, <3>2, <3>4, <4>1
    <3> QED
      BY <3>1, <3>3, <3>4
  <2> QED
    BY <2>2, <2>3 DEF found
<1>8. CASE LeftOut(found, kept)
  <2>1. kept # NoLatch /\ kept.id # NoRival /\ Warned(kept.id)
    BY <1>6, <1>8 DEF LeftOut
  <2>2. CASE found.best = NoRival
    <3>1. with.best = kept.id
      BY <1>8, <2>2 DEF WithLatch
    <3>2. cue.id = kept.id
      BY <1>4, <2>1, <3>1
    <3> QED
      BY <2>2, <3>2 DEF found
  <2>3. CASE found.best # NoRival
    <3>1. with = [best   |-> IF kept.primary THEN kept.id ELSE found.best,
                  second |-> IF kept.primary THEN found.best ELSE kept.id,
                  count  |-> AtLeast(2, found.count)]
      BY <1>8, <2>3 DEF WithLatch
    <3>2. AtLeast(2, found.count) > 1
      BY <1>1 DEF AtLeast
    <3>3. /\ with.best = IF kept.primary THEN kept.id ELSE found.best
          /\ with.second = IF kept.primary THEN found.best ELSE kept.id
          /\ with.count > 1
      BY <3>1, <3>2
    <3> HIDE DEF with
    <3>4. {with.best, with.second} = {kept.id, found.best} /\ with.best # NoRival
          /\ with.second # NoRival /\ Warned(with.best)
      BY <1>1, <2>1, <2>3, <3>3
    <3>5. cue.id = with.best /\ cue.next = with.second
      BY <1>4, <3>3, <3>4
    <3> HIDE DEF cue
    <3>6. kept.id \in {cue.id, cue.next} /\ found.best \in {cue.id, cue.next}
      BY <3>4, <3>5
    <3> QED
      BY <3>6 DEF found, cue, with
  <2> QED
    BY <2>2, <2>3
<1> QED
  BY <1>7, <1>8

\* Who is found is a rival of the map (fighterThreatNetId).
LEMMA FoundIsRival ==
  ASSUME NEW map, IsMap(map)
  PROVE  Scan(map).best \in Rival \cup {NoRival} /\ Scan(map).second \in Rival \cup {NoRival}
<1> DEFINE found == Scan(map)
           rs == {r \in Range(map) : Threatens(r)}
           further == {r \in rs : r.id # found.best}
<1>1. IsRanked(rs, found)
  BY ScanRanks
<1>2. \A r \in rs : r.id \in Rival
  <2> SUFFICES ASSUME NEW r \in rs PROVE r.id \in Rival
    OBVIOUS
  <2>1. PICK k \in 1 .. Len(map) : r = map[k]
    BY DEF Range, IsMap
  <2> QED
    BY <2>1, RivalIsNamed
<1> HIDE DEF found, rs
<1>3. IsFirst(rs, found.best) /\ IsFirst(further, found.second)
  BY <1>1 DEF IsRanked
<1>4. found.best \in Rival \cup {NoRival}
  BY <1>2, <1>3 DEF IsFirst
<1>5. found.second \in Rival \cup {NoRival}
  BY <1>2, <1>3 DEF IsFirst
<1> QED
  BY <1>4, <1>5 DEF found

\* A map without one of its rivals is a map (a fighter that left the zone).
LEMMA RemoveKeepsMap ==
  ASSUME NEW map, IsMap(map), NEW i \in DOMAIN map
  PROVE  IsMap(RemoveAt(map, i))
<1> DEFINE low == SubSeq(map, 1, i - 1)
           high == SubSeq(map, i + 1, Len(map))
           n == Len(map)
           rest == low \o high
           From(k) == IF k < i THEN k ELSE k + 1
<1>1. /\ map \in Seq(RivalSeen) /\ n \in Nat /\ i \in 1 .. n
      /\ \A k \in 1 .. n : map[k] \in RivalSeen
  BY DEF IsMap
<1>2. /\ low \in Seq(RivalSeen) /\ Len(low) = i - 1
      /\ \A k \in 1 .. i - 1 : low[k] = map[k]
  <2>1. \A k \in 1 .. i - 1 : map[k] \in RivalSeen
    BY <1>1
  <2>2. /\ low \in Seq(RivalSeen)
        /\ Len(low) = IF 1 <= i - 1 THEN (i - 1) - 1 + 1 ELSE 0
        /\ \A k \in 1 .. (i - 1) - 1 + 1 : low[k] = map[1 + k - 1]
    BY <1>1, <2>1, SubSeqProperties
  <2> HIDE DEF low
  <2> QED
    BY <1>1, <2>2
<1>3. /\ high \in Seq(RivalSeen) /\ Len(high) = n - i
      /\ \A k \in 1 .. n - i : high[k] = map[i + k]
  <2>1. \A k \in i + 1 .. n : map[k] \in RivalSeen
    BY <1>1
  <2>2. /\ high \in Seq(RivalSeen)
        /\ Len(high) = IF i + 1 <= n THEN n - (i + 1) + 1 ELSE 0
        /\ \A k \in 1 .. n - (i + 1) + 1 : high[k] = map[i + 1 + k - 1]
    BY <1>1, <2>1, SubSeqProperties
  <2> HIDE DEF high
  <2> QED
    BY <1>1, <2>2
<1> HIDE DEF low, high
<1>4. /\ rest \in Seq(RivalSeen) /\ Len(rest) = n - 1
      /\ \A k \in 1 .. n - 1 : rest[k] = IF k <= i - 1 THEN low[k] ELSE high[k - (i - 1)]
  <2>1. /\ rest \in Seq(RivalSeen) /\ Len(rest) = Len(low) + Len(high)
        /\ \A k \in 1 .. Len(low) + Len(high) :
             rest[k] = IF k <= Len(low) THEN low[k] ELSE high[k - Len(low)]
    BY <1>2, <1>3, ConcatProperties
  <2>2. Len(low) = i - 1 /\ Len(low) + Len(high) = n - 1
    BY <1>1, <1>2, <1>3
  <2> HIDE DEF rest
  <2> QED
    BY <2>1, <2>2
<1> HIDE DEF rest
<1>5. ASSUME NEW k \in 1 .. n - 1
      PROVE  From(k) \in 1 .. n /\ rest[k] = map[From(k)]
  <2>1. CASE k < i
    <3>1. k \in 1 .. i - 1 /\ k <= i - 1 /\ k \in 1 .. n
      BY <1>1, <2>1
    <3> QED
      BY <1>2, <1>4, <2>1, <3>1
  <2>2. CASE k >= i
    <3>1. /\ ~(k <= i - 1) /\ ~(k < i) /\ k - (i - 1) \in 1 .. n - i
          /\ i + (k - (i - 1)) = k + 1 /\ k + 1 \in 1 .. n
      BY <1>1, <2>2
    <3> QED
      BY <1>3, <1>4, <3>1
  <2> QED
    BY <1>1, <2>1, <2>2
<1>6. \A j, k \in 1 .. n - 1 : From(j) = From(k) => j = k
  BY <1>1
<1>7. \A j, k \in 1 .. n : map[j].id = map[k].id => j = k
  BY DEF IsMap
<1> HIDE DEF From
<1>8. ASSUME NEW j \in 1 .. n - 1, NEW k \in 1 .. n - 1, rest[j].id = rest[k].id
      PROVE  j = k
  <2>1. map[From(j)].id = map[From(k)].id
    BY <1>5, <1>8
  <2>2. From(j) = From(k)
    BY <1>5, <1>7, <2>1
  <2> QED
    BY <1>6, <2>2
<1>9. IsMap(rest)
  BY <1>4, <1>8 DEF IsMap
<1> QED
  BY <1>9 DEF RemoveAt, rest, low, high

\* The map of a snapshot has one place for a rival, as the one before had
\* (syncFighters).
LEMMA SnapshotKeepsMap ==
  ASSUME IsMap(rivals), NEW seen \in NextRivals
  PROVE  IsMap(seen)
<1> DEFINE Known(r) == \E s \in Range(rivals) : s.id = r.id
           Place(r) == [i \in DOMAIN rivals |-> IF rivals[i].id = r.id THEN r ELSE rivals[i]]
<1>1. /\ rivals \in Seq(RivalSeen) /\ Len(rivals) \in Nat /\ DOMAIN rivals = 1 .. Len(rivals)
      /\ \A i, j \in 1 .. Len(rivals) : rivals[i].id = rivals[j].id => i = j
  BY DEF IsMap
<1>2. CASE seen = rivals
  BY <1>2
<1>3. ASSUME NEW i \in DOMAIN rivals, seen = RemoveAt(rivals, i) PROVE IsMap(seen)
  BY <1>3, RemoveKeepsMap
<1>4. ASSUME NEW r \in RivalSeen, seen = IF Known(r) THEN Place(r) ELSE Append(rivals, r)
      PROVE  IsMap(seen)
  <2>1. CASE Known(r)
    <3>1. seen = Place(r)
      BY <1>4, <2>1
    <3>2. seen \in Seq(RivalSeen) /\ Len(seen) = Len(rivals)
      BY <1>1, <3>1
    <3>3. \A i \in 1 .. Len(rivals) : seen[i].id = rivals[i].id
      BY <1>1, <3>1
    <3> QED
      BY <1>1, <3>2, <3>3 DEF IsMap
  <2>2. CASE ~Known(r)
    <3>1. seen = Append(rivals, r)
      BY <1>4, <2>2
    <3>2. /\ seen \in Seq(RivalSeen) /\ Len(seen) = Len(rivals) + 1
          /\ \A i \in 1 .. Len(rivals) : seen[i] = rivals[i]
          /\ seen[Len(rivals) + 1] = r
      BY <1>1, <3>1
    <3>3. \A i \in 1 .. Len(rivals) : rivals[i].id # r.id
      BY <1>1, <2>2 DEF Range
    <3>4. \A i \in 1 .. Len(rivals) + 1 : i \in 1 .. Len(rivals) \/ i = Len(rivals) + 1
      BY <1>1
    <3> QED
      BY <1>1, <3>2, <3>3, <3>4 DEF IsMap
  <2> QED
    BY <2>1, <2>2
<1> QED
  BY <1>2, <1>3, <1>4 DEF NextRivals

\* A frame paints what it asks for, when the page stands as it is remembered.
LEMMA PaintsWhatIsAsked ==
  ASSUME painted = cache, NEW found
  PROVE  PaintCue(CuePresentation(found)) = CuePresentation(found)
<1> DEFINE now == CuePresentation(found)
<1>1. CASE now = HiddenCue
  BY <1>1 DEF PaintCue
<1>2. CASE now # HiddenCue
  <2>1. now = [id |-> now.id, phase |-> now.phase, state |-> now.state, count |-> now.count,
               next |-> now.next, nextPhase |-> now.nextPhase]
    BY <1>2 DEF CuePresentation
  <2> HIDE DEF now
  <2>2. PhasePainted(now) = now.phase
    BY DEF PhasePainted
  <2> DEFINE write(label, nothing) ==
               IF now[label] = nothing THEN nothing
               ELSE IF cache[label] # now[label] THEN now[label] ELSE painted[label]
             drawn == [id |-> IF cache.id # now.id THEN now.id ELSE painted.id,
                         state |-> now.state, phase |-> PhasePainted(now),
                         count |-> write("count", 0), next |-> write("next", NoRival),
                         nextPhase |-> write("nextPhase", "")]
  <2>3. /\ write("count", 0) = now.count /\ write("next", NoRival) = now.next
        /\ write("nextPhase", "") = now.nextPhase
    OBVIOUS
  <2>4. (IF cache.id # now.id THEN now.id ELSE painted.id) = now.id
    OBVIOUS
  <2>5. PaintCue(now) = drawn
    BY <1>2 DEF PaintCue
  <2> HIDE DEF write
  <2>6. drawn = now
    BY <2>1, <2>2, <2>3, <2>4
  <2> HIDE DEF drawn
  <2>7. PaintCue(now) = now
    BY <2>5, <2>6
  <2> QED
    BY <2>7 DEF now
<1> QED
  BY <1>1, <1>2

\* In the beginning nothing threatens.
LEMMA CueInvInit ==
  ASSUME ThreatInit
  PROVE  CueInv
<1>1. IsMap(rivals)
  BY DEF ThreatInit, IsMap
<1>2. latch \in Latch /\ latch = NoLatch
  BY DEF ThreatInit, Latch, NoLatch
<1> DEFINE found == Scan(rivals)
<1>3. IsRanked({r \in Range(rivals) : Threatens(r)}, found)
  BY <1>1, ScanRanks
<1>4. {r \in Range(rivals) : Threatens(r)} = {}
  BY DEF ThreatInit, Range
<1> HIDE DEF found
<1>5. found.best = NoRival
  BY <1>3, <1>4 DEF IsRanked, IsFirst
<1>6. WithLatch(found, latch) = found
  BY <1>2 DEF WithLatch, LeftOut
<1>7. CuePresentation(found) = HiddenCue
  BY <1>5 DEF CuePresentation
<1>8. painted = CuePresentation(WithLatch(found, latch)) /\ painted = cache
  BY <1>6, <1>7 DEF ThreatInit
<1> QED
  BY <1>1, <1>2, <1>8 DEF CueInv, found

\* What the cue should say depends on the rivals and the latch only.
LEMMA SameCue ==
  ASSUME rivals' = rivals, NEW kept, latch' = kept
  PROVE  CuePresentation(WithLatch(Scan(rivals), latch))'
           = CuePresentation(WithLatch(Scan(rivals), kept))
BY DEF CuePresentation, ThreatPhase, WithLatch, LeftOut

\* A snapshot, and a frame, keep it.
LEMMA CueInvStep ==
  ASSUME CueInv, [ThreatNext]_threatVars
  PROVE  CueInv'
<1>1. ASSUME NEW seen \in NextRivals, ObserveRivals(seen) PROVE CueInv'
  <2>1. IsMap(seen) /\ rivals' = seen
    BY <1>1, SnapshotKeepsMap DEF CueInv, ObserveRivals
  <2> DEFINE found == Scan(seen)
             taken == CommitJump(seen, found)
  <2>2. found.best \in Rival \cup {NoRival} /\ found.second \in Rival \cup {NoRival}
    BY <2>1, FoundIsRival
  <2> HIDE DEF found
  <2>3. \/ taken = latch
        \/ found.best # NoRival /\ taken = [id |-> found.best, primary |-> TRUE]
        \/ found.second # NoRival /\ taken = [id |-> found.second, primary |-> FALSE]
    BY DEF CommitJump
  <2> HIDE DEF taken
  <2>4. taken \in Latch /\ (taken.id = NoRival => taken = NoLatch)
    <3>1. \A id \in Rival \cup {NoRival} : [id |-> id, primary |-> TRUE] \in Latch
                                         /\ [id |-> id, primary |-> FALSE] \in Latch
      BY DEF Latch
    <3>2. CASE taken = latch
      BY <3>2 DEF CueInv
    <3>3. CASE found.best # NoRival /\ taken = [id |-> found.best, primary |-> TRUE]
      <4>1. taken.id = found.best /\ taken \in Latch
        BY <2>2, <3>1, <3>3
      <4> QED
        BY <3>3, <4>1
    <3>4. CASE found.second # NoRival /\ taken = [id |-> found.second, primary |-> FALSE]
      <4>1. taken.id = found.second /\ taken \in Latch
        BY <2>2, <3>1, <3>4
      <4> QED
        BY <3>4, <4>1
    <3> QED
      BY <2>3, <3>2, <3>3, <3>4
  <2>5. latch' = taken /\ current' = FALSE /\ painted' = painted /\ cache' = cache
    BY <1>1 DEF ObserveRivals, taken, found
  <2> QED
    BY <2>1, <2>4, <2>5 DEF CueInv
<1>2. CASE PaintFrame
  <2> DEFINE now == CuePresentation(WithLatch(Scan(rivals), LatchNow))
  <2>1. /\ latch' = LatchNow /\ painted' = PaintCue(now) /\ cache' = now
        /\ rivals' = rivals /\ current' = TRUE
    BY <1>2 DEF PaintFrame
  <2>2. PaintCue(now) = now
    BY PaintsWhatIsAsked DEF CueInv
  <2>3. CuePresentation(WithLatch(Scan(rivals), latch))' = now
    BY <2>1, SameCue
  <2>4. LatchNow \in Latch /\ (LatchNow.id = NoRival => LatchNow = NoLatch)
    BY DEF CueInv, LatchNow, Latch, NoLatch
  <2>5. IsMap(rivals)'
    BY <2>1 DEF CueInv
  <2> HIDE DEF now
  <2> QED
    BY <2>1, <2>2, <2>3, <2>4, <2>5 DEF CueInv
<1>3. CASE UNCHANGED threatVars
  <2>1. /\ rivals' = rivals /\ latch' = latch /\ painted' = painted /\ cache' = cache
        /\ current' = current
    BY <1>3 DEF threatVars
  <2>2. CuePresentation(WithLatch(Scan(rivals), latch))'
          = CuePresentation(WithLatch(Scan(rivals), latch))
    BY <2>1, SameCue
  <2> QED
    BY <2>1, <2>2 DEF CueInv
<1> QED
  BY <1>1, <1>2, <1>3 DEF ThreatNext

\* The cue of a frame names the threats that there are, and stands on the page as the
\* frame asks for it, however many rivals there are (updateThreatCue).
THEOREM TheCueShowsThreats == ThreatSpec => []CueShowsThreats
<1>1. ThreatInit => CueInv
  BY CueInvInit
<1>2. CueInv /\ [ThreatNext]_threatVars => CueInv'
  BY CueInvStep
<1>3. CueInv => CueShowsThreats
  <2> SUFFICES ASSUME CueInv PROVE CueShowsThreats
    OBVIOUS
  <2>1. ThreatsAreRanked
    BY MapIsRanked DEF CueInv
  <2>2. ThreatsAreShown
    <3> DEFINE cue == CuePresentation(WithLatch(Scan(rivals), latch))
    <3>1. /\ Scan(rivals).best \in {NoRival, cue.id, cue.next}
          /\ StanceOf(rivals, latch.id) = "jump strike" => latch.id \in {cue.id, cue.next}
      BY CueShows DEF CueInv
    <3>2. current => painted = cue
      BY DEF CueInv
    <3> HIDE DEF cue
    <3> QED
      BY <3>1, <3>2 DEF ThreatsAreShown
  <2>3. CueIsCurrent
    BY DEF CueInv, CueIsCurrent
  <2> QED
    BY <2>1, <2>2, <2>3 DEF CueShowsThreats
<1> QED
  BY <1>1, <1>2, <1>3, PTL DEF ThreatSpec
=============================================================================

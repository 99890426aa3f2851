----------------------------- MODULE GameAudio -----------------------------
(***************************************************************************)
(* The sound of the page, src/browser/game-audio.mjs: an audio context that *)
(* a gesture opens, recorded effects that two background workers load and   *)
(* decode, one music element with a list of tracks, and dispose, which may  *)
(* come while a fetch or a decode is under way.  Loudness, panning, and the *)
(* synthesis of an effect are left out.                                     *)
(***************************************************************************)
EXTENDS Integers, FiniteSets

CONSTANTS
  Samples,  \* the recorded effects, numbered
  Workers,  \* the two workers of ensureFoleyWarmup
  Tracks    \* MUSIC_TRACKS

ASSUME AudioAssumption == Samples \in Nat /\ Tracks \in Nat \ {0} /\ IsFiniteSet(Workers)

VARIABLES
  context,   \* the AudioContext: "none", "open", or "closed" by dispose
  settings,  \* muted, musicEnabled, and whether volume and musicVolume are above zero
  music,     \* musicTrack: "none", "paused" or "playing", and musicIndex
  hidden,    \* external: document.hidden
  disposed,
  warmup,    \* the next sample, and what each worker is at
  loaded,    \* loadedSamples
  voice      \* whether the last call started an effect

audioVars == <<context, settings, music, hidden, disposed, warmup, loaded, voice>>

NotStarted == -1
AtWork == {"fetching", "decoding"}

AudioInit ==
  /\ context = "none" /\ loaded = {} /\ disposed = FALSE /\ voice = FALSE
  \* what the page stored the last time
  /\ settings \in [muted : BOOLEAN, loud : BOOLEAN, music : BOOLEAN, musicLoud : BOOLEAN]
  /\ music = [track |-> "none", index |-> 0]
  /\ hidden \in BOOLEAN
  /\ warmup = [next |-> NotStarted, at |-> [w \in Workers |-> "idle"], sample |-> [w \in Workers |-> 0]]

----------------------------------------------------------------------------
(* Music *)

\* The form that does not ask whether the page is hidden.
SyncedHidden(track, set, away) ==
  IF track = "none" THEN "none"
  ELSE IF ~set.music \/ ~set.musicLoud THEN "paused" ELSE "playing"

\* syncMusic; the browser may refuse to play, and the track stays paused
Synced(track, set, away) ==
  IF track = "none" THEN "none"
  ELSE IF ~set.music \/ away \/ ~set.musicLoud THEN "paused" ELSE "playing"

SyncMusic(track, set, away) ==
  \E refused \in BOOLEAN :
    music' = [music EXCEPT !.track =
                IF refused /\ track = "paused" THEN "paused" ELSE Synced(track, set, away)]

SetMusic(on) ==
  /\ ~disposed
  /\ settings' = [settings EXCEPT !.music = on]
  /\ SyncMusic(IF on /\ music.track = "none" THEN "paused" ELSE music.track, settings', hidden)
  /\ voice' = FALSE
  /\ UNCHANGED <<context, hidden, disposed, warmup, loaded>>

SetMusicVolume(loud) ==
  /\ ~disposed
  /\ settings' = [settings EXCEPT !.musicLoud = loud]
  /\ SyncMusic(music.track, settings', hidden)
  /\ voice' = FALSE
  /\ UNCHANGED <<context, hidden, disposed, warmup, loaded>>

\* a track that ends, or the button: the element is paused, and synced again
NextTrack ==
  /\ ~disposed
  /\ \E refused \in BOOLEAN :
       music' = [index |-> (music.index + 1) % Tracks,
                 track |-> IF music.track = "none" \/ refused
                           THEN IF music.track = "none" THEN "none" ELSE "paused"
                           ELSE Synced("paused", settings, hidden)]
  /\ voice' = FALSE
  /\ UNCHANGED <<context, settings, hidden, disposed, warmup, loaded>>

\* the page is hidden or shown, and tells suspendMusicWhenHidden
AudioVisibility ==
  /\ hidden' = ~hidden
  /\ SyncMusic(music.track, settings, hidden')
  /\ voice' = FALSE
  /\ UNCHANGED <<context, settings, disposed, warmup, loaded>>

----------------------------------------------------------------------------
(* Effects *)

\* ensureFoleyWarmup; the browser may not know how to decode
Warmed(decodes) ==
  IF decodes /\ warmup.next = NotStarted
  THEN [warmup EXCEPT !.next = 1, !.at = [w \in Workers |-> "free"]]
  ELSE warmup

\* unlock, by a gesture; a browser may have no AudioContext to open
Unlock(opens, decodes) ==
  /\ ~disposed
  /\ IF settings.music /\ music.track = "none" THEN SyncMusic("paused", settings, hidden)
     ELSE UNCHANGED music
  /\ context' = IF opens THEN "open" ELSE context
  /\ warmup' = IF context' = "open" THEN Warmed(decodes) ELSE warmup
  /\ voice' = FALSE
  /\ UNCHANGED <<settings, hidden, disposed, loaded>>

SetEffects(muted, loud) ==
  /\ ~disposed
  /\ settings' = [settings EXCEPT !.muted = muted, !.loud = loud]
  /\ voice' = FALSE
  /\ UNCHANGED <<context, music, hidden, disposed, warmup, loaded>>

\* play; the throttle of a cue may hold it back
Play ==
  /\ voice' \in IF disposed \/ settings.muted \/ ~settings.loud \/ context # "open" \/ hidden
                THEN {FALSE} ELSE BOOLEAN
  /\ UNCHANGED <<context, settings, music, hidden, disposed, warmup, loaded>>

\* A worker takes the next sample, or none is left.
TakeSample(w) ==
  /\ warmup.at[w] = "free" /\ ~disposed /\ warmup.next <= Samples
  /\ warmup' = [warmup EXCEPT !.next = @ + 1, !.at[w] = "fetching", !.sample[w] = warmup.next]
  /\ voice' = FALSE
  /\ UNCHANGED <<context, settings, music, hidden, disposed, loaded>>

\* The bytes have come: they are decoded, unless the sound was disposed of meanwhile.
Fetched(w) ==
  /\ warmup.at[w] = "fetching"
  /\ warmup' = [warmup EXCEPT !.at[w] = IF disposed THEN "free" ELSE "decoding"]
  /\ voice' = FALSE
  /\ UNCHANGED <<context, settings, music, hidden, disposed, loaded>>

\* The form that keeps a buffer that comes after dispose.
KeptAnyway(w) == loaded \cup {warmup.sample[w]}
Kept(w) == IF disposed THEN loaded ELSE loaded \cup {warmup.sample[w]}

Decoded(w) ==
  /\ warmup.at[w] = "decoding"
  /\ loaded' = Kept(w)
  /\ warmup' = [warmup EXCEPT !.at[w] = "free"]
  /\ voice' = FALSE
  /\ UNCHANGED <<context, settings, music, hidden, disposed>>

\* A sample that is missing, broken or aborted is passed over.
LoadFails(w) ==
  /\ warmup.at[w] \in AtWork
  /\ warmup' = [warmup EXCEPT !.at[w] = "free"]
  /\ voice' = FALSE
  /\ UNCHANGED <<context, settings, music, hidden, disposed, loaded>>

Dispose ==
  /\ ~disposed
  /\ disposed' = TRUE
  /\ context' = IF context = "open" THEN "closed" ELSE context
  /\ music' = [music EXCEPT !.track = "none"]
  /\ loaded' = {}
  /\ voice' = FALSE
  /\ UNCHANGED <<settings, hidden, warmup>>

AudioNext ==
  \/ \E on \in BOOLEAN : SetMusic(on) \/ SetMusicVolume(on)
  \/ NextTrack \/ AudioVisibility \/ Play \/ Dispose
  \/ \E opens, decodes \in BOOLEAN : Unlock(opens, decodes)
  \/ \E muted, loud \in BOOLEAN : SetEffects(muted, loud)
  \/ \E w \in Workers : TakeSample(w) \/ Fetched(w) \/ Decoded(w) \/ LoadFails(w)

AudioSpec == AudioInit /\ [][AudioNext]_audioVars

----------------------------------------------------------------------------
\* tests/r4-natural-ambient-audio: music plays only while the player has turned it on, its
\* volume is up and the page is in view, whichever of the five entry points came last; and
\* what was under way when the sound was disposed of leaves nothing behind, no buffer, no
\* voice and no open context.  No sample is fetched twice, so no more than the workers run.
SoundIsAskedFor ==
  /\ music.track = "playing" => settings.music /\ settings.musicLoud /\ ~hidden /\ ~disposed
  /\ disposed => loaded = {} /\ ~voice /\ context # "open"
  /\ \A v, w \in Workers :
       v # w /\ warmup.at[v] \in AtWork /\ warmup.at[w] \in AtWork
         => warmup.sample[v] # warmup.sample[w]
=============================================================================

---------------------------- MODULE MCPageParts ----------------------------
(* Parts of the page that share no state with one another, each on a small   *)
(* instance of its own: a behaviour runs the one that `part` names.          *)
EXTENDS Prediction, StaminaDenial, ThreatCue, FocusHud, MatchHud, GameAudio,
        SnapshotWire, Transport, SparringAi, Flights, MCActions

VARIABLE part

pageVars == <<predictionVars, denialVars, threatVars, hudVars, matchVars, audioVars,
              wireVars, transportVars, sparringVars, flightVars>>

Part == {"prediction", "denial", "threat", "focus", "match", "audio", "wire",
         "transport", "sparring", "flight"}

\* A part that is not run starts in one of its states.
BrowserInit ==
  /\ part \in Part
  /\ PredictionInit /\ DenialInit /\ ThreatInit /\ HudInit /\ MatchInit /\ AudioInit
  /\ WireInit /\ TransportInit /\ SparringInit /\ FlightInit
  /\ part # "denial" => server.stamina = 0
  /\ part # "audio" => ~hidden /\ \A s \in DOMAIN settings : ~settings[s]
  /\ part # "wire" => encoding = 1
  /\ part # "transport" => ~congested
  /\ part # "flight" => flight.name = "ui"

In(name, Step) == part = name /\ Step /\ UNCHANGED part

PagePrediction ==
  /\ In("prediction", PredictionNext)
  /\ UNCHANGED <<denialVars, threatVars, hudVars, matchVars, audioVars, wireVars,
                 transportVars, sparringVars, flightVars>>

PageDenial ==
  /\ In("denial", DenialNext)
  /\ UNCHANGED <<predictionVars, threatVars, hudVars, matchVars, audioVars, wireVars,
                 transportVars, sparringVars, flightVars>>

PageThreat ==
  /\ In("threat", ThreatNext)
  /\ UNCHANGED <<predictionVars, denialVars, hudVars, matchVars, audioVars, wireVars,
                 transportVars, sparringVars, flightVars>>

PageFocus ==
  /\ In("focus", HudNext)
  /\ UNCHANGED <<predictionVars, denialVars, threatVars, matchVars, audioVars, wireVars,
                 transportVars, sparringVars, flightVars>>

PageMatch ==
  /\ In("match", MatchNext)
  /\ UNCHANGED <<predictionVars, denialVars, threatVars, hudVars, audioVars, wireVars,
                 transportVars, sparringVars, flightVars>>

PageAudio ==
  /\ In("audio", AudioNext)
  /\ UNCHANGED <<predictionVars, denialVars, threatVars, hudVars, matchVars, wireVars,
                 transportVars, sparringVars, flightVars>>

PageWire ==
  /\ In("wire", WireNext)
  /\ UNCHANGED <<predictionVars, denialVars, threatVars, hudVars, matchVars, audioVars,
                 transportVars, sparringVars, flightVars>>

PageTransport ==
  /\ In("transport", TransportNext)
  /\ UNCHANGED <<predictionVars, denialVars, threatVars, hudVars, matchVars, audioVars,
                 wireVars, sparringVars, flightVars>>

PageSparring ==
  /\ In("sparring", Spar \/ BeStruck)
  /\ UNCHANGED <<predictionVars, denialVars, threatVars, hudVars, matchVars, audioVars,
                 wireVars, transportVars, flightVars>>

BrowserFlight ==
  /\ In("flight", FlightNext)
  /\ UNCHANGED <<predictionVars, denialVars, threatVars, hudVars, matchVars, audioVars,
                 wireVars, transportVars, sparringVars>>

BrowserNext ==
  \/ PagePrediction \/ PageDenial \/ PageThreat \/ PageFocus \/ PageMatch \/ PageAudio
  \/ PageWire \/ PageTransport \/ PageSparring \/ BrowserFlight

BrowserSpec == BrowserInit /\ [][BrowserNext]_<<pageVars, part>>
-----------------------------------------------------------------------------
\* Bounds: a third rival is scanned for the ranks, and not followed; two are as near.
TwoFollowed ==
  /\ \A r \in Range(rivals) : r.id # 3
  /\ \A r \in Range(rivals) : r.near = 2

\* Bounds: the second rival of the HUD is never parried nor guard broken and is near
\* when it is down, a dead one is near, and who blocks faces the first.
HudIsSmall ==
  /\ 2 \in DOMAIN others => others[2].plight \notin {"parried", "guard broken"}
  /\ \A i \in DOMAIN others :
       others[i].plight = "dead" \/ (i = 2 /\ others[i].plight = "knocked down")
       => others[i].near = 1
  /\ own.action = "Block" => own.faces = 1

PressCosts ==
  [p \in Presses |-> CASE p = "jump-attack-chord" -> 2 [] p = "roll" -> 2 [] OTHER -> 1]

MCFrames == << <<7, 0>>, << >>, <<2, 0, 9>>, <<5>> >>

Moved(id, x, y) == [id |-> id, fields |-> [position |-> <<x, y>>]]
Whole(id, p, facing, action) ==
  [id |-> id, fields |-> [position |-> p, facing |-> facing, vitals |-> <<100, 0, 37>>,
                          action |-> action]]

\* Both sides of every limit: cells, twelve bits, ids, half bytes.
MCSent ==
  {Moved(1, 2043, 2044), Moved(127, 2044, 2043), Moved(128, 32763, 0), Moved(1022, 32763, 32764),
   Moved(1023, 65535, 2047), Moved(16384, 4092, 30000),
   Whole(3, <<2044, 2050>>, 65535, <<15, 15>>), Whole(1023, <<0, 0>>, 128, <<16, 0>>),
   [id |-> 4, fields |-> [facing |-> 129, action |-> <<15, 14>>]],
   [id |-> 5, fields |-> [vitals |-> <<0, 100, 255>>]],
   [id |-> 1023, fields |-> Removed], [id |-> 2, fields |-> Removed]}

MCFighter == 1 .. 2

SparDuration == Lasting([Dodge |-> 2, Jump |-> 2, AttackRecovery |-> 2])

MCReserve == [dodge |-> 3, sprint |-> 2, any |-> 1, running |-> 2, kick |-> 2, jump |-> 3]

MCPause == [act \in {"guard", "dodge", "retreat", "punish", "running", "kick", "light",
                     "jump", "heavy"} |-> 2]
=============================================================================

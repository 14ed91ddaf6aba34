---------------------------- MODULE Surveillance -----------------------------
(***************************************************************************)
(* One camera from its frames to its events: the motion gate of the frame  *)
(* extractor (MotionGate), the tracker, the risk rules with the            *)
(* deduplicator (RiskRules, EventDedup) and the smart zones (SmartZone),   *)
(* composed.  The camera is read once a tick; the gate holds the frame back *)
(* or it goes to the AI service, where it may be lost.                     *)
(*                                                                         *)
(* A scene is what is in view: a function from objects to sightings, of    *)
(* class, zones, speed and ways forbidden.  Which track a detection belongs *)
(* to is FrameAnalysis' matter: here it is that of the object.             *)
(***************************************************************************)
EXTENDS RiskRules, Lists

CONSTANTS
    Objects,        \* numbers
    Setups,         \* records: zones, gate, scenes, and a bound on the switches
    MinFrames,      \* MotionConfig.min_consecutive_frames
    GateCooldown,   \* MotionConfig.cooldown_seconds
    MinHits,        \* TRACKER_MIN_HITS
    MaxMisses,      \* CameraTracker.max_misses
    FrameTime,      \* 1 / DetectRequest.stream_fps
    MaxTracks,      \* bound: tracks ever made
    MaxLost         \* bound: frames lost

ASSUME SurveillanceAssumption ==
    /\ Objects \subseteq Nat /\ IsFiniteSet(Objects) /\ IsFiniteSet(Zones)
    /\ MinHits \in Nat \ {0} /\ MaxMisses \in Nat \ {0}
    /\ {FrameTime, MaxTracks, MaxLost} \subseteq Nat

VARIABLES
    setup,       \* one of Setups
    enabled, background, consecutive, lastConfirmed,   \* MotionGate
    tracks,      \* CameraTracker._tracks: object -> track or None
    nextId,      \* Track._id_counter + 1
    score, lastUpdate, lastEvent, smartLevel,          \* SmartZone
    frame,       \* what became of the frame of this tick, "none" before it
    lost,        \* frames lost so far
    switches,    \* changes of the gate's setting so far
    seen,        \* history: for how many frames an object has been in view since the
                 \* gate was last switched on, up to Needed, not counting the lost ones
    vacant,      \* history: the zones a held back frame since the last analysed one
                 \* has shown without people
    charged      \* history: [at, score] of the last update of a zone with people

Gate == INSTANCE MotionGate WITH
    Cooldown <- GateCooldown, MinFrames <- MinFrames, None <- None,
    enabled <- enabled, background <- background,
    consecutive <- consecutive, lastConfirmed <- lastConfirmed

Smart == INSTANCE SmartZone WITH
    Zones <- Zones, FrameTime <- FrameTime, None <- None, DayLength <- DayLength,
    score <- score, lastUpdate <- lastUpdate, lastEvent <- lastEvent, level <- smartLevel

gateVars == <<enabled, background, consecutive, lastConfirmed>>
smartVars == <<score, lastUpdate, lastEvent, smartLevel>>
ownVars == <<setup, tracks, nextId, frame, lost, switches, seen, vacant, charged>>
pipelineVars == <<vars, rulesVars, gateVars, smartVars, ownVars>>

ASSUME GateAssumption == Gate!Config

Sightings(s) == UNION {{scene[o] : o \in DOMAIN scene} : scene \in s.scenes}

\* A detection is in each of its zones once.
ASSUME SetupAssumption ==
    \A s \in Setups :
      /\ s.gate \in BOOLEAN /\ s.switches \in Nat
      /\ DOMAIN s.zones \subseteq Zones
      /\ \A z \in DOMAIN s.zones : RuledZone(s.zones[z]) /\ Smart!Settings(s.zones[z])
      /\ \A scene \in s.scenes : DOMAIN scene \subseteq Objects
      /\ \A sight \in Sightings(s) :
           /\ sight.zones \in Seq(DOMAIN s.zones) /\ S!IsInjective(sight.zones)
           /\ sight.fast \in BOOLEAN

\* Keys has the key of each event that one of the tracks may raise.
ASSUME KeyAssumption ==
    \A s \in Setups, id \in 1..MaxTracks :
      /\ \A z \in DOMAIN s.zones :
           /\ \A i \in DOMAIN EffectiveRules(s.zones[z]) :
                LET rule == EffectiveRules(s.zones[z])[i] IN
                /\ <<rule.type, id, z>> \in Keys
                /\ rule.maxCount # None => <<"crowding", None, z>> \in Keys
           /\ s.zones[z].maxDwell # None => <<"loitering", id, z>> \in Keys
      /\ \A sight \in Sightings(s) :
           LET zones == {sight.zones[i] : i \in DOMAIN sight.zones} IN
           /\ sight.class = "person" /\ sight.fast /\ (EventsOnlyInZones => zones # {}) =>
                <<"running", id, IF zones = {} THEN None ELSE sight.zones[1]>> \in Keys
           /\ \A z \in zones \cap sight.against : <<"direction", id, z>> \in Keys

ASSUME NoneAssumption ==
    \A s \in Setups :
      /\ None \notin s.scenes
      /\ None \notin [id : Nat, hits : Nat, misses : Nat, sight : Sightings(s)]
      /\ None \notin [since : Nat, level : RiskLevels]

\* What _parse_backend_zone makes of a zone of the backend: neither rules of its own
\* nor schedules, nor a limit on staying, whatever the operator may want.
BackendZone(dto) ==
    [type |-> dto.type, rules |-> << >>, schedules |-> {}, maxDwell |-> None,
     timeWindows |-> dto.timeWindows,
     baseMode |-> IF dto.baseMode # None THEN dto.baseMode
                  ELSE IF dto.type = "safe_zone" THEN "RELAXED" ELSE "STRICT",
     relaxed |-> dto.relaxed, strict |-> dto.strict,
     mediumThreshold |-> dto.medium, highThreshold |-> dto.high,
     decay |-> dto.decay, cooldown |-> dto.cooldown]

\* Frames until an intruder is a confirmed track.
Needed == MinFrames + MinHits - 1

----------------------------------------------------------------------------
(* The tracker                                                             *)

\* The track of an object after an analysed frame; "id" is for a new one.
Tracked(o, scene, id) ==
    IF o \in DOMAIN scene
    THEN IF tracks[o] = None THEN [id |-> id, hits |-> 1, misses |-> 0, sight |-> scene[o]]
         ELSE [tracks[o] EXCEPT !.misses = 0, !.sight = scene[o],
                                !.hits = IF @ < MinHits THEN @ + 1 ELSE @]
    ELSE IF tracks[o] # None /\ tracks[o].misses < MaxMisses
         THEN [tracks[o] EXCEPT !.misses = @ + 1] ELSE None

Newcomers(scene) == {o \in DOMAIN scene : tracks[o] = None}

\* CameraTracker.update
Update(scene) ==
    [o \in Objects |-> Tracked(o, scene, nextId + Cardinality({p \in Newcomers(scene) : p < o}))]

\* What the analysis sees of the confirmed tracks, those missed a moment ago
\* included.  The time in a zone is 0 (see FrameAnalysis).
ConfirmedTracks(table) ==
    LET confirmed == {o \in Objects : table[o] # None /\ table[o].hits >= MinHits}
        ids == Ascending({table[o].id : o \in confirmed})
    IN [i \in DOMAIN ids |->
          LET t == table[CHOOSE o \in confirmed : table[o].id = ids[i]] IN
          [id |-> t.id, class |-> t.sight.class, zones |-> t.sight.zones, fast |-> t.sight.fast,
           still |-> FALSE, against |-> t.sight.against, dwell |-> 0]]

PeopleOf(sightings) ==
    [z \in DOMAIN zoneOf |->
        Cardinality({i \in DOMAIN sightings : /\ sightings[i].class = "person"
                                              /\ S!Contains(sightings[i].zones, z)})]

----------------------------------------------------------------------------
(* Steps                                                                   *)

\* The frame goes through the gate.
Read(scene) ==
    /\ pending = << >> /\ frame = "none"
    /\ Gate!Detect(scene, now)
    /\ seen' = [o \in Objects |-> IF o \notin DOMAIN scene \/ background = None THEN 0
                                  ELSE IF o \in DOMAIN background THEN seen[o]
                                  ELSE IF seen[o] < Needed /\ frame' # "lost" THEN seen[o] + 1
                                  ELSE seen[o]]
    /\ UNCHANGED <<setup, switches>>

Hold(scene) ==
    /\ frame' = "held" /\ Read(scene)
    /\ ~Gate!Sends(scene, now)
    /\ vacant' = vacant \cup {z \in DOMAIN zoneOf : PeopleOf(scene)[z] = 0}
    /\ UNCHANGED <<vars, rulesVars, smartVars, tracks, nextId, lost, charged>>

\* send_frame fails: an error, a timeout, an answer other than 2xx.  The frame is taken as
\* not analysed (after a timeout the service may still analyse it).
Lose(scene) ==
    /\ frame' = "lost" /\ Read(scene)
    /\ Gate!Sends(scene, now)
    /\ lost < MaxLost /\ lost' = lost + 1
    /\ UNCHANGED <<vars, rulesVars, smartVars, tracks, nextId, vacant, charged>>

\* AnalyzePipeline.process: tracker, rules and smart zones.
Analyze(scene) ==
    /\ frame' = "analysed" /\ Read(scene)
    /\ Gate!Sends(scene, now)
    /\ nextId' = nextId + Cardinality(Newcomers(scene)) /\ nextId' <= MaxTracks + 1
    /\ tracks' = Update(scene)
    /\ AnalyzeFrame(ConfirmedTracks(tracks'))
    /\ Smart!Analyze(zoneOf, PeopleOf(ConfirmedTracks(tracks')), now)
    /\ vacant' = {}
    /\ charged' = [z \in Zones |->
         IF z \in DOMAIN zoneOf /\ PeopleOf(ConfirmedTracks(tracks'))[z] > 0
         THEN [at |-> now, score |-> score'[z]] ELSE charged[z]]
    /\ UNCHANGED lost

\* The camera gives no frame and is connected to again; the gate stays as it was.
NoFrame ==
    /\ pending = << >> /\ frame = "none"
    /\ frame' = "lost" /\ lost < MaxLost /\ lost' = lost + 1
    /\ UNCHANGED <<vars, rulesVars, gateVars, smartVars,
                   setup, tracks, nextId, switches, seen, vacant, charged>>

AnswerNext ==
    /\ Answer
    /\ UNCHANGED <<gateVars, smartVars, ownVars>>

Switch ==
    /\ frame = "none" /\ switches < setup.switches /\ switches' = switches + 1
    /\ Gate!SetEnabled(~enabled)
    /\ seen' = IF enabled THEN seen ELSE [o \in Objects |-> 0]
    /\ UNCHANGED <<vars, rulesVars, smartVars,
                   setup, tracks, nextId, frame, lost, vacant, charged>>

NextTick ==
    /\ frame # "none" /\ frame' = "none"
    /\ Wait
    /\ UNCHANGED <<gateVars, smartVars,
                   setup, tracks, nextId, lost, switches, seen, vacant, charged>>

PipelineInit ==
    /\ setup \in Setups
    /\ RulesInit /\ zoneOf = setup.zones
    /\ Gate!Init /\ enabled = setup.gate
    /\ Smart!Init
    /\ tracks = [o \in Objects |-> None] /\ nextId = 1
    /\ frame = "none" /\ lost = 0 /\ switches = 0
    /\ seen = [o \in Objects |-> 0] /\ vacant = {}
    /\ charged = [z \in Zones |-> [at |-> now, score |-> 0]]

PipelineNext ==
    \/ \E scene \in setup.scenes : Hold(scene) \/ Lose(scene) \/ Analyze(scene)
    \/ NoFrame \/ AnswerNext \/ Switch \/ NextTick

PipelineSpec == PipelineInit /\ [][PipelineNext]_pipelineVars

----------------------------------------------------------------------------
(* Properties                                                              *)

\* Every variable has its type; a score is never negative (_analyze_zone).
PipelineTypeOK ==
    /\ setup \in Setups
    /\ \A z \in DOMAIN zoneOf : RuledZone(zoneOf[z]) /\ Smart!Settings(zoneOf[z])
    /\ Gate!TypeOK(setup.scenes) /\ Smart!TypeOK
    /\ \A o \in Objects : tracks[o] # None =>
         /\ tracks[o].id < nextId
         /\ tracks[o].hits \in 1..MinHits /\ tracks[o].misses \in 0..MaxMisses
    /\ nextId \in 1..(MaxTracks + 1)
    /\ frame \in {"none", "held", "lost", "analysed"}
    /\ lost \in 0..MaxLost /\ switches \in 0..setup.switches
    /\ seen \in [Objects -> 0..Needed] /\ vacant \subseteq DOMAIN zoneOf
    /\ charged \in [Zones -> [at : Nat, score : Nat]]
    /\ \A i \in DOMAIN pending : pending[i].key \in Keys /\ pending[i].base \in RiskLevels
    /\ analysed \in Nat \cup {None}
    /\ level \in [Keys -> RiskLevels]
    /\ owed \in [Keys -> [since : Nat, level : RiskLevels] \cup {None}]

\* Somebody who has been in view for the frames the gate and the tracker need, since
\* the gate was last switched on, and was not in the picture when the camera started,
\* is reported: no frame of him is held back, in a restricted zone without rules of
\* its own there has been an event of the rules within its cooldown, and one of the
\* smart zone within its own, of MEDIUM at least when the zone is STRICT and not safe.
\* Frames may get lost before, and the gate be switched off and on (detect,
\* CameraTracker.update, should_fire, _analyze_zone).
IntruderReported ==
    pending = << >> /\ frame \in {"held", "analysed"} =>
    \A o \in Objects : seen[o] = Needed =>
      /\ frame = "analysed" /\ tracks[o] # None
      /\ \A z \in {tracks[o].sight.zones[i] : i \in DOMAIN tracks[o].sight.zones} :
           LET k == <<"intrusion", tracks[o].id, z>> IN
           /\ zoneOf[z].type = "restricted" /\ zoneOf[z].rules = << >> =>
                sent[k] > 0 /\ (sent[k] = now \/ now - sent[k] < Cooldown[k])
           /\ tracks[o].sight.class = "person" =>
                /\ lastEvent[z] # None
                /\ lastEvent[z] = now \/ now - lastEvent[z] < zoneOf[z].cooldown
                /\ /\ zoneOf[z].timeWindows = {} /\ zoneOf[z].baseMode = "STRICT"
                   /\ zoneOf[z].type # "safe_zone"
                   => smartLevel[z] >= Medium

\* The conditions of FullLevelReturns and IntruderReported: no rule hides a riskier one
\* of its key, and the machine has been on for the longest cooldown when the service
\* starts, so that a key that is not in the table is not taken for a recent one.
Unhidden == \A s \in Setups : \A z \in DOMAIN s.zones : RulesFall(s.zones[z])
LongBooted == StartTime > 0 /\ \A k \in Keys : StartTime >= Cooldown[k]

\* The score of a zone falls by the clock, however many of the frames in between
\* were held back or lost: after an analysed frame that shows nobody in it, what it
\* has lost since somebody was is the time passed (_analyze_zone).
DecayByTheClock ==
    frame = "analysed" =>
        \A z \in DOMAIN zoneOf :
            LET left == charged[z].score - zoneOf[z].decay * (now - charged[z].at) IN
            charged[z].at < now => score[z] = (IF left > 0 THEN left ELSE 0)

\* A zone is not charged for the time it was seen empty: after frames held back by
\* the gate have shown it so, the next update does not raise its score, however
\* long the gate was closed (AccumulationDTO, _analyze_zone, detect).
EmptyTimeIsNotCharged ==
    [][\A z \in vacant : score'[z] <= score[z]]_pipelineVars
=============================================================================

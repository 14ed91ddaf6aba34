------------------------------ MODULE SmartZone ------------------------------
(***************************************************************************)
(* SmartZoneAnalytics of the AI service: a risk score for each zone, which  *)
(* grows with the people in it and decays without, and the events raised    *)
(* of it.  A zone is what _parse_backend_zone makes of the backend's ZoneDTO. *)
(* The lists of ids and entry times are kept for the event's text only.     *)
(***************************************************************************)
EXTENDS TimeWindows, Sequences

CONSTANTS Zones,     \* zone ids
          FrameTime, \* 1 / fps
          None       \* no update, no event yet

VARIABLES score,      \* ZoneState.risk_score
          lastUpdate, \* ZoneState.last_update_timestamp
          lastEvent,  \* ZoneState.last_event_timestamp
          level       \* history: the risk level of the last event

vars == <<score, lastUpdate, lastEvent, level>>

\* RiskLevel: LOW to CRITICAL
Low == 0
Medium == 1
High == 2
Critical == 3
Levels == Low..Critical

Init ==
    /\ score = [z \in Zones |-> 0]
    /\ lastUpdate = [z \in Zones |-> None] /\ lastEvent = [z \in Zones |-> None]
    /\ level = [z \in Zones |-> Low]

\* The settings of a zone, as its DTO has them.
Settings(zone) ==
    /\ zone.timeWindows \subseteq Windows /\ zone.baseMode \in {"STRICT", "RELAXED"}
    /\ {zone.relaxed, zone.strict, zone.decay, zone.cooldown} \subseteq Nat
    /\ zone.mediumThreshold \in Int /\ zone.highThreshold \in Int

TypeOK ==
    /\ score \in [Zones -> Nat]
    /\ lastUpdate \in [Zones -> Nat \cup {None}] /\ lastEvent \in [Zones -> Nat \cup {None}]
    /\ level \in [Zones -> Levels]

----------------------------------------------------------------------------

\* _mode_for_zone: a window makes the zone RELAXED, whatever its base_mode.
Mode(zone, t) == IF \E w \in zone.timeWindows : InWindow(w, t) THEN "RELAXED" ELSE zone.baseMode

\* _risk_from_score
RiskFromScore(s) == IF s < 5 THEN Low ELSE IF s < 15 THEN Medium ELSE IF s < 30 THEN High ELSE Critical

\* _smart_level, for a zone with someone in it
SmartLevel(zone, mode, people) ==
    LET steps == (IF people >= zone.highThreshold THEN High
                  ELSE IF people >= zone.mediumThreshold THEN Medium ELSE Low)
    IN IF mode = "STRICT" THEN steps + 1 ELSE steps

\* The score's part and the thresholds' part, whichever is riskier; a safe zone
\* stays LOW.
EffectiveLevel(zone, mode, people, s) ==
    LET byScore == RiskFromScore(s)
        byCount == SmartLevel(zone, mode, people)
    IN IF zone.type = "safe_zone" THEN Low
       ELSE IF byScore >= byCount THEN byScore ELSE byCount

\* The time since the last update; the frames of a camera may be analysed out of
\* order.
Elapsed(z, t) == IF lastUpdate[z] = None THEN FrameTime
                 ELSE IF t >= lastUpdate[z] THEN t - lastUpdate[z] ELSE 0

\* Mutant: the score has no floor.
NewScoreNoFloor(z, zone, people, t) ==
    IF people > 0 THEN score[z] + people * Elapsed(z, t) * zone.strict
    ELSE score[z] - zone.decay * Elapsed(z, t)

\* risk_score after a frame with that many people in the zone
NewScore(z, zone, people, t) ==
    LET grown == score[z] + people * Elapsed(z, t)
                            * (IF Mode(zone, t) = "RELAXED" THEN zone.relaxed ELSE zone.strict)
        decayed == score[z] - zone.decay * Elapsed(z, t)
    IN IF people > 0 THEN grown ELSE IF decayed > 0 THEN decayed ELSE 0

\* An event is due: there is someone, and the last event is long enough ago.
Reports(z, zone, people, t) ==
    people > 0 /\ (lastEvent[z] # None => t - lastEvent[z] >= zone.cooldown)

\* Mutant: an empty zone is not looked at.
AnalyzeOccupied(zones, people, t) ==
    LET reporting == {z \in DOMAIN zones : Reports(z, zones[z], people[z], t)}
        seen == {z \in DOMAIN zones : people[z] > 0} IN
    /\ score' = [z \in Zones |-> IF z \in seen THEN NewScore(z, zones[z], people[z], t) ELSE score[z]]
    /\ lastUpdate' = [z \in Zones |-> IF z \in seen THEN t ELSE lastUpdate[z]]
    /\ lastEvent' = [z \in Zones |-> IF z \in reporting THEN t ELSE lastEvent[z]]
    /\ level' = [z \in Zones |-> IF z \in reporting
                                 THEN EffectiveLevel(zones[z], Mode(zones[z], t), people[z], score'[z])
                                 ELSE level[z]]

\* analyze: a frame of time t, with people[z] persons in each of the zones.  A zone
\* that is not among them keeps its state.
Analyze(zones, people, t) ==
    LET reporting == {z \in DOMAIN zones : Reports(z, zones[z], people[z], t)} IN
    /\ score' = [z \in Zones |-> IF z \in DOMAIN zones
                                 THEN NewScore(z, zones[z], people[z], t) ELSE score[z]]
    /\ lastUpdate' = [z \in Zones |-> IF z \in DOMAIN zones THEN t ELSE lastUpdate[z]]
    /\ lastEvent' = [z \in Zones |-> IF z \in reporting THEN t ELSE lastEvent[z]]
    /\ level' = [z \in Zones |-> IF z \in reporting
                                 THEN EffectiveLevel(zones[z], Mode(zones[z], t), people[z], score'[z])
                                 ELSE level[z]]
=============================================================================

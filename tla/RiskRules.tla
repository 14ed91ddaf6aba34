------------------------------ MODULE RiskRules ------------------------------
(***************************************************************************)
(* RiskEngine of the AI service: the rules a frame's confirmed tracks are   *)
(* held against, the schedules that lower a risk level, and the questions   *)
(* the deduplicator (EventDedup) is asked, in the order of the code.        *)
(*                                                                         *)
(* A zone is a record of its type, its own rules and schedules and the ways *)
(* it forbids; a track one of its id, class, zones and what its motion      *)
(* shows.  The wall clock of the schedules goes with the monotonic clock.   *)
(***************************************************************************)
EXTENDS EventDedup, TimeWindows, Sequences, FiniteSetsExt

S == INSTANCE SequencesExt

CONSTANTS
    Zones,              \* zone ids
    EventsOnlyInZones   \* RISK_EVENTS_ONLY_IN_ZONES

VARIABLES
    zoneOf,   \* the camera's zones: id -> zone
    pending,  \* what the analysis of a frame has yet to ask the deduplicator
    analysed, \* when the last frame was analysed, or None
    level,    \* history: the risk level of the last event of a key
    owed      \* history: [since, level] when every frame since then has asked for
              \* that level at least and no event of the key has reached it, or None

rulesVars == <<zoneOf, pending, analysed, level, owed>>

----------------------------------------------------------------------------
(* Levels and schedules                                                    *)

\* _RISK_ORDER
Low == 0
Medium == 1
High == 2
Critical == 3
RiskLevels == Low..Critical

\* RiskSchedule.  Its timezone is a shift of the clock.
RiskSchedules == [start : 0..(DayLength - 1), end : 0..(DayLength - 1), days : SUBSET (0..6),
                  shift : Int, reduceBy : 1..3]

\* reduce_risk
ReduceRisk(l, steps) == IF l > steps THEN l - steps ELSE Low

\* _is_active: the day is that of the moment, also in the morning of a window
\* over midnight.
IsActive(s) == Weekday(now + s.shift) \in s.days /\ InWindow(s, now + s.shift)

\* get_active_schedule: of the active ones, the one that reduces most.
Reduction(zone) == Max({0} \cup {s.reduceBy : s \in {s \in zone.schedules : IsActive(s)}})

\* _reduce_for_zones: an event of all the zones a track is in is reduced by the most.
BestReduction(zones) == Max({0} \cup {Reduction(zoneOf[z]) : z \in zones})

\* _apply_schedule: a weapon is never reduced.
EffectiveRisk(type, base, zones) ==
    IF type = "weapon" THEN base ELSE ReduceRisk(base, BestReduction(zones))

----------------------------------------------------------------------------
(* Rules                                                                   *)

\* The detector knows no weapons yet, and none of the classes of things left behind.
WeaponClasses == {}
VehicleClasses == {"car", "truck", "bus", "motorcycle", "bicycle"}
AbandonedClasses == {"backpack", "handbag", "suitcase"}

ZoneTypes == {"restricted", "entrance", "parking", "pedestrian", "perimeter",
              "counting_line", "safe_zone"}
EventTypes == {"person", "vehicle", "weapon", "animal", "unknown", "intrusion", "loitering",
               "crowding", "running", "direction", "abandoned"}

\* ZoneRule.  Its time of day, active_time_start to active_time_end, is read nowhere.
ZoneRules == [class : STRING, risk : RiskLevels, type : EventTypes, trigger : Nat,
              maxCount : Nat \cup {None}]

Rule(class, risk, type) ==
    [class |-> class, risk |-> risk, type |-> type, trigger |-> 0, maxCount |-> None]

\* DEFAULT_ZONE_RULES
DefaultZoneRules(zoneType) ==
    CASE zoneType = "restricted" -> << Rule("*", High, "intrusion") >>
      [] zoneType = "pedestrian" -> << Rule("car", High, "intrusion"),
                                       Rule("truck", High, "intrusion"),
                                       Rule("motorcycle", Medium, "intrusion") >>
      [] zoneType = "parking"    -> << [Rule("person", Medium, "intrusion") EXCEPT !.trigger = 30] >>
      [] zoneType = "perimeter"  -> << Rule("*", Medium, "intrusion") >>
      [] zoneType = "entrance"   -> << Rule("person", Low, "person") >>
      [] OTHER -> << >>

\* What the engine knows of a zone.
RuledZone(zone) ==
    /\ zone.type \in ZoneTypes /\ zone.rules \in Seq(ZoneRules)
    /\ zone.schedules \subseteq RiskSchedules /\ zone.maxDwell \in Nat \cup {None}

EffectiveRules(zone) == IF zone.rules # << >> THEN zone.rules ELSE DefaultZoneRules(zone.type)

FitsClass(rule, class) ==
    \/ rule.class = "*"
    \/ rule.class = "vehicle" /\ class \in VehicleClasses
    \/ rule.class = class

\* One question to the deduplicator: may an event of this key be raised?  Its
\* level is "base", less what the schedules of "zones" take off.
Ask(type, track, zone, base, zones) ==
    [key |-> <<type, track, zone>>, base |-> base, zones |-> zones]

Each(seq, Asks(_)) == S!FlattenSeq([i \in DOMAIN seq |-> Asks(seq[i])])
If(condition, ask) == IF condition THEN <<ask>> ELSE << >>

\* _weapon_event
WeaponAsks(track) ==
    If(track.class \in WeaponClasses, Ask("weapon", track.id, None, Critical, {}))

\* _zone_analysis: the rules of a zone that fit, then its limit on staying, of which 0 is
\* none.
RuleAsks(track, z) ==
    Each(EffectiveRules(zoneOf[z]), LAMBDA rule :
         If(FitsClass(rule, track.class) /\ track.dwell >= rule.trigger,
            Ask(rule.type, track.id, z, rule.risk, {z})))
DwellAsks(track, z) ==
    If(zoneOf[z].maxDwell \notin {None, 0} /\ track.dwell >= zoneOf[z].maxDwell,
       Ask("loitering", track.id, z, Medium, {z}))
ZoneAsks(track) ==
    Each(track.zones, LAMBDA z :
         IF zoneOf[z].type = "safe_zone" THEN << >>
         ELSE RuleAsks(track, z) \o DwellAsks(track, z))

\* _behavioral_analysis: "fast" and "still" are the thresholds on speed and age,
\* "against" the zones whose allowed direction the track moves against.
BehaviorAsk(type, track, base) ==
    Ask(type, track.id, IF track.zones = << >> THEN None ELSE track.zones[1], base,
        {track.zones[i] : i \in DOMAIN track.zones})
DirectionAsks(track) ==
    Each(track.zones, LAMBDA z :
         If(z \in track.against, Ask("direction", track.id, z, Medium, {z})))
BehavioralAsks(track) ==
    If(track.class = "person" /\ track.fast, BehaviorAsk("running", track, Medium))
    \o DirectionAsks(track)
    \o If(track.class \in AbandonedClasses /\ track.still, BehaviorAsk("abandoned", track, High))

\* How many tracks in the zone a rule with max_count counts: the exact class, or
\* all.
Count(tracks, z, class) ==
    Cardinality({i \in DOMAIN tracks : /\ S!Contains(tracks[i].zones, z)
                                       /\ class \in {"*", tracks[i].class}})

\* _crowding_analysis: the rules of a zone share one key.
CrowdingAsks(tracks, z) ==
    Each(EffectiveRules(zoneOf[z]), LAMBDA rule :
         If(rule.maxCount # None /\ Count(tracks, z, rule.class) > rule.maxCount,
            Ask("crowding", None, z, rule.risk, {z})))

\* A track in no zone may be of no interest.
EachReported(tracks, Asks(_)) ==
    Each(tracks, LAMBDA t :
         IF EventsOnlyInZones /\ t.zones = << >> THEN << >> ELSE Asks(t))

\* RiskEngine.analyze: weapons first, wherever they are.
Analysis(tracks) ==
    LET occupied == {z \in Zones : \E i \in DOMAIN tracks : S!Contains(tracks[i].zones, z)}
    IN Each(tracks, WeaponAsks) \o EachReported(tracks, ZoneAsks)
       \o EachReported(tracks, BehavioralAsks)
       \o Each(S!SetToSeq(occupied), LAMBDA z : CrowdingAsks(tracks, z))

----------------------------------------------------------------------------
(* Steps                                                                   *)

Risk(ask) == EffectiveRisk(ask.key[1], ask.base, ask.zones)

\* A frame with these confirmed tracks.  Nothing else happens until it has asked
\* all its questions.
AnalyzeFrame(tracks) ==
    /\ pending = << >>
    /\ pending' = Analysis(tracks)
    /\ analysed' = now
    /\ owed' = [k \in Keys |->
                  IF owed[k] # None /\ \E i \in DOMAIN pending' :
                                           /\ pending'[i].key = k
                                           /\ Risk(pending'[i]) >= owed[k].level
                  THEN owed[k] ELSE None]
    /\ UNCHANGED <<vars, zoneOf, level>>

\* The next question: should_fire, and the event's level when the answer is yes.
Answer ==
    /\ pending # << >>
    /\ pending' = Tail(pending)
    /\ LET ask == Head(pending)
           k == ask.key
           risk == Risk(ask) IN
       \/ /\ Fire(k)
          /\ level' = [level EXCEPT ![k] = risk]
          /\ owed' = IF owed[k] # None /\ owed[k].level <= risk
                     THEN [owed EXCEPT ![k] = None] ELSE owed
       \/ /\ Suppress(k)
          /\ owed' = IF level[k] < risk /\ owed[k] = None
                     THEN [owed EXCEPT ![k] = [since |-> now, level |-> risk]] ELSE owed
          /\ UNCHANGED level
    /\ UNCHANGED <<zoneOf, analysed>>

Wait == pending = << >> /\ Tick /\ UNCHANGED rulesVars

RulesInit == /\ Init /\ pending = << >> /\ analysed = None
             /\ level = [k \in Keys |-> Low] /\ owed = [k \in Keys |-> None]

----------------------------------------------------------------------------
(* Properties                                                              *)

\* The rules of a zone fall in risk where they share a key, and have no key of a
\* behaviour: none hides a riskier one behind it.
RulesFall(zone) ==
    LET rules == EffectiveRules(zone) IN
    \A i, j \in DOMAIN rules :
      /\ rules[i].type \notin {"loitering", "running", "direction"}
      /\ i < j /\ rules[i].type = rules[j].type => rules[i].risk >= rules[j].risk
      /\ i < j /\ rules[i].maxCount # None /\ rules[j].maxCount # None =>
            rules[i].risk >= rules[j].risk

\* A level is owed for less than a cooldown.  What a schedule has lowered, and the
\* deduplicator then holds back, is reported at its full level within one cooldown
\* of the schedule's end if it is still there (_apply_schedule, should_fire).
\* True where no rule hides a riskier one behind it (RulesFall).
FullLevelReturns ==
    pending = << >> /\ analysed = now =>
        \A k \in Keys : owed[k] # None => now - owed[k].since < Cooldown[k]
=============================================================================

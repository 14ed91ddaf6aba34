---------------------------- MODULE FrameAnalysis ----------------------------
(***************************************************************************)
(* The frames of one camera in the AI service: AnalyzePipeline.process with *)
(* the detector's semaphore, the lock of the zones' reload, the tracker     *)
(* (TrackerRegistry, CameraTracker.update) and the risk engine's rules on   *)
(* single tracks.                                                          *)
(*                                                                         *)
(* The zone cache is what ZoneCache promises of it: usable or not, filled   *)
(* by the holder of the lock.  The deduplicator is the limiter RateLimit,   *)
(* which EventDedup implements.                                            *)
(***************************************************************************)
EXTENDS Integers, Sequences, FiniteSets, SequencesExt

CONSTANTS
    Handlers,     \* slots for running calls of process
    Rules,        \* rules on single tracks: an event type, in a zone or anywhere
    Trigger,      \* ZoneRule.trigger_after_seconds, 0 for a rule without zone
    Cooldown,     \* COOLDOWN.get(event_type, DEFAULT_COOLDOWN)
    MinHits,      \* TRACKER_MIN_HITS
    MaxMisses,    \* CameraTracker.max_misses
    StartTime,    \* time.monotonic() when the service starts
    None,         \* no track, no tracker, no time
    MaxTracks,    \* bound: tracks ever made
    MaxTrackers,  \* bound: trackers ever made
    MaxFrames,    \* bound: frames that come in
    MaxTime,      \* bound: the clock stops here
    MaxFaults     \* bound: failures of the detector

\* The machine has been up for longer than any cooldown when the service starts.
ASSUME RuleAssumption ==
    /\ Trigger \in [Rules -> Nat] /\ Cooldown \in [Rules -> Nat \ {0}]
    /\ StartTime \in Nat /\ \A r \in Rules : Cooldown[r] <= StartTime
ASSUME TrackerAssumption == MinHits \in Nat \ {0} /\ MaxMisses \in Nat \ {0}

TrackIds == 1..MaxTracks
Trackers == 1..MaxTrackers

ASSUME NoneAssumption == None \notin Int
ASSUME BoundAssumption ==
    MaxTracks \in Nat /\ MaxTrackers \in Nat /\ MaxFrames \in Nat /\ MaxFaults \in Nat

VARIABLES
    call,        \* Handlers -> the state of its call of process
    detectors,   \* _yolo_sem: its holder first, then the waiters
    loaders,     \* ZoneManager._loading of the camera: likewise
    cached,      \* the camera's zones are in the cache and not expired
    registered,  \* TrackerRegistry._trackers: the camera's tracker or None
    made,        \* trackers made so far
    looked,      \* history: Trackers -> time of its last update
    track,       \* TrackIds -> Track, or None before and after its life
    counter,     \* Track._id_counter
    lastFired,   \* _last_fired: Rules \X TrackIds -> time, 0 by default
    arrived,     \* frames that came in
    now,         \* time.monotonic()
    faults       \* how many of MaxFaults have happened

vars == <<call, detectors, loaders, cached, registered, made, looked, track, counter,
          lastFired, arrived, now, faults>>

\* "detect": at the semaphore or in the detector; "lock" and "fetch": in the
\* reload of the zones, with the tracker it has taken.
Call == [phase : {"idle", "detect"}, frame : 0..MaxFrames, tracker : {None}]
        \cup [phase : {"lock", "fetch"}, frame : 0..MaxFrames, tracker : Trackers]
IdleCall == [phase |-> "idle", frame |-> 0, tracker |-> None]

\* A track of CameraTracker "tracker".  "shows" are the rules whose class and
\* zone fit its last box; "since" is history: from when on it has.
\* "hits" counts up to MinHits.
Track == [tracker : Trackers, hits : 1..MinHits, misses : 0..MaxMisses,
          dwell : Nat, shows : SUBSET Rules, since : [Rules -> Nat \cup {None}]]

Keys == Rules \X TrackIds

----------------------------------------------------------------------------
(* One update of a tracker and the rules on what it returns                *)

Confirmed(t) == t.hits >= MinHits

\* The track of a detection no track was matched with.
NewTrack(g) == [tracker |-> g, hits |-> 1, misses |-> 0, dwell |-> 0,
                shows |-> {}, since |-> [r \in Rules |-> None]]

\* Track.update, and what an unmatched track gets.
Hit(t) == [t EXCEPT !.hits = IF @ < MinHits THEN @ + 1 ELSE @, !.misses = 0]
Miss(t) == [t EXCEPT !.misses = @ + 1]

\* Mutant: one miss too many.
OutlivesByOne(t) == t.misses <= MaxMisses + 1

Survives(t) == t.misses <= MaxMisses

\* The zones and rules look at confirmed tracks only.
Shown(t, rules) ==
    [t EXCEPT !.shows = rules,
              !.since = [r \in Rules |-> IF r \notin rules THEN None
                                         ELSE IF @[r] = None THEN now ELSE @[r]]]

\* Mutant: the track is left out of the key.
KeyOfRule(r, i) == <<r, 1>>

Key(r, i) == <<r, i>>

\* Track.get_dwell_seconds: what enter_zone and exit_zone have added up.
Dwell(t) == t.dwell

\* should_fire
Due(k) == now - lastFired[k] >= Cooldown[k[1]]

\* The keys of the events raised for tracks "tracks": should_fire is asked once
\* for each rule that fits a confirmed track for long enough.
Raised(tracks) ==
    {k \in Keys : /\ Due(k)
                  /\ \E i \in DOMAIN tracks :
                        /\ Confirmed(tracks[i])
                        /\ \E r \in tracks[i].shows :
                              k = Key(r, i) /\ Dwell(tracks[i]) >= Trigger[r]}

\* From the zones to the events without an await.  Which tracks the boxes match
\* is the detector's to say, up to one box per track.
Analyze(g) ==
    LET old == {i \in TrackIds : track[i] # None /\ track[i].tracker = g} IN
    \E matched \in SUBSET old, n \in 0..(MaxTracks - counter) :
      LET born == (counter + 1)..(counter + n)
          updated == [i \in old \cup born |->
                        IF i \in born THEN NewTrack(g)
                        ELSE IF i \in matched THEN Hit(track[i]) ELSE Miss(track[i])]
          alive == {i \in old \cup born : Survives(updated[i])}
          seen == {i \in alive : Confirmed(updated[i])}
      IN \E shows \in [seen -> SUBSET Rules] :
           LET tracks == [i \in alive |-> IF i \in seen THEN Shown(updated[i], shows[i])
                                                        ELSE updated[i]]
               raised == Raised(tracks)
           IN /\ track' = [i \in TrackIds |-> IF i \in alive THEN tracks[i]
                                              ELSE IF i \in old THEN None ELSE track[i]]
              /\ lastFired' = [k \in Keys |-> IF k \in raised THEN now ELSE lastFired[k]]
              /\ counter' = counter + n
              /\ looked' = [looked EXCEPT ![g] = now]

\* What follows (publishing, drawing, answering) touches nothing of this.
Return(h) == call' = [call EXCEPT ![h] = IdleCall]

----------------------------------------------------------------------------
(* The steps of process, from await to await                               *)

\* A frame comes in and waits for the detector, which all cameras share; frames
\* of others only make it wait longer.
Arrive(h) ==
    /\ call[h].phase = "idle" /\ arrived < MaxFrames
    /\ arrived' = arrived + 1
    /\ call' = [call EXCEPT ![h] = [IdleCall EXCEPT !.phase = "detect", !.frame = arrived + 1]]
    /\ detectors' = Append(detectors, h)
    /\ UNCHANGED <<loaders, cached, registered, made, looked, track, counter, lastFired,
                   now, faults>>

\* Mutant: the semaphore lets any waiter pass.
AnyTurn(h) == h \in ToSet(detectors)

DetectorsTurn(h) == call[h].phase = "detect" /\ Head(detectors) = h

\* detector.detect returns.  The camera's tracker is taken, or made; if the zones
\* are cached get_zones returns without an await.
Detected(h) ==
    /\ DetectorsTurn(h)
    /\ detectors' = Tail(detectors)
    /\ LET g == IF registered = None THEN made + 1 ELSE registered IN
       /\ IF registered = None THEN made < MaxTrackers /\ made' = made + 1
                               ELSE UNCHANGED made
       /\ registered' = g
       /\ IF cached
          THEN Analyze(g) /\ Return(h) /\ UNCHANGED loaders
          ELSE /\ call' = [call EXCEPT ![h].phase = "lock", ![h].tracker = g]
               /\ loaders' = Append(loaders, h)
               /\ UNCHANGED <<looked, track, counter, lastFired>>
    /\ UNCHANGED <<cached, arrived, now, faults>>

\* Mutant: the exception keeps the semaphore.
DetectFailsHolding(h) ==
    /\ DetectorsTurn(h)
    /\ faults < MaxFaults /\ faults' = faults + 1
    /\ Return(h)
    /\ UNCHANGED <<detectors, loaders, cached, registered, made, looked, track, counter,
                   lastFired, arrived, now>>

\* detector.detect raises: the request fails.
DetectFails(h) ==
    /\ DetectorsTurn(h)
    /\ faults < MaxFaults /\ faults' = faults + 1
    /\ detectors' = Tail(detectors)
    /\ Return(h)
    /\ UNCHANGED <<loaders, cached, registered, made, looked, track, counter, lastFired,
                   arrived, now>>

\* The holder of the lock looks again, and finds the zones ...
Loaded(h) ==
    /\ call[h].phase = "lock" /\ Head(loaders) = h /\ cached
    /\ loaders' = Tail(loaders)
    /\ Analyze(call[h].tracker) /\ Return(h)
    /\ UNCHANGED <<detectors, cached, registered, made, arrived, now, faults>>

\* ... or asks the backend,
Fetch(h) ==
    /\ call[h].phase = "lock" /\ Head(loaders) = h /\ ~cached
    /\ call' = [call EXCEPT ![h].phase = "fetch"]
    /\ UNCHANGED <<detectors, loaders, cached, registered, made, looked, track, counter,
                   lastFired, arrived, now, faults>>

\* which always ends with an entry.
Fetched(h) ==
    /\ call[h].phase = "fetch"
    /\ cached' = TRUE
    /\ loaders' = Tail(loaders)
    /\ Analyze(call[h].tracker) /\ Return(h)
    /\ UNCHANGED <<detectors, registered, made, arrived, now, faults>>

----------------------------------------------------------------------------
(* The environment                                                         *)

\* The entry expires or is invalidated.
Expire ==
    /\ cached /\ cached' = FALSE
    /\ UNCHANGED <<call, detectors, loaders, registered, made, looked, track, counter,
                   lastFired, arrived, now, faults>>

\* DELETE /trackers/{camera_id}: TrackerRegistry.remove.  A call that holds the
\* tracker goes on with it.
Reset ==
    /\ registered # None /\ made < MaxTrackers
    /\ registered' = None
    /\ UNCHANGED <<call, detectors, loaders, cached, made, looked, track, counter,
                   lastFired, arrived, now, faults>>

Tick ==
    /\ now < MaxTime /\ now' = now + 1
    /\ UNCHANGED <<call, detectors, loaders, cached, registered, made, looked, track,
                   counter, lastFired, arrived, faults>>

----------------------------------------------------------------------------

Init ==
    /\ call = [h \in Handlers |-> IdleCall]
    /\ detectors = <<>> /\ loaders = <<>> /\ cached = FALSE
    /\ registered = None /\ made = 0 /\ looked = [g \in Trackers |-> StartTime]
    /\ track = [i \in TrackIds |-> None] /\ counter = 0
    /\ lastFired = [k \in Keys |-> 0]
    /\ arrived = 0 /\ now = StartTime /\ faults = 0

Process(h) == Detected(h) \/ DetectFails(h) \/ Loaded(h) \/ Fetch(h) \/ Fetched(h)

Next ==
    \/ \E h \in Handlers : Arrive(h) \/ Process(h)
    \/ Expire \/ Reset \/ Tick

Spec == Init /\ [][Next]_vars

----------------------------------------------------------------------------
(* Properties                                                              *)

\* The types of what an update of a tracker changes, and of the rest.
DataOK ==
    /\ looked \in [Trackers -> Nat]
    /\ track \in [TrackIds -> Track \cup {None}] /\ counter \in 0..MaxTracks
    /\ lastFired \in [Keys -> Nat]
ControlOK ==
    /\ call \in [Handlers -> Call]
    /\ detectors \in Seq(Handlers) /\ loaders \in Seq(Handlers)
    /\ cached \in BOOLEAN
    /\ registered \in Trackers \cup {None} /\ made \in 0..MaxTrackers
    /\ arrived \in 0..MaxFrames /\ now \in Nat /\ faults \in 0..MaxFaults

\* Every variable keeps its type.
TypeOK == DataOK /\ ControlOK

\* No one stands in a zone in silence: a confirmed track that fitted an immediate
\* rule when its tracker last looked had an event of that rule raised then, or
\* less than a cooldown before, whatever became of other tracks and trackers
\* (CameraTracker.update, RiskEngine._zone_analysis, EventDeduplicator).
NoSilentIntruder ==
    \A i \in TrackIds :
       track[i] # None /\ Confirmed(track[i]) =>
          \A r \in track[i].shows :
             Trigger[r] = 0 => looked[track[i].tracker] - lastFired[<<r, i>>] < Cooldown[r]

\* A frame is analysed before an older one only while the older waits for the
\* lock of the reload, never while it is at the detector or has asked for the
\* zones itself (process, get_zones, _reload): the tracker sees the boxes of a
\* camera in order otherwise.
OvertakesOnlyWaiters ==
    [][\A h, g \in Handlers :
          /\ call[h].phase # "idle" /\ call'[h].phase = "idle" /\ faults' = faults
          /\ call[g].phase # "idle" /\ call[g].frame < call[h].frame
          => call[g].phase = "lock"]_vars

\* Semaphore and lock are held, and waited for, by calls that will hand them on:
\* whatever fails or is reset, nobody waits for a call that is gone, and only
\* the holder of the lock asks the backend (process, _reload).
QueuesAreServed ==
    /\ IsInjective(detectors) /\ IsInjective(loaders)
    /\ ToSet(detectors) = {h \in Handlers : call[h].phase = "detect"}
    /\ ToSet(loaders) = {h \in Handlers : call[h].phase \in {"lock", "fetch"}}
    /\ \A h \in Handlers : call[h].phase = "fetch" => Head(loaders) = h

\* "Скільки секунд обʼєкт має бути в зоні до спрацювання правила"
\* (schemas/events.py:67): a rule with a delay has fired for a track that was
\* seen in the zone for as long as the delay.
DelayedRulesFire ==
    \A i \in TrackIds :
       track[i] # None /\ Confirmed(track[i]) /\ track[i].misses = 0 =>
          \A r \in track[i].shows :
             looked[track[i].tracker] - track[i].since[r] >= Trigger[r]
                => lastFired[<<r, i>>] # 0
=============================================================================

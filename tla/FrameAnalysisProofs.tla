------------------------ MODULE FrameAnalysisProofs -------------------------
(***************************************************************************)
(* Theorems about FrameAnalysis for any number of calls, tracks, trackers  *)
(* and rules: types, no silent intruder, and the order of the frames.      *)
(***************************************************************************)
EXTENDS FrameAnalysis, TLAPS

----------------------------------------------------------------------------
(* The update of a tracker                                                 *)

\* A matched track stays a track, an unmatched one does while it survives, and so
\* does one the zones have looked at (Track.update, CameraTracker.update).
LEMMA TracksStayTracks ==
    ASSUME NEW t \in Track, now \in Nat
    PROVE  /\ Hit(t) \in Track
           /\ Survives(Miss(t)) => Miss(t) \in Track
           /\ \A rules \in SUBSET Rules : Shown(t, rules) \in Track
<1>1. Hit(t) \in Track
  <2> DEFINE hits == IF t.hits < MinHits THEN t.hits + 1 ELSE t.hits
  <2>1. hits \in 1..MinHits
    BY TrackerAssumption DEF Track
  <2>2. Hit(t) = [t EXCEPT !.hits = hits, !.misses = 0]
    BY DEF Hit, Track
  <2>3. 0 \in 0..MaxMisses
    BY TrackerAssumption
  <2> HIDE DEF hits
  <2>4. QED
    BY <2>1, <2>2, <2>3 DEF Track
<1>2. Survives(Miss(t)) => Miss(t) \in Track
  BY TrackerAssumption DEF Miss, Survives, Track
<1>3. ASSUME NEW rules \in SUBSET Rules
      PROVE  Shown(t, rules) \in Track
  <2> DEFINE since == [r \in Rules |-> IF r \notin rules THEN None
                                       ELSE IF t.since[r] = None THEN now ELSE t.since[r]]
  <2>1. t.since \in [Rules -> Nat \cup {None}]
    BY DEF Track
  <2>2. since \in [Rules -> Nat \cup {None}]
    BY <2>1
  <2>3. Shown(t, rules) = [t EXCEPT !.shows = rules, !.since = since]
    BY DEF Shown, Track
  <2> HIDE DEF since
  <2>4. QED
    BY <2>2, <2>3 DEF Track
<1>4. QED
  BY <1>1, <1>2, <1>3

\* The track of an unmatched detection is a track (Track.__init__).
LEMMA NewTracksAreTracks ==
    ASSUME NEW g \in Trackers
    PROVE  NewTrack(g) \in Track
BY TrackerAssumption DEF NewTrack, Track

\* An update keeps the types, and after it nobody stands in silence.
LEMMA AnalyzeStep ==
    ASSUME DataOK, now \in Nat, NoSilentIntruder, NEW g \in Trackers, Analyze(g)
    PROVE  DataOK' /\ NoSilentIntruder'
<1> DEFINE old == {i \in TrackIds : track[i] # None /\ track[i].tracker = g}
<1>1. PICK matched \in SUBSET old, n \in 0..(MaxTracks - counter) :
        LET born == (counter + 1)..(counter + n)
            updated == [i \in old \cup born |->
                          IF i \in born THEN NewTrack(g)
                          ELSE IF i \in matched THEN Hit(track[i]) ELSE Miss(track[i])]
            alive == {i \in old \cup born : Survives(updated[i])}
            seen == {i \in alive : Confirmed(updated[i])}
        IN \E shows \in [seen -> SUBSET Rules] :
             LET tracks == [i \in alive |-> IF i \in seen THEN Shown(updated[i], shows[i])
                                                          ELSE updated[i]]
                 raised == Raised(tracks)
             IN /\ track' = [i \in TrackIds |-> IF i \in alive THEN tracks[i]
                                                ELSE IF i \in old THEN None ELSE track[i]]
                /\ lastFired' = [k \in Keys |-> IF k \in raised THEN now ELSE lastFired[k]]
                /\ counter' = counter + n
                /\ looked' = [looked EXCEPT ![g] = now]
  BY DEF Analyze
<1> DEFINE born == (counter + 1)..(counter + n)
           updated == [i \in old \cup born |->
                         IF i \in born THEN NewTrack(g)
                         ELSE IF i \in matched THEN Hit(track[i]) ELSE Miss(track[i])]
           alive == {i \in old \cup born : Survives(updated[i])}
           seen == {i \in alive : Confirmed(updated[i])}
<1>2. PICK shows \in [seen -> SUBSET Rules] :
        LET tracks == [i \in alive |-> IF i \in seen THEN Shown(updated[i], shows[i])
                                                     ELSE updated[i]]
            raised == Raised(tracks)
        IN /\ track' = [i \in TrackIds |-> IF i \in alive THEN tracks[i]
                                           ELSE IF i \in old THEN None ELSE track[i]]
           /\ lastFired' = [k \in Keys |-> IF k \in raised THEN now ELSE lastFired[k]]
           /\ counter' = counter + n
           /\ looked' = [looked EXCEPT ![g] = now]
  BY <1>1
<1> DEFINE tracks == [i \in alive |-> IF i \in seen THEN Shown(updated[i], shows[i])
                                                    ELSE updated[i]]
<1>3. /\ track' = [i \in TrackIds |-> IF i \in alive THEN tracks[i]
                                      ELSE IF i \in old THEN None ELSE track[i]]
      /\ lastFired' = [k \in Keys |-> IF k \in Raised(tracks) THEN now ELSE lastFired[k]]
      /\ counter' = counter + n
      /\ looked' = [looked EXCEPT ![g] = now]
  BY <1>2
<1>4. born \subseteq TrackIds /\ counter' \in 0..MaxTracks
  BY <1>3, BoundAssumption DEF DataOK, TrackIds
<1>5. ASSUME NEW i \in old
      PROVE  track[i] \in Track /\ track[i].tracker = g
  BY DEF DataOK
<1>6. ASSUME NEW i \in alive
      PROVE  updated[i] \in Track /\ updated[i].tracker = g
  <2>1. CASE i \in born
    BY <2>1, NewTracksAreTracks DEF NewTrack
  <2>2. CASE i \in matched /\ i \notin born
    <3>1. updated[i] = Hit(track[i])
      BY <2>2
    <3>2. Hit(track[i]).tracker = g
      BY <2>2, <1>5 DEF Hit, Track
    <3>3. QED
      BY <2>2, <3>1, <3>2, <1>5, TracksStayTracks
  <2>3. CASE i \in old \ matched /\ i \notin born
    <3>1. updated[i] = Miss(track[i]) /\ Survives(updated[i])
      BY <2>3
    <3>2. Miss(track[i]).tracker = g
      BY <2>3, <1>5 DEF Miss, Track
    <3>3. QED
      BY <2>3, <3>1, <3>2, <1>5, TracksStayTracks
  <2>4. QED
    BY <2>1, <2>2, <2>3
<1>7. ASSUME NEW i \in alive
      PROVE  tracks[i] \in Track /\ tracks[i].tracker = g
  <2>1. CASE i \in seen
    <3>1. tracks[i] = Shown(updated[i], shows[i]) /\ shows[i] \in SUBSET Rules
      BY <2>1
    <3>2. Shown(updated[i], shows[i]).tracker = g
      BY <1>6 DEF Shown, Track
    <3>3. QED
      BY <3>1, <3>2, <1>6, TracksStayTracks
  <2>2. CASE i \notin seen
    BY <2>2, <1>6
  <2>3. QED
    BY <2>1, <2>2
<1>8. alive \subseteq TrackIds
  BY <1>4
<1>9. DataOK'
  <2> HIDE DEF tracks, alive, old
  <2>1. looked' \in [Trackers -> Nat]
    BY <1>3 DEF DataOK
  <2>2. track' \in [TrackIds -> Track \cup {None}]
    BY <1>3, <1>7 DEF DataOK
  <2>3. lastFired' \in [Keys -> Nat]
    BY <1>3 DEF DataOK
  <2>4. QED
    BY <1>4, <2>1, <2>2, <2>3 DEF DataOK
<1>10. NoSilentIntruder'
  <2> HIDE DEF tracks, alive
  <2>1. SUFFICES ASSUME NEW i \in TrackIds, track'[i] # None, Confirmed(track'[i]),
                        NEW r \in track'[i].shows, Trigger[r] = 0
                 PROVE  looked'[track'[i].tracker] - lastFired'[<<r, i>>] < Cooldown[r]
    BY DEF NoSilentIntruder, Confirmed
  <2>2. track'[i] \in Track /\ r \in Rules
    BY <1>9, <2>1 DEF DataOK, Track
  <2>3. <<r, i>> \in Keys
    BY <2>2 DEF Keys
  <2>4. CASE i \in alive
    <3>1. track'[i] = tracks[i] /\ looked'[g] = now
      BY <1>3, <2>4 DEF DataOK
    <3>2. track'[i].tracker = g
      BY <1>7, <2>4, <3>1
    <3>3. CASE Due(<<r, i>>)
      <4>1. <<r, i>> \in Raised(tracks)
        <5>1. i \in DOMAIN tracks
          BY <2>4 DEF tracks
        <5>2. Dwell(tracks[i]) >= Trigger[r]
          BY <2>1, <2>2, <3>1 DEF Dwell, Track
        <5>3. QED
          BY <2>1, <2>3, <3>1, <3>3, <5>1, <5>2 DEF Raised, Key
      <4>2. lastFired'[<<r, i>>] = now
        BY <1>3, <2>3, <4>1
      <4>3. QED
        BY <2>2, <3>1, <3>2, <4>2, RuleAssumption
    <3>4. CASE ~Due(<<r, i>>)
      <4>1. <<r, i>> \notin Raised(tracks)
        BY <3>4 DEF Raised
      <4>2. lastFired'[<<r, i>>] = lastFired[<<r, i>>]
        BY <1>3, <2>3, <4>1
      <4>3. now - lastFired[<<r, i>>] < Cooldown[r]
        BY <2>2, <2>3, <3>4, RuleAssumption DEF Due, DataOK
      <4>4. QED
        BY <3>1, <3>2, <4>2, <4>3
    <3>5. QED
      BY <3>3, <3>4
  <2>5. CASE i \notin alive
    <3>1. i \notin old /\ track'[i] = track[i]
      BY <1>3, <2>1, <2>5
    <3>2. track[i].tracker \in Trackers /\ track[i].tracker # g
      BY <2>1, <2>2, <3>1 DEF Track
    <3>3. looked'[track[i].tracker] = looked[track[i].tracker]
      BY <1>3, <3>2 DEF DataOK
    <3>4. <<r, i>> \notin Raised(tracks)
      <4>1. i \notin DOMAIN tracks
        BY <2>5 DEF tracks
      <4>2. QED
        BY <4>1 DEF Raised, Key
    <3>5. lastFired'[<<r, i>>] = lastFired[<<r, i>>]
      BY <1>3, <2>3, <3>4
    <3>6. looked[track[i].tracker] - lastFired[<<r, i>>] < Cooldown[r]
      BY <2>1, <3>1 DEF NoSilentIntruder
    <3>7. QED
      BY <3>1, <3>3, <3>5, <3>6
  <2>6. QED
    BY <2>4, <2>5
<1>11. QED
  BY <1>9, <1>10

----------------------------------------------------------------------------
(* The steps, one by one: types and intruders                              *)

\* Steps that leave tracks, times and the table of events alone.
LEMMA DataUntouched ==
    ASSUME DataOK, NoSilentIntruder, UNCHANGED <<looked, track, counter, lastFired>>
    PROVE  DataOK' /\ NoSilentIntruder'
BY DEF DataOK, NoSilentIntruder, Confirmed

\* A call at a semaphore or lock is in a queue that is not empty.
Waiting ==
    /\ \A h \in Handlers : call[h].phase = "detect" => detectors # <<>>
    /\ \A h \in Handlers : call[h].phase \in {"lock", "fetch"} => loaders # <<>>

\* The steps of a call after its arrival keep types and leave nobody in silence.
LEMMA ProcessStep ==
    ASSUME TypeOK, Waiting, NoSilentIntruder, NEW h \in Handlers, Process(h)
    PROVE  TypeOK' /\ NoSilentIntruder'
<1> USE DEF TypeOK, Waiting
<1>1. IdleCall \in Call
  BY BoundAssumption DEF IdleCall, Call
<1>2. CASE Detected(h)
  <2> DEFINE g == IF registered = None THEN made + 1 ELSE registered
  <2>1. /\ detectors' = Tail(detectors) /\ call[h].phase = "detect"
        /\ registered' = g
        /\ IF registered = None THEN made < MaxTrackers /\ made' = made + 1
                                ELSE made' = made
        /\ UNCHANGED <<cached, arrived, now, faults>>
    BY <1>2 DEF Detected, DetectorsTurn
  <2>2. g \in Trackers /\ made' \in 0..MaxTrackers
    BY <2>1, BoundAssumption DEF ControlOK, Trackers
  <2>3. detectors' \in Seq(Handlers)
    BY <2>1 DEF ControlOK
  <2> HIDE DEF g
  <2>4. CASE cached
    <3>1. Analyze(g) /\ Return(h) /\ UNCHANGED loaders
      BY <1>2, <2>4 DEF Detected, g
    <3>2. DataOK' /\ NoSilentIntruder'
      BY <2>2, <3>1, AnalyzeStep DEF ControlOK
    <3>3. ControlOK'
      BY <1>1, <2>1, <2>2, <2>3, <3>1 DEF ControlOK, Return
    <3>4. QED
      BY <3>2, <3>3
  <2>5. CASE ~cached
    <3>1. /\ call' = [call EXCEPT ![h].phase = "lock", ![h].tracker = g]
          /\ loaders' = Append(loaders, h)
          /\ UNCHANGED <<looked, track, counter, lastFired>>
      BY <1>2, <2>5 DEF Detected, g
    <3>2. DataOK' /\ NoSilentIntruder'
      BY <3>1, DataUntouched
    <3>3. call' \in [Handlers -> Call]
      BY <2>1, <2>2, <3>1 DEF ControlOK, Call
    <3>4. ControlOK'
      BY <2>1, <2>2, <2>3, <3>1, <3>3 DEF ControlOK
    <3>5. QED
      BY <3>2, <3>4
  <2>6. QED
    BY <2>4, <2>5
<1>3. CASE DetectFails(h)
  <2>1. DataOK' /\ NoSilentIntruder'
    BY <1>3, DataUntouched DEF DetectFails
  <2>2. ControlOK'
    BY <1>1, <1>3, BoundAssumption DEF ControlOK, DetectFails, DetectorsTurn, Return
  <2>3. QED
    BY <2>1, <2>2
<1>4. CASE Loaded(h) \/ Fetched(h)
  <2>1. /\ call[h].phase \in {"lock", "fetch"} /\ loaders' = Tail(loaders)
        /\ Analyze(call[h].tracker) /\ Return(h)
        /\ cached' \in BOOLEAN
        /\ UNCHANGED <<detectors, registered, made, arrived, now, faults>>
    BY <1>4 DEF Loaded, Fetched, ControlOK
  <2>2. call[h].tracker \in Trackers
    BY <2>1 DEF ControlOK, Call
  <2>3. DataOK' /\ NoSilentIntruder'
    BY <2>1, <2>2, AnalyzeStep DEF ControlOK
  <2>4. ControlOK'
    BY <1>1, <2>1 DEF ControlOK, Return
  <2>5. QED
    BY <2>3, <2>4
<1>5. CASE Fetch(h)
  <2>1. DataOK' /\ NoSilentIntruder'
    BY <1>5, DataUntouched DEF Fetch
  <2>2. ControlOK'
    BY <1>5 DEF ControlOK, Fetch, Call
  <2>3. QED
    BY <2>1, <2>2
<1>6. QED
  BY <1>2, <1>3, <1>4, <1>5 DEF Process

\* Every step does.
LEMMA DataStep ==
    ASSUME TypeOK, Waiting, NoSilentIntruder, [Next]_vars
    PROVE  TypeOK' /\ NoSilentIntruder'
<1> USE DEF TypeOK
<1>1. ASSUME NEW h \in Handlers, Arrive(h)
      PROVE  TypeOK' /\ NoSilentIntruder'
  <2>1. DataOK' /\ NoSilentIntruder'
    BY <1>1, DataUntouched DEF Arrive
  <2>2. arrived' = arrived + 1 /\ arrived + 1 \in 0..MaxFrames
    BY <1>1, BoundAssumption DEF Arrive, ControlOK
  <2>3. [IdleCall EXCEPT !.phase = "detect", !.frame = arrived + 1] \in Call
    BY <2>2 DEF IdleCall, Call
  <2>4. ControlOK'
    BY <1>1, <2>2, <2>3 DEF Arrive, ControlOK
  <2>5. QED
    BY <2>1, <2>4
<1>2. CASE Expire \/ Reset \/ Tick \/ UNCHANGED vars
  <2>1. DataOK' /\ NoSilentIntruder'
    BY <1>2, DataUntouched DEF Expire, Reset, Tick, vars
  <2>2. CASE Expire \/ Reset
    BY <2>1, <2>2 DEF Expire, Reset, ControlOK
  <2>3. CASE Tick
    BY <2>1, <2>3 DEF Tick, ControlOK
  <2>4. CASE UNCHANGED vars
    BY <2>1, <2>4 DEF vars, ControlOK
  <2>5. QED
    BY <1>2, <2>2, <2>3, <2>4
<1>3. QED
  BY <1>1, <1>2, ProcessStep DEF Next

----------------------------------------------------------------------------
(* The order of the frames                                                 *)

Detecting == {h \in Handlers : call[h].phase = "detect"}
Loading == {h \in Handlers : call[h].phase \in {"lock", "fetch"}}

\* The calls of queue "q" are those of set "S", in the order of their frames in "c".
Queue(c, q, S) ==
    /\ \A i, j \in 1..Len(q) : i < j => c[q[i]].frame < c[q[j]].frame
    /\ \A h \in Handlers : h \in S <=> \E i \in 1..Len(q) : q[i] = h

\* Both queues are in the order of the frames, and whoever waits for the zones is
\* ahead of whoever waits for the detector.  The zones are asked for by the first
\* of those, and are not cached before it has them.
OrderInv ==
    /\ Queue(call, detectors, Detecting) /\ Queue(call, loaders, Loading)
    /\ \A g \in Loading, h \in Detecting : call[g].frame < call[h].frame
    /\ \A h \in Handlers : call[h].phase = "fetch" => loaders[1] = h /\ ~cached
    /\ \A h \in Handlers : call[h].frame <= arrived

\* Whoever waits is in a queue, which is not empty then.
LEMMA OrderWaits ==
    ASSUME TypeOK, OrderInv
    PROVE  Waiting
BY DEF TypeOK, ControlOK, OrderInv, Queue, Waiting, Detecting, Loading

\* In queues without repetition, the one in the fetch ahead of all.
LEMMA OrderServes ==
    ASSUME TypeOK, OrderInv
    PROVE  QueuesAreServed
<1>1. IsInjective(detectors) /\ IsInjective(loaders)
  <2>1. ASSUME NEW i \in 1..Len(detectors), NEW j \in 1..Len(detectors),
               detectors[i] = detectors[j], i # j
        PROVE  FALSE
    BY <2>1 DEF OrderInv, Queue, TypeOK, ControlOK, Call
  <2>2. ASSUME NEW i \in 1..Len(loaders), NEW j \in 1..Len(loaders),
               loaders[i] = loaders[j], i # j
        PROVE  FALSE
    BY <2>2 DEF OrderInv, Queue, TypeOK, ControlOK, Call
  <2>3. DOMAIN detectors = 1..Len(detectors) /\ DOMAIN loaders = 1..Len(loaders)
    BY DEF TypeOK, ControlOK
  <2>4. QED
    BY <2>1, <2>2, <2>3 DEF IsInjective
<1>2. ASSUME NEW s \in Seq(Handlers)
      PROVE  ToSet(s) = {h \in Handlers : \E i \in 1..Len(s) : s[i] = h}
  <2>1. DOMAIN s = 1..Len(s) /\ \A i \in 1..Len(s) : s[i] \in Handlers
    OBVIOUS
  <2>2. QED
    BY <2>1 DEF ToSet
<1>3. /\ ToSet(detectors) = {h \in Handlers : call[h].phase = "detect"}
      /\ ToSet(loaders) = {h \in Handlers : call[h].phase \in {"lock", "fetch"}}
  <2>1. detectors \in Seq(Handlers) /\ loaders \in Seq(Handlers)
    BY DEF TypeOK, ControlOK
  <2>2. /\ ToSet(detectors) = {h \in Handlers : \E i \in 1..Len(detectors) : detectors[i] = h}
        /\ ToSet(loaders) = {h \in Handlers : \E i \in 1..Len(loaders) : loaders[i] = h}
    BY <1>2, <2>1
  <2>3. QED
    BY <2>2 DEF OrderInv, Queue, Detecting, Loading
<1>4. ASSUME NEW h \in Handlers, call[h].phase = "fetch"
      PROVE  Head(loaders) = h
  BY <1>4 DEF OrderInv, Queue, TypeOK, ControlOK, Loading
<1>5. QED
  BY <1>1, <1>3, <1>4 DEF QueuesAreServed

\* The head of a queue leaves it.
LEMMA QueueTail ==
    ASSUME NEW c \in [Handlers -> Call], NEW d, NEW q \in Seq(Handlers), q # <<>>,
           NEW S, Queue(c, q, S), \A g \in S \ {q[1]} : d[g].frame = c[g].frame
    PROVE  Queue(d, Tail(q), S \ {q[1]})
<1>1. /\ Len(q) \in Nat \ {0} /\ Len(Tail(q)) = Len(q) - 1
      /\ \A i \in 1..Len(Tail(q)) : Tail(q)[i] = q[i + 1]
      /\ \A i \in 1..Len(q) : q[i] \in Handlers
  OBVIOUS
<1>2. \A i \in 1..Len(q) : c[q[i]].frame \in Int
  BY <1>1 DEF Call
<1>3. \A i \in 2..Len(q) : q[i] # q[1]
  <2>1. ASSUME NEW i \in 2..Len(q)
        PROVE  c[q[1]].frame < c[q[i]].frame
    BY <1>1 DEF Queue
  <2>2. QED
    BY <1>1, <1>2, <2>1
<1>4. \A i \in 2..Len(q) : q[i] \in S /\ d[q[i]].frame = c[q[i]].frame
  BY <1>1, <1>3 DEF Queue
<1>5. ASSUME NEW i \in 1..Len(Tail(q)), NEW j \in 1..Len(Tail(q)), i < j
      PROVE  d[Tail(q)[i]].frame < d[Tail(q)[j]].frame
  <2>1. i + 1 \in 2..Len(q) /\ j + 1 \in 2..Len(q) /\ i + 1 < j + 1
    BY <1>1, <1>5
  <2>2. c[q[i + 1]].frame < c[q[j + 1]].frame
    BY <1>1, <2>1 DEF Queue
  <2>3. QED
    BY <1>1, <1>4, <2>1, <2>2
<1>6. ASSUME NEW h \in Handlers
      PROVE  h \in S \ {q[1]} <=> \E i \in 1..Len(Tail(q)) : Tail(q)[i] = h
  <2>1. ASSUME h \in S \ {q[1]}
        PROVE  \E i \in 1..Len(Tail(q)) : Tail(q)[i] = h
    <3>1. PICK i \in 1..Len(q) : q[i] = h
      BY <2>1 DEF Queue
    <3>2. i - 1 \in 1..Len(Tail(q)) /\ Tail(q)[i - 1] = q[i]
      BY <1>1, <2>1, <3>1
    <3>3. QED
      BY <3>1, <3>2
  <2>2. ASSUME NEW i \in 1..Len(Tail(q)), Tail(q)[i] = h
        PROVE  h \in S \ {q[1]}
    <3>1. i + 1 \in 2..Len(q) /\ q[i + 1] = h
      BY <1>1, <2>2
    <3>2. QED
      BY <1>3, <1>4, <3>1
  <2>3. QED
    BY <2>1, <2>2
<1>7. QED
  BY <1>5, <1>6 DEF Queue

\* A call joins a queue, behind all that are in it.
LEMMA QueueAppend ==
    ASSUME NEW c, NEW d, NEW q \in Seq(Handlers), NEW S, Queue(c, q, S),
           NEW h \in Handlers \ S,
           \A g \in S : d[g].frame = c[g].frame /\ c[g].frame < d[h].frame
    PROVE  Queue(d, Append(q, h), S \cup {h})
<1> DEFINE r == Append(q, h)
<1>1. /\ Len(q) \in Nat /\ Len(r) = Len(q) + 1 /\ r[Len(q) + 1] = h
      /\ \A i \in 1..Len(q) : r[i] = q[i] /\ q[i] \in Handlers
  OBVIOUS
<1> HIDE DEF r
<1>2. \A i \in 1..Len(q) : q[i] \in S
  BY <1>1 DEF Queue
<1>3. ASSUME NEW i \in 1..Len(r), NEW j \in 1..Len(r), i < j
      PROVE  d[r[i]].frame < d[r[j]].frame
  <2>1. i \in 1..Len(q)
    BY <1>1, <1>3
  <2>2. CASE j \in 1..Len(q)
    BY <1>1, <1>2, <1>3, <2>1, <2>2 DEF Queue
  <2>3. CASE j = Len(q) + 1
    BY <1>1, <1>2, <2>1, <2>3
  <2>4. QED
    BY <1>1, <2>2, <2>3
<1>4. ASSUME NEW g \in Handlers
      PROVE  g \in S \cup {h} <=> \E i \in 1..Len(r) : r[i] = g
  <2>1. ASSUME g \in S
        PROVE  \E i \in 1..Len(r) : r[i] = g
    BY <1>1, <2>1 DEF Queue
  <2>2. Len(q) + 1 \in 1..Len(r)
    BY <1>1
  <2>3. ASSUME NEW i \in 1..Len(r), r[i] = g
        PROVE  g \in S \cup {h}
    <3>1. i \in 1..Len(q) \/ i = Len(q) + 1
      BY <1>1
    <3>2. QED
      BY <1>1, <1>2, <2>3, <3>1
  <2>4. QED
    BY <1>1, <2>1, <2>2, <2>3
<1>5. QED
  BY <1>3, <1>4 DEF Queue, r

\* A queue nobody joins or leaves.
LEMMA QueueStays ==
    ASSUME NEW c, NEW d, NEW q \in Seq(Handlers), NEW S, Queue(c, q, S),
           \A g \in S : d[g].frame = c[g].frame
    PROVE  Queue(d, q, S)
<1>1. \A i \in 1..Len(q) : q[i] \in S
  BY DEF Queue
<1>2. QED
  BY <1>1 DEF Queue

\* The order survives every step of a call after its arrival.
LEMMA OrderProcess ==
    ASSUME TypeOK, OrderInv, NEW h \in Handlers, Process(h)
    PROVE  OrderInv'
<1>1. /\ call \in [Handlers -> Call]
      /\ detectors \in Seq(Handlers) /\ loaders \in Seq(Handlers)
  BY DEF TypeOK, ControlOK
<1>2. Waiting
  BY OrderWaits
<1>3. \A g \in Handlers : call[g].frame \in Int /\ 0 <= arrived
  BY <1>1 DEF Call, TypeOK, ControlOK
<1>4. CASE (Detected(h) /\ cached) \/ DetectFails(h)
  <2>1. /\ DetectorsTurn(h) /\ detectors' = Tail(detectors) /\ Return(h)
        /\ UNCHANGED <<loaders, cached, arrived>>
    BY <1>4 DEF Detected, DetectFails
  <2>2. h = detectors[1] /\ detectors # <<>> /\ call[h].phase = "detect"
    BY <1>1, <1>2, <2>1 DEF DetectorsTurn, Waiting
  <2>3. call' = [call EXCEPT ![h] = IdleCall]
    BY <2>1 DEF Return
  <2>4. Detecting' = Detecting \ {h} /\ Loading' = Loading
    BY <1>1, <2>2, <2>3 DEF Detecting, Loading, IdleCall
  <2>5. \A g \in Handlers \ {h} : call'[g] = call[g]
    BY <1>1, <2>3
  <2>6. Queue(call', detectors', Detecting')
    <3>1. \A g \in Detecting \ {h} : call'[g].frame = call[g].frame
      BY <2>5 DEF Detecting
    <3>2. QED
      BY <1>1, <2>1, <2>2, <2>4, <3>1, QueueTail DEF OrderInv
  <2>7. Queue(call', loaders', Loading')
    <3>1. \A g \in Loading : call'[g].frame = call[g].frame
      BY <2>2, <2>5 DEF Loading
    <3>2. QED
      BY <1>1, <2>1, <2>4, <3>1, QueueStays DEF OrderInv
  <2>8. \A g \in Loading', k \in Detecting' : call'[g].frame < call'[k].frame
    BY <2>2, <2>4, <2>5 DEF OrderInv, Loading, Detecting
  <2>9. \A g \in Handlers : call'[g].phase = "fetch" => loaders'[1] = g /\ ~cached'
    BY <1>1, <2>1, <2>3 DEF OrderInv, IdleCall
  <2>10. \A g \in Handlers : call'[g].frame <= arrived'
    BY <1>1, <1>3, <2>1, <2>3 DEF OrderInv, IdleCall
  <2>11. QED
    BY <2>6, <2>7, <2>8, <2>9, <2>10 DEF OrderInv
<1>5. CASE Detected(h) /\ ~cached
  <2>1. PICK g : call' = [call EXCEPT ![h].phase = "lock", ![h].tracker = g]
    BY <1>5 DEF Detected
  <2>2. /\ DetectorsTurn(h) /\ detectors' = Tail(detectors)
        /\ loaders' = Append(loaders, h) /\ UNCHANGED <<cached, arrived>>
    BY <1>5 DEF Detected
  <2>3. h = detectors[1] /\ detectors # <<>> /\ call[h].phase = "detect"
    BY <1>1, <1>2, <2>2 DEF DetectorsTurn, Waiting
  <2>4. /\ \A k \in Handlers \ {h} : call'[k] = call[k]
        /\ call'[h].phase = "lock" /\ call'[h].frame = call[h].frame
    BY <1>1, <2>1 DEF Call
  <2>5. Detecting' = Detecting \ {h} /\ Loading' = Loading \cup {h}
    BY <2>3, <2>4 DEF Detecting, Loading
  <2>6. Queue(call', detectors', Detecting')
    <3>1. \A k \in Detecting \ {h} : call'[k].frame = call[k].frame
      BY <2>4 DEF Detecting
    <3>2. QED
      BY <1>1, <2>2, <2>3, <2>5, <3>1, QueueTail DEF OrderInv
  <2>7. Queue(call', loaders', Loading')
    <3>1. h \notin Loading /\ h \in Detecting
      BY <2>3 DEF Loading, Detecting
    <3>2. \A k \in Loading : call'[k].frame = call[k].frame /\ call[k].frame < call'[h].frame
      BY <2>4, <3>1 DEF OrderInv, Loading
    <3>3. QED
      BY <1>1, <2>2, <2>5, <3>1, <3>2, QueueAppend DEF OrderInv
  <2>8. \A k \in Detecting' : call'[h].frame < call'[k].frame
    <3>1. ASSUME NEW k \in Detecting, k # h
          PROVE  call[h].frame < call[k].frame
      <4>1. PICK j \in 1..Len(detectors) : detectors[j] = k
        BY DEF OrderInv, Queue, Detecting
      <4>2. 1 < j /\ 1 \in 1..Len(detectors)
        BY <1>1, <2>3, <3>1, <4>1
      <4>3. QED
        BY <2>3, <4>1, <4>2 DEF OrderInv, Queue
    <3>2. QED
      BY <2>4, <2>5, <3>1 DEF Detecting
  <2>9. \A k \in Loading', l \in Detecting' : call'[k].frame < call'[l].frame
    BY <2>3, <2>4, <2>5, <2>8 DEF OrderInv, Loading, Detecting
  <2>10. \A k \in Handlers : call'[k].phase = "fetch" => loaders'[1] = k /\ ~cached'
    <3>1. ASSUME NEW k \in Handlers, call'[k].phase = "fetch"
          PROVE  loaders'[1] = k /\ ~cached'
      <4>1. call[k].phase = "fetch"
        BY <2>4, <3>1
      <4>2. loaders[1] = k /\ loaders # <<>>
        BY <1>2, <4>1 DEF OrderInv, Waiting
      <4>3. QED
        BY <1>1, <1>5, <2>2, <4>2
    <3>2. QED
      BY <3>1
  <2>11. \A k \in Handlers : call'[k].frame <= arrived'
    BY <2>2, <2>4 DEF OrderInv
  <2>12. QED
    BY <2>6, <2>7, <2>9, <2>10, <2>11 DEF OrderInv
<1>6. CASE Loaded(h) \/ Fetched(h)
  <2>1. /\ call[h].phase \in {"lock", "fetch"} /\ loaders' = Tail(loaders) /\ Return(h)
        /\ UNCHANGED <<detectors, arrived>>
    BY <1>6 DEF Loaded, Fetched
  <2>2. h = loaders[1] /\ loaders # <<>>
    BY <1>1, <1>2, <1>6 DEF Waiting, Loaded, Fetched, OrderInv
  <2>3. call' = [call EXCEPT ![h] = IdleCall]
    BY <2>1 DEF Return
  <2>4. Detecting' = Detecting /\ Loading' = Loading \ {h}
    BY <1>1, <2>1, <2>3 DEF Detecting, Loading, IdleCall
  <2>5. \A g \in Handlers \ {h} : call'[g] = call[g]
    BY <1>1, <2>3
  <2>6. Queue(call', detectors', Detecting')
    <3>1. \A g \in Detecting : call'[g].frame = call[g].frame
      BY <2>1, <2>5 DEF Detecting
    <3>2. QED
      BY <1>1, <2>1, <2>4, <3>1, QueueStays DEF OrderInv
  <2>7. Queue(call', loaders', Loading')
    <3>1. \A g \in Loading \ {h} : call'[g].frame = call[g].frame
      BY <2>5 DEF Loading
    <3>2. QED
      BY <1>1, <2>1, <2>2, <2>4, <3>1, QueueTail DEF OrderInv
  <2>8. \A g \in Loading', k \in Detecting' : call'[g].frame < call'[k].frame
    BY <2>1, <2>4, <2>5 DEF OrderInv, Loading, Detecting
  <2>9. \A g \in Handlers : call'[g].phase # "fetch"
    <3>1. \A g \in Handlers \ {h} : call[g].phase = "fetch" => FALSE
      BY <2>2 DEF OrderInv
    <3>2. QED
      BY <1>1, <2>3, <2>5, <3>1 DEF IdleCall
  <2>10. \A g \in Handlers : call'[g].frame <= arrived'
    BY <1>1, <1>3, <2>1, <2>3 DEF OrderInv, IdleCall
  <2>11. QED
    BY <2>6, <2>7, <2>8, <2>9, <2>10 DEF OrderInv
<1>7. CASE Fetch(h)
  <2>1. /\ call[h].phase = "lock" /\ h = loaders[1] /\ ~cached
        /\ call' = [call EXCEPT ![h].phase = "fetch"]
        /\ UNCHANGED <<detectors, loaders, cached, arrived>>
    BY <1>1, <1>2, <1>7 DEF Fetch, Waiting
  <2>2. /\ \A g \in Handlers \ {h} : call'[g] = call[g]
        /\ call'[h].phase = "fetch" /\ call'[h].frame = call[h].frame
    BY <1>1, <2>1 DEF Call
  <2>3. Detecting' = Detecting /\ Loading' = Loading
    BY <2>1, <2>2 DEF Detecting, Loading
  <2>4. \A g \in Handlers : call'[g].frame = call[g].frame
    BY <2>2
  <2>5. Queue(call', detectors', Detecting') /\ Queue(call', loaders', Loading')
    BY <1>1, <2>1, <2>3, <2>4, QueueStays DEF OrderInv, Detecting, Loading
  <2>6. QED
    BY <2>1, <2>2, <2>3, <2>4, <2>5 DEF OrderInv, Detecting, Loading
<1>8. QED
  BY <1>4, <1>5, <1>6, <1>7 DEF Process

\* A step that no call takes.
LEMMA OrderRest ==
    ASSUME TypeOK, OrderInv, Expire \/ Reset \/ Tick \/ UNCHANGED vars
    PROVE  OrderInv'
<1>1. UNCHANGED <<call, detectors, loaders, arrived>> /\ (cached' => cached)
  BY DEF Expire, Reset, Tick, vars
<1>2. Detecting' = Detecting /\ Loading' = Loading
  BY <1>1 DEF Detecting, Loading
<1>3. QED
  BY <1>1, <1>2 DEF OrderInv, Queue, Detecting, Loading

\* A frame that comes in is the youngest.
LEMMA OrderArrive ==
    ASSUME TypeOK, OrderInv, NEW h \in Handlers, Arrive(h)
    PROVE  OrderInv'
<1>1. /\ call \in [Handlers -> Call] /\ arrived \in Nat
      /\ detectors \in Seq(Handlers) /\ loaders \in Seq(Handlers)
  BY DEF TypeOK, ControlOK
<1>2. \A g \in Handlers : call[g].frame \in Int
  BY <1>1 DEF Call
<1>3. /\ call[h].phase = "idle" /\ arrived' = arrived + 1
      /\ detectors' = Append(detectors, h) /\ UNCHANGED <<loaders, cached>>
  BY DEF Arrive
<1>4. /\ \A g \in Handlers \ {h} : call'[g] = call[g]
      /\ call'[h].phase = "detect" /\ call'[h].frame = arrived + 1
  BY <1>1 DEF Arrive, IdleCall
<1>5. Detecting' = Detecting \cup {h} /\ Loading' = Loading
  BY <1>3, <1>4 DEF Detecting, Loading
<1>6. h \notin Detecting /\ h \notin Loading
  BY <1>3 DEF Detecting, Loading
<1>7. \A g \in Handlers \ {h} : call'[g].frame = call[g].frame /\ call[g].frame < call'[h].frame
  BY <1>1, <1>2, <1>4 DEF OrderInv
<1>8. Queue(call', detectors', Detecting')
  <2>1. \A g \in Detecting : call'[g].frame = call[g].frame /\ call[g].frame < call'[h].frame
    BY <1>6, <1>7 DEF Detecting
  <2>2. QED
    BY <1>1, <1>3, <1>5, <1>6, <2>1, QueueAppend DEF OrderInv
<1>9. Queue(call', loaders', Loading')
  <2>1. \A g \in Loading : call'[g].frame = call[g].frame
    BY <1>6, <1>7 DEF Loading
  <2>2. QED
    BY <1>1, <1>3, <1>5, <2>1, QueueStays DEF OrderInv
<1>10. \A g \in Loading', k \in Detecting' : call'[g].frame < call'[k].frame
  BY <1>5, <1>6, <1>7 DEF OrderInv, Detecting, Loading
<1>11. \A g \in Handlers : call'[g].phase = "fetch" => loaders'[1] = g /\ ~cached'
  BY <1>3, <1>4 DEF OrderInv
<1>12. \A g \in Handlers : call'[g].frame <= arrived'
  BY <1>1, <1>2, <1>3, <1>4 DEF OrderInv
<1>13. QED
  BY <1>8, <1>9, <1>10, <1>11, <1>12 DEF OrderInv

\* A call that ends other than by a failure was first in the queue for the
\* detector, with the zones cached, or had the lock.  So a call with an older
\* frame waits for the lock.
LEMMA OrderOvertakes ==
    ASSUME TypeOK, OrderInv, [Next]_vars,
           NEW h \in Handlers, NEW g \in Handlers,
           call[h].phase # "idle", call'[h].phase = "idle", faults' = faults,
           call[g].phase # "idle", call[g].frame < call[h].frame
    PROVE  call[g].phase = "lock"
<1>1. /\ call \in [Handlers -> Call] /\ faults \in Nat
      /\ detectors \in Seq(Handlers) /\ loaders \in Seq(Handlers)
  BY DEF TypeOK, ControlOK
<1>2. call[g].phase \in {"detect", "lock", "fetch"} /\ call[g].frame \in Int
  BY <1>1 DEF Call
<1>3. Waiting
  BY OrderWaits
<1>4. (Detected(h) /\ cached) \/ Loaded(h) \/ Fetched(h)
  <2>1. ASSUME NEW k \in Handlers, Arrive(k) \/ Process(k)
        PROVE  (Detected(h) /\ cached) \/ Loaded(h) \/ Fetched(h)
    <3>1. ~Arrive(k) /\ ~Fetch(k)
      BY <1>1 DEF Arrive, Fetch, IdleCall, Call
    <3>2. ~DetectFails(k)
      BY <1>1 DEF DetectFails
    <3>3. CASE (Detected(k) /\ cached) \/ Loaded(k) \/ Fetched(k)
      <4>1. call' = [call EXCEPT ![k] = IdleCall]
        BY <3>3 DEF Detected, Loaded, Fetched, Return
      <4>2. k = h
        BY <1>1, <4>1
      <4>3. QED
        BY <3>3, <4>2
    <3>4. ~(Detected(k) /\ ~cached)
      BY <1>1 DEF Detected, Call
    <3>5. QED
      BY <2>1, <3>1, <3>2, <3>3, <3>4 DEF Process
  <2>2. ~(Expire \/ Reset \/ Tick \/ UNCHANGED vars)
    BY DEF Expire, Reset, Tick, vars
  <2>3. QED
    BY <2>1, <2>2 DEF Next
<1>5. CASE Detected(h) /\ cached
  <2>1. h = detectors[1] /\ detectors # <<>> /\ call[h].phase = "detect"
    BY <1>1, <1>3, <1>5 DEF Detected, DetectorsTurn, Waiting
  <2>2. ASSUME call[g].phase = "detect"
        PROVE  FALSE
    <3>1. g \in Detecting
      BY <2>2 DEF Detecting
    <3>2. PICK j \in 1..Len(detectors) : detectors[j] = g
      BY <3>1 DEF OrderInv, Queue
    <3>3. 1 < j /\ 1 \in 1..Len(detectors)
      BY <1>1, <1>2, <2>1, <3>2
    <3>4. call[h].frame < call[g].frame
      BY <2>1, <3>2, <3>3 DEF OrderInv, Queue
    <3>5. call[h].frame \in Int
      BY <1>1 DEF Call
    <3>6. QED
      BY <1>2, <3>4, <3>5
  <2>3. call[g].phase # "fetch"
    BY <1>5 DEF OrderInv
  <2>4. QED
    BY <1>2, <2>2, <2>3
<1>6. CASE Loaded(h) \/ Fetched(h)
  <2>1. h = loaders[1] /\ loaders # <<>> /\ h \in Loading
    BY <1>1, <1>3, <1>6 DEF Waiting, Loaded, Fetched, OrderInv, Loading
  <2>2. call[h].frame \in Int
    BY <1>1 DEF Call
  <2>3. g \notin Detecting
    BY <1>2, <2>1, <2>2 DEF OrderInv
  <2>4. call[g].phase # "fetch"
    <3>1. g # h
      BY <1>2
    <3>2. QED
      BY <2>1, <3>1 DEF OrderInv
  <2>5. QED
    BY <1>2, <2>3, <2>4 DEF Detecting
<1>7. QED
  BY <1>4, <1>5, <1>6

----------------------------------------------------------------------------
(* The theorems                                                            *)

\* The inductive invariant: an update needs the intruders' part of itself, and
\* the queues' part to know that a call at the head of a queue is in it.
Inv == TypeOK /\ NoSilentIntruder /\ OrderInv

\* The service starts with it.
LEMMA InvInit == Init => Inv
<1> SUFFICES ASSUME Init PROVE Inv
  OBVIOUS
<1>1. DataOK
  BY BoundAssumption, RuleAssumption DEF Init, DataOK
<1>2. ControlOK
  <2>1. IdleCall \in Call
    BY BoundAssumption DEF IdleCall, Call
  <2>2. call \in [Handlers -> Call]
    BY <2>1 DEF Init
  <2>3. detectors \in Seq(Handlers) /\ loaders \in Seq(Handlers)
    BY DEF Init
  <2>4. made \in 0..MaxTrackers /\ arrived \in 0..MaxFrames /\ faults \in 0..MaxFaults
    BY BoundAssumption DEF Init
  <2>5. cached \in BOOLEAN /\ registered \in Trackers \cup {None} /\ now \in Nat
    BY RuleAssumption DEF Init
  <2>6. QED
    BY <2>2, <2>3, <2>4, <2>5 DEF ControlOK
<1>3. NoSilentIntruder
  BY DEF Init, NoSilentIntruder
<1>4. Detecting = {} /\ Loading = {}
  BY DEF Init, Detecting, Loading, IdleCall
<1>5. Queue(call, detectors, Detecting) /\ Queue(call, loaders, Loading)
  BY <1>4 DEF Init, Queue
<1>6. OrderInv
  BY <1>4, <1>5 DEF Init, OrderInv, IdleCall
<1>7. QED
  BY <1>1, <1>2, <1>3, <1>6 DEF Inv, TypeOK

\* Every step keeps it.
LEMMA InvStep == Inv /\ [Next]_vars => Inv'
<1> SUFFICES ASSUME Inv, [Next]_vars PROVE Inv'
  OBVIOUS
<1> USE DEF Inv
<1>1. TypeOK' /\ NoSilentIntruder'
  BY OrderWaits, DataStep
<1>2. OrderInv'
  BY OrderArrive, OrderProcess, OrderRest DEF Next
<1>3. QED
  BY <1>1, <1>2

\* So it always holds.
LEMMA InvAlways == Spec => []Inv
BY InvInit, InvStep, PTL DEF Spec

\* Every variable keeps its type (process, CameraTracker.update).
THEOREM FramesTypeCorrect == Spec => []TypeOK
<1>1. Inv => TypeOK
  BY DEF Inv
<1>2. QED
  BY <1>1, InvAlways, PTL

\* A confirmed track that fits an immediate rule has had an event of that rule in
\* the last cooldown, for any number of tracks, trackers, calls and rules.
THEOREM NoSilence == Spec => []NoSilentIntruder
<1>1. Inv => NoSilentIntruder
  BY DEF Inv
<1>2. QED
  BY <1>1, InvAlways, PTL

\* Semaphore and lock are held by calls that will hand them on, and one call at
\* most asks the backend.
THEOREM QueuesServe == Spec => []QueuesAreServed
<1>1. Inv => QueuesAreServed
  BY OrderServes DEF Inv
<1>2. QED
  BY <1>1, InvAlways, PTL

\* A frame is analysed before an older one only while the older waits for the
\* lock of the reload (process, get_zones, _reload).
THEOREM FramesInOrder == Spec => OvertakesOnlyWaiters
<1>1. Inv /\ [Next]_vars =>
        [\A h, g \in Handlers :
            /\ call[h].phase # "idle" /\ call'[h].phase = "idle" /\ faults' = faults
            /\ call[g].phase # "idle" /\ call[g].frame < call[h].frame
            => call[g].phase = "lock"]_vars
  BY OrderOvertakes DEF Inv
<1>2. QED
  BY <1>1, InvAlways, PTL DEF Spec, OvertakesOnlyWaiters
=============================================================================

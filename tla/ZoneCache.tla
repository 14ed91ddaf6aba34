------------------------------ MODULE ZoneCache ------------------------------
(***************************************************************************)
(* The detection zones of a camera, from the backend's table to the frame  *)
(* handlers of the AI service.                                             *)
(*                                                                         *)
(* The backend commits a change of a zone and then announces it on the     *)
(* exchange security.zones (ZoneService, RabbitMQClient).  The AI service  *)
(* keeps the zones of each camera in a cache with a time to live           *)
(* (ZoneManager): a frame handler that misses takes the camera's lock,     *)
(* looks again, reads the zones over HTTP - first under the camera's own   *)
(* id, then under its alias ("3" and "camera3" name one camera) - and      *)
(* stores what it read; an announcement deletes the entries of both names. *)
(***************************************************************************)
EXTENDS Integers, Sequences, FiniteSets

CONSTANTS
    Cameras,     \* camera ids, the alias spellings included
    Alias,       \* Alias[c]: the other spelling of c, or c when it has none
    Zones,       \* primary keys of the zones table
    Shapes,      \* what a zone says besides its camera and its is_active flag
    Handlers,    \* concurrent calls of ZoneManager.get_zones
    Admins,      \* concurrent requests to the backend's zone API
    None,        \* no row, no cache entry, no camera
    ZoneTTL,     \* settings.ZONE_CACHE_TTL, in ticks
    EmptyTTL,    \* EMPTY_CACHE_TTL, in ticks
    FetchMax,    \* the longest a call of _fetch_from_backend takes
    Moves,       \* whether zone updates may change the zone's camera_id
    MaxTime,     \* bound: the clock stops here
    MaxFaults,   \* bound: failed requests, lost announcements and crashes
    MaxQueue     \* bound: announcements in the exclusive queue

ASSUME AliasAssumption ==
    /\ Alias \in [Cameras -> Cameras]
    /\ \A c \in Cameras : Alias[Alias[c]] = c
ASSUME TimeAssumption ==
    /\ ZoneTTL \in Nat /\ EmptyTTL \in Nat /\ FetchMax \in Nat /\ MaxTime \in Nat
    /\ EmptyTTL <= ZoneTTL
ASSUME BoundAssumption ==
    MaxFaults \in Nat /\ MaxQueue \in Nat /\ Moves \in BOOLEAN
ASSUME NoneAssumption ==
    /\ None \notin Cameras
    /\ None \notin [camera : Cameras, active : BOOLEAN, shape : Shapes]
    /\ None \notin [zones : SUBSET (Zones \X Shapes), loadedAt : Nat,
                    since : Nat, clean : BOOLEAN]

VARIABLES
    rows,        \* the zones table: Zones -> Row or None
    admin,       \* Admins -> the camera whose change it has yet to announce
    queue,       \* announcements in the AI service's exclusive queue
    connected,   \* that queue exists and is bound to the exchange
    cache,       \* ZoneManager._cache: Cameras -> Entry or None
    lock,        \* ZoneManager._loading: holder first, then its waiters
    call,        \* Handlers -> the state of its call of get_zones
    now,         \* time.monotonic()
    faults,      \* how many of MaxFaults have happened
    disturbed,   \* history: when c's rows last changed or a read of c failed
    unannounced  \* history: cameras whose entry missed the news of a change

dbVars    == <<rows, admin>>
brokerVars == <<queue, connected>>
aiVars    == <<cache, lock, call>>
ghostVars == <<disturbed, unannounced>>
vars == <<rows, admin, queue, connected, cache, lock, call, now, faults,
          disturbed, unannounced>>

Row == [camera : Cameras, active : BOOLEAN, shape : Shapes]
ZoneSet == SUBSET (Zones \X Shapes)

\* "loadedAt" is the code's; "since" (when the read behind it began) and
\* "clean" (nothing changed or failed meanwhile) are history.
Entry == [zones : ZoneSet, loadedAt : Nat, since : Nat, clean : BOOLEAN]

\* Where a call of get_zones stands.  "own" and "alias": the request for that
\* id is on its way to the backend; "ownReply", "aliasReply": its answer is on
\* its way back, with the rows as they were when the backend read them.
Phases == {"idle", "lock", "own", "ownReply", "alias", "aliasReply"}
Fetching == {"own", "ownReply", "alias", "aliasReply"}
Call == [camera : Cameras \cup {None}, phase : Phases, reply : ZoneSet,
         since : Nat, clean : BOOLEAN]
IdleCall == [camera |-> None, phase |-> "idle", reply |-> {}, since |-> 0,
             clean |-> TRUE]

Names(c) == {c, Alias[c]}

----------------------------------------------------------------------------
(* The backend's table                                                     *)

\* ZoneRepositoryImpl.get_by_camera
ActiveRows(c) ==
    {<<z, rows[z].shape>> : z \in {y \in Zones : /\ rows[y] # None
                                                 /\ rows[y].camera = c
                                                 /\ rows[y].active}}

\* The zones a frame of camera c has to be judged by: the rows under its own
\* id, and when there are none those under its alias.
Effective(c) == IF ActiveRows(c) # {} THEN ActiveRows(c) ELSE ActiveRows(Alias[c])

\* History: the rows of the cameras in S change now.
Disturb(S) ==
    /\ disturbed' = [c \in Cameras |-> IF Names(c) \cap S # {} THEN now
                                                               ELSE disturbed[c]]
    /\ call' = [h \in Handlers |->
                  IF call[h].phase \in Fetching /\ Names(call[h].camera) \cap S # {}
                  THEN [call[h] EXCEPT !.clean = FALSE] ELSE call[h]]

\* A committed change of row z to r; the announcement, for camera "told", is
\* the handler's next step.  Only the names of "told" will hear of it.
Commit(a, z, r, told) ==
    LET changed == {x.camera : x \in {rows[z], r} \ {None}} IN
    /\ admin[a] = None
    /\ rows' = [rows EXCEPT ![z] = r]
    /\ admin' = [admin EXCEPT ![a] = told]
    /\ Disturb(changed)
    /\ unannounced' = unannounced \cup
                      {c \in Cameras : Names(c) \cap changed # {} /\ c \notin Names(told)}
    /\ UNCHANGED <<brokerVars, cache, lock, now, faults>>

\* ZoneService.create
CreateZone(a, z) ==
    /\ rows[z] = None
    /\ \E r \in Row : Commit(a, z, r, r.camera)

\* ZoneService.update: the announcement names the camera the row has now.
UpdateZone(a, z) ==
    /\ rows[z] # None
    /\ \E r \in Row : /\ Moves \/ r.camera = rows[z].camera
                      /\ Commit(a, z, r, r.camera)

\* ZoneService.delete
DeleteZone(a, z) ==
    /\ rows[z] # None
    /\ Commit(a, z, None, rows[z].camera)

\* History: an announcement for camera c is lost.
Missed(c) == unannounced' = unannounced \cup Names(c)

\* RabbitMQClient.publish_zone_update; a topic exchange drops what no queue
\* is bound for.
PublishZoneUpdate(a) ==
    /\ admin[a] # None
    /\ admin' = [admin EXCEPT ![a] = None]
    /\ IF connected
       THEN /\ Len(queue) < MaxQueue
            /\ queue' = Append(queue, admin[a])
            /\ UNCHANGED unannounced
       ELSE UNCHANGED queue /\ Missed(admin[a])
    /\ UNCHANGED <<rows, connected, aiVars, now, faults, disturbed>>

Fault == faults < MaxFaults /\ faults' = faults + 1

\* Publishing raises, which is logged and swallowed, or the backend stops
\* between the commit and the announcement.
PublishFails(a) ==
    /\ admin[a] # None
    /\ Fault
    /\ admin' = [admin EXCEPT ![a] = None]
    /\ Missed(admin[a])
    /\ UNCHANGED <<rows, brokerVars, aiVars, now, disturbed>>

----------------------------------------------------------------------------
(* The AI service's connection to the broker                               *)

\* The connection drops: the exclusive queue goes, with what is in it.
Disconnect ==
    /\ connected /\ Fault
    /\ connected' = FALSE
    /\ queue' = <<>>
    /\ unannounced' = unannounced \cup
                      UNION {Names(queue[i]) : i \in 1..Len(queue)}
    /\ UNCHANGED <<dbVars, aiVars, now, disturbed>>

\* connect_robust declares the queue and its binding again.
Reconnect ==
    /\ ~connected
    /\ connected' = TRUE
    /\ UNCHANGED <<dbVars, queue, aiVars, now, faults, ghostVars>>

\* Mutant: only the spelling announced is invalidated.
InvalidateOneName ==
    /\ queue # <<>>
    /\ queue' = Tail(queue)
    /\ cache' = [cache EXCEPT ![Head(queue)] = None]
    /\ UNCHANGED <<dbVars, connected, lock, call, now, faults, ghostVars>>

\* RabbitMQService._on_zone_message, ZoneManager.invalidate
Invalidate ==
    /\ queue # <<>>
    /\ queue' = Tail(queue)
    /\ cache' = [c \in Cameras |-> IF c \in Names(Head(queue)) THEN None ELSE cache[c]]
    /\ UNCHANGED <<dbVars, connected, lock, call, now, faults, ghostVars>>

----------------------------------------------------------------------------
(* ZoneManager.get_zones, one step per await                               *)

TTL(zones) == IF zones = {} THEN EmptyTTL ELSE ZoneTTL

\* Mutant: is_expired() is never true.
UsableForEver(c) == cache[c] # None

\* There is an entry and not is_expired()
Usable(c) ==
    /\ cache[c] # None
    /\ now - cache[c].loadedAt <= TTL(cache[c].zones)

\* The cache has no usable entry: _reload queues on the camera's lock.  (When
\* it has one the call returns at once and changes nothing.)
GetZones(h, c) ==
    /\ call[h].phase = "idle"
    /\ ~Usable(c)
    /\ call' = [call EXCEPT ![h] = [IdleCall EXCEPT !.camera = c, !.phase = "lock"]]
    /\ lock' = [lock EXCEPT ![c] = Append(@, h)]
    /\ UNCHANGED <<dbVars, brokerVars, cache, now, faults, ghostVars>>

\* Mutant: the lock is not released.
ReturnHolding(h) == call' = [call EXCEPT ![h] = IdleCall] /\ UNCHANGED lock

\* The call returns, leaving the "async with".
Return(h) ==
    /\ call' = [call EXCEPT ![h] = IdleCall]
    /\ lock' = [lock EXCEPT ![call[h].camera] = Tail(@)]

\* Mutant: no lock.
HoldsNothing(h) == call[h].phase = "lock"

HoldsLock(h) == call[h].phase = "lock" /\ Head(lock[call[h].camera]) = h

\* With the lock held the cache is looked at again: another call filled it ...
AlreadyLoaded(h) ==
    /\ HoldsLock(h)
    /\ Usable(call[h].camera)
    /\ Return(h)
    /\ UNCHANGED <<dbVars, brokerVars, cache, now, faults, ghostVars>>

\* ... or the zones are asked for.
StartFetch(h) ==
    /\ HoldsLock(h)
    /\ ~Usable(call[h].camera)
    /\ call' = [call EXCEPT ![h] = [@ EXCEPT !.phase = "own", !.since = now]]
    /\ UNCHANGED <<dbVars, brokerVars, cache, lock, now, faults, ghostVars>>

\* The backend answers GET /api/zones/{id} from its table.
Serve(h) ==
    \E p \in {"own", "alias"} :
        /\ call[h].phase = p
        /\ LET id == IF p = "own" THEN call[h].camera ELSE Alias[call[h].camera] IN
           call' = [call EXCEPT ![h] =
                      [@ EXCEPT !.phase = IF p = "own" THEN "ownReply" ELSE "aliasReply",
                                !.reply = ActiveRows(id)]]
        /\ UNCHANGED <<dbVars, brokerVars, cache, lock, now, faults, ghostVars>>

\* The loop over the candidate ids goes on to the alias: an empty answer, like
\* a failed request, does not end it.
HasNext(h) == /\ call[h].phase \in {"own", "ownReply"}
              /\ Alias[call[h].camera] # call[h].camera

AskAlias(h, clean) ==
    /\ call' = [call EXCEPT ![h] = [@ EXCEPT !.phase = "alias", !.reply = {},
                                             !.clean = clean]]
    /\ UNCHANGED <<cache, lock, unannounced>>

\* Mutant: an empty answer is dated back, so that one time to live does for both.
StoreBackdated(h, zones, clean) ==
    LET c == call[h].camera IN
    /\ cache' = [cache EXCEPT ![c] =
            [zones |-> zones, since |-> call[h].since, clean |-> clean,
             loadedAt |-> IF zones = {} THEN now - (ZoneTTL - EmptyTTL) ELSE now]]
    /\ unannounced' = unannounced \ {c}
    /\ Return(h)

\* _reload stores what the fetch returned, with a full time to live.
Store(h, zones, clean) ==
    LET c == call[h].camera IN
    /\ cache' = [cache EXCEPT ![c] = [zones |-> zones, loadedAt |-> now,
                                      since |-> call[h].since, clean |-> clean]]
    /\ unannounced' = unannounced \ {c}
    /\ Return(h)

\* An answer arrives.
Receive(h) ==
    /\ call[h].phase \in {"ownReply", "aliasReply"}
    /\ IF call[h].reply = {} /\ HasNext(h)
       THEN AskAlias(h, call[h].clean)
       ELSE Store(h, call[h].reply, call[h].clean)
    /\ UNCHANGED <<dbVars, brokerVars, now, faults, disturbed>>

\* History: a read of camera c failed.
ReadFailed(c) == disturbed' = [disturbed EXCEPT ![c] = now]

\* httpx.HTTPError (refused, timed out, an error status): logged, and the loop
\* goes on as after an empty answer.
RequestFails(h) ==
    /\ call[h].phase \in Fetching
    /\ Fault
    /\ ReadFailed(call[h].camera)
    /\ IF HasNext(h) THEN AskAlias(h, FALSE) ELSE Store(h, {}, FALSE)
    /\ UNCHANGED <<dbVars, brokerVars, now>>

\* Any other exception, such as an answer that does not parse: the entry as it
\* is now, expired or not, is returned, and stored anew by _reload.
FallBack(h) ==
    /\ call[h].phase \in {"ownReply", "aliasReply"}
    /\ Fault
    /\ ReadFailed(call[h].camera)
    /\ Store(h, IF cache[call[h].camera] = None THEN {} ELSE cache[call[h].camera].zones,
             FALSE)
    /\ UNCHANGED <<dbVars, brokerVars, now>>

\* The AI service stops and starts: the cache, the calls and the queue go.
Restart ==
    /\ Fault
    /\ cache' = [c \in Cameras |-> None]
    /\ lock' = [c \in Cameras |-> <<>>]
    /\ call' = [h \in Handlers |-> IdleCall]
    /\ queue' = <<>>
    /\ connected' = TRUE
    /\ unannounced' = {}
    /\ UNCHANGED <<dbVars, now, disturbed>>

\* The clock.  A fetch ends within FetchMax: the HTTP client times out.
Tick ==
    /\ now < MaxTime
    /\ \A h \in Handlers : call[h].phase \in Fetching => now < call[h].since + FetchMax
    /\ now' = now + 1
    /\ UNCHANGED <<dbVars, brokerVars, aiVars, faults, ghostVars>>

----------------------------------------------------------------------------

Init ==
    /\ rows \in [Zones -> Row \cup {None}]
    /\ admin = [a \in Admins |-> None]
    /\ queue = <<>>
    /\ connected = TRUE
    /\ cache = [c \in Cameras |-> None]
    /\ lock = [c \in Cameras |-> <<>>]
    /\ call = [h \in Handlers |-> IdleCall]
    /\ now = 0
    /\ faults = 0
    /\ disturbed = [c \in Cameras |-> 0]
    /\ unannounced = {}

BackendStep == \E a \in Admins : \/ \E z \in Zones : \/ CreateZone(a, z)
                                                     \/ UpdateZone(a, z)
                                                     \/ DeleteZone(a, z)
                                 \/ PublishZoneUpdate(a)
                                 \/ PublishFails(a)

\* The steps of a call of get_zones that the code, once it runs, must take.
CallStep(h) == \/ AlreadyLoaded(h) \/ StartFetch(h)
               \/ Serve(h) \/ Receive(h) \/ RequestFails(h) \/ FallBack(h)

Next ==
    \/ BackendStep
    \/ Disconnect \/ Reconnect \/ Invalidate
    \/ \E h \in Handlers : \/ \E c \in Cameras : GetZones(h, c)
                           \/ CallStep(h)
    \/ Restart
    \/ Tick

Spec == Init /\ [][Next]_vars

\* A waiting lock holder is resumed, a request is answered or fails.
FairSpec == Spec /\ \A h \in Handlers : WF_vars(CallStep(h))

----------------------------------------------------------------------------
(* Properties                                                              *)

\* Every variable has its type.
TypeOK ==
    /\ rows \in [Zones -> Row \cup {None}]
    /\ admin \in [Admins -> Cameras \cup {None}]
    /\ queue \in Seq(Cameras)
    /\ connected \in BOOLEAN
    /\ cache \in [Cameras -> Entry \cup {None}]
    /\ lock \in [Cameras -> Seq(Handlers)]
    /\ call \in [Handlers -> Call]
    /\ now \in Nat
    /\ faults \in Nat
    /\ disturbed \in [Cameras -> Nat]
    /\ unannounced \in SUBSET Cameras

\* What the time to live is for, whatever is lost, delayed or raced: an entry
\* get_zones may still return shows the table's zones, unless a row of the
\* camera changed, or a read of it failed, within the last time to live plus
\* the duration of one fetch (get_zones, _reload, is_expired).
BoundedStaleness ==
    \A c \in Cameras :
        /\ Usable(c)
        /\ now > disturbed[c] + FetchMax
                 + IF cache[c].zones = {} THEN EmptyTTL ELSE ZoneTTL
        => cache[c].zones = Effective(c)

\* An announcement that will still delete the entries of camera c.
NewsComing(c) ==
    \/ \E a \in Admins : admin[a] \in Names(c)
    \/ \E i \in 1..Len(queue) : queue[i] \in Names(c)

\* What the announcements are for: an entry disagrees with the table only
\* while an announcement is on its way, unless the change was made while the
\* entry was being read, the read failed, or the news could not reach this
\* service (invalidate, publish_zone_update).
StaleOnlyUntilAnnounced ==
    \A c \in Cameras :
        /\ cache[c] # None
        /\ cache[c].clean
        /\ c \notin unannounced
        => cache[c].zones = Effective(c) \/ NewsComing(c)

\* The lock serialises the reads of a camera: two handlers never ask the
\* backend for one camera at a time, and whoever asks holds the lock (_reload).
SingleFlight ==
    \A h \in Handlers :
        call[h].phase \in Fetching =>
            /\ lock[call[h].camera] # <<>>
            /\ Head(lock[call[h].camera]) = h

\* Every call of get_zones returns: an error, an expired entry or a busy lock
\* never leaves a frame handler waiting for ever.
GetZonesReturns ==
    \A h \in Handlers : call[h].phase # "idle" ~> call[h].phase = "idle"

\* docs/api-reference.md:279: "Zone updates are automatically published to
\* RabbitMQ, invalidating the AI service cache within milliseconds."  Once
\* every announcement has been published and handled, and none was lost, no
\* usable entry shows zones other than the table's.
UpdatesReachTheCache ==
    /\ \A a \in Admins : admin[a] = None
    /\ queue = <<>>
    /\ faults = 0
    => \A c \in Cameras : Usable(c) => cache[c].zones = Effective(c)

----------------------------------------------------------------------------
(* Inductive invariants, from which ZoneCacheProofs derives the properties  *)

\* A call queues on the lock of its camera, once, and asks the backend only at
\* its head.
LockInv ==
    /\ \A h \in Handlers : call[h].phase # "idle" =>
          /\ call[h].camera \in Cameras
          /\ \E i \in 1..Len(lock[call[h].camera]) : lock[call[h].camera][i] = h
    /\ SingleFlight
    /\ \A c \in Cameras : \A i \in 1..Len(lock[c]) :
          /\ call[lock[c][i]].phase # "idle"
          /\ call[lock[c][i]].camera = c
    /\ \A c \in Cameras : \A i, j \in 1..Len(lock[c]) : i # j => lock[c][i] # lock[c][j]

\* What call h has read so far is what the table says now.
Current(h) ==
    LET c == call[h].camera
        p == call[h].phase
    IN  /\ p = "ownReply" => call[h].reply = ActiveRows(c)
        /\ p \in {"alias", "aliasReply"} => ActiveRows(c) = {}
        /\ p = "aliasReply" => call[h].reply = ActiveRows(Alias[c])

\* A read that is not current has been disturbed since it began.
FetchInv ==
    \A h \in Handlers : call[h].phase \in Fetching =>
        /\ call[h].since <= now
        /\ now <= call[h].since + FetchMax
        /\ Current(h) \/ call[h].since <= disturbed[call[h].camera]
        /\ call[h].clean => Current(h)

\* An entry that disagrees with the table has been disturbed since its read.
EntryInv ==
    \A c \in Cameras : cache[c] # None =>
        /\ cache[c].since <= now
        /\ cache[c].loadedAt <= cache[c].since + FetchMax
        /\ cache[c].zones = Effective(c) \/ cache[c].since <= disturbed[c]

=============================================================================

----------------------------- MODULE EventDedup ------------------------------
(***************************************************************************)
(* EventDeduplicator of the AI service's risk engine: the table of the     *)
(* last event of each key (camera, type, track, zone), with a cooldown per *)
(* event type, and the clean-up that forgets old entries every             *)
(* CleanupInterval events.                                                 *)
(***************************************************************************)
EXTENDS Integers

CONSTANTS
    Keys,             \* (camera_id, event_type, track_id, zone_id)
    Cooldown,         \* COOLDOWN.get(event_type, DEFAULT_COOLDOWN) of a key
    MaxCooldown,      \* max(COOLDOWN.values())
    CleanupInterval,  \* _CLEANUP_INTERVAL
    StartTime,        \* time.monotonic() when the service starts
    None,             \* the key is not in the table
    MaxTime           \* bound: the clock stops here

ASSUME CooldownAssumption ==
    /\ MaxCooldown \in Nat
    /\ Cooldown \in [Keys -> Nat]
    /\ \A k \in Keys : Cooldown[k] <= MaxCooldown
ASSUME ClockAssumption ==
    /\ StartTime \in Nat /\ MaxTime \in Nat /\ CleanupInterval \in Nat \ {0}
    /\ None \notin Int

VARIABLES
    now,        \* time.monotonic()
    lastFired,  \* _last_fired: Keys -> time or None
    callCount,  \* _call_count
    sent,       \* history: when an event of the key was last let through, or 0
    answer      \* what should_fire returned last: [key, fire], or None

vars == <<now, lastFired, callCount, sent, answer>>

\* _last_fired.get(key, 0.0)
Last(k) == IF lastFired[k] = None THEN 0 ELSE lastFired[k]

CooldownOver(k) == now - Last(k) >= Cooldown[k]

\* Mutant: an entry goes when its cooldown is over, not after.
EvictTooSoon(table) ==
    [k \in Keys |-> IF table[k] # None /\ now - table[k] >= MaxCooldown
                    THEN None ELSE table[k]]

\* Mutant: the limit is not the longest cooldown.
EvictByDefault(table) ==
    [k \in Keys |-> IF table[k] # None /\ now - table[k] > MaxCooldown \div 2
                    THEN None ELSE table[k]]

\* _evict_expired: entries older than the longest cooldown go.
EvictExpired(table) ==
    [k \in Keys |-> IF table[k] # None /\ now - table[k] > MaxCooldown
                    THEN None ELSE table[k]]

\* Mutant: the counter is not reset.
FireCounting(k) ==
    /\ CooldownOver(k)
    /\ LET table == [lastFired EXCEPT ![k] = now] IN
       lastFired' = IF callCount + 1 >= CleanupInterval THEN EvictExpired(table) ELSE table
    /\ callCount' = callCount + 1
    /\ sent' = [sent EXCEPT ![k] = now]
    /\ answer' = [key |-> k, fire |-> TRUE]
    /\ UNCHANGED now

\* should_fire returns True
Fire(k) ==
    /\ CooldownOver(k)
    /\ LET table == [lastFired EXCEPT ![k] = now] IN
       IF callCount + 1 >= CleanupInterval
       THEN lastFired' = EvictExpired(table) /\ callCount' = 0
       ELSE lastFired' = table /\ callCount' = callCount + 1
    /\ sent' = [sent EXCEPT ![k] = now]
    /\ answer' = [key |-> k, fire |-> TRUE]
    /\ UNCHANGED now

\* Mutant: an event that is held back starts the cooldown anew.
SuppressAnew(k) ==
    /\ ~CooldownOver(k)
    /\ answer' = [key |-> k, fire |-> FALSE]
    /\ lastFired' = [lastFired EXCEPT ![k] = now]
    /\ UNCHANGED <<now, callCount, sent>>

\* should_fire returns False
Suppress(k) ==
    /\ ~CooldownOver(k)
    /\ answer' = [key |-> k, fire |-> FALSE]
    /\ UNCHANGED <<now, lastFired, callCount, sent>>

Tick ==
    /\ now < MaxTime
    /\ now' = now + 1
    /\ answer' = None
    /\ UNCHANGED <<lastFired, callCount, sent>>

Init ==
    /\ now = StartTime
    /\ lastFired = [k \in Keys |-> None]
    /\ callCount = 0
    /\ sent = [k \in Keys |-> 0]
    /\ answer = None

Next == Tick \/ \E k \in Keys : Fire(k) \/ Suppress(k)

Spec == Init /\ [][Next]_vars

----------------------------------------------------------------------------

\* Every variable has its type; the call counter never reaches the interval.
TypeOK ==
    /\ now \in Nat
    /\ lastFired \in [Keys -> Nat \cup {None}]
    /\ callCount \in 0..(CleanupInterval - 1)
    /\ sent \in [Keys -> Nat]
    /\ answer \in [key : Keys, fire : BOOLEAN] \cup {None}

\* The table is the history, minus entries whose longest cooldown is over.
TableInv ==
    \A k \in Keys :
        /\ sent[k] <= now
        /\ lastFired[k] # None => lastFired[k] = sent[k]
        /\ lastFired[k] = None => sent[k] = 0 \/ now - sent[k] > MaxCooldown

\* Eviction is invisible: the service lets through and holds back exactly what
\* one that never forgot a key would (should_fire with _evict_expired).
Unforgetting == INSTANCE RateLimit WITH
    Keys <- Keys, Cooldown <- Cooldown, StartTime <- StartTime, MaxTime <- MaxTime,
    None <- None, now <- now, sent <- sent, answer <- answer
ImplementsRateLimit == Unforgetting!Spec
=============================================================================

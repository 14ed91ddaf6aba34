-------------------------- MODULE EventDedupProofs ---------------------------
(* EventDedup implements RateLimit, for every set of keys, all cooldowns and *)
(* every clean-up interval.                                                  *)
EXTENDS EventDedup, TLAPS

\* Every variable keeps its type, and the call counter stays below the interval.
THEOREM DedupTypeCorrect == Spec => []TypeOK
<1>1. Init => TypeOK
  BY ClockAssumption DEF Init, TypeOK
<1>2. ASSUME TypeOK, [Next]_vars PROVE TypeOK'
  <2>1. CASE Tick
    BY <1>2, <2>1 DEF Tick, TypeOK
  <2>2. ASSUME NEW k \in Keys, Fire(k) PROVE TypeOK'
    <3> DEFINE table == [lastFired EXCEPT ![k] = now]
    <3>1. table \in [Keys -> Nat \cup {None}]
      BY <1>2 DEF TypeOK
    <3>2. EvictExpired(table) \in [Keys -> Nat \cup {None}]
      BY <3>1 DEF EvictExpired
    <3>3. /\ lastFired' \in {table, EvictExpired(table)}
          /\ callCount' \in 0..(CleanupInterval - 1)
      BY <1>2, <2>2, ClockAssumption DEF Fire, TypeOK
    <3>4. sent' \in [Keys -> Nat] /\ now' = now /\ answer' = [key |-> k, fire |-> TRUE]
      BY <1>2, <2>2 DEF Fire, TypeOK
    <3> QED BY <1>2, <3>1, <3>2, <3>3, <3>4 DEF TypeOK
  <2>3. ASSUME NEW k \in Keys, Suppress(k) PROVE TypeOK'
    BY <1>2, <2>3 DEF Suppress, TypeOK
  <2>4. CASE UNCHANGED vars
    BY <1>2, <2>4 DEF vars, TypeOK
  <2> QED BY <1>2, <2>1, <2>2, <2>3, <2>4 DEF Next
<1> QED BY <1>1, <1>2, PTL DEF Spec

\* Every step keeps the table as the history has it.
LEMMA TableStep ==
    ASSUME TypeOK, TableInv, [Next]_vars
    PROVE  TableInv'
<1>1. CASE Tick
  <2>1. SUFFICES ASSUME NEW k \in Keys
                 PROVE  /\ sent[k] <= now + 1
                        /\ lastFired[k] # None => lastFired[k] = sent[k]
                        /\ lastFired[k] = None => sent[k] = 0 \/ (now + 1) - sent[k] > MaxCooldown
    BY <1>1 DEF Tick, TableInv
  <2>2. now \in Nat /\ sent[k] \in Nat /\ MaxCooldown \in Nat
    BY CooldownAssumption DEF TypeOK
  <2>3. /\ sent[k] <= now
        /\ lastFired[k] # None => lastFired[k] = sent[k]
        /\ lastFired[k] = None => sent[k] = 0 \/ now - sent[k] > MaxCooldown
    BY DEF TableInv
  <2> QED BY <2>2, <2>3
<1>2. ASSUME NEW k \in Keys, Fire(k) PROVE TableInv'
  <2> DEFINE table == [lastFired EXCEPT ![k] = now]
  <2>1. /\ now' = now /\ now \in Nat
        /\ sent' = [sent EXCEPT ![k] = now]
        /\ lastFired' \in {table, EvictExpired(table)}
    BY <1>2 DEF Fire, TypeOK
  <2>2. ASSUME NEW j \in Keys
        PROVE  /\ sent'[j] <= now'
               /\ lastFired'[j] # None => lastFired'[j] = sent'[j]
               /\ lastFired'[j] = None => sent'[j] = 0 \/ now' - sent'[j] > MaxCooldown
    <3>1. /\ table[j] = IF j = k THEN now ELSE lastFired[j]
          /\ sent'[j] = IF j = k THEN now ELSE sent[j]
          /\ sent[j] \in Nat /\ lastFired[j] \in Nat \cup {None}
      BY <2>1 DEF TypeOK
    <3>2. /\ sent'[j] <= now
          /\ table[j] # None => table[j] = sent'[j]
          /\ table[j] = None => sent'[j] = 0 \/ now - sent'[j] > MaxCooldown
      BY <2>1, <3>1, ClockAssumption DEF TableInv
    <3>3. CASE lastFired' = table
      BY <2>1, <3>2, <3>3
    <3>4. CASE lastFired' = EvictExpired(table)
      <4>1. lastFired'[j] = IF table[j] # None /\ now - table[j] > MaxCooldown
                            THEN None ELSE table[j]
        BY <3>4 DEF EvictExpired
      <4> QED BY <2>1, <3>2, <4>1
    <3> QED BY <2>1, <3>3, <3>4
  <2> QED BY <2>2 DEF TableInv
<1>3. ASSUME NEW k \in Keys, Suppress(k) PROVE TableInv'
  BY <1>3 DEF Suppress, TableInv
<1>4. CASE UNCHANGED vars
  BY <1>4 DEF vars, TableInv
<1> QED BY <1>1, <1>2, <1>3, <1>4 DEF Next

\* The table is the history of the events let through, minus entries that have
\* outlived the longest cooldown.
THEOREM TableIsHistory == Spec => []TableInv
<1>1. Init => TableInv
  <2>1. SUFFICES ASSUME Init, NEW k \in Keys
                 PROVE  sent[k] <= now /\ sent[k] = 0 /\ lastFired[k] = None
    BY DEF TableInv
  <2>2. now = StartTime /\ StartTime \in Nat
    BY <2>1, ClockAssumption DEF Init
  <2>3. sent[k] = 0 /\ lastFired[k] = None
    BY <2>1 DEF Init
  <2> QED BY <2>2, <2>3
<1>2. TypeOK /\ TableInv /\ [Next]_vars => TableInv'
  BY TableStep
<1> QED BY <1>1, <1>2, DedupTypeCorrect, PTL DEF Spec

\* Forgetting a key changes no decision about it.
LEMMA EvictionInvisible ==
    ASSUME TypeOK, TableInv, NEW k \in Keys
    PROVE  CooldownOver(k) <=> Unforgetting!Due(k)
<1>1. /\ now \in Nat /\ sent[k] \in Nat /\ Cooldown[k] \in Nat
      /\ Cooldown[k] <= MaxCooldown /\ MaxCooldown \in Nat
  BY CooldownAssumption DEF TypeOK
<1>2. CASE lastFired[k] # None
  BY <1>2 DEF TableInv, CooldownOver, Last, Unforgetting!Due
<1>3. CASE lastFired[k] = None /\ sent[k] = 0
  BY <1>3 DEF CooldownOver, Last, Unforgetting!Due
<1>4. CASE lastFired[k] = None /\ now - sent[k] > MaxCooldown
  <2>1. now - sent[k] >= Cooldown[k] /\ now - 0 >= Cooldown[k]
    BY <1>1, <1>4
  <2> QED BY <1>4, <2>1 DEF CooldownOver, Last, Unforgetting!Due
<1> QED BY <1>2, <1>3, <1>4 DEF TableInv

\* The deduplicator with its clean-up lets through and holds back exactly the
\* events that one which never forgets a key would (should_fire,
\* _evict_expired).
THEOREM DedupRefinesRateLimit == Spec => ImplementsRateLimit
<1>1. Init => Unforgetting!Init
  BY DEF Init, Unforgetting!Init
<1>2. ASSUME TypeOK, TableInv, [Next]_vars
      PROVE  [Unforgetting!Next]_(Unforgetting!vars)
  <2>1. CASE Tick
    BY <2>1 DEF Tick, Unforgetting!Next, Unforgetting!Tick
  <2>2. ASSUME NEW k \in Keys, Fire(k) PROVE Unforgetting!Next
    <3>1. Unforgetting!Allow(k)
      BY <1>2, <2>2, EvictionInvisible DEF Fire, Unforgetting!Allow
    <3> QED BY <3>1 DEF Unforgetting!Next
  <2>3. ASSUME NEW k \in Keys, Suppress(k) PROVE Unforgetting!Next
    <3>1. Unforgetting!Refuse(k)
      BY <1>2, <2>3, EvictionInvisible DEF Suppress, Unforgetting!Refuse
    <3> QED BY <3>1 DEF Unforgetting!Next
  <2>4. CASE UNCHANGED vars
    BY <2>4 DEF vars, Unforgetting!vars
  <2> QED BY <1>2, <2>1, <2>2, <2>3, <2>4 DEF Next
<1> QED BY <1>1, <1>2, DedupTypeCorrect, TableIsHistory, PTL
        DEF Spec, ImplementsRateLimit, Unforgetting!Spec
=============================================================================

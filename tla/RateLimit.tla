------------------------------ MODULE RateLimit ------------------------------
(* What EventDeduplicator promises: an event is let through if and only if   *)
(* the cooldown of its key has passed since the last one that was.  This     *)
(* limiter never forgets a key.                                              *)
EXTENDS Integers

CONSTANTS Keys, Cooldown, StartTime, MaxTime, None

VARIABLES now,    \* time.monotonic()
          sent,   \* sent[k]: when an event of key k was last let through
          answer  \* the last decision: [key, fire], or None

vars == <<now, sent, answer>>

Due(k) == now - sent[k] >= Cooldown[k]

Init == now = StartTime /\ sent = [k \in Keys |-> 0] /\ answer = None

Allow(k) == /\ Due(k)
            /\ sent' = [sent EXCEPT ![k] = now]
            /\ answer' = [key |-> k, fire |-> TRUE]
            /\ UNCHANGED now

Refuse(k) == /\ ~Due(k)
             /\ answer' = [key |-> k, fire |-> FALSE]
             /\ UNCHANGED <<now, sent>>

Tick == now < MaxTime /\ now' = now + 1 /\ answer' = None /\ UNCHANGED sent

Next == Tick \/ \E k \in Keys : Allow(k) \/ Refuse(k)

Spec == Init /\ [][Next]_vars
=============================================================================

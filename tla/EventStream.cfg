CONSTANTS
    None = None
    w1 = w1
    w2 = w2
    q1 = q1
    q2 = q2
    Windows = {w1, w2}
    Requests = {q1, q2}
    MaxEvents = 2
    Setups <- MCSetups
SPECIFICATION Spec
INVARIANTS TypeOK LogoutHolds LoginHolds ShowsNewest
SYMMETRY Slots
\* Tokens, logins and events are bounded: at the end a closed page has nothing left to do.
CHECK_DEADLOCK FALSE

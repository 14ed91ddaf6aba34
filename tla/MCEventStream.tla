--------------------------- MODULE MCEventStream ---------------------------
EXTENDS EventStream, TLC

CONSTANTS w1, w2, q1, q2

\* Two windows whose requests, logins and logouts overlap, and no page of events.
Sessions == [windows |-> {w1, w2}, requests |-> {q1, q2}, tokens |-> 3, logins |-> 2,
             events |-> 0]

\* One window and its page, with more events than its list holds.
Stream == [windows |-> {w1}, requests |-> {q1}, tokens |-> 2, logins |-> 1, events |-> 3]

\* The same with requests of other pages next to the history's.
Pages == [windows |-> {w1}, requests |-> {q1, q2}, tokens |-> 2, logins |-> 1,
          events |-> 1]

MCSetups == {Sessions, Stream, Pages}

Slots == Permutations({q1, q2})
=============================================================================

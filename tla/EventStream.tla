----------------------------- MODULE EventStream -----------------------------
(***************************************************************************)
(* The list of events a page shows: useEventStream, with the history it    *)
(* fetches when it is mounted, as a request of AuthSession, and the        *)
(* WebSocket the backend pushes new events over.  The backend stores an    *)
(* event and pushes it in either order, may push it again, and may pass a  *)
(* connection over (see EventDelivery).                                    *)
(*                                                                         *)
(* An event is its timestamp.                                              *)
(***************************************************************************)
EXTENDS AuthSession, Lists, SequencesExt

CONSTANT MaxEvents  \* MAX_EVENTS

ASSUME StreamAssumption == MaxEvents \in Nat \ {0}

VARIABLES
    stored,    \* events in the events table
    page,      \* the window whose page uses the hook, or None
    list,      \* events, newest first
    history,   \* "asked", "read" by the backend, "arrived"
    fetch,     \* the slot of the request, or None
    socket,    \* "connecting", "open", "waiting" for the reconnect timer
    answer,    \* the events the answer holds
    live       \* history: events the socket has brought since the list was last
               \* replaced, the last to come first

streamVars == <<page, list, history, fetch, socket, answer, live>>
allVars == <<sessionVars, stored, streamVars>>

Events == 1..setup.events

\* slice(0, MAX_EVENTS)
Cut(seq) == SubSeq(seq, 1, IF Len(seq) < MaxEvents THEN Len(seq) ELSE MaxEvents)

----------------------------------------------------------------------------

Store(e) ==
    /\ e \in Events \ stored /\ stored' = stored \cup {e}
    /\ UNCHANGED <<sessionVars, streamVars>>

\* Mutant: an event is put in front whether it is there or not.
PutTwice(e) == Cut(<<e>> \o list)

\* Mutant: an event older than the first is not put in.
PutNewer(e) ==
    IF list # << >> /\ e <= Head(list) THEN list ELSE Cut(<<e>> \o list)

\* onmessage: in front, and nowhere else.
Put(e) == Cut(<<e>> \o Without(list, {e}))

\* ConnectionManager.broadcast brings an event to the page.  It need not: the loop may
\* pass the connection over when an entry before it is taken out, and what is sent may be
\* lost with the socket.  For the page that is no step at all.
Push(e) ==
    /\ page # None /\ socket = "open"
    /\ list' = Put(e) /\ live' = <<e>> \o Without(live, {e})
    /\ UNCHANGED <<sessionVars, stored, page, history, fetch, socket, answer>>

\* The effect of useEventStream: the history is asked for and the socket opened.
\* (Without events to show, an instance has no such page.)
Mount(w, q) ==
    /\ Events # {}
    /\ page = None /\ page' = w
    /\ Send(q, w, "events")
    /\ list' = << >> /\ history' = "asked" /\ fetch' = q /\ socket' = "connecting"
    /\ answer' = {} /\ live' = << >>
    /\ UNCHANGED <<stored, setup, open, token, access, refresh, told, issued, logins,
                   expired, dead, session, late, disturbed>>

\* The page is left.  The request goes on, its answer finds nobody.
Leave ==
    /\ page' = None
    /\ list' = << >> /\ history' = "asked" /\ fetch' = None /\ socket' = "connecting"
    /\ answer' = {} /\ live' = << >>

Unmount == page # None /\ Leave /\ UNCHANGED <<sessionVars, stored>>

\* ProtectedRoute: the page of a window that is logged out is left.
LoggedOut == page # None /\ token'[page] = None

\* onopen; onerror and onclose; setTimeout(connect, 3000)
SocketTurns ==
    /\ page # None
    /\ \/ socket = "connecting" /\ socket' \in {"open", "waiting"}
       \/ socket = "open" /\ socket' = "waiting"
       \/ socket = "waiting" /\ socket' = "connecting"
    /\ UNCHANGED <<sessionVars, stored, page, list, history, fetch, answer, live>>

\* GET /events reads the table.
ReadHistory ==
    /\ fetch # None /\ history = "asked"
    /\ \/ request[fetch].phase = "sent" /\ ~Rejected(request[fetch])
       \/ request[fetch].phase = "retried" /\ request[fetch].cred \in (expired + 1)..issued
    /\ history' = "read" /\ answer' = stored
    /\ UNCHANGED <<sessionVars, stored, page, list, fetch, socket, live>>

\* The answer replaces the list, newest first as EventRepositoryImpl.get_all and the
\* sort have it: an empty one when the request was not answered 200.
Replace(events) ==
    /\ list' = Cut(Descending(events)) /\ answer' = events /\ live' = << >>
    /\ history' = "arrived" /\ fetch' = None
    /\ UNCHANGED <<page, socket>>

\* A request ends with an answer, the history's once it was read or refused for good.
End(q) ==
    /\ \/ /\ Pass(q)
          /\ q = fetch /\ history = "asked" => /\ request[q].phase = "retried"
                                               /\ Rejected(request[q])
          /\ UNCHANGED <<token, access, refresh, late, disturbed>>
       \/ /\ GiveUp(q)
          /\ q = fetch => history = "asked"
          /\ UNCHANGED <<late, disturbed>>
       \/ RefreshFails(q)
    /\ IF LoggedOut THEN Leave
       ELSE IF q = fetch THEN Replace(answer)
       ELSE UNCHANGED streamVars
    /\ UNCHANGED <<setup, open, told, issued, logins, expired, dead, session, stored>>

\* The history fails on the way, or its answer cannot be parsed: the list stays what it
\* is.  The second request is inside the try: if it fails, the refused first one is the
\* answer.
FetchBreaks ==
    /\ fetch # None /\ fetch \notin Refreshing
    /\ Answered(fetch)
    /\ \/ request[fetch].phase = "retried" /\ Replace({})
       \/ /\ history' = "arrived" /\ fetch' = None /\ answer' = {}
          /\ UNCHANGED <<page, list, socket, live>>
    /\ UNCHANGED <<stored, setup, open, token, access, refresh, told, issued, logins,
                   expired, dead, session, late, disturbed>>

Ask(q) ==
    /\ \E w \in open, kind \in {"query", "login"} : Send(q, w, kind)
    /\ UNCHANGED <<setup, open, token, access, refresh, told, issued, logins, expired, dead,
                   session, late, disturbed, stored, streamVars>>

SessionStep ==
    /\ \/ \E w \in open : LogIn(w) \/ UserLogsOut(w) \/ HandleStorageEvent(w)
       \/ \E w \in Windows : OpenWindow(w)
       \/ \E q \in Requests : AskRefresh(q) /\ (q = fetch => history = "asked")
       \/ \E q \in Requests : Refreshed(q)
       \/ AccessExpires
       \/ \E r \in 1..logins : RefreshDies(r)
    /\ IF LoggedOut THEN Leave ELSE UNCHANGED streamVars
    /\ UNCHANGED stored

Next ==
    \/ \E e \in Events : Store(e) \/ Push(e)
    \/ \E w \in open, q \in Requests : Mount(w, q)
    \/ Unmount \/ SocketTurns \/ ReadHistory \/ FetchBreaks
    \/ \E q \in Requests : Ask(q) \/ End(q)
    \/ SessionStep

Init ==
    /\ SessionInit
    /\ stored = {} /\ page = None
    /\ list = << >> /\ history = "asked" /\ fetch = None /\ socket = "connecting"
    /\ answer = {} /\ live = << >>

Spec == Init /\ [][Next]_allVars

----------------------------------------------------------------------------
(* Properties                                                              *)

\* Every variable has its type; the list holds an event once and MaxEvents at most.
TypeOK ==
    /\ setup \in Setups /\ open \subseteq setup.windows /\ told \subseteq open
    /\ token \in [Windows -> 1..issued \cup {None}]
    /\ access \in 1..issued \cup {None} /\ refresh \in 1..logins \cup {None}
    /\ issued \in 0..setup.tokens /\ logins \in 0..setup.logins
    /\ expired \in 0..issued /\ dead \subseteq 1..logins
    /\ request \in [Requests -> Request \cup {None}]
    /\ session \in {"none", "on", "over"} /\ late \subseteq Refreshing
    /\ disturbed \in BOOLEAN
    /\ stored \subseteq Events /\ answer \subseteq Events
    /\ page \in open \cup {None} /\ fetch \in Requests \cup {None}
    /\ fetch # None => page # None /\ request[fetch] # None
    /\ list \in Seq(Events) /\ Len(list) <= MaxEvents /\ IsInjective(list)
    /\ history \in {"asked", "read", "arrived"}
    /\ socket \in {"connecting", "open", "waiting"}
    /\ live \in Seq(Events) /\ IsInjective(live)

\* The events that have come to the page: over the socket since the list was last
\* replaced, and with the answer.
Come == ToSet(live) \cup (IF history = "arrived" THEN answer ELSE {})

\* Event d belongs above event e: it came over the socket and e did not or did so before,
\* or neither did and it is the newer.
Above(d, e) ==
    \/ \E i \in DOMAIN live : live[i] = d /\ \A j \in DOMAIN live : live[j] = e => i < j
    \/ {d, e} \cap ToSet(live) = {} /\ d > e

\* The page shows the newest of the events that have come to it, in order, as many as
\* the list has room for: one that is not shown is below all of a full list, whichever
\* were stored, pushed, pushed again and answered in which order.  Of an event that
\* did not come nothing is said: pushed while the socket was not open, passed over by the
\* broadcast or lost with the connection, or come before the answer and not in it
\* (useEventStream).
ShowsNewest ==
    /\ ToSet(list) \subseteq Come
    /\ \A i, j \in DOMAIN list : i < j => Above(list[i], list[j])
    /\ \A e \in Come \ ToSet(list) :
          Len(list) = MaxEvents /\ \A i \in DOMAIN list : Above(list[i], e)
=============================================================================

----------------------------- MODULE AuthSession -----------------------------
(***************************************************************************)
(* Sessions of the frontend: the windows of the desktop program, each with *)
(* the token of its own redux store, the localStorage they share, the      *)
(* requests that refresh an expired token and are sent again, and the      *)
(* backend that issues tokens and accepts them.                            *)
(*                                                                         *)
(* An access token is a number, in the order of issue, in which they also  *)
(* expire; a refresh token the number of its login.                        *)
(***************************************************************************)
EXTENDS Integers, FiniteSets

CONSTANTS
    Windows,
    Requests,   \* slots for requests under way
    None,
    Setups      \* bounds of an instance: windows, requests, tokens, logins, events

ASSUME SessionAssumption ==
    /\ None \notin Nat \cup Windows
    /\ \A s \in Setups :
          /\ s.windows \subseteq Windows /\ s.windows # {} /\ s.requests \subseteq Requests
          /\ s.tokens \in Nat /\ s.logins \in Nat /\ s.events \in Nat

VARIABLES
    setup,    \* one of Setups
    open,     \* windows that are open
    token,    \* auth.accessToken of each window's store
    access,   \* localStorage.accessToken
    refresh,  \* localStorage.refreshToken
    told,     \* windows with a "logout" storage event to handle
    issued,   \* access tokens issued so far
    logins,   \* logins so far
    expired,  \* the access tokens up to this one have expired
    dead,     \* refresh tokens that are refused: expired, or the user is gone
    request,  \* a request of each busy slot, or None
    session,  \* history: "none", "on" after a login, "over" after a logout
    late,     \* history: refreshes that were under way at that login or logout
    disturbed \* history: since then one of them ended, a stale "logout" event was
              \* handled or a refresh failed though its token was good

sessionVars == <<setup, open, token, access, refresh, told, issued, logins, expired,
                 dead, request, session, late, disturbed>>

\* "cred" is the access token while "sent" and "retried", the refresh token while
\* "refreshing".
Request == [win : Windows, kind : {"query", "login", "events"},
            phase : {"sent", "refreshing", "retried"}, cred : Nat \cup {None}]

ASSUME RequestAssumption == None \notin Request

Refreshing == {q \in Requests : request[q] # None /\ request[q].phase = "refreshing"}

----------------------------------------------------------------------------
(* The store                                                               *)

\* Mutant: the refresh token stays.
LogOutKeepingRefresh(w) ==
    token' = [token EXCEPT ![w] = None] /\ access' = None /\ UNCHANGED refresh

\* authSlice.logOut, in window w: all windows' storage is emptied, w's store alone.
LogOut(w) == token' = [token EXCEPT ![w] = None] /\ access' = None /\ refresh' = None

\* authSlice.setCredentials
SetCredentials(w, a, r) == token' = [token EXCEPT ![w] = a] /\ access' = a /\ refresh' = r

\* prepareHeaders; fetchEventsWithAuth reads the storage alone.
Bearer(w, kind) == IF kind # "events" /\ token[w] # None THEN token[w] ELSE access

\* POST /auth/login succeeds, in one step.  The page is shown to a window that is not
\* logged in, whoever is in another.
LogIn(w) ==
    /\ w \in open /\ token[w] = None
    /\ logins < setup.logins /\ issued < setup.tokens
    /\ issued' = issued + 1 /\ logins' = logins + 1
    /\ SetCredentials(w, issued', logins')
    /\ session' = "on" /\ late' = Refreshing /\ disturbed' = FALSE
    /\ UNCHANGED <<setup, open, told, expired, dead, request>>

\* handleLogout of the title bar: the other windows are told.
UserLogsOut(w) ==
    /\ w \in open /\ token[w] # None
    /\ told' = told \cup (open \ {w})
    /\ LogOut(w)
    /\ session' = "over" /\ late' = Refreshing /\ disturbed' = FALSE
    /\ UNCHANGED <<setup, open, issued, logins, expired, dead, request>>

\* Mutant: any message of another window logs this one out.
HandleAnyStorageEvent(w) ==
    /\ w \in open
    /\ told' = told \ {w}
    /\ LogOut(w)
    /\ UNCHANGED <<setup, open, issued, logins, expired, dead, request, session, late,
                   disturbed>>

\* handleStorage of App: a "login" is not acted upon.
HandleStorageEvent(w) ==
    /\ w \in told
    /\ told' = told \ {w}
    /\ LogOut(w)
    /\ disturbed' = (disturbed \/ session = "on")
    /\ UNCHANGED <<setup, open, issued, logins, expired, dead, request, session, late>>

\* openNewWindow: the store of a new window starts from the storage.
OpenWindow(w) ==
    /\ w \in setup.windows \ open
    /\ open' = open \cup {w} /\ token' = [token EXCEPT ![w] = access]
    /\ UNCHANGED <<setup, access, refresh, told, issued, logins, expired, dead, request,
                   session, late, disturbed>>

----------------------------------------------------------------------------
(* Requests                                                                *)

\* A page's query, a login with a wrong password, or the history of events.
Send(q, w, kind) ==
    /\ request[q] = None /\ q \in setup.requests /\ w \in open
    /\ IF kind = "login" THEN token[w] = None ELSE token[w] # None
    /\ request' = [request EXCEPT ![q] =
                     [win |-> w, kind |-> kind, phase |-> "sent", cred |-> Bearer(w, kind)]]

\* decode_token, login: what the backend answers 401.
Rejected(r) == r.kind = "login" \/ r.cred \notin (expired + 1)..issued

\* Slot q is free again, its request answered.
Answered(q) == request' = [request EXCEPT ![q] = None]

\* A first answer other than 401, or whatever the request sent again gets: it is
\* passed on, as is a request that fails on the way.
Pass(q) == request[q] # None /\ q \notin Refreshing /\ Answered(q)

\* A 401: the refresh token is read from the storage, and asked with.
AskRefresh(q) ==
    /\ request[q] # None /\ request[q].phase = "sent" /\ Rejected(request[q])
    /\ refresh # None
    /\ request' = [request EXCEPT ![q].phase = "refreshing", ![q].cred = refresh]
    /\ UNCHANGED <<setup, open, token, access, refresh, told, issued, logins, expired, dead,
                   session, late, disturbed>>

\* There is no refresh token: the window is logged out.  For the history of events
\* nothing of the kind happens.
GiveUp(q) ==
    /\ request[q] # None /\ request[q].phase = "sent" /\ Rejected(request[q])
    /\ refresh = None
    /\ IF request[q].kind = "events" THEN UNCHANGED <<token, access, refresh>>
       ELSE LogOut(request[q].win)
    /\ Answered(q)

\* The refresh succeeds: a new access token is kept, with the refresh token it was
\* asked with, and the request sent again.  For the history of events only the
\* access token is stored, and in the storage only.
Refreshed(q) ==
    /\ q \in Refreshing /\ request[q].cred \notin dead
    /\ issued < setup.tokens /\ issued' = issued + 1
    /\ IF request[q].kind = "events" THEN access' = issued' /\ UNCHANGED <<token, refresh>>
       ELSE SetCredentials(request[q].win, issued', request[q].cred)
    /\ request' = [request EXCEPT ![q].phase = "retried", ![q].cred = issued']
    /\ late' = late \ {q} /\ disturbed' = (disturbed \/ q \in late)
    /\ UNCHANGED <<setup, open, told, logins, expired, dead, session>>

\* The refresh is refused, or its answer does not come.
RefreshFails(q) ==
    /\ q \in Refreshing
    /\ IF request[q].kind = "events" THEN UNCHANGED <<token, access, refresh>>
       ELSE LogOut(request[q].win)
    /\ Answered(q)
    /\ late' = late \ {q}
    /\ disturbed' = (disturbed \/ q \in late \/ request[q].cred \notin dead)

\* ACCESS_TOKEN_EXPIRE_MINUTES pass, for the oldest token.
AccessExpires ==
    /\ expired < issued /\ expired' = expired + 1
    /\ UNCHANGED <<setup, open, token, access, refresh, told, issued, logins, dead, request,
                   session, late, disturbed>>

\* REFRESH_TOKEN_EXPIRE_DAYS pass, or the user is taken out of the table.
RefreshDies(r) ==
    /\ r \in (1..logins) \ dead /\ dead' = dead \cup {r}
    /\ UNCHANGED <<setup, open, token, access, refresh, told, issued, logins, expired,
                   request, session, late, disturbed>>

SessionInit ==
    /\ setup \in Setups
    /\ open = {CHOOSE w \in setup.windows : TRUE}
    /\ token = [w \in Windows |-> None] /\ access = None /\ refresh = None
    /\ told = {} /\ issued = 0 /\ logins = 0 /\ expired = 0 /\ dead = {}
    /\ request = [q \in Requests |-> None]
    /\ session = "none" /\ late = {} /\ disturbed = FALSE

----------------------------------------------------------------------------
(* Properties                                                              *)

\* A logout holds: unless a refresh that was under way when the user logged out
\* brings the tokens back, the storage stays empty and only windows that have yet
\* to hear of it have a token, until the next login (logOut, setCredentials,
\* baseQueryWithRefresh, handleStorage).
LogoutHolds ==
    session = "over" /\ ~disturbed =>
        /\ access = None /\ refresh = None
        /\ \A w \in open : token[w] # None => w \in told

\* A login holds: as long as its refresh token is good, no refresh of it fails for
\* another reason, and neither a refresh nor a "logout" from before the login comes
\* after it, what the windows share is the refresh token of that login, whatever
\* the other windows, their requests and their failed logins do (setCredentials,
\* baseQueryWithRefresh, handleStorage).
LoginHolds ==
    session = "on" /\ ~disturbed /\ logins \notin dead => refresh = logins
=============================================================================

-------------------------- MODULE EventStreamProofs --------------------------
(***************************************************************************)
(* The sessions of the windows and the list of events of a page, for any   *)
(* number of windows, requests, tokens, logins and events and any length   *)
(* of the list.                                                            *)
(***************************************************************************)
EXTENDS EventStream, ListLemmas

----------------------------------------------------------------------------
(* The list                                                                *)

\* The events in a list.
Shown(l) == {l[i] : i \in 1..Len(l)}

\* What the list is, and what the socket has brought.
Once(l) == l \in Seq(Events) /\ \A i, j \in 1..Len(l) : l[i] = l[j] => i = j
ListType(l) == Once(l) /\ Len(l) <= MaxEvents

\* Above, of a given sequence of what the socket has brought.
AboveIn(v, d, e) ==
    \/ \E i \in 1..Len(v) : v[i] = d /\ \A j \in 1..Len(v) : v[j] = e => i < j
    \/ {d, e} \cap Shown(v) = {} /\ d > e

InOrder(l, v) == \A i, j \in 1..Len(l) : i < j => AboveIn(v, l[i], l[j])

\* Event e is below all of a list that has room for MaxEvents at most.
CutOff(l, v, e) == Len(l) >= MaxEvents /\ \A i \in 1..Len(l) : AboveIn(v, l[i], e)

\* The list shows the newest of what the socket has brought and of the answer.
Newest(l, v, events) ==
    /\ Shown(l) \subseteq Shown(v) \cup events
    /\ InOrder(l, v)
    /\ \A e \in (Shown(v) \cup events) \ Shown(l) : CutOff(l, v, e)

\* slice(0, MAX_EVENTS) keeps the front of a list, and all of it unless the list is
\* then full.
LEMMA CutProperties ==
    ASSUME NEW T, NEW seq \in Seq(T)
    PROVE  /\ Cut(seq) \in Seq(T) /\ Len(Cut(seq)) \in Nat
           /\ Len(Cut(seq)) <= MaxEvents /\ Len(Cut(seq)) <= Len(seq)
           /\ Len(Cut(seq)) = Len(seq) \/ Len(Cut(seq)) = MaxEvents
           /\ \A i \in 1..Len(Cut(seq)) : i \in 1..Len(seq) /\ Cut(seq)[i] = seq[i]
<1> DEFINE n == IF Len(seq) < MaxEvents THEN Len(seq) ELSE MaxEvents
<1>1. n \in Nat /\ n <= MaxEvents /\ n <= Len(seq) /\ (n = Len(seq) \/ n = MaxEvents)
  BY StreamAssumption
<1>2. Cut(seq) = SubSeq(seq, 1, n)
  BY DEF Cut
<1> HIDE DEF n
<1>3. /\ SubSeq(seq, 1, n) \in Seq(T) /\ Len(SubSeq(seq, 1, n)) = n
      /\ \A i \in 1..n : SubSeq(seq, 1, n)[i] = seq[i]
  BY <1>1
<1> QED BY <1>1, <1>2, <1>3

\* The front of a list in order shows the newest of what the list does.
LEMMA CutNewest ==
    ASSUME NEW p, Once(p), NEW v, NEW events, Newest(p, v, events)
    PROVE  ListType(Cut(p)) /\ Newest(Cut(p), v, events)
<1>1. p \in Seq(Events) /\ \A i, j \in 1..Len(p) : p[i] = p[j] => i = j
  BY DEF Once
<1>2. /\ Cut(p) \in Seq(Events) /\ Len(Cut(p)) \in Nat /\ Len(Cut(p)) <= MaxEvents
      /\ Len(Cut(p)) <= Len(p) /\ (Len(Cut(p)) = Len(p) \/ Len(Cut(p)) = MaxEvents)
      /\ \A i \in 1..Len(Cut(p)) : i \in 1..Len(p) /\ Cut(p)[i] = p[i]
  BY <1>1, CutProperties
<1>3. Len(p) \in Nat
  BY <1>1
<1>4. PICK c : c = Cut(p)
  OBVIOUS
<1>5. ListType(c)
  BY <1>1, <1>2, <1>4 DEF ListType, Once
<1>6. Shown(c) \subseteq Shown(p) /\ InOrder(c, v)
  BY <1>2, <1>4 DEF Newest, InOrder, Shown
<1>7. ASSUME NEW e \in (Shown(v) \cup events) \ Shown(c) PROVE CutOff(c, v, e)
  <2>1. CASE e \notin Shown(p)
    <3>1. Len(p) >= MaxEvents /\ \A i \in 1..Len(p) : AboveIn(v, p[i], e)
      BY <1>7, <2>1 DEF Newest, CutOff
    <3>2. Len(c) >= MaxEvents
      BY <1>2, <1>3, <1>4, <3>1, StreamAssumption
    <3> QED BY <1>2, <1>4, <3>1, <3>2 DEF CutOff
  <2>2. CASE e \in Shown(p)
    <3>1. PICK n \in 1..Len(p) : p[n] = e
      BY <2>2 DEF Shown
    <3>2. n \notin 1..Len(c)
      BY <1>2, <1>4, <1>7, <3>1 DEF Shown
    <3>3. Len(c) < n /\ n <= Len(p)
      BY <1>2, <1>3, <1>4, <3>1, <3>2
    <3>4. Len(c) >= MaxEvents
      BY <1>2, <1>3, <1>4, <3>1, <3>3, StreamAssumption
    <3>5. ASSUME NEW i \in 1..Len(c) PROVE AboveIn(v, c[i], e)
      <4>1. i \in 1..Len(p) /\ i < n /\ c[i] = p[i]
        BY <1>2, <1>3, <1>4, <3>1, <3>3
      <4> QED BY <3>1, <4>1 DEF Newest, InOrder
    <3> QED BY <3>4, <3>5 DEF CutOff
  <2> QED BY <2>1, <2>2
<1> QED BY <1>4, <1>5, <1>6, <1>7 DEF Newest

\* What <<e>> \o Without(l, {e}) is: e in front and nowhere else, and the others as
\* they were.
InFront(p, e, l) ==
    /\ Once(p) /\ Len(p) \in Nat /\ Len(l) <= Len(p)
    /\ 1 \in 1..Len(p) /\ p[1] = e /\ Shown(p) = Shown(l) \cup {e}
    /\ \A m, n \in 1..Len(p) : 1 < m /\ m < n => ComesBefore(l, p[m], p[n])
    /\ \A c, d : c # e /\ d # e /\ ComesBefore(l, c, d) => ComesBefore(p, c, d)

\* The list with an event put in front.
LEMMA PutInFront ==
    ASSUME NEW l, Once(l), NEW e \in Events
    PROVE  InFront(<<e>> \o Without(l, {e}), e, l)
<1> DEFINE w == Without(l, {e})
           p == <<e>> \o w
<1>1. l \in Seq(Events) /\ Len(l) \in Nat /\ DOMAIN l = 1..Len(l)
  BY DEF Once
<1>2. \A i, j \in DOMAIN l : l[i] = l[j] => i = j
  BY <1>1 DEF Once
<1>3. Len(l) <= Len(w) + 1
  BY <1>1, <1>2, WithoutOne
<1>4. /\ w \in Seq(Events)
      /\ \A n \in DOMAIN w : w[n] \notin {e} /\ \E i \in DOMAIN l : l[i] = w[n]
      /\ \A i \in DOMAIN l : l[i] \notin {e} => \E n \in DOMAIN w : w[n] = l[i]
      /\ \A m, n \in DOMAIN w : w[m] = w[n] => m = n
  BY <1>1, <1>2, WithoutProperties
<1>5. /\ \A m, n \in DOMAIN w : m < n => ComesBefore(l, w[m], w[n])
      /\ \A c, d : ComesBefore(l, c, d) /\ c \notin {e} /\ d \notin {e} => ComesBefore(w, c, d)
  BY <1>1, WithoutOrder
<1> HIDE DEF w
<1>6. w \in Seq(Events) /\ Len(w) \in Nat /\ DOMAIN w = 1..Len(w)
  BY <1>4
<1>7. \A n \in 1..Len(w) : w[n] # e /\ w[n] \in Shown(l)
  BY <1>1, <1>4, <1>6 DEF Shown
<1>8. p \in Seq(Events) /\ Len(p) = Len(w) + 1 /\ DOMAIN p = 1..Len(p) /\ p[1] = e
  BY <1>6
<1>9. \A n \in 1..Len(w) : n + 1 \in 1..Len(p) /\ p[n + 1] = w[n]
  BY <1>6
<1>10. \A n \in 1..Len(p) : n = 1 \/ (n - 1 \in 1..Len(w) /\ p[n] = w[n - 1])
  BY <1>6
<1> HIDE DEF p
<1>11. Once(p)
  <2>1. SUFFICES ASSUME NEW m \in 1..Len(p), NEW n \in 1..Len(p), p[m] = p[n] PROVE m = n
    BY <1>8 DEF Once
  <2>2. \A k \in 1..Len(p) : p[k] = e => k = 1
    BY <1>7, <1>10
  <2>3. CASE m = 1 \/ n = 1
    BY <1>8, <2>1, <2>2, <2>3
  <2>4. CASE m # 1 /\ n # 1
    <3>1. m - 1 \in 1..Len(w) /\ n - 1 \in 1..Len(w) /\ w[m - 1] = w[n - 1]
      BY <1>10, <2>1, <2>4
    <3>2. m - 1 = n - 1
      BY <1>4, <1>6, <3>1
    <3>3. m \in Int /\ n \in Int
      BY <1>6, <1>8
    <3> QED BY <3>2, <3>3
  <2> QED BY <2>3, <2>4
<1>12. 1 \in 1..Len(p) /\ Len(p) \in Nat /\ Len(l) <= Len(p)
  BY <1>1, <1>3, <1>6, <1>8
<1>13. Shown(p) = Shown(l) \cup {e}
  <2>1. ASSUME NEW n \in 1..Len(p) PROVE p[n] \in Shown(l) \cup {e}
    <3>1. CASE n = 1
      BY <1>8, <3>1
    <3>2. CASE n # 1
      BY <1>7, <1>10, <3>2
    <3> QED BY <3>1, <3>2
  <2>2. ASSUME NEW i \in 1..Len(l) PROVE \E n \in 1..Len(p) : p[n] = l[i]
    <3>1. CASE l[i] = e
      BY <1>8, <1>12, <3>1
    <3>2. CASE l[i] # e
      <4>1. PICK n \in 1..Len(w) : w[n] = l[i]
        BY <1>1, <1>4, <1>6, <3>2
      <4> QED BY <1>9, <4>1
    <3> QED BY <3>1, <3>2
  <2>3. e \in Shown(p)
    BY <1>8, <1>12 DEF Shown
  <2>4. \A x : x \in Shown(p) => x \in Shown(l) \cup {e}
    BY <2>1 DEF Shown
  <2>5. \A x : x \in Shown(l) => x \in Shown(p)
    BY <2>2 DEF Shown
  <2> QED BY <2>3, <2>4, <2>5
<1>14. ASSUME NEW m \in 1..Len(p), NEW n \in 1..Len(p), 1 < m, m < n
       PROVE  ComesBefore(l, p[m], p[n])
  <2>1. m \in Int /\ n \in Int /\ m # 1 /\ n # 1
    BY <1>12, <1>14
  <2>2. /\ m - 1 \in 1..Len(w) /\ p[m] = w[m - 1]
        /\ n - 1 \in 1..Len(w) /\ p[n] = w[n - 1]
    BY <1>10, <2>1
  <2>3. m - 1 < n - 1
    BY <1>14, <2>1
  <2> QED BY <1>5, <1>6, <2>2, <2>3
<1>15. ASSUME NEW c, NEW d, c # e, d # e, ComesBefore(l, c, d) PROVE ComesBefore(p, c, d)
  <2>1. ComesBefore(w, c, d)
    BY <1>5, <1>15
  <2>2. PICK m \in 1..Len(w), n \in 1..Len(w) : m < n /\ w[m] = c /\ w[n] = d
    BY <1>6, <2>1 DEF ComesBefore
  <2>3. m + 1 < n + 1
    BY <1>6, <2>2
  <2>4. m + 1 \in DOMAIN p /\ n + 1 \in DOMAIN p /\ p[m + 1] = c /\ p[n + 1] = d
    BY <1>8, <1>9, <2>2
  <2> QED BY <2>3, <2>4 DEF ComesBefore
<1>16. InFront(p, e, l)
  BY <1>8, <1>11, <1>12, <1>13, <1>14, <1>15 DEF InFront
<1> QED BY <1>16 DEF p, w

\* An event the socket brings is above all others, which stay as they were.
LEMMA AboveWhenItComes ==
    ASSUME NEW v, Once(v), NEW e, NEW v2, InFront(v2, e, v)
    PROVE  /\ \A d : d # e => AboveIn(v2, e, d)
           /\ \A c, d : c # e /\ d # e /\ AboveIn(v, c, d) => AboveIn(v2, c, d)
<1>1. /\ Len(v2) \in Nat /\ 1 \in 1..Len(v2) /\ v2[1] = e /\ Shown(v2) = Shown(v) \cup {e}
      /\ DOMAIN v2 = 1..Len(v2) /\ DOMAIN v = 1..Len(v)
  BY DEF InFront, Once
<1>2. \A i, j \in 1..Len(v2) : v2[i] = v2[j] => i = j
  BY DEF InFront, Once
<1>3. \A c, d : c # e /\ d # e /\ ComesBefore(v, c, d) => ComesBefore(v2, c, d)
  BY DEF InFront
<1>4. ASSUME NEW d, d # e PROVE AboveIn(v2, e, d)
  <2>1. \A j \in 1..Len(v2) : v2[j] = d => 1 < j
    BY <1>1, <1>4
  <2> QED BY <1>1, <2>1 DEF AboveIn
<1>5. ASSUME NEW c, NEW d, c # e, d # e, AboveIn(v, c, d) PROVE AboveIn(v2, c, d)
  <2>1. CASE {c, d} \cap Shown(v) = {} /\ c > d
    <3>1. {c, d} \cap Shown(v2) = {}
      BY <1>1, <1>5, <2>1
    <3> QED BY <2>1, <3>1 DEF AboveIn
  <2>2. ASSUME NEW i \in 1..Len(v), v[i] = c, \A j \in 1..Len(v) : v[j] = d => i < j
        PROVE  AboveIn(v2, c, d)
    <3>1. CASE d \in Shown(v)
      <4>1. PICK j \in 1..Len(v) : v[j] = d
        BY <3>1 DEF Shown
      <4>2. ComesBefore(v, c, d)
        BY <1>1, <2>2, <4>1 DEF ComesBefore
      <4>3. PICK m \in 1..Len(v2), n \in 1..Len(v2) : m < n /\ v2[m] = c /\ v2[n] = d
        <5>1. ComesBefore(v2, c, d)
          BY <1>3, <1>5, <4>2
        <5> QED BY <1>1, <5>1 DEF ComesBefore
      <4>4. \A k \in 1..Len(v2) : v2[k] = d => k = n
        BY <1>2, <4>3
      <4> QED BY <4>3, <4>4 DEF AboveIn
    <3>2. CASE d \notin Shown(v)
      <4>1. d \notin Shown(v2) /\ c \in Shown(v2)
        BY <1>1, <1>5, <2>2, <3>2 DEF Shown
      <4>2. PICK m \in 1..Len(v2) : v2[m] = c
        BY <4>1 DEF Shown
      <4>3. \A k \in 1..Len(v2) : v2[k] # d
        BY <4>1 DEF Shown
      <4> QED BY <4>2, <4>3 DEF AboveIn
    <3> QED BY <3>1, <3>2
  <2> QED BY <1>5, <2>1, <2>2 DEF AboveIn
<1> QED BY <1>4, <1>5

\* An event that comes in is put in front, once, and the list goes on showing the
\* newest (onmessage).
LEMMA PutNewest ==
    ASSUME Once(list), Once(live), NEW events, Newest(list, live, events), NEW e \in Events,
           NEW v2, v2 = <<e>> \o Without(live, {e})
    PROVE  Once(v2) /\ ListType(Put(e)) /\ Newest(Put(e), v2, events)
<1>1. PICK p : p = <<e>> \o Without(list, {e})
  OBVIOUS
<1>2. InFront(p, e, list) /\ InFront(v2, e, live)
  BY <1>1, PutInFront
<1>3. /\ Once(p) /\ Once(v2) /\ Shown(v2) = Shown(live) \cup {e}
      /\ Len(p) \in Nat /\ Len(list) <= Len(p) /\ p[1] = e /\ Shown(p) = Shown(list) \cup {e}
  BY <1>2 DEF InFront
<1>4. /\ \A d : d # e => AboveIn(v2, e, d)
      /\ \A c, d : c # e /\ d # e /\ AboveIn(live, c, d) => AboveIn(v2, c, d)
  <2>1. \A d : d # e => AboveIn(v2, e, d)
    BY <1>2, AboveWhenItComes
  <2>2. \A c, d : c # e /\ d # e /\ AboveIn(live, c, d) => AboveIn(v2, c, d)
    BY <1>2, AboveWhenItComes
  <2> QED BY <2>1, <2>2
<1>5. \A n \in 1..Len(p) : n # 1 => p[n] # e
  BY <1>2 DEF InFront, Once
<1>6. Shown(p) \subseteq Shown(v2) \cup events
  BY <1>3 DEF Newest
<1>7. InOrder(p, v2)
  <2>1. ASSUME NEW m \in 1..Len(p), NEW n \in 1..Len(p), m < n PROVE AboveIn(v2, p[m], p[n])
    <3>1. m \in Int /\ n \in Int /\ m >= 1 /\ n # 1
      BY <1>3, <2>1
    <3>2. CASE m = 1
      BY <1>3, <1>4, <1>5, <3>1, <3>2
    <3>3. CASE m # 1
      <4>1. ComesBefore(list, p[m], p[n])
        BY <1>2, <2>1, <3>1, <3>3 DEF InFront
      <4>2. PICK i, j \in DOMAIN list : i < j /\ list[i] = p[m] /\ list[j] = p[n]
        BY <4>1 DEF ComesBefore
      <4>3. DOMAIN list = 1..Len(list)
        BY DEF Once
      <4>4. InOrder(list, live)
        BY DEF Newest
      <4>5. AboveIn(live, p[m], p[n])
        BY <4>2, <4>3, <4>4 DEF InOrder
      <4> QED BY <1>4, <1>5, <3>1, <3>3, <4>5
    <3> QED BY <3>2, <3>3
  <2> QED BY <2>1 DEF InOrder
<1>8. ASSUME NEW d \in (Shown(v2) \cup events) \ Shown(p) PROVE CutOff(p, v2, d)
  <2>1. d # e /\ d \in (Shown(live) \cup events) \ Shown(list)
    BY <1>3, <1>8
  <2>2. Len(list) >= MaxEvents /\ \A i \in 1..Len(list) : AboveIn(live, list[i], d)
    BY <2>1 DEF Newest, CutOff
  <2>3. Len(p) >= MaxEvents
    <3>1. Len(list) \in Nat
      BY DEF Once
    <3> QED BY <1>3, <2>2, <3>1, StreamAssumption
  <2>4. ASSUME NEW n \in 1..Len(p) PROVE AboveIn(v2, p[n], d)
    <3>1. CASE n = 1
      BY <1>3, <1>4, <2>1, <3>1
    <3>2. CASE n # 1
      <4>1. p[n] \in Shown(p) /\ p[n] # e
        BY <1>5, <3>2 DEF Shown
      <4>2. p[n] \in Shown(list)
        BY <1>3, <4>1
      <4>3. AboveIn(live, p[n], d)
        BY <2>2, <4>2 DEF Shown
      <4> QED BY <1>4, <2>1, <4>1, <4>3
    <3> QED BY <3>1, <3>2
  <2> QED BY <2>3, <2>4 DEF CutOff
<1>9. Newest(p, v2, events)
  BY <1>6, <1>7, <1>8 DEF Newest
<1>10. Put(e) = Cut(p)
  BY <1>1 DEF Put
<1> QED BY <1>3, <1>9, <1>10, CutNewest

\* The answer to the history becomes a list that shows the newest of it (the sort and
\* the slice of useEventStream).
LEMMA AnswerNewest ==
    ASSUME setup \in Setups, NEW events \in SUBSET Events
    PROVE  ListType(Cut(Descending(events))) /\ Newest(Cut(Descending(events)), <<>>, events)
<1>1. IsFiniteSet(events) /\ events \in SUBSET Int
  <2>1. setup.events \in Int
    BY SessionAssumption
  <2>2. IsFiniteSet(Events) /\ Events \subseteq Int
    BY <2>1, FS_Interval DEF Events
  <2> QED BY <2>2, FS_Subset
<1>2. PICK d : d = Descending(events)
  OBVIOUS
<1>3. /\ d \in Seq(events) /\ Len(d) = Cardinality(events)
      /\ \A e \in events : \E n \in 1..Len(d) : d[n] = e
      /\ \A m, n \in 1..Len(d) : d[m] = d[n] => m = n
  BY <1>1, <1>2, DescendingProperties
<1>4. \A m, n \in 1..Len(d) : m < n => d[m] > d[n]
  BY <1>1, <1>2, <1>3, DescendingOrder
<1>5. Once(d)
  BY <1>3 DEF Once
<1>6. Shown(d) = events
  BY <1>3 DEF Shown
<1>7. InOrder(d, <<>>)
  BY <1>4 DEF InOrder, AboveIn, Shown
<1>8. Newest(d, <<>>, events)
  <2>1. Shown(<<>>) = {}
    BY DEF Shown
  <2> QED BY <1>6, <1>7, <2>1 DEF Newest
<1> QED BY <1>2, <1>5, <1>8, CutNewest

----------------------------------------------------------------------------
(* The sessions                                                            *)

\* The part of TypeOK that is about sessions.  A refresh under way was asked with a
\* refresh token of some login, which is why what it leaves in the storage is one.
SessionType ==
    /\ setup \in Setups /\ open \subseteq setup.windows /\ told \subseteq open
    /\ token \in [Windows -> 1..issued \cup {None}]
    /\ access \in 1..issued \cup {None} /\ refresh \in 1..logins \cup {None}
    /\ issued \in 0..setup.tokens /\ logins \in 0..setup.logins
    /\ expired \in 0..issued /\ dead \subseteq 1..logins
    /\ request \in [Requests -> Request \cup {None}]
    /\ session \in {"none", "on", "over"} /\ late \subseteq Refreshing
    /\ disturbed \in BOOLEAN
    /\ \A q \in Refreshing : request[q].cred \in 1..logins

\* After a logout nothing but a refresh from before it can bring a token back.
LogoutInv ==
    session = "over" /\ ~disturbed =>
        /\ access = None /\ refresh = None
        /\ \A w \in open : token[w] # None => w \in told
        /\ Refreshing \subseteq late

\* After a login the refreshes that began since carry its refresh token.
LoginInv ==
    session = "on" /\ ~disturbed /\ logins \notin dead =>
        /\ refresh = logins
        /\ \A q \in Refreshing \ late : request[q].cred = logins

SessionInv == SessionType /\ LogoutInv /\ LoginInv

\* The numbers of an instance.
LEMMA SessionNumbers ==
    ASSUME SessionType
    PROVE  /\ setup.tokens \in Nat /\ setup.logins \in Nat /\ setup.windows \subseteq Windows
           /\ issued \in Nat /\ logins \in Nat /\ expired \in Nat
           /\ open \subseteq Windows /\ None \notin Nat
BY SessionAssumption DEF SessionType

\* What the other variables have to keep.
others == <<setup, open, token, access, refresh, told, issued, logins, expired, dead, session,
            late, disturbed>>

\* A request that is not a refresh, before or after: Send, Pass, and the history that
\* breaks.
LEMMA RequestStep ==
    ASSUME SessionInv, UNCHANGED others, NEW q \in Requests, NEW r \in Request \cup {None},
           request' = [request EXCEPT ![q] = r], q \notin Refreshing,
           r # None => r.phase # "refreshing"
    PROVE  SessionInv'
<1>1. Refreshing' = Refreshing /\ \A p \in Refreshing : request'[p] = request[p]
  BY DEF Refreshing, SessionInv, SessionType
<1>2. request' \in [Requests -> Request \cup {None}]
  BY DEF SessionInv, SessionType
<1>3. SessionType'
  BY <1>1, <1>2 DEF SessionInv, SessionType, others
<1>4. LogoutInv' /\ LoginInv'
  BY <1>1 DEF SessionInv, LogoutInv, LoginInv, others
<1> QED BY <1>3, <1>4 DEF SessionInv

\* A request is sent, with what Bearer finds.
LEMMA SendStep ==
    ASSUME SessionInv, UNCHANGED others, NEW q, NEW w, NEW kind \in {"query", "login", "events"},
           Send(q, w, kind)
    PROVE  SessionInv'
<1> DEFINE r == [win |-> w, kind |-> kind, phase |-> "sent", cred |-> Bearer(w, kind)]
<1>1. q \in Requests /\ w \in Windows /\ request[q] = None /\ request' = [request EXCEPT ![q] = r]
  BY SessionAssumption DEF Send, SessionInv, SessionType
<1>2. Bearer(w, kind) \in Nat \cup {None}
  BY <1>1, SessionNumbers DEF Bearer, SessionInv, SessionType
<1>3. r \in Request /\ r.phase # "refreshing"
  BY <1>1, <1>2 DEF Request
<1>4. q \notin Refreshing
  BY <1>1 DEF Refreshing
<1> HIDE DEF r
<1> QED BY <1>1, <1>3, <1>4, RequestStep

\* A request that is not a refresh ends.
LEMMA AnsweredStep ==
    ASSUME SessionInv, UNCHANGED others, NEW q \in Requests, q \notin Refreshing, Answered(q)
    PROVE  SessionInv'
BY RequestStep DEF Answered

\* Refreshes other than q that are under way are what they were.
Others(q) == \A p \in Refreshing' : p # q => p \in Refreshing /\ request'[p] = request[p]

\* A 401 is followed by a refresh, with the refresh token there is.
LEMMA AskRefreshStep ==
    ASSUME SessionInv, NEW q \in Requests, AskRefresh(q)
    PROVE  SessionInv'
<1> DEFINE r == [request[q] EXCEPT !.phase = "refreshing", !.cred = refresh]
<1>1. UNCHANGED others /\ request[q] # None /\ request[q].phase = "sent" /\ refresh # None
  BY DEF AskRefresh, others
<1>2. request' = [request EXCEPT ![q] = r]
  BY DEF AskRefresh
<1>3. refresh \in 1..logins /\ refresh \in Nat /\ request[q] \in Request
  BY <1>1, SessionNumbers DEF SessionInv, SessionType
<1>4. r \in Request /\ r.phase = "refreshing" /\ r.cred = refresh
  BY <1>3 DEF Request
<1> HIDE DEF r
<1>5. q \notin Refreshing /\ q \in Refreshing' /\ request'[q] = r /\ Others(q)
      /\ Refreshing \subseteq Refreshing'
  BY <1>1, <1>2, <1>4, RequestAssumption DEF Refreshing, Others, SessionInv, SessionType
<1>6. SessionType'
  <2>1. request' \in [Requests -> Request \cup {None}]
    BY <1>2, <1>4 DEF SessionInv, SessionType
  <2>2. \A p \in Refreshing' : request'[p].cred \in 1..logins
    BY <1>3, <1>4, <1>5 DEF Others, SessionInv, SessionType
  <2> QED BY <1>1, <1>5, <2>1, <2>2 DEF SessionInv, SessionType, others
<1>7. LogoutInv'
  BY <1>1 DEF SessionInv, LogoutInv, others
<1>8. LoginInv'
  BY <1>1, <1>4, <1>5 DEF SessionInv, LoginInv, others, Others
<1> QED BY <1>6, <1>7, <1>8 DEF SessionInv

\* A window is logged out: its token and the storage are empty.
LEMMA LogOutType ==
    ASSUME SessionType, NEW w \in Windows, LogOut(w)
    PROVE  /\ token' \in [Windows -> 1..issued \cup {None}] /\ access' = None /\ refresh' = None
           /\ \A v \in Windows : token'[v] \in {token[v], None} /\ token'[w] = None
BY DEF LogOut, SessionType

\* A 401 without a refresh token.
LEMMA GiveUpStep ==
    ASSUME SessionInv, NEW q \in Requests, GiveUp(q),
           UNCHANGED <<setup, open, told, issued, logins, expired, dead, session, late, disturbed>>
    PROVE  SessionInv'
<1>1. request[q] # None /\ refresh = None /\ q \notin Refreshing
      /\ request' = [request EXCEPT ![q] = None] /\ request[q] \in Request
  BY DEF GiveUp, Answered, Refreshing, SessionInv, SessionType
<1>2. request[q].win \in Windows
  BY <1>1 DEF Request
<1>3. /\ token' \in [Windows -> 1..issued \cup {None}] /\ access' \in {access, None}
      /\ refresh' = None /\ \A v \in Windows : token'[v] \in {token[v], None}
  BY <1>1, <1>2, LogOutType DEF GiveUp, SessionInv, SessionType
<1>4. Refreshing' = Refreshing /\ \A p \in Refreshing : request'[p] = request[p]
  BY <1>1 DEF Refreshing, SessionInv, SessionType
<1>5. SessionType'
  <2>1. request' \in [Requests -> Request \cup {None}]
    BY <1>1 DEF SessionInv, SessionType
  <2> QED BY <1>3, <1>4, <2>1 DEF SessionInv, SessionType
<1>6. LogoutInv'
  BY <1>3, <1>4, SessionNumbers DEF SessionInv, LogoutInv
<1>7. LoginInv'
  BY <1>1, SessionNumbers DEF SessionInv, LoginInv
<1> QED BY <1>5, <1>6, <1>7 DEF SessionInv

\* A refresh is refused.
LEMMA RefreshFailsStep ==
    ASSUME SessionInv, NEW q \in Requests, RefreshFails(q),
           UNCHANGED <<setup, open, told, issued, logins, expired, dead, session>>
    PROVE  SessionInv'
<1>1. q \in Refreshing /\ request' = [request EXCEPT ![q] = None] /\ request[q] \in Request
  BY DEF RefreshFails, Answered, Refreshing, SessionInv, SessionType
<1>2. request[q].win \in Windows /\ request[q].cred \in 1..logins
  BY <1>1 DEF Request, SessionInv, SessionType
<1>3. /\ token' \in [Windows -> 1..issued \cup {None}] /\ access' \in {access, None}
      /\ refresh' \in {refresh, None} /\ \A v \in Windows : token'[v] \in {token[v], None}
  BY <1>2, LogOutType DEF RefreshFails, SessionInv, SessionType
<1>4. Refreshing' = Refreshing \ {q} /\ \A p \in Refreshing' : request'[p] = request[p]
  BY <1>1, RequestAssumption DEF Refreshing, SessionInv, SessionType
<1>5. /\ late' = late \ {q}
      /\ disturbed' = (disturbed \/ q \in late \/ request[q].cred \notin dead)
  BY DEF RefreshFails
<1>6. SessionType'
  <2>1. request' \in [Requests -> Request \cup {None}]
    BY <1>1 DEF SessionInv, SessionType
  <2>2. disturbed' \in BOOLEAN
    BY <1>5
  <2> QED BY <1>3, <1>4, <1>5, <2>1, <2>2 DEF SessionInv, SessionType
<1>7. LogoutInv'
  BY <1>1, <1>3, <1>4, <1>5, SessionNumbers DEF SessionInv, LogoutInv
<1>8. LoginInv'
  BY <1>1, <1>4, <1>5 DEF SessionInv, LoginInv
<1> QED BY <1>6, <1>7, <1>8 DEF SessionInv

\* A refresh succeeds.
LEMMA RefreshedStep ==
    ASSUME SessionInv, NEW q \in Requests, Refreshed(q)
    PROVE  SessionInv'
<1> DEFINE r == [request[q] EXCEPT !.phase = "retried", !.cred = issued']
<1>1. q \in Refreshing /\ request' = [request EXCEPT ![q] = r] /\ request[q] \in Request
      /\ issued' = issued + 1 /\ issued < setup.tokens /\ request[q] # None
  BY DEF Refreshed, Refreshing, SessionInv, SessionType
<1>2. request[q].win \in Windows /\ request[q].cred \in 1..logins
  BY <1>1 DEF Request, SessionInv, SessionType
<1>3. issued \in Nat /\ issued' \in Nat /\ issued' \in 0..setup.tokens
      /\ 1..issued \subseteq 1..issued' /\ issued' \in 1..issued' /\ 0..issued \subseteq 0..issued'
  BY <1>1, SessionNumbers DEF SessionInv
<1>4. r \in Request /\ r.phase = "retried"
  BY <1>1, <1>3 DEF Request
<1> HIDE DEF r
<1>5. /\ token' \in [Windows -> 1..issued' \cup {None}] /\ access' \in 1..issued'
      /\ refresh' \in {refresh, request[q].cred}
  BY <1>2, <1>3 DEF Refreshed, SetCredentials, SessionInv, SessionType
<1>6. Refreshing' = Refreshing \ {q} /\ \A p \in Refreshing' : request'[p] = request[p]
  BY <1>1, <1>4 DEF Refreshing, SessionInv, SessionType
<1>7. /\ late' = late \ {q} /\ disturbed' = (disturbed \/ q \in late)
      /\ UNCHANGED <<setup, open, told, logins, expired, dead, session>>
  BY DEF Refreshed
<1>8. SessionType'
  <2>1. request' \in [Requests -> Request \cup {None}]
    BY <1>1, <1>4 DEF SessionInv, SessionType
  <2>2. refresh' \in 1..logins \cup {None} /\ disturbed' \in BOOLEAN
    BY <1>2, <1>5, <1>7 DEF SessionInv, SessionType
  <2> QED BY <1>3, <1>5, <1>6, <1>7, <2>1, <2>2 DEF SessionInv, SessionType
<1>9. LogoutInv'
  BY <1>1, <1>7 DEF SessionInv, LogoutInv
<1>10. LoginInv'
  BY <1>1, <1>5, <1>6, <1>7 DEF SessionInv, LoginInv
<1> QED BY <1>8, <1>9, <1>10 DEF SessionInv

\* The steps of the windows and of time, which leave the requests alone.
LEMMA WindowStep ==
    ASSUME SessionInv, NEW w,
           LogIn(w) \/ UserLogsOut(w) \/ HandleStorageEvent(w) \/ OpenWindow(w)
    PROVE  SessionInv'
<1>1. request' = request /\ Refreshing' = Refreshing
  BY DEF LogIn, UserLogsOut, HandleStorageEvent, OpenWindow, Refreshing
<1>2. CASE LogIn(w)
  <2>1. /\ w \in Windows /\ issued' = issued + 1 /\ logins' = logins + 1
        /\ logins < setup.logins /\ issued < setup.tokens
        /\ token' = [token EXCEPT ![w] = issued'] /\ access' = issued' /\ refresh' = logins'
        /\ session' = "on" /\ late' = Refreshing /\ disturbed' = FALSE
        /\ UNCHANGED <<setup, open, told, expired, dead>>
    BY <1>2, SessionNumbers DEF LogIn, SetCredentials, SessionInv
  <2>2. /\ issued' \in 0..setup.tokens /\ logins' \in 0..setup.logins
        /\ 1..issued \subseteq 1..issued' /\ issued' \in 1..issued' /\ 0..issued \subseteq 0..issued'
        /\ 1..logins \subseteq 1..logins' /\ logins' \in 1..logins' /\ logins' \notin 1..logins
    BY <2>1, SessionNumbers DEF SessionInv
  <2>3. SessionType'
    <3>1. token' \in [Windows -> 1..issued' \cup {None}]
      BY <2>1, <2>2 DEF SessionInv, SessionType
    <3>2. \A q \in Refreshing' : request'[q].cred \in 1..logins'
      BY <1>1, <2>2 DEF SessionInv, SessionType
    <3>3. dead' \subseteq 1..logins' /\ expired' \in 0..issued'
      BY <2>1, <2>2 DEF SessionInv, SessionType
    <3> QED BY <1>1, <2>1, <2>2, <3>1, <3>2, <3>3 DEF SessionInv, SessionType
  <2> QED BY <1>1, <2>1, <2>3 DEF SessionInv, LogoutInv, LoginInv
<1>3. CASE UserLogsOut(w)
  <2>1. /\ w \in Windows /\ LogOut(w) /\ told' = told \cup (open \ {w})
        /\ session' = "over" /\ late' = Refreshing /\ disturbed' = FALSE
        /\ UNCHANGED <<setup, open, issued, logins, expired, dead>>
    BY <1>3, SessionNumbers DEF UserLogsOut, SessionInv
  <2>2. /\ token' \in [Windows -> 1..issued \cup {None}] /\ access' = None /\ refresh' = None
        /\ token'[w] = None
    BY <2>1, LogOutType DEF SessionInv
  <2>3. SessionType'
    BY <1>1, <2>1, <2>2 DEF SessionInv, SessionType
  <2> QED BY <1>1, <2>1, <2>2, <2>3 DEF SessionInv, LogoutInv, LoginInv
<1>4. CASE HandleStorageEvent(w)
  <2>1. /\ w \in told /\ w \in Windows /\ LogOut(w) /\ told' = told \ {w}
        /\ disturbed' = (disturbed \/ session = "on")
        /\ UNCHANGED <<setup, open, issued, logins, expired, dead, session, late>>
    BY <1>4, SessionNumbers DEF HandleStorageEvent, SessionInv, SessionType
  <2>2. /\ token' \in [Windows -> 1..issued \cup {None}] /\ access' = None /\ refresh' = None
        /\ \A v \in Windows : token'[v] \in {token[v], None} /\ token'[w] = None
    BY <2>1, LogOutType DEF SessionInv
  <2>3. SessionType'
    BY <1>1, <2>1, <2>2 DEF SessionInv, SessionType
  <2>4. LogoutInv'
    BY <1>1, <2>1, <2>2, SessionNumbers DEF SessionInv, LogoutInv
  <2>5. LoginInv'
    BY <2>1 DEF LoginInv
  <2> QED BY <2>3, <2>4, <2>5 DEF SessionInv
<1>5. CASE OpenWindow(w)
  <2>1. /\ w \in setup.windows /\ w \in Windows /\ open' = open \cup {w}
        /\ token' = [token EXCEPT ![w] = access]
        /\ UNCHANGED <<setup, access, refresh, told, issued, logins, expired, dead, request,
                       session, late, disturbed>>
    BY <1>5, SessionNumbers DEF OpenWindow, SessionInv
  <2>2. SessionType'
    BY <1>1, <2>1 DEF SessionInv, SessionType
  <2>3. LogoutInv'
    BY <1>1, <2>1, SessionNumbers DEF SessionInv, SessionType, LogoutInv
  <2>4. LoginInv'
    BY <1>1, <2>1 DEF SessionInv, LoginInv
  <2> QED BY <2>2, <2>3, <2>4 DEF SessionInv
<1> QED BY <1>2, <1>3, <1>4, <1>5

\* The oldest access token expires, or a refresh token is refused from now on.
LEMMA TimeStep ==
    ASSUME SessionInv, AccessExpires \/ \E r \in 1..logins : RefreshDies(r)
    PROVE  SessionInv'
<1>1. request' = request /\ Refreshing' = Refreshing
      /\ UNCHANGED <<setup, open, token, access, refresh, told, issued, logins, session, late,
                     disturbed>>
  BY DEF AccessExpires, RefreshDies, Refreshing
<1>2. expired' \in 0..issued /\ dead \subseteq dead' /\ dead' \subseteq 1..logins
  <2>1. CASE AccessExpires
    BY <2>1, SessionNumbers DEF AccessExpires, SessionInv, SessionType
  <2>2. ASSUME NEW r \in 1..logins, RefreshDies(r)
        PROVE expired' \in 0..issued /\ dead \subseteq dead' /\ dead' \subseteq 1..logins
    BY <2>2 DEF RefreshDies, SessionInv, SessionType
  <2> QED BY <2>1, <2>2
<1>3. SessionType'
  BY <1>1, <1>2 DEF SessionInv, SessionType
<1>4. LogoutInv' /\ LoginInv'
  BY <1>1, <1>2 DEF SessionInv, LogoutInv, LoginInv
<1> QED BY <1>3, <1>4 DEF SessionInv

\* An instance begins with no session.
LEMMA SessionStart == Init => SessionInv
<1> SUFFICES ASSUME Init PROVE SessionInv
  OBVIOUS
<1>1. setup \in Setups /\ setup.windows # {} /\ setup.tokens \in Nat /\ setup.logins \in Nat
  BY SessionAssumption DEF Init, SessionInit
<1>2. open \subseteq setup.windows
  <2>1. (CHOOSE w \in setup.windows : TRUE) \in setup.windows
    BY <1>1
  <2> QED BY <2>1 DEF Init, SessionInit
<1>3. Refreshing = {}
  BY DEF Init, SessionInit, Refreshing
<1>4. SessionType
  <2>1. /\ token = [w \in Windows |-> None] /\ access = None /\ refresh = None /\ told = {}
        /\ issued = 0 /\ logins = 0 /\ expired = 0 /\ dead = {} /\ session = "none"
        /\ request = [q \in Requests |-> None] /\ late = {} /\ disturbed = FALSE
    BY DEF Init, SessionInit
  <2>2. 0 \in 0..setup.tokens /\ 0 \in 0..setup.logins /\ expired \in 0..issued
    BY <1>1, <2>1
  <2> QED BY <1>1, <1>2, <1>3, <2>1, <2>2 DEF SessionType
<1>5. LogoutInv /\ LoginInv
  BY DEF Init, SessionInit, LogoutInv, LoginInv
<1> QED BY <1>4, <1>5 DEF SessionInv

\* What a step of the page or of the backend does to the sessions.
LEMMA SessionStays ==
    ASSUME SessionInv, UNCHANGED sessionVars
    PROVE  SessionInv'
BY DEF sessionVars, SessionInv, SessionType, LogoutInv, LoginInv, Refreshing

\* Every step keeps the sessions in order.
LEMMA SessionsKept ==
    ASSUME SessionInv, fetch \in Requests \cup {None}, [Next]_allVars
    PROVE  SessionInv'
<1>1. ASSUME NEW e, Store(e) \/ Push(e) PROVE SessionInv'
  BY <1>1, SessionStays DEF Store, Push
<1>2. ASSUME NEW w, NEW q, Mount(w, q) PROVE SessionInv'
  BY <1>2, SendStep DEF Mount, others
<1>3. CASE Unmount \/ SocketTurns \/ ReadHistory \/ UNCHANGED allVars
  BY <1>3, SessionStays DEF Unmount, SocketTurns, ReadHistory, allVars
<1>4. CASE FetchBreaks
  <2>1. fetch \in Requests
    BY <1>4 DEF FetchBreaks
  <2> QED BY <1>4, <2>1, AnsweredStep DEF FetchBreaks, others
<1>5. ASSUME NEW q \in Requests, Ask(q) PROVE SessionInv'
  <2>1. PICK w \in open, kind \in {"query", "login"} : Send(q, w, kind)
    BY <1>5 DEF Ask
  <2> QED BY <1>5, <2>1, SendStep DEF Ask, others
<1>6. ASSUME NEW q \in Requests, End(q) PROVE SessionInv'
  <2>1. CASE Pass(q) /\ UNCHANGED <<token, access, refresh, late, disturbed>>
    BY <1>6, <2>1, AnsweredStep DEF End, Pass, others
  <2>2. CASE GiveUp(q) /\ UNCHANGED <<late, disturbed>>
    BY <1>6, <2>2, GiveUpStep DEF End
  <2>3. CASE RefreshFails(q)
    BY <1>6, <2>3, RefreshFailsStep DEF End
  <2> QED BY <1>6, <2>1, <2>2, <2>3 DEF End
<1>7. CASE SessionStep
  BY <1>7, WindowStep, AskRefreshStep, RefreshedStep, TimeStep DEF SessionStep
<1> QED BY <1>1, <1>2, <1>3, <1>4, <1>5, <1>6, <1>7 DEF Next

----------------------------------------------------------------------------
(* The page                                                                *)

\* The part of TypeOK that is about the events and the page.
StreamType ==
    /\ stored \subseteq Events /\ answer \subseteq Events
    /\ page \in open \cup {None} /\ fetch \in Requests \cup {None}
    /\ fetch # None => page # None /\ request[fetch] # None
    /\ ListType(list) /\ Once(live)
    /\ history \in {"asked", "read", "arrived"}
    /\ socket \in {"connecting", "open", "waiting"}

\* The list shows the newest of what has come; the answer has not come as long as there
\* is a request for it.
Told == IF history = "arrived" THEN answer ELSE {}
ListInv == Newest(list, live, Told) /\ (fetch # None => history # "arrived")

StreamInv == StreamType /\ ListInv

\* What the list shows after a step, from what it shows of the step's values.
LEMMA NewestThen ==
    ASSUME NEW l, NEW v, NEW events, Newest(l, v, events),
           list' = l, live' = v, Told' = events, fetch' # None => history' # "arrived"
    PROVE  ListInv'
BY DEF ListInv, Newest, InOrder, CutOff, AboveIn

\* Before anything has come.
LEMMA NothingYet == Newest(<<>>, <<>>, {}) /\ Once(<<>>) /\ ListType(<<>>)
<1>1. Shown(<<>>) = {}
  BY DEF Shown
<1> QED BY <1>1, StreamAssumption DEF Newest, InOrder, Once, ListType

\* The events of an instance stay what they are, and so do the types of lists.
LEMMA EventsStay ==
    ASSUME setup' = setup
    PROVE  /\ Events' = Events
           /\ Once(live') => Once(live)'
           /\ ListType(list') => ListType(list)'
BY DEF Events, Once, ListType

\* What a step leaves alone while the page is what it was: the request of the history may
\* not end.
LEMMA PageStays ==
    ASSUME StreamInv, UNCHANGED <<setup, page, list, history, fetch, answer, live>>,
           open \subseteq open', stored' \subseteq Events,
           socket' \in {"connecting", "open", "waiting"},
           fetch # None => request'[fetch] # None
    PROVE  StreamInv'
<1>1. StreamType'
  BY EventsStay DEF StreamInv, StreamType
<1>2. Told' = Told
  BY DEF Told
<1>3. ListInv'
  BY <1>2, NewestThen DEF StreamInv, ListInv
<1> QED BY <1>1, <1>3 DEF StreamInv

\* The page is left.
LEMMA LeaveStep ==
    ASSUME StreamInv, Leave, UNCHANGED <<setup, stored>>
    PROVE  StreamInv'
<1>1. StreamType'
  BY EventsStay, NothingYet DEF Leave, StreamInv, StreamType
<1>2. Told' = {} /\ list' = <<>> /\ live' = <<>> /\ fetch' = None
  BY DEF Told, Leave
<1>3. ListInv'
  BY <1>2, NothingYet, NewestThen
<1> QED BY <1>1, <1>3 DEF StreamInv

\* The answer becomes the list.
LEMMA ReplaceStep ==
    ASSUME StreamInv, setup \in Setups, NEW events \in SUBSET Events, Replace(events),
           UNCHANGED <<setup, stored>>, open \subseteq open'
    PROVE  StreamInv'
<1>1. /\ list' = Cut(Descending(events)) /\ answer' = events /\ live' = <<>>
      /\ history' = "arrived" /\ fetch' = None /\ UNCHANGED <<page, socket>>
  BY DEF Replace
<1>2. PICK l : l = Cut(Descending(events))
  OBVIOUS
<1>3. ListType(l) /\ Newest(l, <<>>, events)
  BY <1>2, AnswerNewest
<1>4. StreamType'
  BY <1>1, <1>2, <1>3, EventsStay, NothingYet DEF StreamInv, StreamType
<1>5. Told' = events
  BY <1>1 DEF Told
<1>6. ListInv'
  BY <1>1, <1>2, <1>3, <1>5, NewestThen
<1> QED BY <1>4, <1>6 DEF StreamInv

\* An event comes to the page.
LEMMA PushStep ==
    ASSUME StreamInv, NEW e \in Events, Push(e)
    PROVE  StreamInv'
<1>1. /\ list' = Put(e) /\ live' = <<e>> \o Without(live, {e})
      /\ UNCHANGED <<setup, open, request, stored, page, history, fetch, socket, answer>>
  BY DEF Push, sessionVars
<1>2. Once(list) /\ Once(live) /\ Newest(list, live, Told)
  BY DEF StreamInv, StreamType, ListInv, ListType
<1>3. PICK l, v : l = Put(e) /\ v = <<e>> \o Without(live, {e})
  OBVIOUS
<1>4. PICK events : events = Told
  OBVIOUS
<1>5. Once(v) /\ ListType(l) /\ Newest(l, v, events)
  BY <1>2, <1>3, <1>4, PutNewest
<1>6. StreamType'
  BY <1>1, <1>3, <1>5, EventsStay DEF StreamInv, StreamType
<1>7. Told' = events
  BY <1>1, <1>4 DEF Told
<1>8. ListInv'
  BY <1>1, <1>3, <1>5, <1>7, NewestThen DEF StreamInv, ListInv
<1> QED BY <1>6, <1>8 DEF StreamInv

\* A page is opened.
LEMMA MountStep ==
    ASSUME StreamInv, NEW w, NEW q, Mount(w, q), SessionType
    PROVE  StreamInv'
<1>1. /\ UNCHANGED <<setup, open, stored>> /\ page' = w /\ fetch' = q /\ list' = <<>>
      /\ history' = "asked" /\ socket' = "connecting" /\ answer' = {} /\ live' = <<>>
  BY DEF Mount
<1>2. /\ w \in open /\ w # None /\ q \in Requests
      /\ request' = [request EXCEPT ![q] =
            [win |-> w, kind |-> "events", phase |-> "sent", cred |-> Bearer(w, "events")]]
  BY SessionAssumption, SessionNumbers DEF Mount, Send, SessionType
<1>3. request'[q] # None
  <2>1. Bearer(w, "events") \in Nat \cup {None}
    BY SessionNumbers DEF Bearer, SessionType
  <2>2. [win |-> w, kind |-> "events", phase |-> "sent", cred |-> Bearer(w, "events")] \in Request
    BY <1>2, <2>1, SessionNumbers DEF Request
  <2> QED BY <1>2, <2>2, RequestAssumption DEF SessionType
<1>4. StreamType'
  BY <1>1, <1>2, <1>3, EventsStay, NothingYet DEF StreamInv, StreamType
<1>5. Told' = {}
  BY <1>1 DEF Told
<1>6. ListInv'
  BY <1>1, <1>5, NothingYet, NewestThen
<1> QED BY <1>4, <1>6 DEF StreamInv

\* The history fails on the way.
LEMMA BreakStep ==
    ASSUME StreamInv, FetchBreaks, SessionType
    PROVE  StreamInv'
<1>1. UNCHANGED <<setup, open, stored>> /\ fetch # None
  BY DEF FetchBreaks
<1>2. CASE Replace({})
  BY <1>1, <1>2, ReplaceStep DEF SessionType
<1>3. CASE /\ history' = "arrived" /\ fetch' = None /\ answer' = {}
           /\ UNCHANGED <<page, list, socket, live>>
  <2>1. StreamType'
    BY <1>1, <1>3, EventsStay DEF StreamInv, StreamType
  <2>2. Told' = {} /\ Told = {}
    BY <1>1, <1>3 DEF Told, StreamInv, ListInv
  <2>3. ListInv'
    BY <1>3, <2>2, NewestThen DEF StreamInv, ListInv
  <2> QED BY <2>1, <2>3 DEF StreamInv
<1> QED BY <1>2, <1>3 DEF FetchBreaks

\* The table is read.
LEMMA ReadStep ==
    ASSUME StreamInv, ReadHistory
    PROVE  StreamInv'
<1>1. /\ history = "asked" /\ history' = "read" /\ answer' = stored
      /\ UNCHANGED <<setup, open, request, stored, page, list, fetch, socket, live>>
  BY DEF ReadHistory, sessionVars
<1>2. StreamType'
  BY <1>1, EventsStay DEF StreamInv, StreamType
<1>3. Told' = {} /\ Told = {}
  BY <1>1 DEF Told
<1>4. ListInv'
  BY <1>1, <1>3, NewestThen DEF StreamInv, ListInv
<1> QED BY <1>2, <1>4 DEF StreamInv

\* A request ends, the history's with its answer.
LEMMA EndStep ==
    ASSUME StreamInv, NEW q \in Requests, End(q), SessionType
    PROVE  StreamInv'
<1>1. UNCHANGED <<setup, open, stored>> /\ request' = [request EXCEPT ![q] = None]
  BY DEF End, Pass, GiveUp, RefreshFails, Answered
<1>2. CASE LoggedOut
  BY <1>1, <1>2, LeaveStep DEF End
<1>3. CASE ~LoggedOut /\ q = fetch
  BY <1>1, <1>3, ReplaceStep DEF End, StreamInv, StreamType, SessionType
<1>4. CASE ~LoggedOut /\ q # fetch
  <2>1. UNCHANGED streamVars
    BY <1>4 DEF End
  <2>2. fetch # None => request'[fetch] # None
    BY <1>1, <1>4 DEF StreamInv, StreamType
  <2> QED BY <1>1, <2>1, <2>2, PageStays DEF streamVars, StreamInv, StreamType
<1> QED BY <1>2, <1>3, <1>4

\* A step of the windows, of a refresh or of time.
LEMMA SessionStepForPage ==
    ASSUME StreamInv, SessionStep, SessionType
    PROVE  StreamInv'
<1>1. UNCHANGED <<setup, stored>> /\ open \subseteq open'
  BY DEF SessionStep, LogIn, UserLogsOut, HandleStorageEvent, OpenWindow, AskRefresh, Refreshed,
         AccessExpires, RefreshDies
<1>2. ASSUME fetch # None PROVE request'[fetch] # None
  <2>1. fetch \in Requests /\ request[fetch] # None
    BY <1>2 DEF StreamInv, StreamType
  <2>2. CASE request' = request
    BY <2>1, <2>2
  <2>3. ASSUME NEW q \in Requests, AskRefresh(q) PROVE request'[fetch] # None
    <3>1. request' = [request EXCEPT ![q].phase = "refreshing", ![q].cred = refresh]
          /\ request[q] # None
      BY <2>3 DEF AskRefresh
    <3>2. request[q] \in Request /\ refresh \in Nat \cup {None}
      BY <3>1, SessionNumbers DEF SessionType
    <3>3. request'[q] \in Request
      BY <3>1, <3>2 DEF Request, SessionType
    <3>4. fetch # q => request'[fetch] = request[fetch]
      BY <2>1, <3>1 DEF SessionType
    <3> QED BY <2>1, <3>3, <3>4, RequestAssumption
  <2>4. ASSUME NEW q \in Requests, Refreshed(q) PROVE request'[fetch] # None
    <3>1. request' = [request EXCEPT ![q].phase = "retried", ![q].cred = issued']
          /\ request[q] # None /\ issued' = issued + 1
      BY <2>4 DEF Refreshed, Refreshing
    <3>2. request[q] \in Request /\ issued' \in Nat
      BY <3>1, SessionNumbers DEF SessionType
    <3>3. request'[q] \in Request
      BY <3>1, <3>2 DEF Request, SessionType
    <3>4. fetch # q => request'[fetch] = request[fetch]
      BY <2>1, <3>1 DEF SessionType
    <3> QED BY <2>1, <3>3, <3>4, RequestAssumption
  <2> QED BY <2>2, <2>3, <2>4 DEF SessionStep, LogIn, UserLogsOut, HandleStorageEvent, OpenWindow,
                                  AccessExpires, RefreshDies
<1>3. CASE LoggedOut
  <2>1. Leave
    BY <1>3 DEF SessionStep
  <2> QED BY <1>1, <2>1, LeaveStep
<1>4. CASE ~LoggedOut
  <2>1. UNCHANGED streamVars
    BY <1>4 DEF SessionStep
  <2> QED BY <1>1, <1>2, <2>1, PageStays DEF streamVars, StreamInv, StreamType
<1> QED BY <1>3, <1>4

\* Every step keeps the page in order.
LEMMA PageKept ==
    ASSUME StreamInv, SessionType, [Next]_allVars
    PROVE  StreamInv'
<1>1. ASSUME NEW e \in Events, Store(e) PROVE StreamInv'
  <2>1. /\ UNCHANGED <<setup, open, request, page, list, history, fetch, socket, answer, live>>
        /\ stored' \subseteq Events
    BY <1>1 DEF Store, sessionVars, streamVars, StreamInv, StreamType
  <2> QED BY <2>1, PageStays DEF StreamInv, StreamType
<1>2. CASE Unmount
  <2>1. Leave /\ UNCHANGED <<setup, stored>>
    BY <1>2 DEF Unmount, sessionVars
  <2> QED BY <2>1, LeaveStep
<1>3. CASE SocketTurns
  <2>1. /\ UNCHANGED <<setup, open, request, stored, page, list, history, fetch, answer, live>>
        /\ socket' \in {"connecting", "open", "waiting"}
    BY <1>3 DEF SocketTurns, sessionVars
  <2> QED BY <2>1, PageStays DEF StreamInv, StreamType
<1>4. ASSUME NEW q \in Requests, Ask(q) PROVE StreamInv'
  <2>1. PICK w \in open, kind \in {"query", "login"} : Send(q, w, kind)
    BY <1>4 DEF Ask
  <2>2. UNCHANGED <<setup, open, stored, streamVars>>
    BY <1>4 DEF Ask
  <2>3. fetch # None => request'[fetch] # None
    BY <2>1 DEF Send, StreamInv, StreamType
  <2> QED BY <2>2, <2>3, PageStays DEF streamVars, StreamInv, StreamType
<1>5. CASE UNCHANGED allVars
  BY <1>5, PageStays DEF allVars, sessionVars, streamVars, StreamInv, StreamType
<1> QED BY <1>1, <1>2, <1>3, <1>4, <1>5, PushStep, MountStep, ReadStep, BreakStep, EndStep,
           SessionStepForPage DEF Next

\* No page is open at first.
LEMMA PageStart == Init => StreamInv
<1> SUFFICES ASSUME Init PROVE StreamInv
  OBVIOUS
<1>1. page = None /\ fetch = None /\ list = <<>> /\ live = <<>> /\ history = "asked"
  BY DEF Init
<1>2. StreamType
  BY <1>1, NothingYet DEF Init, StreamType
<1>3. ListInv
  BY <1>1, NothingYet DEF ListInv, Told
<1> QED BY <1>2, <1>3 DEF StreamInv

----------------------------------------------------------------------------
(* What follows                                                            *)

\* The sessions and the page are always in order.
LEMMA AlwaysInOrder == Spec => [](SessionInv /\ StreamInv)
<1>1. SessionInv /\ StreamInv /\ [Next]_allVars => (SessionInv /\ StreamInv)'
  BY SessionsKept, PageKept DEF SessionInv, StreamInv, StreamType
<1> QED BY <1>1, SessionStart, PageStart, PTL DEF Spec

\* Every variable has its type: whatever becomes of a request, a window's token is one
\* that was issued and what the windows share a refresh token of some login; the list
\* holds an event once and MaxEvents at most, whatever comes in when (authSlice,
\* baseQueryWithRefresh, useEventStream).
THEOREM BrowserTypes == Spec => []TypeOK
<1>1. ASSUME SessionType, StreamType PROVE TypeOK
  <2>1. \A l : Once(l) => l \in Seq(Events) /\ IsInjective(l)
    BY DEF Once, IsInjective
  <2>2. /\ list \in Seq(Events) /\ Len(list) <= MaxEvents /\ IsInjective(list)
        /\ live \in Seq(Events) /\ IsInjective(live)
    BY <1>1, <2>1 DEF StreamType, ListType
  <2> QED BY <1>1, <2>2 DEF SessionType, StreamType, TypeOK
<1>2. SessionInv /\ StreamInv => TypeOK
  BY <1>1 DEF SessionInv, StreamInv
<1> QED BY <1>2, AlwaysInOrder, PTL

\* A logout holds until the next login, unless a refresh that was under way comes back
\* after it, in however many windows and requests (logOut, setCredentials,
\* baseQueryWithRefresh, handleStorage).
THEOREM LogoutsHold == Spec => []LogoutHolds
<1>1. SessionInv => LogoutHolds
  BY DEF SessionInv, LogoutInv, LogoutHolds
<1> QED BY <1>1, AlwaysInOrder, PTL

\* A login holds: what the windows share stays its refresh token as long as it is good
\* and nothing from before the login, and no refresh that fails, comes after it
\* (setCredentials, baseQueryWithRefresh, handleStorage).
THEOREM LoginsHold == Spec => []LoginHolds
<1>1. SessionInv => LoginHolds
  BY DEF SessionInv, LoginInv, LoginHolds
<1> QED BY <1>1, AlwaysInOrder, PTL

\* The list of a page holds the newest of the events that have come to it, in order and
\* as many as it has room for, whatever is pushed, pushed again or answered in which order
\* and whatever breaks on the way (useEventStream).
THEOREM NewestAreShown == Spec => []ShowsNewest
<1>1. SessionInv /\ StreamInv => ShowsNewest
  <2>1. SUFFICES ASSUME StreamInv PROVE ShowsNewest
    OBVIOUS
  <2>2. Newest(list, live, Told) /\ ListType(list)
    BY <2>1 DEF StreamInv, StreamType, ListInv
  <2>3. /\ DOMAIN list = 1..Len(list) /\ DOMAIN live = 1..Len(live)
        /\ ToSet(list) = Shown(list) /\ ToSet(live) = Shown(live)
    BY <2>1, <2>2 DEF StreamInv, StreamType, ListType, Once, ToSet, Shown
  <2>4. Come = Shown(live) \cup Told
    BY <2>3 DEF Come, Told
  <2>5. \A d, e : AboveIn(live, d, e) <=> Above(d, e)
    BY <2>3 DEF AboveIn, Above
  <2>6. Len(list) >= MaxEvents => Len(list) = MaxEvents
    <3>1. list \in Seq(Events) /\ Len(list) <= MaxEvents
      BY <2>2 DEF ListType, Once
    <3> QED BY <3>1, StreamAssumption
  <2> QED BY <2>2, <2>3, <2>4, <2>5, <2>6 DEF ShowsNewest, Newest, InOrder, CutOff
<1> QED BY <1>1, AlwaysInOrder, PTL
=============================================================================

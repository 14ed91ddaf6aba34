--------------------------- MODULE ZoneCacheProofs ---------------------------
(* Proofs about ZoneCache, for every set of cameras, zones, handlers and    *)
(* admins and every value of the times and bounds.                          *)
EXTENDS ZoneCache, SequenceTheorems, TLAPS

USE DEF dbVars, brokerVars, aiVars, ghostVars

----------------------------------------------------------------------------
(* Type correctness                                                        *)

\* The rows the backend answers with are a set of zones.
LEMMA ActiveRowsType ==
    ASSUME rows \in [Zones -> Row \cup {None}], NEW c \in Cameras
    PROVE  ActiveRows(c) \in ZoneSet
BY NoneAssumption DEF ActiveRows, ZoneSet, Row

\* A camera whose lock has a head: the head is a call for that camera, and
\* once it leaves the others still queue, each once.
LEMMA ReturnKeepsLock ==
    ASSUME TypeOK, LockInv, NEW h \in Handlers, call[h].phase # "idle",
           lock[call[h].camera] # <<>>, Head(lock[call[h].camera]) = h,
           Return(h)
    PROVE  /\ lock' \in [Cameras -> Seq(Handlers)]
           /\ call' \in [Handlers -> Call]
           /\ LockInv'
<1> DEFINE c == call[h].camera
           q == lock[c]
<1>1. /\ c \in Cameras /\ q \in Seq(Handlers) /\ q # <<>> /\ q[1] = h
      /\ Len(q) \in Nat /\ Len(q) > 0
  BY DEF TypeOK, LockInv
<1>2. /\ Tail(q) \in Seq(Handlers) /\ Len(Tail(q)) = Len(q) - 1
      /\ \A i \in 1..(Len(q) - 1) : Tail(q)[i] = q[i + 1]
  BY <1>1
<1>3. /\ lock' \in [Cameras -> Seq(Handlers)]
      /\ \A d \in Cameras : lock'[d] = IF d = c THEN Tail(q) ELSE lock[d]
  BY <1>1, <1>2 DEF Return, TypeOK
<1>4. /\ call' \in [Handlers -> Call]
      /\ \A g \in Handlers : call'[g] = IF g = h THEN IdleCall ELSE call[g]
  BY DEF Return, TypeOK, Call, IdleCall, Phases, ZoneSet
<1>5. IdleCall.phase = "idle"
  BY DEF IdleCall
<1>6. ASSUME NEW g \in Handlers, call'[g].phase # "idle"
      PROVE  /\ call'[g].camera \in Cameras
             /\ \E i \in 1..Len(lock'[call'[g].camera]) : lock'[call'[g].camera][i] = g
             /\ call'[g].phase \in Fetching =>
                   /\ lock'[call'[g].camera] # <<>>
                   /\ Head(lock'[call'[g].camera]) = g
  <2>1. g # h /\ call'[g] = call[g]
    BY <1>4, <1>5, <1>6
  <2>2. PICK i \in 1..Len(lock[call[g].camera]) : lock[call[g].camera][i] = g
    BY <2>1, <1>6 DEF LockInv
  <2>3. CASE call[g].camera = c
    <3>1. i # 1 /\ i - 1 \in 1..(Len(q) - 1) /\ Tail(q)[i - 1] = g
      BY <2>1, <2>2, <2>3, <1>1, <1>2
    <3>2. call[g].phase \notin Fetching
      BY <2>1, <2>3, <1>1 DEF LockInv, SingleFlight
    <3> QED BY <3>1, <3>2, <2>1, <2>3, <1>1, <1>2, <1>3
  <2>4. CASE call[g].camera # c
    BY <2>1, <2>2, <2>4, <1>3, <1>6 DEF LockInv, SingleFlight
  <2> QED BY <2>3, <2>4
<1>7. ASSUME NEW d \in Cameras, NEW i \in 1..Len(lock'[d])
      PROVE  /\ call'[lock'[d][i]].phase # "idle"
             /\ call'[lock'[d][i]].camera = d
             /\ \A j \in 1..Len(lock'[d]) : i # j => lock'[d][i] # lock'[d][j]
  <2>1. CASE d = c
    <3>1. i + 1 \in 1..Len(q) /\ i + 1 # 1 /\ lock'[d][i] = q[i + 1] /\ q[i + 1] \in Handlers
      BY <2>1, <1>1, <1>2, <1>3, <1>7
    <3>2. q[i + 1] # h
      BY <3>1, <1>1 DEF LockInv
    <3>3. call'[lock'[d][i]] = call[q[i + 1]]
      BY <3>1, <3>2, <1>4
    <3>4. ASSUME NEW j \in 1..Len(lock'[d]), i # j
          PROVE  lock'[d][i] # lock'[d][j]
      <4>1. lock'[d] = Tail(q) /\ j \in 1..(Len(q) - 1) /\ i \in 1..(Len(q) - 1)
        BY <2>1, <3>4, <1>2, <1>3
      <4>2. j + 1 \in 1..Len(q) /\ i + 1 # j + 1 /\ lock'[d][j] = q[j + 1]
        BY <4>1, <3>4, <1>1, <1>2
      <4> QED BY <4>2, <3>1, <1>1 DEF LockInv
    <3> QED BY <3>1, <3>3, <3>4, <2>1, <1>1 DEF LockInv
  <2>2. CASE d # c
    <3>1. lock'[d] = lock[d] /\ lock[d] \in Seq(Handlers) /\ lock[d][i] \in Handlers
      BY <2>2, <1>3, <1>7 DEF TypeOK
    <3>2. call[lock[d][i]].camera = d
      BY <3>1, <1>7 DEF LockInv
    <3>3. call'[lock[d][i]] = call[lock[d][i]]
      BY <3>1, <3>2, <2>2, <1>4
    <3> QED BY <3>1, <3>2, <3>3, <1>7 DEF LockInv
  <2> QED BY <2>1, <2>2
<1>8. SingleFlight'
  <2>1. SUFFICES ASSUME NEW g \in Handlers, call'[g].phase \in Fetching
                 PROVE  /\ lock'[call'[g].camera] # <<>>
                        /\ Head(lock'[call'[g].camera]) = g
    BY DEF SingleFlight
  <2>2. call'[g].phase # "idle"
    BY <2>1 DEF Fetching
  <2> QED BY <1>6, <2>1, <2>2
<1>9. \A g \in Handlers : call'[g].phase # "idle" =>
        /\ call'[g].camera \in Cameras
        /\ \E i \in 1..Len(lock'[call'[g].camera]) : lock'[call'[g].camera][i] = g
  BY <1>6
<1> QED BY <1>3, <1>4, <1>7, <1>8, <1>9 DEF LockInv

\* Steps of calls that keep their cameras and their places in the queues.
LEMMA QueuedKeepsLock ==
    ASSUME TypeOK, LockInv, UNCHANGED lock,
           \A g \in Handlers :
              /\ call'[g].camera = call[g].camera
              /\ call'[g].phase = "idle" <=> call[g].phase = "idle"
              /\ call'[g].phase \in Fetching /\ call[g].phase \notin Fetching =>
                    lock[call[g].camera] # <<>> /\ Head(lock[call[g].camera]) = g
    PROVE  LockInv'
<1>1. \A c \in Cameras : \A i \in 1..Len(lock[c]) : lock[c][i] \in Handlers
  BY DEF TypeOK
<1>2. SingleFlight'
  BY DEF LockInv, SingleFlight
<1> QED BY <1>1, <1>2 DEF LockInv

\* A call that joins the queue of its camera's lock.
LEMMA JoinKeepsLock ==
    ASSUME TypeOK, LockInv, NEW h \in Handlers, NEW c \in Cameras, GetZones(h, c)
    PROVE  /\ lock' \in [Cameras -> Seq(Handlers)]
           /\ call' \in [Handlers -> Call]
           /\ LockInv'
<1> DEFINE q == lock[c]
           joined == [IdleCall EXCEPT !.camera = c, !.phase = "lock"]
<1>1. /\ q \in Seq(Handlers) /\ Len(q) \in Nat
      /\ Append(q, h) \in Seq(Handlers) /\ Len(Append(q, h)) = Len(q) + 1
      /\ \A i \in 1..Len(q) : Append(q, h)[i] = q[i] /\ q[i] \in Handlers
      /\ Append(q, h)[Len(q) + 1] = h
  BY DEF TypeOK
<1>2. /\ lock' \in [Cameras -> Seq(Handlers)]
      /\ \A d \in Cameras : lock'[d] = IF d = c THEN Append(q, h) ELSE lock[d]
  BY <1>1 DEF GetZones, TypeOK
<1>3. joined \in Call /\ joined.camera = c /\ joined.phase = "lock"
  BY DEF Call, IdleCall, Phases, ZoneSet
<1>4. /\ call' \in [Handlers -> Call]
      /\ \A g \in Handlers : call'[g] = IF g = h THEN joined ELSE call[g]
  BY <1>3 DEF GetZones, TypeOK
<1>5. call[h].phase = "idle"
  BY DEF GetZones
<1>6. \A d \in Cameras : \A i \in 1..Len(lock[d]) : lock[d][i] # h /\ lock[d][i] \in Handlers
  BY <1>5 DEF LockInv, TypeOK
<1>7. ASSUME NEW g \in Handlers, call'[g].phase # "idle"
      PROVE  /\ call'[g].camera \in Cameras
             /\ \E i \in 1..Len(lock'[call'[g].camera]) : lock'[call'[g].camera][i] = g
  <2>1. CASE g = h
    <3>1. call'[g] = joined
      BY <2>1, <1>4
    <3>2. lock'[c] = Append(q, h)
      BY <1>2
    <3>3. Len(q) + 1 \in 1..Len(lock'[c]) /\ lock'[c][Len(q) + 1] = g
      BY <3>2, <2>1, <1>1
    <3> QED BY <3>1, <3>3, <1>3
  <2>2. CASE g # h
    <3>1. call'[g] = call[g]
      BY <2>2, <1>4
    <3>2. PICK i \in 1..Len(lock[call[g].camera]) : lock[call[g].camera][i] = g
      BY <3>1, <1>7 DEF LockInv
    <3>3. CASE call[g].camera = c
      <4>1. i \in 1..Len(lock'[c]) /\ lock'[c][i] = g
        BY <3>2, <3>3, <1>1, <1>2
      <4> QED BY <4>1, <3>1, <3>3
    <3>4. CASE call[g].camera # c
      BY <3>1, <3>2, <3>4, <1>2, <1>7 DEF LockInv
    <3> QED BY <3>3, <3>4
  <2> QED BY <2>1, <2>2
<1>8. SingleFlight'
  <2>1. SUFFICES ASSUME NEW g \in Handlers, call'[g].phase \in Fetching
                 PROVE  /\ lock'[call'[g].camera] # <<>>
                        /\ Head(lock'[call'[g].camera]) = g
    BY DEF SingleFlight
  <2>2. g # h /\ call'[g] = call[g] /\ call[g].phase # "idle"
    BY <2>1, <1>3, <1>4 DEF Fetching
  <2>3. lock[call[g].camera] # <<>> /\ Head(lock[call[g].camera]) = g
    BY <2>1, <2>2 DEF LockInv, SingleFlight
  <2>4. call[g].camera \in Cameras
    BY <2>2 DEF LockInv
  <2>5. CASE call[g].camera = c
    <3>1. q # <<>> /\ q[1] = g /\ lock'[c] = Append(q, h)
      BY <2>3, <2>5, <1>2
    <3>2. Len(q) > 0 /\ lock'[c] # <<>> /\ Head(lock'[c]) = q[1]
      BY <3>1, <1>1
    <3> QED BY <3>1, <3>2, <2>2, <2>5
  <2>6. CASE call[g].camera # c
    BY <2>2, <2>3, <2>4, <2>6, <1>2
  <2> QED BY <2>5, <2>6
<1>9. ASSUME NEW d \in Cameras, NEW i \in 1..Len(lock'[d])
      PROVE  /\ call'[lock'[d][i]].phase # "idle"
             /\ call'[lock'[d][i]].camera = d
             /\ \A j \in 1..Len(lock'[d]) : i # j => lock'[d][i] # lock'[d][j]
  <2>1. CASE d # c
    <3>1. lock'[d] = lock[d]
      BY <2>1, <1>2
    <3>2. lock[d][i] # h /\ call'[lock[d][i]] = call[lock[d][i]]
      BY <3>1, <1>4, <1>6
    <3> QED BY <3>1, <3>2 DEF LockInv
  <2>2. CASE d = c
    <3>1. lock'[d] = Append(q, h)
      BY <2>2, <1>2
    <3>2. CASE i = Len(q) + 1
      <4>1. lock'[d][i] = h /\ call'[h] = joined
        BY <3>1, <3>2, <1>1, <1>4
      <4>2. \A j \in 1..Len(lock'[d]) : i # j => lock'[d][j] # h
        BY <3>1, <3>2, <1>1, <1>6
      <4> QED BY <4>1, <4>2, <1>3, <2>2
    <3>3. CASE i # Len(q) + 1
      <4>1. i \in 1..Len(q) /\ lock'[d][i] = q[i] /\ q[i] # h /\ q[i] \in Handlers
        BY <3>1, <3>3, <1>1, <1>6
      <4>2. call'[q[i]] = call[q[i]] /\ call[q[i]].phase # "idle" /\ call[q[i]].camera = c
        BY <4>1, <1>4 DEF LockInv
      <4>3. ASSUME NEW j \in 1..Len(lock'[d]), i # j
            PROVE  lock'[d][i] # lock'[d][j]
        <5>1. CASE j = Len(q) + 1
          BY <5>1, <3>1, <4>1, <1>1
        <5>2. CASE j # Len(q) + 1
          <6>1. j \in 1..Len(q) /\ lock'[d][j] = q[j]
            BY <5>2, <3>1, <1>1
          <6> QED BY <6>1, <4>1, <4>3 DEF LockInv
        <5> QED BY <5>1, <5>2
      <4> QED BY <4>1, <4>2, <4>3, <2>2
    <3> QED BY <3>2, <3>3
  <2> QED BY <2>1, <2>2
<1> QED BY <1>2, <1>4, <1>7, <1>8, <1>9 DEF LockInv

\* A change of the table keeps the types and leaves the queues alone.
LEMMA CommitTypes ==
    ASSUME TypeOK, LockInv, NEW a \in Admins, NEW z \in Zones,
           NEW r \in Row \cup {None}, NEW told \in Cameras, Commit(a, z, r, told)
    PROVE  TypeOK' /\ LockInv'
<1> DEFINE changed == {x.camera : x \in {rows[z], r} \ {None}}
<1>1. /\ call' = [h \in Handlers |->
                    IF call[h].phase \in Fetching /\ Names(call[h].camera) \cap changed # {}
                    THEN [call[h] EXCEPT !.clean = FALSE] ELSE call[h]]
      /\ disturbed' = [c \in Cameras |-> IF Names(c) \cap changed # {} THEN now
                                                                       ELSE disturbed[c]]
      /\ lock' = lock
  BY DEF Commit, Disturb
<1>2. call' \in [Handlers -> Call]
  BY <1>1 DEF TypeOK, Call
<1>3. disturbed' \in [Cameras -> Nat]
  BY <1>1 DEF TypeOK
<1>4. /\ rows' \in [Zones -> Row \cup {None}]
      /\ admin' \in [Admins -> Cameras \cup {None}]
      /\ unannounced' \in SUBSET Cameras
      /\ UNCHANGED <<queue, connected, cache, lock, now, faults>>
  BY DEF Commit, TypeOK
<1>5. TypeOK'
  BY <1>2, <1>3, <1>4 DEF TypeOK
<1>6. LockInv'
  BY <1>1, QueuedKeepsLock DEF TypeOK, Call
<1> QED BY <1>5, <1>6

\* Every step of the specification keeps the types and the queues' order.
LEMMA TypeStep ==
    ASSUME TypeOK, LockInv, [Next]_vars
    PROVE  TypeOK' /\ LockInv'
<1> USE DEF Entry
<1>0. UNCHANGED <<lock, call>> => LockInv'
  BY DEF LockInv, SingleFlight
<1>1. ASSUME NEW a \in Admins, NEW z \in Zones,
             CreateZone(a, z) \/ UpdateZone(a, z) \/ DeleteZone(a, z)
      PROVE  TypeOK' /\ LockInv'
  <2>1. ASSUME CreateZone(a, z) PROVE TypeOK' /\ LockInv'
    BY <2>1, CommitTypes DEF CreateZone, Row
  <2>2. ASSUME UpdateZone(a, z) PROVE TypeOK' /\ LockInv'
    BY <2>2, CommitTypes DEF UpdateZone, Row
  <2>3. ASSUME DeleteZone(a, z) PROVE TypeOK' /\ LockInv'
    BY <2>3, CommitTypes DEF DeleteZone, TypeOK, Row
  <2> QED BY <1>1, <2>1, <2>2, <2>3
<1>2. ASSUME NEW a \in Admins, PublishZoneUpdate(a) PROVE TypeOK' /\ LockInv'
  <2>1. admin[a] \in Cameras /\ Names(admin[a]) \in SUBSET Cameras
    BY <1>2, AliasAssumption DEF PublishZoneUpdate, TypeOK, Names
  <2>2. queue' \in Seq(Cameras)
    <3>1. queue \in Seq(Cameras) /\ Append(queue, admin[a]) \in Seq(Cameras)
      BY <2>1 DEF TypeOK
    <3>2. queue' = queue \/ queue' = Append(queue, admin[a])
      BY <1>2 DEF PublishZoneUpdate
    <3> QED BY <3>1, <3>2
  <2>3. unannounced' \in SUBSET Cameras
    BY <1>2, <2>1 DEF PublishZoneUpdate, Missed, TypeOK
  <2>4. admin' \in [Admins -> Cameras \cup {None}]
    BY <1>2 DEF PublishZoneUpdate, TypeOK
  <2> QED BY <1>0, <1>2, <2>2, <2>3, <2>4 DEF PublishZoneUpdate, TypeOK
<1>3. ASSUME NEW a \in Admins, PublishFails(a) PROVE TypeOK' /\ LockInv'
  <2>1. admin[a] \in Cameras /\ Names(admin[a]) \in SUBSET Cameras
    BY <1>3, AliasAssumption DEF PublishFails, TypeOK, Names
  <2> QED BY <1>0, <1>3, <2>1 DEF PublishFails, Missed, Fault, TypeOK
<1>4. CASE Disconnect
  <2>1. \A i \in 1..Len(queue) : Names(queue[i]) \in SUBSET Cameras
    BY AliasAssumption DEF TypeOK, Names
  <2>2. UNION {Names(queue[i]) : i \in 1..Len(queue)} \in SUBSET Cameras
    BY <2>1
  <2>3. unannounced' \in SUBSET Cameras
    BY <1>4, <2>2 DEF Disconnect, TypeOK
  <2>4. queue' \in Seq(Cameras) /\ connected' \in BOOLEAN
    <3>1. queue' = <<>> /\ connected' = FALSE
      BY <1>4 DEF Disconnect
    <3> QED BY <3>1, EmptySeq
  <2>5. faults' \in Nat
    BY <1>4 DEF Disconnect, Fault, TypeOK
  <2> QED BY <1>0, <1>4, <2>3, <2>4, <2>5 DEF Disconnect, TypeOK
<1>5. CASE Reconnect
  BY <1>0, <1>5 DEF Reconnect, TypeOK
<1>6. CASE Invalidate
  <2>1. queue' \in Seq(Cameras)
    BY <1>6 DEF Invalidate, TypeOK
  <2> QED BY <1>0, <1>6, <2>1 DEF Invalidate, TypeOK
<1>7. ASSUME NEW h \in Handlers, NEW c \in Cameras, GetZones(h, c)
      PROVE  TypeOK' /\ LockInv'
  BY <1>7, JoinKeepsLock DEF GetZones, TypeOK
<1>8. ASSUME NEW h \in Handlers, call[h].phase \in Fetching
      PROVE  /\ call[h].phase # "idle" /\ call[h].camera \in Cameras
             /\ lock[call[h].camera] # <<>> /\ Head(lock[call[h].camera]) = h
  BY <1>8 DEF LockInv, SingleFlight, Fetching
<1>9. ASSUME NEW h \in Handlers, HoldsLock(h)
      PROVE  /\ call[h].phase # "idle" /\ call[h].camera \in Cameras
             /\ lock[call[h].camera] # <<>> /\ Head(lock[call[h].camera]) = h
  <2>1. call[h].phase # "idle" /\ call[h].camera \in Cameras /\ Head(lock[call[h].camera]) = h
    BY <1>9 DEF HoldsLock, LockInv
  <2>2. PICK i \in 1..Len(lock[call[h].camera]) : lock[call[h].camera][i] = h
    BY <2>1 DEF LockInv
  <2> QED BY <2>1, <2>2 DEF TypeOK
<1>10. ASSUME NEW h \in Handlers, AlreadyLoaded(h) PROVE TypeOK' /\ LockInv'
  BY <1>9, <1>10, ReturnKeepsLock DEF AlreadyLoaded, TypeOK
<1>11. ASSUME NEW h \in Handlers, StartFetch(h) PROVE TypeOK' /\ LockInv'
  <2>1. call' \in [Handlers -> Call]
    BY <1>11 DEF StartFetch, TypeOK, Call, Phases
  <2>2. LockInv'
    BY <1>9, <1>11, QueuedKeepsLock DEF StartFetch, HoldsLock, TypeOK, Call
  <2> QED BY <1>11, <2>1, <2>2 DEF StartFetch, TypeOK
<1>12. ASSUME NEW h \in Handlers, Serve(h) PROVE TypeOK' /\ LockInv'
  <2>1. PICK p \in {"own", "alias"} :
           /\ call[h].phase = p
           /\ call' = [call EXCEPT
                 ![h] = [@ EXCEPT
                   !.phase = IF p = "own" THEN "ownReply" ELSE "aliasReply",
                   !.reply = ActiveRows(IF p = "own" THEN call[h].camera
                                                     ELSE Alias[call[h].camera])]]
    BY <1>12 DEF Serve
  <2>2. call[h].phase \in Fetching
    BY <2>1 DEF Fetching
  <2>3. call' \in [Handlers -> Call]
    <3> DEFINE id == IF p = "own" THEN call[h].camera ELSE Alias[call[h].camera]
               phase == IF p = "own" THEN "ownReply" ELSE "aliasReply"
    <3>1. id \in Cameras /\ phase \in Phases /\ call[h] \in Call
      BY <1>8, <2>2, AliasAssumption DEF TypeOK, Phases
    <3>2. ActiveRows(id) \in ZoneSet
      BY <3>1, ActiveRowsType DEF TypeOK
    <3>3. call' = [call EXCEPT ![h] = [@ EXCEPT !.phase = phase, !.reply = ActiveRows(id)]]
      BY <2>1
    <3> HIDE DEF id, phase
    <3>4. [call[h] EXCEPT !.phase = phase, !.reply = ActiveRows(id)] \in Call
      BY <3>1, <3>2 DEF Call
    <3> QED BY <3>3, <3>4 DEF TypeOK
  <2>4. LockInv'
    BY <1>12, <2>1, <2>2, QueuedKeepsLock DEF Serve, TypeOK, Call, Fetching
  <2> QED BY <1>12, <2>3, <2>4 DEF Serve, TypeOK
<1>13. ASSUME NEW h \in Handlers, NEW clean \in BOOLEAN, call[h].phase \in Fetching,
              AskAlias(h, clean)
       PROVE  LockInv' /\ call' \in [Handlers -> Call] /\ UNCHANGED <<cache, lock, unannounced>>
  <2>1. call' \in [Handlers -> Call]
    <3>1. call[h] \in Call /\ {} \in ZoneSet /\ "alias" \in Phases
      BY DEF TypeOK, ZoneSet, Phases
    <3>2. [call[h] EXCEPT !.phase = "alias", !.reply = {}, !.clean = clean] \in Call
      BY <3>1 DEF Call
    <3> QED BY <1>13, <3>2 DEF AskAlias, TypeOK
  <2>2. LockInv'
    BY <1>13, QueuedKeepsLock DEF AskAlias, TypeOK, Call, Fetching
  <2> QED BY <1>13, <2>1, <2>2 DEF AskAlias
<1>14. ASSUME NEW h \in Handlers, NEW zones \in ZoneSet, NEW clean \in BOOLEAN,
              call[h].phase \in Fetching, Store(h, zones, clean)
       PROVE  /\ LockInv'
              /\ cache' \in [Cameras -> Entry \cup {None}]
              /\ lock' \in [Cameras -> Seq(Handlers)]
              /\ call' \in [Handlers -> Call]
              /\ unannounced' \in SUBSET Cameras
  <2>1. /\ LockInv'
        /\ lock' \in [Cameras -> Seq(Handlers)]
        /\ call' \in [Handlers -> Call]
    BY <1>8, <1>14, ReturnKeepsLock DEF Store
  <2>2. /\ cache' \in [Cameras -> Entry \cup {None}]
        /\ unannounced' \in SUBSET Cameras
    BY <1>8, <1>14 DEF TypeOK, Store, Call
  <2> QED BY <2>1, <2>2
<1>15. ASSUME NEW h \in Handlers, Receive(h) PROVE TypeOK' /\ LockInv'
  <2>1. call[h].phase \in Fetching /\ call[h].reply \in ZoneSet /\ call[h].clean \in BOOLEAN
    BY <1>15 DEF Receive, Fetching, TypeOK, Call
  <2>2. CASE AskAlias(h, call[h].clean)
    BY <1>13, <1>15, <2>1, <2>2 DEF Receive, TypeOK
  <2>3. CASE Store(h, call[h].reply, call[h].clean)
    BY <1>14, <1>15, <2>1, <2>3 DEF Receive, TypeOK
  <2> QED BY <1>15, <2>2, <2>3 DEF Receive
<1>16. ASSUME NEW h \in Handlers, RequestFails(h) PROVE TypeOK' /\ LockInv'
  <2>1. call[h].phase \in Fetching /\ {} \in ZoneSet
    BY <1>16 DEF RequestFails, ZoneSet
  <2>2. disturbed' \in [Cameras -> Nat] /\ faults' \in Nat
    <3>1. disturbed' \in [Cameras -> Nat]
      BY <1>16 DEF RequestFails, ReadFailed, TypeOK
    <3>2. faults' \in Nat
      BY <1>16 DEF RequestFails, Fault, TypeOK
    <3> QED BY <3>1, <3>2
  <2>3. CASE AskAlias(h, FALSE)
    BY <1>13, <1>16, <2>1, <2>2, <2>3 DEF RequestFails, TypeOK
  <2>4. CASE Store(h, {}, FALSE)
    BY <1>14, <1>16, <2>1, <2>2, <2>4 DEF RequestFails, TypeOK
  <2> QED BY <1>16, <2>3, <2>4 DEF RequestFails
<1>17. ASSUME NEW h \in Handlers, FallBack(h) PROVE TypeOK' /\ LockInv'
  <2> DEFINE old == IF cache[call[h].camera] = None THEN {} ELSE cache[call[h].camera].zones
  <2>1. call[h].phase \in Fetching
    BY <1>17 DEF FallBack, Fetching
  <2>2. old \in ZoneSet
    BY <1>8, <2>1 DEF TypeOK, ZoneSet
  <2>3. disturbed' \in [Cameras -> Nat] /\ faults' \in Nat
    <3>1. disturbed' \in [Cameras -> Nat]
      BY <1>17 DEF FallBack, ReadFailed, TypeOK
    <3>2. faults' \in Nat
      BY <1>17 DEF FallBack, Fault, TypeOK
    <3> QED BY <3>1, <3>2
  <2>4. Store(h, old, FALSE)
    BY <1>17 DEF FallBack
  <2> QED BY <1>14, <1>17, <2>1, <2>2, <2>3, <2>4 DEF FallBack, TypeOK
<1>18. CASE Restart
  <2>1. call' \in [Handlers -> Call] /\ lock' \in [Cameras -> Seq(Handlers)]
    BY <1>18 DEF Restart, Call, IdleCall, Phases, ZoneSet
  <2>2. LockInv'
    BY <1>18 DEF Restart, LockInv, SingleFlight, IdleCall, Fetching
  <2> QED BY <1>18, <2>1, <2>2 DEF Restart, Fault, TypeOK
<1>19. CASE Tick
  BY <1>0, <1>19 DEF Tick, TypeOK
<1>20. CASE UNCHANGED vars
  BY <1>0, <1>20 DEF vars, TypeOK
<1> QED BY <1>1, <1>2, <1>3, <1>4, <1>5, <1>6, <1>7, <1>10, <1>11, <1>12, <1>15, <1>16,
           <1>17, <1>18, <1>19, <1>20 DEF Next, BackendStep, CallStep

\* The types and the lock hold at the start.
LEMMA TypeInit ==
    ASSUME Init
    PROVE  TypeOK /\ LockInv
<1>1. IdleCall \in Call /\ IdleCall.phase = "idle"
  BY DEF IdleCall, Call, Phases, ZoneSet
<1>2. call \in [Handlers -> Call] /\ \A h \in Handlers : call[h].phase = "idle"
  BY <1>1 DEF Init
<1>3. lock \in [Cameras -> Seq(Handlers)] /\ \A c \in Cameras : lock[c] = <<>>
  BY DEF Init
<1>4. LockInv
  BY <1>2, <1>3 DEF LockInv, SingleFlight, Fetching
<1> QED BY <1>2, <1>3, <1>4 DEF Init, TypeOK

\* Every reachable state is well typed, and in it the calls that read a
\* camera's zones hold its lock, in the order in which they asked for it
\* (ZoneManager._reload, "async with self._loading[camera_id]").
THEOREM TypeCorrect == Spec => [](TypeOK /\ LockInv)
<1>1. Init => TypeOK /\ LockInv
  BY TypeInit
<1>2. TypeOK /\ LockInv /\ [Next]_vars => TypeOK' /\ LockInv'
  BY TypeStep
<1> QED BY <1>1, <1>2, PTL DEF Spec

\* No two handlers read the zones of one camera at a time, and the reader holds
\* the camera's lock.
THEOREM SingleFlightHolds == Spec => []SingleFlight
<1>1. LockInv => SingleFlight
  BY DEF LockInv
<1> QED BY <1>1, TypeCorrect, PTL

----------------------------------------------------------------------------
(* The age of what the cache shows                                         *)

\* The rows of a camera do not depend on the other variables of the model.
LEMMA RowsOnly ==
    ASSUME UNCHANGED rows
    PROVE  \A c \in Cameras : ActiveRows(c)' = ActiveRows(c) /\ Effective(c)' = Effective(c)
BY DEF ActiveRows, Effective

\* A change of a row shows under no camera but the one it had and the one it has.
LEMMA CommitElsewhere ==
    ASSUME rows \in [Zones -> Row \cup {None}],
           NEW z \in Zones, NEW r \in Row \cup {None}, rows' = [rows EXCEPT ![z] = r],
           NEW c \in Cameras, c \notin {x.camera : x \in {rows[z], r} \ {None}}
    PROVE  ActiveRows(c)' = ActiveRows(c)
<1> DEFINE shows(y, R) == R[y] # None /\ R[y].camera = c /\ R[y].active
<1>1. ~shows(z, rows) /\ ~shows(z, rows')
  OBVIOUS
<1>2. \A y \in Zones : y # z => rows'[y] = rows[y]
  OBVIOUS
<1>3. \A y \in Zones : shows(y, rows') <=> shows(y, rows)
  BY <1>1, <1>2
<1>4. {y \in Zones : shows(y, rows')} = {y \in Zones : shows(y, rows)}
  BY <1>3
<1>5. \A y \in {x \in Zones : shows(x, rows)} : rows'[y].shape = rows[y].shape
  BY <1>1, <1>2
<1> QED BY <1>4, <1>5 DEF ActiveRows

\* ... so its zones stay, under both of its names.
LEMMA CommitElsewhereEffective ==
    ASSUME rows \in [Zones -> Row \cup {None}],
           NEW z \in Zones, NEW r \in Row \cup {None}, rows' = [rows EXCEPT ![z] = r],
           NEW c \in Cameras, Names(c) \cap {x.camera : x \in {rows[z], r} \ {None}} = {}
    PROVE  /\ ActiveRows(c)' = ActiveRows(c)
           /\ ActiveRows(Alias[c])' = ActiveRows(Alias[c])
           /\ Effective(c)' = Effective(c)
<1>1. Alias[c] \in Cameras /\ c \in Names(c) /\ Alias[c] \in Names(c)
  BY AliasAssumption DEF Names
<1>2. ActiveRows(c)' = ActiveRows(c)
  BY <1>1, CommitElsewhere
<1>3. ActiveRows(Alias[c])' = ActiveRows(Alias[c])
  BY <1>1, CommitElsewhere
<1> QED BY <1>2, <1>3 DEF Effective

\* How far a call has read, when nothing it read has changed.
LEMMA CurrentKept ==
    ASSUME NEW h \in Handlers, Current(h), call'[h].camera = call[h].camera,
           call'[h].phase = call[h].phase, call'[h].reply = call[h].reply,
           ActiveRows(call[h].camera)' = ActiveRows(call[h].camera),
           ActiveRows(Alias[call[h].camera])' = ActiveRows(Alias[call[h].camera])
    PROVE  Current(h)'
BY DEF Current, ActiveRows

\* A change to the table keeps the age of what is fetched and cached.
LEMMA AgeCommit ==
    ASSUME TypeOK, LockInv, FetchInv, EntryInv, NEW a \in Admins, NEW z \in Zones,
           NEW r \in Row \cup {None}, NEW told \in Cameras, Commit(a, z, r, told)
    PROVE  FetchInv' /\ EntryInv'
<1> DEFINE changed == {x.camera : x \in {rows[z], r} \ {None}}
<1>1. /\ call' = [h \in Handlers |->
                    IF call[h].phase \in Fetching /\ Names(call[h].camera) \cap changed # {}
                    THEN [call[h] EXCEPT !.clean = FALSE] ELSE call[h]]
      /\ disturbed' = [c \in Cameras |-> IF Names(c) \cap changed # {} THEN now
                                                                       ELSE disturbed[c]]
      /\ rows' = [rows EXCEPT ![z] = r]
      /\ rows \in [Zones -> Row \cup {None}]
      /\ UNCHANGED <<cache, now>>
  BY DEF Commit, Disturb, TypeOK
<1> HIDE DEF changed
<1>2. ASSUME NEW c \in Cameras, Names(c) \cap changed = {}
      PROVE  /\ ActiveRows(c)' = ActiveRows(c)
             /\ ActiveRows(Alias[c])' = ActiveRows(Alias[c])
             /\ Effective(c)' = Effective(c)
  BY <1>1, <1>2, CommitElsewhereEffective DEF changed
<1>3. ASSUME NEW h \in Handlers, call'[h].phase \in Fetching
      PROVE  /\ call'[h].since <= now'
             /\ now' <= call'[h].since + FetchMax
             /\ Current(h)' \/ call'[h].since <= disturbed'[call'[h].camera]
             /\ call'[h].clean => Current(h)'
  <2>1. /\ call[h] \in Call
        /\ call'[h].camera = call[h].camera /\ call'[h].phase = call[h].phase
        /\ call'[h].reply = call[h].reply /\ call'[h].since = call[h].since
    BY <1>1 DEF TypeOK, Call
  <2>2. call[h].phase \in Fetching /\ call[h].camera \in Cameras
    BY <1>3, <2>1 DEF LockInv, Fetching
  <2>3. CASE Names(call[h].camera) \cap changed # {}
    <3>1. call'[h].clean = FALSE /\ disturbed'[call[h].camera] = now
      BY <1>1, <2>1, <2>2, <2>3 DEF Call
    <3> QED BY <3>1, <1>1, <2>1, <2>2 DEF FetchInv
  <2>4. CASE Names(call[h].camera) \cap changed = {}
    <3>1. call'[h] = call[h] /\ disturbed'[call[h].camera] = disturbed[call[h].camera]
      BY <1>1, <2>2, <2>4
    <3>2. Current(h) => Current(h)'
      BY <1>2, <2>1, <2>2, <2>4, CurrentKept
    <3> QED BY <3>1, <3>2, <1>1, <2>2 DEF FetchInv
  <2> QED BY <2>3, <2>4
<1>4. ASSUME NEW c \in Cameras, cache'[c] # None
      PROVE  /\ cache'[c].since <= now'
             /\ cache'[c].loadedAt <= cache'[c].since + FetchMax
             /\ cache'[c].zones = Effective(c)' \/ cache'[c].since <= disturbed'[c]
  <2>1. CASE Names(c) \cap changed # {}
    BY <1>1, <1>4, <2>1 DEF EntryInv
  <2>2. CASE Names(c) \cap changed = {}
    BY <1>1, <1>2, <1>4, <2>2 DEF EntryInv
  <2> QED BY <2>1, <2>2
<1>5. FetchInv'
  BY <1>3 DEF FetchInv
<1>6. EntryInv'
  BY <1>4 DEF EntryInv
<1> QED BY <1>5, <1>6

\* A call that moves on without storing anything.
LEMMA AgeCall ==
    ASSUME TypeOK, LockInv, FetchInv, EntryInv, UNCHANGED <<rows, cache, now>>,
           NEW h \in Handlers, call' \in [Handlers -> Call],
           \A g \in Handlers \ {h} : call'[g] = call[g],
           \A c \in Cameras : disturbed'[c] = disturbed[c] \/ disturbed'[c] = now,
           call'[h].phase \in Fetching =>
              /\ call'[h].since <= now
              /\ now <= call'[h].since + FetchMax
              /\ Current(h)' \/ call'[h].since <= disturbed'[call'[h].camera]
              /\ call'[h].clean => Current(h)'
    PROVE  FetchInv' /\ EntryInv'
<1>1. ASSUME NEW g \in Handlers, g # h, call'[g].phase \in Fetching
      PROVE  /\ call'[g].since <= now'
             /\ now' <= call'[g].since + FetchMax
             /\ Current(g)' \/ call'[g].since <= disturbed'[call'[g].camera]
             /\ call'[g].clean => Current(g)'
  <2>1. call'[g] = call[g] /\ call[g].camera \in Cameras /\ Alias[call[g].camera] \in Cameras
    BY <1>1, AliasAssumption DEF LockInv, Fetching
  <2>2. Current(g) => Current(g)'
    BY <2>1, RowsOnly, CurrentKept
  <2> QED BY <1>1, <2>1, <2>2 DEF FetchInv
<1>2. FetchInv'
  BY <1>1 DEF FetchInv
<1>3. \A c \in Cameras : Effective(c)' = Effective(c)
  BY RowsOnly
<1>4. EntryInv'
  BY <1>3 DEF EntryInv
<1> QED BY <1>2, <1>4

\* A call that stores zones which are the table's, unless it was disturbed.
LEMMA AgeStore ==
    ASSUME TypeOK, LockInv, FetchInv, EntryInv, UNCHANGED <<rows, now>>,
           NEW h \in Handlers, call[h].phase \in Fetching,
           NEW zones \in ZoneSet, NEW clean \in BOOLEAN, Store(h, zones, clean),
           \A c \in Cameras : disturbed'[c] = disturbed[c] \/ disturbed'[c] = now,
           \/ zones = Effective(call[h].camera)
           \/ call[h].since <= disturbed'[call[h].camera]
    PROVE  FetchInv' /\ EntryInv'
<1> DEFINE c == call[h].camera
<1>1. c \in Cameras /\ call[h] \in Call
  BY DEF LockInv, Fetching, TypeOK
<1>2. \A d \in Cameras : ActiveRows(d)' = ActiveRows(d) /\ Effective(d)' = Effective(d)
  BY RowsOnly
<1>3. /\ cache' = [cache EXCEPT ![c] = [zones |-> zones, loadedAt |-> now,
                                        since |-> call[h].since, clean |-> clean]]
      /\ call' = [call EXCEPT ![h] = IdleCall]
  BY DEF Store, Return
<1>4. call[h].since <= now /\ now <= call[h].since + FetchMax
  BY DEF FetchInv
<1>5. ASSUME NEW g \in Handlers, call'[g].phase \in Fetching
      PROVE  /\ call'[g].since <= now'
             /\ now' <= call'[g].since + FetchMax
             /\ Current(g)' \/ call'[g].since <= disturbed'[call'[g].camera]
             /\ call'[g].clean => Current(g)'
  <2>1. g # h /\ call'[g] = call[g]
    BY <1>3, <1>5 DEF TypeOK, IdleCall, Fetching
  <2>2. call[g].camera \in Cameras /\ Alias[call[g].camera] \in Cameras
    BY <1>5, <2>1, AliasAssumption DEF LockInv, Fetching
  <2>3. Current(g) => Current(g)'
    BY <1>2, <2>1, <2>2, CurrentKept
  <2> QED BY <1>5, <2>1, <2>2, <2>3 DEF FetchInv
<1>6. ASSUME NEW d \in Cameras, cache'[d] # None
      PROVE  /\ cache'[d].since <= now'
             /\ cache'[d].loadedAt <= cache'[d].since + FetchMax
             /\ cache'[d].zones = Effective(d)' \/ cache'[d].since <= disturbed'[d]
  <2>1. CASE d = c
    <3>1. /\ cache'[d].since = call[h].since /\ cache'[d].loadedAt = now
          /\ cache'[d].zones = zones
      BY <1>1, <1>3, <2>1 DEF TypeOK
    <3> QED BY <3>1, <1>1, <1>2, <1>4, <2>1
  <2>2. CASE d # c
    <3>1. cache'[d] = cache[d]
      BY <1>3, <2>2 DEF TypeOK
    <3>2. disturbed'[d] = disturbed[d] \/ disturbed'[d] = now
      OBVIOUS
    <3> QED BY <3>1, <3>2, <1>2, <1>6 DEF EntryInv
  <2> QED BY <2>1, <2>2
<1> QED BY <1>5, <1>6 DEF FetchInv, EntryInv

\* Steps that touch neither the table nor the cache nor a call.
LEMMA AgeIdle ==
    ASSUME FetchInv, EntryInv, TypeOK, LockInv, UNCHANGED <<rows, call, now, disturbed>>,
           \A c \in Cameras : cache'[c] = cache[c] \/ cache'[c] = None
    PROVE  FetchInv' /\ EntryInv'
<1>1. \A c \in Cameras : ActiveRows(c)' = ActiveRows(c) /\ Effective(c)' = Effective(c)
  BY RowsOnly
<1>2. ASSUME NEW h \in Handlers, call[h].phase \in Fetching
      PROVE  Current(h) => Current(h)'
  <2>1. call[h].camera \in Cameras /\ Alias[call[h].camera] \in Cameras
    BY <1>2, AliasAssumption DEF LockInv, Fetching
  <2> QED BY <1>1, <2>1, CurrentKept
<1>3. FetchInv'
  BY <1>2 DEF FetchInv
<1>4. EntryInv'
  BY <1>1 DEF EntryInv
<1> QED BY <1>3, <1>4

\* A call that has read the table to the end, and found nothing to disturb it,
\* has read what its camera's frames are judged by.
LEMMA ReplyIsEffective ==
    ASSUME NEW h \in Handlers, call[h].phase \in {"ownReply", "aliasReply"}, Current(h),
           call[h].reply # {} \/ ~HasNext(h)
    PROVE  call[h].reply = Effective(call[h].camera)
<1>1. CASE call[h].phase = "ownReply"
  BY <1>1 DEF Current, Effective, HasNext
<1>2. CASE call[h].phase = "aliasReply"
  BY <1>2 DEF Current, Effective
<1> QED BY <1>1, <1>2

\* Every step does.
LEMMA AgeStep ==
    ASSUME TypeOK, LockInv, FetchInv, EntryInv, [Next]_vars
    PROVE  FetchInv' /\ EntryInv'
<1>0. TypeOK' /\ LockInv'
  BY TypeStep
<1>1. ASSUME NEW a \in Admins, NEW z \in Zones,
             CreateZone(a, z) \/ UpdateZone(a, z) \/ DeleteZone(a, z)
      PROVE  FetchInv' /\ EntryInv'
  <2>1. ASSUME CreateZone(a, z) PROVE FetchInv' /\ EntryInv'
    BY <2>1, AgeCommit DEF CreateZone, Row
  <2>2. ASSUME UpdateZone(a, z) PROVE FetchInv' /\ EntryInv'
    BY <2>2, AgeCommit DEF UpdateZone, Row
  <2>3. ASSUME DeleteZone(a, z) PROVE FetchInv' /\ EntryInv'
    BY <2>3, AgeCommit DEF DeleteZone, TypeOK, Row
  <2> QED BY <1>1, <2>1, <2>2, <2>3
<1>2. ASSUME NEW a \in Admins, PublishZoneUpdate(a) PROVE FetchInv' /\ EntryInv'
  BY <1>2, AgeIdle DEF PublishZoneUpdate
<1>3. ASSUME NEW a \in Admins, PublishFails(a) PROVE FetchInv' /\ EntryInv'
  BY <1>3, AgeIdle DEF PublishFails
<1>4. CASE Disconnect
  BY <1>4, AgeIdle DEF Disconnect
<1>5. CASE Reconnect
  BY <1>5, AgeIdle DEF Reconnect
<1>6. CASE Invalidate
  BY <1>6, AgeIdle DEF Invalidate
<1>7. ASSUME NEW h \in Handlers, NEW c \in Cameras, GetZones(h, c)
      PROVE  FetchInv' /\ EntryInv'
  <2>1. /\ \A g \in Handlers \ {h} : call'[g] = call[g]
        /\ call'[h].phase = "lock"
        /\ UNCHANGED <<rows, cache, now, disturbed>>
    BY <1>7 DEF GetZones, TypeOK, IdleCall
  <2> QED BY <1>0, <2>1, AgeCall DEF TypeOK, Fetching
<1>8. ASSUME NEW h \in Handlers, AlreadyLoaded(h) PROVE FetchInv' /\ EntryInv'
  <2>1. /\ \A g \in Handlers \ {h} : call'[g] = call[g]
        /\ call'[h].phase = "idle"
        /\ UNCHANGED <<rows, cache, now, disturbed>>
    BY <1>8 DEF AlreadyLoaded, Return, TypeOK, IdleCall
  <2> QED BY <1>0, <2>1, AgeCall DEF TypeOK, Fetching
<1>9. ASSUME NEW h \in Handlers, StartFetch(h) PROVE FetchInv' /\ EntryInv'
  <2>1. /\ \A g \in Handlers \ {h} : call'[g] = call[g]
        /\ call'[h].phase = "own" /\ call'[h].since = now
        /\ UNCHANGED <<rows, cache, now, disturbed>>
    BY <1>9 DEF StartFetch, TypeOK, Call
  <2>2. Current(h)'
    BY <2>1 DEF Current
  <2>3. call'[h].since <= now /\ now <= call'[h].since + FetchMax
    BY <2>1, TimeAssumption DEF TypeOK
  <2>4. call' \in [Handlers -> Call]
    BY <1>0 DEF TypeOK
  <2>5. UNCHANGED <<rows, cache, now>> /\ \A c \in Cameras : disturbed'[c] = disturbed[c]
    BY <2>1
  <2> QED BY <2>1, <2>2, <2>3, <2>4, <2>5, AgeCall
<1>10. ASSUME NEW h \in Handlers, Serve(h) PROVE FetchInv' /\ EntryInv'
  <2>1. PICK p \in {"own", "alias"} :
           /\ call[h].phase = p
           /\ call' = [call EXCEPT
                 ![h] = [@ EXCEPT
                   !.phase = IF p = "own" THEN "ownReply" ELSE "aliasReply",
                   !.reply = ActiveRows(IF p = "own" THEN call[h].camera
                                                     ELSE Alias[call[h].camera])]]
    BY <1>10 DEF Serve
  <2>2. call[h].phase \in Fetching /\ call[h].camera \in Cameras /\ call[h] \in Call
    BY <2>1 DEF Fetching, LockInv, TypeOK
  <2>3. /\ \A g \in Handlers \ {h} : call'[g] = call[g]
        /\ call'[h].camera = call[h].camera /\ call'[h].since = call[h].since
        /\ call'[h].clean = call[h].clean
        /\ call'[h].phase = IF p = "own" THEN "ownReply" ELSE "aliasReply"
        /\ call'[h].reply = ActiveRows(IF p = "own" THEN call[h].camera
                                                    ELSE Alias[call[h].camera])
        /\ UNCHANGED <<rows, cache, now, disturbed>>
    BY <1>10, <2>1, <2>2 DEF Serve, TypeOK, Call
  <2>4. /\ ActiveRows(call[h].camera)' = ActiveRows(call[h].camera)
        /\ ActiveRows(Alias[call[h].camera])' = ActiveRows(Alias[call[h].camera])
    BY <2>2, <2>3, RowsOnly, AliasAssumption
  <2>5. Current(h) => Current(h)'
    <3>1. CASE p = "own"
      BY <2>3, <2>4, <3>1 DEF Current, ActiveRows
    <3>2. CASE p = "alias"
      BY <2>1, <2>3, <2>4, <3>2 DEF Current, ActiveRows
    <3> QED BY <3>1, <3>2
  <2>6. /\ call'[h].since <= now /\ now <= call'[h].since + FetchMax
        /\ Current(h)' \/ call'[h].since <= disturbed'[call'[h].camera]
        /\ call'[h].clean => Current(h)'
    BY <2>2, <2>3, <2>5 DEF FetchInv
  <2> QED BY <1>0, <2>3, <2>6, AgeCall DEF TypeOK
<1>11. ASSUME NEW h \in Handlers, NEW clean \in BOOLEAN, AskAlias(h, clean),
              call[h].phase \in {"own", "ownReply"},
              UNCHANGED <<rows, now>>,
              \A c \in Cameras : disturbed'[c] = disturbed[c] \/ disturbed'[c] = now,
              \/ /\ call[h].phase = "ownReply" /\ call[h].reply = {}
                 /\ clean = call[h].clean /\ UNCHANGED disturbed
              \/ clean = FALSE /\ disturbed'[call[h].camera] = now
       PROVE  FetchInv' /\ EntryInv'
  <2>1. call[h].phase \in Fetching /\ call[h].camera \in Cameras /\ call[h] \in Call
    BY <1>11 DEF Fetching, LockInv, TypeOK
  <2>2. /\ \A g \in Handlers \ {h} : call'[g] = call[g]
        /\ call'[h].camera = call[h].camera /\ call'[h].since = call[h].since
        /\ call'[h].clean = clean /\ call'[h].phase = "alias"
        /\ UNCHANGED cache
    BY <1>11, <2>1 DEF AskAlias, TypeOK, Call
  <2>3. ActiveRows(call[h].camera)' = ActiveRows(call[h].camera)
    <3>1. rows' = rows
      BY <1>11
    <3> QED BY <2>1, <2>2, <3>1, RowsOnly
  <2>4. CASE call[h].phase = "ownReply" /\ call[h].reply = {}
    <3>1. Current(h) => Current(h)'
      BY <2>2, <2>3, <2>4 DEF Current, ActiveRows
    <3> QED BY <1>0, <1>11, <2>1, <2>2, <3>1, AgeCall DEF TypeOK, FetchInv
  <2>5. CASE clean = FALSE /\ disturbed'[call[h].camera] = now
    BY <1>0, <1>11, <2>1, <2>2, <2>5, AgeCall DEF TypeOK, FetchInv
  <2> QED BY <1>11, <2>4, <2>5
<1>12. ASSUME NEW h \in Handlers, Receive(h) PROVE FetchInv' /\ EntryInv'
  <2>1. /\ call[h].phase \in {"ownReply", "aliasReply"} /\ call[h].phase \in Fetching
        /\ call[h].reply \in ZoneSet /\ call[h].clean \in BOOLEAN
        /\ UNCHANGED <<rows, now, disturbed>>
    BY <1>12 DEF Receive, Fetching, TypeOK, Call
  <2>2. CASE call[h].reply = {} /\ HasNext(h)
    <3>1. AskAlias(h, call[h].clean) /\ call[h].phase = "ownReply"
      BY <1>12, <2>1, <2>2 DEF Receive, HasNext
    <3> QED BY <1>11, <2>1, <2>2, <3>1
  <2>3. CASE ~(call[h].reply = {} /\ HasNext(h))
    <3>1. Store(h, call[h].reply, call[h].clean)
      BY <1>12, <2>3 DEF Receive
    <3>2. \/ call[h].reply = Effective(call[h].camera)
          \/ call[h].since <= disturbed'[call[h].camera]
      BY <2>1, <2>3, ReplyIsEffective DEF FetchInv
    <3> QED BY <2>1, <3>1, <3>2, AgeStore
  <2> QED BY <2>2, <2>3
<1>13. ASSUME NEW h \in Handlers, call[h].phase \in Fetching, ReadFailed(call[h].camera)
       PROVE  /\ call[h].camera \in Cameras
              /\ \A c \in Cameras : disturbed'[c] = disturbed[c] \/ disturbed'[c] = now
              /\ disturbed'[call[h].camera] = now
              /\ call[h].since <= disturbed'[call[h].camera]
  <2>1. call[h].camera \in Cameras /\ call[h].since <= now
    BY <1>13 DEF LockInv, Fetching, FetchInv
  <2> QED BY <1>13, <2>1 DEF ReadFailed, TypeOK
<1>14. ASSUME NEW h \in Handlers, RequestFails(h) PROVE FetchInv' /\ EntryInv'
  <2>1. /\ call[h].phase \in Fetching /\ {} \in ZoneSet
        /\ ReadFailed(call[h].camera) /\ UNCHANGED <<rows, now>>
    BY <1>14 DEF RequestFails, ZoneSet
  <2>2. CASE HasNext(h)
    <3>1. AskAlias(h, FALSE) /\ call[h].phase \in {"own", "ownReply"}
      BY <1>14, <2>2 DEF RequestFails, HasNext
    <3> QED BY <1>11, <1>13, <2>1, <3>1
  <2>3. CASE ~HasNext(h)
    <3>1. Store(h, {}, FALSE)
      BY <1>14, <2>3 DEF RequestFails
    <3> QED BY <1>13, <2>1, <3>1, AgeStore
  <2> QED BY <2>2, <2>3
<1>15. ASSUME NEW h \in Handlers, FallBack(h) PROVE FetchInv' /\ EntryInv'
  <2> DEFINE old == IF cache[call[h].camera] = None THEN {} ELSE cache[call[h].camera].zones
  <2>1. /\ call[h].phase \in Fetching /\ ReadFailed(call[h].camera)
        /\ UNCHANGED <<rows, now>> /\ Store(h, old, FALSE)
    BY <1>15 DEF FallBack, Fetching
  <2>2. call[h].camera \in Cameras
    BY <1>13, <2>1
  <2>3. old \in ZoneSet
    BY <2>2 DEF TypeOK, Entry, ZoneSet
  <2> QED BY <1>13, <2>1, <2>3, AgeStore
<1>16. CASE Restart
  BY <1>16 DEF Restart, FetchInv, EntryInv, IdleCall, Fetching
<1>17. CASE Tick
  <2>1. /\ now' = now + 1 /\ UNCHANGED <<rows, cache, call, disturbed>>
        /\ \A h \in Handlers : call[h].phase \in Fetching => now < call[h].since + FetchMax
    BY <1>17 DEF Tick
  <2>2. \A h \in Handlers : call[h].phase \in Fetching =>
           call[h].camera \in Cameras /\ Alias[call[h].camera] \in Cameras /\ call[h].since \in Nat
    BY AliasAssumption DEF LockInv, Fetching, TypeOK, Call
  <2>3. \A h \in Handlers : call[h].phase \in Fetching => (Current(h) => Current(h)')
    BY <2>1, <2>2, RowsOnly, CurrentKept
  <2>4. FetchInv'
    BY <2>1, <2>2, <2>3, TimeAssumption DEF FetchInv, TypeOK
  <2>5. \A c \in Cameras : Effective(c)' = Effective(c)
    BY <2>1, RowsOnly
  <2>6. EntryInv'
    BY <2>1, <2>5 DEF EntryInv, TypeOK, Entry
  <2> QED BY <2>4, <2>6
<1>18. CASE UNCHANGED vars
  BY <1>18, AgeIdle DEF vars
<1> QED BY <1>1, <1>2, <1>3, <1>4, <1>5, <1>6, <1>7, <1>8, <1>9, <1>10, <1>12, <1>14, <1>15,
           <1>16, <1>17, <1>18 DEF Next, BackendStep, CallStep

\* What get_zones may return is never older than a time to live and the fetch
\* behind it: an entry that has not expired shows the table's zones unless a
\* row of its camera changed, or a read of it failed, within that time.  It
\* needs no announcement to arrive (ZoneManager.get_zones, _reload).
THEOREM StalenessIsBounded == Spec => []BoundedStaleness
<1>1. Init => FetchInv /\ EntryInv
  BY DEF Init, FetchInv, EntryInv, IdleCall, Fetching
<1>2. TypeOK /\ LockInv /\ FetchInv /\ EntryInv /\ [Next]_vars => FetchInv' /\ EntryInv'
  BY AgeStep
<1>3. TypeOK /\ EntryInv => BoundedStaleness
  <2>1. SUFFICES ASSUME TypeOK, EntryInv, NEW c \in Cameras, Usable(c),
                        now > disturbed[c] + FetchMax
                                + IF cache[c].zones = {} THEN EmptyTTL ELSE ZoneTTL
                 PROVE  cache[c].zones = Effective(c)
    BY DEF BoundedStaleness
  <2>2. cache[c] \in Entry /\ now - cache[c].loadedAt <= TTL(cache[c].zones)
    BY <2>1 DEF Usable, TypeOK
  <2>3. ~(cache[c].since <= disturbed[c])
    <3>1. cache[c].loadedAt <= cache[c].since + FetchMax
      BY <2>1 DEF EntryInv, Usable
    <3> QED BY <2>1, <2>2, <3>1, TimeAssumption DEF TTL, TypeOK, Entry
  <2> QED BY <2>1, <2>3 DEF EntryInv, Usable
<1> QED BY <1>1, <1>2, <1>3, TypeCorrect, PTL DEF Spec

----------------------------------------------------------------------------
(* What the announcements achieve                                          *)

\* Of two cameras each is a name of the other or neither is.
LEMMA AliasSymmetric ==
    ASSUME NEW c \in Cameras, NEW d \in Cameras
    PROVE  /\ c \in Names(d) <=> d \in Names(c)
           /\ Names(d) \in SUBSET Cameras
BY AliasAssumption DEF Names

\* Steps that change neither the table, nor what is excused, and only drop
\* entries of the cache.
LEMMA NewsIdle ==
    ASSUME StaleOnlyUntilAnnounced, UNCHANGED rows,
           unannounced \subseteq unannounced',
           \A c \in Cameras : cache'[c] # None => cache'[c] = cache[c],
           \A c \in Cameras : cache'[c] # None /\ c \notin unannounced' /\ NewsComing(c)
                                 => NewsComing(c)'
    PROVE  StaleOnlyUntilAnnounced'
<1>1. \A c \in Cameras : Effective(c)' = Effective(c)
  BY RowsOnly
<1>2. SUFFICES ASSUME NEW c \in Cameras, cache'[c] # None, cache'[c].clean,
                      c \notin unannounced'
               PROVE  cache'[c].zones = Effective(c)' \/ NewsComing(c)'
  BY DEF StaleOnlyUntilAnnounced
<1>3. cache'[c] = cache[c] /\ c \notin unannounced
  BY <1>2
<1>4. cache[c].zones = Effective(c) \/ NewsComing(c)
  BY <1>2, <1>3 DEF StaleOnlyUntilAnnounced
<1> QED BY <1>1, <1>2, <1>3, <1>4

\* A change to the table is news on its way to each camera it touches.
LEMMA NewsCommit ==
    ASSUME TypeOK, StaleOnlyUntilAnnounced, NEW a \in Admins, NEW z \in Zones,
           NEW r \in Row \cup {None}, NEW told \in Cameras, Commit(a, z, r, told)
    PROVE  StaleOnlyUntilAnnounced'
<1> DEFINE changed == {x.camera : x \in {rows[z], r} \ {None}}
<1>1. /\ rows \in [Zones -> Row \cup {None}] /\ rows' = [rows EXCEPT ![z] = r]
      /\ unannounced' = unannounced \cup
            {c \in Cameras : Names(c) \cap changed # {} /\ c \notin Names(told)}
      /\ admin[a] = None /\ admin' = [admin EXCEPT ![a] = told]
      /\ UNCHANGED <<cache, queue>>
  BY DEF Commit, TypeOK
<1> HIDE DEF changed
<1>2. SUFFICES ASSUME NEW c \in Cameras, cache'[c] # None, cache'[c].clean,
                      c \notin unannounced'
               PROVE  cache'[c].zones = Effective(c)' \/ NewsComing(c)'
  BY DEF StaleOnlyUntilAnnounced
<1>3. cache'[c] = cache[c] /\ c \notin unannounced
  BY <1>1, <1>2
<1>4. admin'[a] = told
  BY <1>1 DEF TypeOK
<1>5. CASE Names(c) \cap changed # {}
  <2>1. told \in Names(c)
    BY <1>1, <1>2, <1>5, AliasSymmetric
  <2> QED BY <1>4, <2>1, AliasAssumption DEF NewsComing, Names
<1>6. CASE Names(c) \cap changed = {}
  <2>1. Effective(c)' = Effective(c)
    BY <1>1, <1>6, CommitElsewhereEffective DEF changed
  <2>2. NewsComing(c) => NewsComing(c)'
    <3>1. ASSUME NEW b \in Admins, admin[b] \in Names(c) PROVE NewsComing(c)'
      <4>1. admin[b] # None
        BY <3>1, AliasSymmetric, NoneAssumption
      <4>2. admin'[b] = admin[b]
        BY <1>1, <4>1 DEF TypeOK
      <4> QED BY <3>1, <4>2 DEF NewsComing, Names
    <3>2. ASSUME NEW i \in 1..Len(queue), queue[i] \in Names(c) PROVE NewsComing(c)'
      BY <1>1, <3>2 DEF NewsComing, Names
    <3> QED BY <3>1, <3>2 DEF NewsComing
  <2> QED BY <1>2, <1>3, <2>1, <2>2 DEF StaleOnlyUntilAnnounced
<1> QED BY <1>5, <1>6

\* A call that stores what it read, whose read was clean only if current.
LEMMA NewsStore ==
    ASSUME TypeOK, LockInv, StaleOnlyUntilAnnounced, UNCHANGED <<rows, admin, queue>>,
           NEW h \in Handlers, call[h].phase \in Fetching,
           NEW zones \in ZoneSet, NEW clean \in BOOLEAN, Store(h, zones, clean),
           clean => zones = Effective(call[h].camera)
    PROVE  StaleOnlyUntilAnnounced'
<1> DEFINE c == call[h].camera
<1>1. c \in Cameras
  BY DEF LockInv, Fetching
<1>2. /\ cache' = [cache EXCEPT ![c] = [zones |-> zones, loadedAt |-> now,
                                        since |-> call[h].since, clean |-> clean]]
      /\ unannounced' = unannounced \ {c}
  BY DEF Store
<1>3. SUFFICES ASSUME NEW d \in Cameras, cache'[d] # None, cache'[d].clean,
                      d \notin unannounced'
               PROVE  cache'[d].zones = Effective(d)' \/ NewsComing(d)'
  BY DEF StaleOnlyUntilAnnounced
<1>4. Effective(d)' = Effective(d)
  BY RowsOnly
<1>5. CASE d = c
  <2>1. cache'[d].zones = zones /\ cache'[d].clean = clean
    BY <1>1, <1>2, <1>5 DEF TypeOK
  <2> QED BY <1>3, <1>4, <1>5, <2>1
<1>6. CASE d # c
  <2>1. cache'[d] = cache[d] /\ d \notin unannounced
    BY <1>2, <1>3, <1>6 DEF TypeOK
  <2>2. NewsComing(d)' <=> NewsComing(d)
    BY DEF NewsComing, Names
  <2> QED BY <1>3, <1>4, <2>1, <2>2 DEF StaleOnlyUntilAnnounced
<1> QED BY <1>5, <1>6

\* Every step keeps what is stale to cameras that have news coming.
LEMMA NewsStep ==
    ASSUME TypeOK, LockInv, FetchInv, StaleOnlyUntilAnnounced, [Next]_vars
    PROVE  StaleOnlyUntilAnnounced'
<1>1. ASSUME NEW a \in Admins, NEW z \in Zones,
             CreateZone(a, z) \/ UpdateZone(a, z) \/ DeleteZone(a, z)
      PROVE  StaleOnlyUntilAnnounced'
  <2>1. ASSUME CreateZone(a, z) PROVE StaleOnlyUntilAnnounced'
    BY <2>1, NewsCommit DEF CreateZone, Row
  <2>2. ASSUME UpdateZone(a, z) PROVE StaleOnlyUntilAnnounced'
    BY <2>2, NewsCommit DEF UpdateZone, Row
  <2>3. ASSUME DeleteZone(a, z) PROVE StaleOnlyUntilAnnounced'
    BY <2>3, NewsCommit DEF DeleteZone, TypeOK, Row
  <2> QED BY <1>1, <2>1, <2>2, <2>3
<1>2. ASSUME NEW a \in Admins, admin[a] # None, admin' = [admin EXCEPT ![a] = None],
             UNCHANGED <<rows, cache>>,
             \/ /\ queue' = Append(queue, admin[a]) /\ UNCHANGED unannounced
             \/ /\ UNCHANGED queue /\ Missed(admin[a])
      PROVE  StaleOnlyUntilAnnounced'
  <2>1. admin[a] \in Cameras /\ queue \in Seq(Cameras)
    BY <1>2 DEF TypeOK
  <2>2. ASSUME NEW c \in Cameras, c \notin unannounced', NewsComing(c)
        PROVE  NewsComing(c)'
    <3>1. ASSUME NEW i \in 1..Len(queue), queue[i] \in Names(c) PROVE NewsComing(c)'
      <4>1. i \in 1..Len(queue') /\ queue'[i] = queue[i]
        BY <1>2, <2>1
      <4> QED BY <3>1, <4>1 DEF NewsComing, Names
    <3>2. ASSUME NEW b \in Admins, admin[b] \in Names(c) PROVE NewsComing(c)'
      <4>1. CASE b # a
        <5>1. admin'[b] = admin[b]
          BY <1>2, <4>1 DEF TypeOK
        <5> QED BY <3>2, <5>1 DEF NewsComing, Names
      <4>2. CASE b = a
        <5>1. ~Missed(admin[a])
          BY <2>1, <2>2, <3>2, <4>2, AliasSymmetric DEF Missed
        <5>2. Len(queue) + 1 \in 1..Len(queue') /\ queue'[Len(queue) + 1] = admin[a]
          BY <1>2, <2>1, <5>1
        <5> QED BY <3>2, <4>2, <5>2 DEF NewsComing, Names
      <4> QED BY <4>1, <4>2
    <3> QED BY <2>2, <3>1, <3>2 DEF NewsComing
  <2>3. unannounced \subseteq unannounced'
    BY <1>2 DEF Missed
  <2> QED BY <1>2, <2>2, <2>3, NewsIdle
<1>3. ASSUME NEW a \in Admins, PublishZoneUpdate(a) PROVE StaleOnlyUntilAnnounced'
  BY <1>2, <1>3 DEF PublishZoneUpdate
<1>4. ASSUME NEW a \in Admins, PublishFails(a) PROVE StaleOnlyUntilAnnounced'
  BY <1>2, <1>4 DEF PublishFails
<1>5. CASE Disconnect
  <2>1. /\ unannounced' = unannounced \cup UNION {Names(queue[i]) : i \in 1..Len(queue)}
        /\ UNCHANGED <<rows, admin, cache>> /\ queue \in Seq(Cameras)
    BY <1>5 DEF Disconnect, TypeOK
  <2>2. ASSUME NEW c \in Cameras, c \notin unannounced', NewsComing(c)
        PROVE  NewsComing(c)'
    <3>1. ASSUME NEW i \in 1..Len(queue), queue[i] \in Names(c) PROVE FALSE
      <4>1. c \in Names(queue[i])
        BY <2>1, <3>1, AliasSymmetric
      <4> QED BY <2>1, <2>2, <4>1
    <3> QED BY <2>1, <2>2, <3>1 DEF NewsComing, Names
  <2> QED BY <2>1, <2>2, NewsIdle
<1>6. CASE Invalidate
  <2>1. /\ queue # <<>> /\ queue' = Tail(queue) /\ queue \in Seq(Cameras)
        /\ cache' = [c \in Cameras |-> IF c \in Names(Head(queue)) THEN None ELSE cache[c]]
        /\ UNCHANGED <<rows, admin, unannounced>>
    BY <1>6 DEF Invalidate, TypeOK
  <2>2. ASSUME NEW c \in Cameras, cache'[c] # None, NewsComing(c)
        PROVE  NewsComing(c)'
    <3>1. c \notin Names(Head(queue))
      BY <2>1, <2>2
    <3>2. ASSUME NEW i \in 1..Len(queue), queue[i] \in Names(c) PROVE NewsComing(c)'
      <4>1. i # 1
        BY <2>1, <3>1, <3>2, AliasSymmetric
      <4>2. i - 1 \in 1..Len(queue') /\ queue'[i - 1] = queue[i]
        BY <2>1, <4>1
      <4> QED BY <3>2, <4>2 DEF NewsComing, Names
    <3> QED BY <2>1, <2>2, <3>2 DEF NewsComing, Names
  <2> QED BY <2>1, <2>2, NewsIdle
<1>8. ASSUME UNCHANGED <<rows, admin, queue, cache, unannounced>>
      PROVE  StaleOnlyUntilAnnounced'
  <2>1. \A c \in Cameras : NewsComing(c)' <=> NewsComing(c)
    BY <1>8 DEF NewsComing, Names
  <2> QED BY <1>8, <2>1, NewsIdle
<1>9. ASSUME NEW h \in Handlers, Receive(h) PROVE StaleOnlyUntilAnnounced'
  <2>1. /\ call[h].phase \in Fetching /\ call[h].phase \in {"ownReply", "aliasReply"}
        /\ call[h].reply \in ZoneSet /\ call[h].clean \in BOOLEAN
        /\ UNCHANGED <<rows, admin, queue>>
    BY <1>9 DEF Receive, Fetching, TypeOK, Call
  <2>2. CASE call[h].reply = {} /\ HasNext(h)
    BY <1>8, <1>9, <2>1, <2>2 DEF Receive, AskAlias
  <2>3. CASE ~(call[h].reply = {} /\ HasNext(h))
    <3>1. Store(h, call[h].reply, call[h].clean)
      BY <1>9, <2>3 DEF Receive
    <3>2. call[h].clean => call[h].reply = Effective(call[h].camera)
      BY <2>1, <2>3, ReplyIsEffective DEF FetchInv
    <3> QED BY <2>1, <3>1, <3>2, NewsStore
  <2> QED BY <2>2, <2>3
<1>10. ASSUME NEW h \in Handlers, RequestFails(h) PROVE StaleOnlyUntilAnnounced'
  <2>1. call[h].phase \in Fetching /\ {} \in ZoneSet /\ UNCHANGED <<rows, admin, queue>>
    BY <1>10 DEF RequestFails, ZoneSet
  <2>2. CASE HasNext(h)
    BY <1>8, <1>10, <2>1, <2>2 DEF RequestFails, AskAlias
  <2>3. CASE ~HasNext(h)
    <3>1. Store(h, {}, FALSE)
      BY <1>10, <2>3 DEF RequestFails
    <3> QED BY <2>1, <3>1, NewsStore
  <2> QED BY <2>2, <2>3
<1>11. ASSUME NEW h \in Handlers, FallBack(h) PROVE StaleOnlyUntilAnnounced'
  <2> DEFINE old == IF cache[call[h].camera] = None THEN {} ELSE cache[call[h].camera].zones
  <2>1. /\ call[h].phase \in Fetching /\ Store(h, old, FALSE)
        /\ UNCHANGED <<rows, admin, queue>>
    BY <1>11 DEF FallBack, Fetching
  <2>2. old \in ZoneSet
    BY <2>1 DEF LockInv, Fetching, TypeOK, Entry, ZoneSet
  <2> QED BY <2>1, <2>2, NewsStore
<1>12. CASE Restart
  BY <1>12 DEF Restart, StaleOnlyUntilAnnounced
<1>13. ASSUME NEW h \in Handlers, NEW c \in Cameras, GetZones(h, c)
       PROVE  StaleOnlyUntilAnnounced'
  BY <1>8, <1>13 DEF GetZones
<1>14. ASSUME NEW h \in Handlers, AlreadyLoaded(h) \/ StartFetch(h) \/ Serve(h)
       PROVE  StaleOnlyUntilAnnounced'
  BY <1>8, <1>14 DEF AlreadyLoaded, StartFetch, Serve
<1>15. CASE Reconnect
  BY <1>8, <1>15 DEF Reconnect
<1>16. CASE Tick
  BY <1>8, <1>16 DEF Tick
<1>17. CASE UNCHANGED vars
  BY <1>8, <1>17 DEF vars
<1> QED BY <1>1, <1>3, <1>4, <1>5, <1>6, <1>9, <1>10, <1>11, <1>12, <1>13, <1>14, <1>15,
           <1>16, <1>17 DEF Next, BackendStep, CallStep

\* The announcements keep the cache in step with the table: a cached entry
\* that disagrees with it will be deleted by an announcement under way, unless
\* the change was made during its read, its read failed, or the announcement
\* was lost or went to another camera.
THEOREM AnnouncementsInvalidate == Spec => []StaleOnlyUntilAnnounced
<1>1. Init => FetchInv /\ EntryInv /\ StaleOnlyUntilAnnounced
  BY DEF Init, FetchInv, EntryInv, StaleOnlyUntilAnnounced, IdleCall, Fetching
<1>2. TypeOK /\ LockInv /\ FetchInv /\ EntryInv /\ [Next]_vars => FetchInv' /\ EntryInv'
  BY AgeStep
<1>3. TypeOK /\ LockInv /\ FetchInv /\ StaleOnlyUntilAnnounced /\ [Next]_vars
        => StaleOnlyUntilAnnounced'
  BY NewsStep
<1> QED BY <1>1, <1>2, <1>3, TypeCorrect, PTL DEF Spec
=============================================================================

------------------------- MODULE EventDeliveryProofs -------------------------
(***************************************************************************)
(* What is proved of the delivery of events, for any number of events,     *)
(* browsers, running handlers and faults and any prefetch count:           *)
(*                                                                         *)
(*  - no event that reached the queue is lost (NothingIsLost).  A step can *)
(*    take one out of the broker's hands only where it is acknowledged     *)
(*    (Settle), and there a call whose thread says "saved" must be known   *)
(*    to have its event in the table; that is CallInv;                     *)
(*  - the shape of every variable and the agreement of the list with the   *)
(*    endpoints (DeliveryTypes, ListsMatch), from DeliveryInv;             *)
(*  - what a broadcast can miss (BroadcastsMiss), from CountInv: the       *)
(*    connections it has passed without an event are at most the entries   *)
(*    that left the list before its position.                              *)
(***************************************************************************)
EXTENDS EventDelivery, ListLemmas

\* What the argument needs to know of a call: it has these fields, and if its
\* thread has saved, the event is in the table.
Settled(c) == c.save = "saved" => c.event \in stored
HasFields(c) == {"event", "owned", "save"} \subseteq DOMAIN c
CallInv == \A h \in Busy : HasFields(handler[h]) /\ Settled(handler[h])

\* A call that a step of a broadcast has turned into another.
Kept(c, d) ==
    /\ DOMAIN d = DOMAIN c
    /\ d.event = c.event /\ d.owned = c.owned /\ d.save = c.save

\* NoneLost of one step.
StillThere == InBroker \subseteq InBroker' \cup stored' \cup refused'

----------------------------------------------------------------------------
(* The broadcast leaves alone what the thread and the delivery need        *)

\* An entry that leaves the list moves a running broadcast's position only
\* (ConnectionManager.disconnect beside the loop of broadcast).
LEMMA ShiftedKeeps ==
    ASSUME NEW c, NEW S, HasFields(c)
    PROVE  Kept(c, Shifted(c, S))
<1>1. CASE c.cast # "sending"
  BY <1>1 DEF Kept, Shifted
<1>2. CASE c.cast = "sending"
  BY <1>2 DEF Kept, Shifted, HasFields
<1>3. QED
  BY <1>1, <1>2

\* From one await to the next a broadcast changes the fields of broadcasts only.
LEMMA AdvanceKeeps ==
    ASSUME NEW h \in Busy, NEW call, CallInv, Kept(handler[h], call), Advance(h, call)
    PROVE  Busy' = Busy /\ \A g \in Busy : Kept(handler[g], handler'[g])
<1> DEFINE listed == call.next <= Len(active)
           moved == IF listed
                    THEN [call EXCEPT !.cast = "sending", !.to = active[call.next], !.next = @ + 1]
                    ELSE [call EXCEPT !.cast = "over", !.to = None, !.next = 1, !.stale = {}]
           gone == IF listed THEN {} ELSE call.stale
<1>1. handler' = [g \in Busy |-> IF g = h THEN moved ELSE Shifted(handler[g], gone)]
  BY DEF Advance
<1>2. Kept(handler[h], moved)
  BY DEF Kept, CallInv, HasFields
<1>3. ASSUME NEW g \in Busy, g # h
      PROVE  Kept(handler[g], Shifted(handler[g], gone))
  <2>1. HasFields(handler[g])
    BY DEF CallInv
  <2>2. QED
    BY <2>1, ShiftedKeeps
<1>4. Busy' = Busy
  BY <1>1 DEF Busy
<1>5. ASSUME NEW g \in Busy
      PROVE  Kept(handler[g], handler'[g])
  <2>1. CASE g = h
    <3>1. handler'[g] = moved
      BY <1>1, <2>1
    <3>2. QED
      BY <3>1, <1>2, <2>1
  <2>2. CASE g # h
    <3>1. handler'[g] = Shifted(handler[g], gone)
      BY <1>1, <2>2
    <3>2. QED
      BY <3>1, <1>3, <2>2
  <2>3. QED
    BY <2>1, <2>2
<1>6. QED
  BY <1>4, <1>5

\* A step that keeps every call in this sense, the queue and the table, keeps
\* the invariant and loses nothing.
LEMMA KeptIsEnough ==
    ASSUME CallInv, queued' = queued, stored' = stored,
           Busy' = Busy, \A g \in Busy : Kept(handler[g], handler'[g])
    PROVE  CallInv' /\ StillThere
<1>1. CallInv'
  BY DEF CallInv, HasFields, Settled, Kept
<1>2. Unacked' = Unacked
  BY DEF Unacked, Kept
<1>3. Unacked \subseteq Busy
  BY DEF Unacked
<1>4. InBroker \subseteq InBroker'
  BY <1>2, <1>3 DEF InBroker, Kept
<1>5. QED
  BY <1>1, <1>4 DEF StillThere

----------------------------------------------------------------------------
(* The steps, one by one                                                   *)

\* A step of the thread changes the field "save" of its own call; it may say
\* "saved" only if the row is there.
LEMMA ThreadStep ==
    ASSUME CallInv, NEW h \in Busy, NEW outcome,
           handler' = [handler EXCEPT ![h].save = outcome],
           outcome = "saved" => handler[h].event \in stored',
           queued' = queued, stored \subseteq stored'
    PROVE  CallInv' /\ StillThere
<1>1. Busy' = Busy
  BY DEF Busy
<1>2. ASSUME NEW g \in Busy
      PROVE  /\ HasFields(handler[g])
             /\ DOMAIN handler'[g] = DOMAIN handler[g]
             /\ handler'[g].event = handler[g].event
             /\ handler'[g].owned = handler[g].owned
             /\ handler'[g].save = IF g = h THEN outcome ELSE handler[g].save
  <2>1. HasFields(handler[g])
    BY DEF CallInv
  <2>2. QED
    BY <2>1 DEF Busy, HasFields
<1>3. CallInv'
  <2>1. SUFFICES ASSUME NEW g \in Busy
                 PROVE  HasFields(handler'[g]) /\ Settled(handler[g])'
    BY <1>1 DEF CallInv, HasFields
  <2>2. HasFields(handler'[g])
    BY <1>2 DEF HasFields
  <2>3. Settled(handler[g])'
    BY <1>2 DEF CallInv, Settled
  <2>4. QED
    BY <2>2, <2>3
<1>4. Unacked' = Unacked
  BY <1>1, <1>2 DEF Unacked
<1>5. InBroker \subseteq InBroker'
  BY <1>2, <1>4 DEF InBroker, Unacked
<1>6. QED
  BY <1>3, <1>5 DEF StillThere

\* The thread's three steps (EventRepositoryImpl.save).
LEMMA SaveStep ==
    ASSUME CallInv, NEW h \in Handlers, Save(h)
    PROVE  CallInv' /\ StillThere
<1>1. h \in Busy /\ queued' = queued /\ stored \subseteq stored'
  BY DEF Save, Select, Insert, SaveFails, Saving, broker
<1>2. CASE Select(h)
  <2> DEFINE outcome == IF handler[h].event \in stored THEN "saved" ELSE "insert"
  <2>1. handler' = [handler EXCEPT ![h].save = outcome] /\ stored' = stored
    BY <1>2 DEF Select, To
  <2>2. outcome = "saved" => handler[h].event \in stored'
    BY <2>1
  <2> HIDE DEF outcome
  <2>3. QED
    BY <1>1, <2>1, <2>2, ThreadStep
<1>3. CASE Insert(h)
  <2> DEFINE outcome == IF handler[h].event \in stored THEN "failed" ELSE "saved"
  <2>1. /\ handler' = [handler EXCEPT ![h].save = outcome]
        /\ handler[h].event \in stored'
    BY <1>3 DEF Insert, To
  <2> HIDE DEF outcome
  <2>2. QED
    BY <1>1, <2>1, ThreadStep
<1>4. CASE SaveFails(h)
  <2>1. handler' = [handler EXCEPT ![h].save = "failed"]
    BY <1>4 DEF SaveFails, To
  <2>2. QED
    BY <1>1, <2>1, ThreadStep
<1>5. QED
  BY <1>2, <1>3, <1>4 DEF Save

\* The broadcast's steps.
LEMMA BroadcastStep ==
    ASSUME CallInv, NEW h \in Handlers, Broadcast(h)
    PROVE  CallInv' /\ StillThere
<1>1. h \in Busy /\ queued' = queued /\ stored' = stored
  BY DEF Broadcast, Begin, Sent, SendFails, Casting, broker
<1>2. HasFields(handler[h])
  BY <1>1 DEF CallInv
<1>3. PICK call : Kept(handler[h], call) /\ Advance(h, call)
  <2>1. CASE Begin(h)
    <3>1. Kept(handler[h], [handler[h] EXCEPT !.audience = ToSet(active)])
      BY <1>2 DEF Kept, HasFields
    <3>2. QED
      BY <2>1, <3>1 DEF Begin
  <2>2. CASE Sent(h)
    <3>1. Kept(handler[h], handler[h])
      BY DEF Kept
    <3>2. QED
      BY <2>2, <3>1 DEF Sent
  <2>3. CASE SendFails(h)
    <3>1. Kept(handler[h], [handler[h] EXCEPT !.stale = @ \cup {handler[h].to}])
      BY <1>2 DEF Kept, HasFields
    <3>2. QED
      BY <2>3, <3>1 DEF SendFails
  <2>4. QED
    BY <2>1, <2>2, <2>3 DEF Broadcast
<1>4. Busy' = Busy /\ \A g \in Busy : Kept(handler[g], handler'[g])
  BY <1>1, <1>3, AdvanceKeeps
<1>5. QED
  BY <1>1, <1>4, KeptIsEnough

\* A delivery: the message goes from the queue to a call that owns it.
LEMMA DeliverStep ==
    ASSUME CallInv, NEW h \in Handlers, NEW e \in Events, Deliver(h, e)
    PROVE  CallInv' /\ StillThere
<1>1. /\ h \notin Busy /\ queued' = queued \ {e} /\ stored' = stored
      /\ handler' = [g \in Busy \cup {h} |-> IF g = h THEN Call(e) ELSE handler[g]]
  BY DEF Deliver
<1>2. Busy' = Busy \cup {h}
  BY <1>1 DEF Busy
<1>3. handler'[h] = Call(e) /\ \A g \in Busy : handler'[g] = handler[g]
  BY <1>1
<1>4. CallInv'
  <2>1. HasFields(Call(e)) /\ Call(e).save # "saved"
    BY DEF HasFields, Call
  <2>2. QED
    BY <1>1, <1>2, <1>3, <2>1 DEF CallInv, Settled, HasFields
<1>5. h \in Unacked' /\ handler'[h].event = e
  BY <1>2, <1>3 DEF Unacked, Call
<1>6. ASSUME NEW g \in Unacked
      PROVE  g \in Unacked' /\ handler'[g].event = handler[g].event
  BY <1>2, <1>3 DEF Unacked
<1>7. InBroker \subseteq InBroker'
  BY <1>1, <1>5, <1>6 DEF InBroker
<1>8. QED
  BY <1>4, <1>7 DEF StillThere

\* The acknowledgement: the event is in the table, or the failure was logged.
LEMMA SettleStep ==
    ASSUME CallInv, NEW h \in Handlers, Settle(h)
    PROVE  CallInv' /\ StillThere
<1>1. /\ h \in Busy /\ queued' = queued /\ stored' = stored
      /\ handler' = [handler EXCEPT ![h].owned = FALSE]
  BY DEF Settle, broker
<1>2. Busy' = Busy
  BY <1>1 DEF Busy
<1>3. ASSUME NEW g \in Busy
      PROVE  /\ HasFields(handler[g])
             /\ DOMAIN handler'[g] = DOMAIN handler[g]
             /\ handler'[g].event = handler[g].event
             /\ handler'[g].save = handler[g].save
             /\ g # h => handler'[g].owned = handler[g].owned
  <2>1. HasFields(handler[g])
    BY DEF CallInv
  <2>2. QED
    BY <1>1, <2>1 DEF Busy, HasFields
<1>4. CallInv'
  BY <1>1, <1>2, <1>3 DEF CallInv, Settled, HasFields
<1>5. handler[h].event \in stored' \cup refused'
  <2>1. CASE handler[h].save = "failed"
    BY <2>1 DEF Settle
  <2>2. CASE handler[h].save = "saved"
    BY <1>1, <2>2 DEF CallInv, Settled
  <2>3. QED
    BY <2>1, <2>2 DEF Settle
<1>6. ASSUME NEW g \in Unacked
      PROVE  handler[g].event \in InBroker' \cup stored' \cup refused'
  <2>1. CASE g = h
    BY <1>5, <2>1
  <2>2. CASE g # h
    BY <1>2, <1>3, <2>2 DEF Unacked, InBroker
  <2>3. QED
    BY <2>1, <2>2
<1>7. queued \subseteq InBroker'
  BY <1>1 DEF InBroker
<1>8. QED
  BY <1>4, <1>6, <1>7 DEF StillThere, InBroker

\* The slot of a call that is over is free again.
LEMMA FinishStep ==
    ASSUME CallInv, NEW h \in Handlers, Finish(h)
    PROVE  CallInv' /\ StillThere
<1>1. /\ ~handler[h].owned /\ queued' = queued /\ stored' = stored
      /\ handler' = Restrict(handler, Busy \ {h})
  BY DEF Finish, broker
<1>2. Busy' = Busy \ {h} /\ \A g \in Busy \ {h} : handler'[g] = handler[g]
  BY <1>1 DEF Busy, Restrict
<1>3. CallInv'
  BY <1>1, <1>2 DEF CallInv, Settled, HasFields
<1>4. Unacked' = Unacked
  BY <1>1, <1>2 DEF Unacked
<1>5. InBroker \subseteq InBroker'
  BY <1>1, <1>2, <1>4 DEF InBroker, Unacked
<1>6. QED
  BY <1>3, <1>5 DEF StillThere

\* A browser goes, and its endpoint takes it out of the list.
LEMMA DisconnectStep ==
    ASSUME CallInv, NEW s \in Sockets, Disconnect(s)
    PROVE  CallInv' /\ StillThere
<1>1. /\ queued' = queued /\ stored' = stored
      /\ handler' = [h \in Busy |-> Shifted(handler[h], {s})]
  BY DEF Disconnect, At, broker
<1>2. Busy' = Busy
  BY <1>1 DEF Busy
<1>3. ASSUME NEW g \in Busy
      PROVE  Kept(handler[g], handler'[g])
  <2>1. HasFields(handler[g])
    BY DEF CallInv
  <2>2. Kept(handler[g], Shifted(handler[g], {s}))
    BY <2>1, ShiftedKeeps
  <2>3. QED
    BY <1>1, <2>2
<1>4. QED
  BY <1>1, <1>2, <1>3, KeptIsEnough

\* The process ends: what it had not acknowledged is in the queue again.
LEMMA CrashStep ==
    ASSUME CallInv, Crash
    PROVE  CallInv' /\ StillThere
<1>1. handler' = [h \in {} |-> None] /\ Return(Unacked)
  BY DEF Crash
<1>2. CallInv'
  BY <1>1 DEF CallInv, Busy
<1>3. InBroker \subseteq InBroker'
  BY <1>1 DEF InBroker, Return
<1>4. QED
  BY <1>2, <1>3 DEF StillThere

\* The channel is lost: the same, while the calls go on without their message.
LEMMA ChannelStep ==
    ASSUME CallInv, ChannelLost
    PROVE  CallInv' /\ StillThere
<1>1. PICK cut \in SUBSET Unacked :
         handler' = [h \in Busy |->
             IF h \notin Unacked THEN handler[h]
             ELSE IF h \in cut
             THEN [Call(handler[h].event) EXCEPT !.owned = FALSE, !.cast = "over",
                                                 !.save = handler[h].save]
             ELSE [handler[h] EXCEPT !.owned = FALSE]]
  BY DEF ChannelLost
<1>2. stored' = stored /\ Return(Unacked)
  BY DEF ChannelLost
<1>3. Busy' = Busy
  BY <1>1 DEF Busy
<1>4. ASSUME NEW h \in Busy
      PROVE  /\ HasFields(handler'[h])
             /\ handler'[h].event = handler[h].event
             /\ handler'[h].save = handler[h].save
  <2>1. HasFields(handler[h])
    BY DEF CallInv
  <2>2. CASE h \notin Unacked
    BY <1>1, <2>1, <2>2
  <2>3. CASE h \in cut
    <3>1. handler'[h] = [Call(handler[h].event) EXCEPT !.owned = FALSE, !.cast = "over",
                                                       !.save = handler[h].save]
      BY <1>1, <2>3
    <3>2. QED
      BY <3>1 DEF HasFields, Call
  <2>4. CASE h \in Unacked \ cut
    <3>1. handler'[h] = [handler[h] EXCEPT !.owned = FALSE]
      BY <1>1, <2>4
    <3>2. QED
      BY <2>1, <3>1 DEF HasFields
  <2>5. QED
    BY <2>2, <2>3, <2>4
<1>5. CallInv'
  BY <1>2, <1>3, <1>4 DEF CallInv, Settled, HasFields
<1>6. InBroker \subseteq InBroker'
  BY <1>2 DEF InBroker, Return
<1>7. QED
  BY <1>5, <1>6 DEF StillThere

\* The other steps touch neither the calls nor the table.
LEMMA OtherStep ==
    ASSUME CallInv, handler' = handler, stored' = stored,
           InBroker \subseteq queued' \cup refused' \cup {handler[h].event : h \in Unacked}
    PROVE  CallInv' /\ StillThere
<1>1. Busy' = Busy
  BY DEF Busy
<1>2. Unacked' = Unacked
  BY <1>1 DEF Unacked
<1>3. CallInv'
  BY <1>1 DEF CallInv, Settled, HasFields
<1>4. InBroker \subseteq InBroker' \cup refused'
  BY <1>2 DEF InBroker
<1>5. QED
  BY <1>3, <1>4 DEF StillThere

\* Every step of the system.
LEMMA EveryStep ==
    ASSUME CallInv, [Next]_vars
    PROVE  CallInv' /\ StillThere
<1>1. ASSUME NEW e \in Events, Publish(e)
      PROVE  CallInv' /\ StillThere
  <2>1. queued \subseteq queued' /\ handler' = handler /\ stored' = stored
    BY <1>1 DEF Publish
  <2>2. QED
    BY <2>1, OtherStep DEF InBroker
<1>2. ASSUME NEW e \in Events, Reject(e)
      PROVE  CallInv' /\ StillThere
  <2>1. queued \subseteq queued' \cup refused' /\ handler' = handler /\ stored' = stored
    BY <1>2 DEF Reject
  <2>2. QED
    BY <2>1, OtherStep DEF InBroker
<1>3. ASSUME NEW s \in Sockets, Accept(s) \/ Register(s) \/ Leave(s)
      PROVE  CallInv' /\ StillThere
  <2>1. queued' = queued /\ handler' = handler /\ stored' = stored
    BY <1>3 DEF Accept, Register, Leave, At, broker
  <2>2. QED
    BY <2>1, OtherStep DEF InBroker
<1>4. CASE Start
  <2>1. queued' = queued /\ handler' = handler /\ stored' = stored
    BY <1>4 DEF Start
  <2>2. QED
    BY <2>1, OtherStep DEF InBroker
<1>5. CASE UNCHANGED vars
  <2>1. queued' = queued /\ handler' = handler /\ stored' = stored
    BY <1>5 DEF vars, broker
  <2>2. QED
    BY <2>1, OtherStep DEF InBroker
<1>6. ASSUME NEW h \in Handlers, Handle(h)
      PROVE  CallInv' /\ StillThere
  BY <1>6, SaveStep, BroadcastStep, SettleStep, FinishStep DEF Handle
<1>7. CASE Consume
  BY <1>2, <1>7, DeliverStep DEF Consume
<1>8. ASSUME NEW s \in Sockets, Disconnect(s)
      PROVE  CallInv' /\ StillThere
  BY <1>8, DisconnectStep
<1>9. QED
  BY <1>1, <1>3, <1>4, <1>5, <1>6, <1>7, <1>8, CrashStep, ChannelStep DEF Next, Serve

\* No event the broker took is lost: each step leaves it with the broker, in the
\* table, or acknowledged with its failure logged
\* (EventConsumer._handle_message, EventRepositoryImpl.save).
THEOREM NothingIsLost == Spec => NoneLost
<1>1. Init => CallInv
  BY DEF Init, CallInv, Busy
<1>2. CallInv /\ [Next]_vars => CallInv'
  BY EveryStep
<1>3. CallInv /\ [Next]_vars =>
         [\A e \in Events : e \in InBroker => e \in InBroker' \cup stored' \cup refused']_vars
  BY EveryStep DEF StillThere
<1>4. QED
  BY <1>1, <1>2, <1>3, PTL DEF Spec, NoneLost

----------------------------------------------------------------------------
(* Types, and the list of connections against the endpoints                *)

\* What is known of a call beside its type, for the loop of its broadcast: it begins at
\* the front, sends to a connection that was listed, and has given up only those whose
\* browser had gone for good.
CallFits(c, pub, op, ep) ==
    /\ c \in Handler /\ c.event \in pub /\ c.next >= 1
    /\ c.cast = "new" => c.next = 1
    /\ c.cast = "sending" => c.to \in Sockets /\ ep[c.to] \in {"serving", "ended"}
    /\ \A s \in c.stale : s \notin op /\ ep[s] # "away"
    /\ \A s \in c.audience : ep[s] \in {"serving", "ended"}

CallsInv ==
    /\ Busy \subseteq Handlers /\ handler \in [Busy -> Handler]
    /\ \A h \in Busy : CallFits(handler[h], published, open, endpoint)

PlaceInv ==
    /\ active \in Seq(Sockets) /\ IsInjective(active)
    /\ endpoint \in [Sockets -> Endpoints] /\ open \subseteq Sockets
    /\ ListMatchesEndpoints

BasicInv ==
    /\ up \in BOOLEAN /\ bound \in BOOLEAN
    /\ malformed \subseteq Events /\ published \subseteq Events /\ queued \subseteq published
    /\ stored \subseteq published /\ refused \subseteq published
    /\ got \in [Sockets -> SUBSET published]
    /\ faults \in 0..MaxFaults

DeliveryInv == BasicInv /\ PlaceInv /\ CallsInv

\* The list without some of its connections.
LEMMA ActiveWithout ==
    ASSUME PlaceInv, NEW S
    PROVE  /\ Without(active, S) \in Seq(Sockets) /\ IsInjective(Without(active, S))
           /\ ToSet(Without(active, S)) = ToSet(active) \ S
<1> DEFINE w == Without(active, S)
<1>1. active \in Seq(Sockets) /\ \A i, j \in DOMAIN active : active[i] = active[j] => i = j
  BY DEF PlaceInv, IsInjective
<1>2. /\ w \in Seq(Sockets)
      /\ \A n \in DOMAIN w : w[n] \notin S /\ \E i \in DOMAIN active : active[i] = w[n]
      /\ \A i \in DOMAIN active : active[i] \notin S => \E n \in DOMAIN w : w[n] = active[i]
      /\ \A m, n \in DOMAIN w : w[m] = w[n] => m = n
  BY <1>1, WithoutProperties
<1> HIDE DEF w
<1>3. ToSet(w) = ToSet(active) \ S
  BY <1>2 DEF ToSet
<1> QED BY <1>2, <1>3 DEF IsInjective, w

\* An entry of the list that is taken out changes a call's count alone.
LEMMA ShiftedFits ==
    ASSUME PlaceInv, NEW c, NEW S, NEW pub, NEW op, NEW ep, CallFits(c, pub, op, ep)
    PROVE  CallFits(Shifted(c, S), pub, op, ep)
<1> DEFINE k == Cardinality({i \in 1..Len(active) : active[i] \in S /\ i < c.next})
<1>1. k \in Nat
  <2> DEFINE before == {i \in 1..Len(active) : active[i] \in S /\ i < c.next}
  <2>1. Len(active) \in Nat /\ before \in SUBSET (1..Len(active))
    BY DEF PlaceInv
  <2>2. IsFiniteSet(1..Len(active))
    BY <2>1, FS_Interval
  <2> HIDE DEF before
  <2>3. Cardinality(before) \in Nat
    BY <2>1, <2>2, FS_Subset, FS_CardinalityType
  <2> QED BY <2>3 DEF before
<1>2. Shifted(c, S) = IF c.cast # "sending" THEN c ELSE [c EXCEPT !.shifts = @ + k]
  BY DEF Shifted
<1> HIDE DEF k
<1> QED BY <1>1, <1>2 DEF CallFits, Handler

\* What is known of a call stays true while events are published, browsers leave and
\* endpoints go on.
LEMMA FitsLater ==
    ASSUME NEW c, NEW pub, NEW op, NEW ep, CallFits(c, pub, op, ep),
           NEW pub2, NEW op2, NEW ep2, pub \subseteq pub2,
           \A s \in op2 : s \in op \/ ep[s] = "away",
           \A s \in Sockets : /\ ep[s] # "away" => ep2[s] # "away"
                              /\ ep[s] \in {"serving", "ended"} => ep2[s] \in {"serving", "ended"}
    PROVE  CallFits(c, pub2, op2, ep2)
<1>1. c.stale \subseteq Sockets /\ c.audience \subseteq Sockets
  BY DEF CallFits, Handler
<1> QED BY <1>1 DEF CallFits

\* From one await of a broadcast to the next.
LEMMA AdvanceFits ==
    ASSUME PlaceInv, CallsInv, NEW h \in Busy, NEW call, Advance(h, call),
           CallFits(call, published, open, endpoint), UNCHANGED <<published, open, endpoint>>
    PROVE  PlaceInv' /\ CallsInv'
<1> DEFINE listed == call.next <= Len(active)
           moved == IF listed
                    THEN [call EXCEPT !.cast = "sending", !.to = active[call.next], !.next = @ + 1]
                    ELSE [call EXCEPT !.cast = "over", !.to = None, !.next = 1, !.stale = {}]
           gone == IF listed THEN {} ELSE call.stale
<1>1. /\ active' = Without(active, gone)
      /\ handler' = [g \in Busy |-> IF g = h THEN moved ELSE Shifted(handler[g], gone)]
  BY DEF Advance
<1>2. CallFits(moved, published, open, endpoint)
  <2>1. CASE listed
    <3>1. call.next \in 1..Len(active)
      BY <2>1 DEF CallFits, Handler, PlaceInv
    <3>2. active[call.next] \in Sockets /\ active[call.next] \in ToSet(active)
      BY <3>1 DEF PlaceInv, ToSet
    <3>3. endpoint[active[call.next]] = "serving"
      BY <3>2 DEF PlaceInv, ListMatchesEndpoints
    <3>4. moved = [call EXCEPT !.cast = "sending", !.to = active[call.next], !.next = @ + 1]
      BY <2>1
    <3> HIDE DEF moved
    <3>5. call \in Handler /\ call.next \in Nat
      BY DEF CallFits, Handler
    <3>6. PICK s \in Sockets : s = active[call.next]
      BY <3>2
    <3>7. PICK n \in Nat :
             /\ n = call.next + 1
             /\ moved = [call EXCEPT !.cast = "sending", !.to = s, !.next = n]
      <4>1. call.next + 1 \in Nat
        BY <3>5
      <4>2. moved = [call EXCEPT !.cast = "sending", !.to = s, !.next = call.next + 1]
        BY <3>4, <3>6
      <4> QED BY <4>1, <4>2
    <3>8. /\ moved.event = call.event /\ moved.cast = "sending" /\ moved.to = s
          /\ moved.next = n /\ moved.stale = call.stale
          /\ moved.audience = call.audience
      BY <3>5, <3>7 DEF Handler
    <3>9. moved \in Handler
      BY <3>5, <3>7 DEF Handler
    <3> QED BY <3>3, <3>5, <3>6, <3>7, <3>8, <3>9 DEF CallFits
  <2>2. CASE ~listed
    <3>1. moved = [call EXCEPT !.cast = "over", !.to = None, !.next = 1, !.stale = {}]
      BY <2>2
    <3> HIDE DEF moved
    <3>2. call \in Handler
      BY DEF CallFits
    <3>3. /\ moved \in Handler /\ moved.event = call.event /\ moved.cast = "over"
          /\ moved.next = 1 /\ moved.stale = {} /\ moved.audience = call.audience
      BY <3>1, <3>2 DEF Handler
    <3> QED BY <3>3 DEF CallFits
  <2> QED BY <2>1, <2>2
<1>3. \A s \in gone : s \notin open
  BY DEF CallFits
<1> HIDE DEF moved, gone
<1>4. ASSUME NEW g \in Busy PROVE CallFits(handler'[g], published, open, endpoint)
  <2>1. CallFits(handler[g], published, open, endpoint)
    BY DEF CallsInv
  <2>2. CallFits(Shifted(handler[g], gone), published, open, endpoint)
    BY <2>1, ShiftedFits
  <2> QED BY <1>1, <1>2, <2>2
<1>5. Busy' = Busy /\ handler' \in [Busy -> Handler]
  <2>1. DOMAIN handler' = Busy
    BY <1>1
  <2>2. \A g \in Busy : handler'[g] \in Handler
    BY <1>4 DEF CallFits
  <2> QED BY <1>1, <2>1, <2>2 DEF Busy
<1>6. CallsInv'
  BY <1>4, <1>5 DEF CallsInv
<1>7. /\ active' \in Seq(Sockets) /\ IsInjective(active')
      /\ ToSet(active') = ToSet(active) \ gone
  BY <1>1, ActiveWithout
<1>8. PlaceInv'
  BY <1>3, <1>7 DEF PlaceInv, ListMatchesEndpoints
<1> QED BY <1>6, <1>8

\* One call becomes another.
LEMMA CallReplaced ==
    ASSUME PlaceInv, CallsInv, NEW h \in Busy, NEW c, CallFits(c, published, open, endpoint),
           handler' = [handler EXCEPT ![h] = c], UNCHANGED <<published, active, open, endpoint>>
    PROVE  PlaceInv' /\ CallsInv'
<1>1. Busy' = Busy /\ handler' \in [Busy -> Handler]
  BY DEF Busy, CallsInv, CallFits
<1>2. CallsInv'
  BY <1>1 DEF CallsInv
<1> QED BY <1>2 DEF PlaceInv, ListMatchesEndpoints

\* The steps of the thread, and the acknowledgement.
LEMMA ThreadFits ==
    ASSUME DeliveryInv, NEW h \in Handlers, Save(h) \/ Settle(h)
    PROVE  PlaceInv' /\ CallsInv'
<1>1. h \in Busy /\ UNCHANGED <<published, active, open, endpoint>>
  BY DEF Save, Select, Insert, SaveFails, Saving, Settle, broker, sockets
<1>2. CallFits(handler[h], published, open, endpoint) /\ handler \in [Busy -> Handler]
  BY <1>1 DEF DeliveryInv, CallsInv
<1>3. CASE Save(h)
  <2>1. PICK outcome \in {"select", "insert", "saved", "failed"} :
           handler' = [handler EXCEPT ![h].save = outcome]
    BY <1>3 DEF Save, Select, Insert, SaveFails, To
  <2>2. PICK c : c = [handler[h] EXCEPT !.save = outcome]
    OBVIOUS
  <2>3. handler' = [handler EXCEPT ![h] = c]
    BY <2>1, <2>2
  <2>4. CallFits(c, published, open, endpoint)
    BY <1>2, <2>2 DEF CallFits, Handler
  <2> QED BY <1>1, <2>3, <2>4, CallReplaced DEF DeliveryInv
<1>4. CASE Settle(h)
  <2>1. PICK c : c = [handler[h] EXCEPT !.owned = FALSE]
    OBVIOUS
  <2>2. handler' = [handler EXCEPT ![h] = c]
    BY <1>4, <2>1 DEF Settle
  <2>3. CallFits(c, published, open, endpoint)
    BY <1>2, <2>1 DEF CallFits, Handler
  <2> QED BY <1>1, <2>2, <2>3, CallReplaced DEF DeliveryInv
<1> QED BY <1>3, <1>4

\* The steps of the broadcast.
LEMMA BroadcastFits ==
    ASSUME DeliveryInv, NEW h \in Handlers, Broadcast(h)
    PROVE  PlaceInv' /\ CallsInv'
<1>1. h \in Busy /\ UNCHANGED <<published, open, endpoint>>
  BY DEF Broadcast, Begin, Sent, SendFails, Casting, broker
<1>2. CallFits(handler[h], published, open, endpoint)
  BY <1>1 DEF DeliveryInv, CallsInv
<1>3. CASE Begin(h)
  <2>1. PICK c : c = [handler[h] EXCEPT !.audience = ToSet(active)]
    OBVIOUS
  <2>2. ToSet(active) \subseteq Sockets /\ \A s \in ToSet(active) : endpoint[s] = "serving"
    BY DEF DeliveryInv, PlaceInv, ListMatchesEndpoints, ToSet
  <2>3. CallFits(c, published, open, endpoint)
    BY <1>2, <2>1, <2>2 DEF CallFits, Handler
  <2>4. Advance(h, c)
    BY <1>3, <2>1 DEF Begin
  <2> QED BY <1>1, <2>3, <2>4, AdvanceFits DEF DeliveryInv
<1>4. CASE Sent(h)
  <2>1. Advance(h, handler[h])
    BY <1>4 DEF Sent
  <2> QED BY <1>1, <1>2, <2>1, AdvanceFits DEF DeliveryInv
<1>5. CASE SendFails(h)
  <2>1. PICK c : c = [handler[h] EXCEPT !.stale = @ \cup {handler[h].to}]
    OBVIOUS
  <2>2. handler[h].cast = "sending" /\ handler[h].to \notin open
    BY <1>5 DEF SendFails, Casting
  <2>3. CallFits(c, published, open, endpoint)
    BY <1>2, <2>1, <2>2 DEF CallFits, Handler
  <2>4. Advance(h, c)
    BY <1>5, <2>1 DEF SendFails
  <2> QED BY <1>1, <2>3, <2>4, AdvanceFits DEF DeliveryInv
<1> QED BY <1>3, <1>4, <1>5 DEF Broadcast

\* A delivery brings a new call.
LEMMA DeliverFits ==
    ASSUME DeliveryInv, NEW h \in Handlers, NEW e \in Events, Deliver(h, e)
    PROVE  PlaceInv' /\ CallsInv'
<1>1. /\ e \in published /\ UNCHANGED <<published, active, open, endpoint>>
      /\ handler' = [g \in Busy \cup {h} |-> IF g = h THEN Call(e) ELSE handler[g]]
  BY DEF Deliver, sockets, DeliveryInv, BasicInv
<1>2. CallFits(Call(e), published, open, endpoint)
  BY <1>1 DEF CallFits, Call, Handler
<1>3. ASSUME NEW g \in Busy \cup {h} PROVE CallFits(handler'[g], published, open, endpoint)
  BY <1>1, <1>2 DEF DeliveryInv, CallsInv
<1>4. Busy' = Busy \cup {h} /\ handler' \in [Busy \cup {h} -> Handler]
  BY <1>1, <1>3 DEF Busy, CallFits
<1>5. CallsInv'
  BY <1>1, <1>3, <1>4 DEF DeliveryInv, CallsInv
<1> QED BY <1>1, <1>5 DEF DeliveryInv, PlaceInv, ListMatchesEndpoints

\* A call that is over goes.
LEMMA FinishFits ==
    ASSUME DeliveryInv, NEW h \in Handlers, Finish(h)
    PROVE  PlaceInv' /\ CallsInv'
<1>1. handler' = Restrict(handler, Busy \ {h}) /\ UNCHANGED <<published, active, open, endpoint>>
  BY DEF Finish, broker, sockets
<1>2. Busy' = Busy \ {h} /\ handler' = [g \in Busy \ {h} |-> handler[g]]
  BY <1>1 DEF Busy, Restrict
<1>3. CallsInv'
  BY <1>1, <1>2 DEF DeliveryInv, CallsInv
<1> QED BY <1>1, <1>3 DEF DeliveryInv, PlaceInv, ListMatchesEndpoints

\* The steps of the endpoints and of the browsers.
LEMMA EndpointFits ==
    ASSUME DeliveryInv, NEW s \in Sockets, Accept(s) \/ Register(s) \/ Leave(s) \/ Disconnect(s)
    PROVE  PlaceInv' /\ CallsInv'
<1>1. published' = published
  BY DEF Accept, Register, Leave, Disconnect, At, broker
<1>2. endpoint \in [Sockets -> Endpoints] /\ open \subseteq Sockets /\ active \in Seq(Sockets)
      /\ IsInjective(active)
  BY DEF DeliveryInv, PlaceInv
<1>3. /\ endpoint' \in [Sockets -> Endpoints] /\ open' \subseteq Sockets
      /\ \A r \in open' : r \in open \/ endpoint[r] = "away"
      /\ \A r \in Sockets : /\ endpoint[r] # "away" => endpoint'[r] # "away"
                            /\ endpoint[r] \in {"serving", "ended"} =>
                                  endpoint'[r] \in {"serving", "ended"}
  <2>1. CASE Accept(s)
    BY <1>2, <2>1 DEF Accept, At, Endpoints
  <2>2. CASE Register(s)
    BY <1>2, <2>2 DEF Register, At, Endpoints
  <2>3. CASE Leave(s)
    BY <1>2, <2>3 DEF Leave
  <2>4. CASE Disconnect(s)
    BY <1>2, <2>4 DEF Disconnect, At, Endpoints
  <2> QED BY <2>1, <2>2, <2>3, <2>4
<1>4. ASSUME NEW c, CallFits(c, published, open, endpoint)
      PROVE  CallFits(c, published', open', endpoint')
  BY <1>1, <1>3, <1>4, FitsLater
<1>5. CallsInv'
  <2>1. CASE Disconnect(s)
    <3>1. handler' = [h \in Busy |-> Shifted(handler[h], {s})]
      BY <2>1 DEF Disconnect
    <3>2. ASSUME NEW g \in Busy PROVE CallFits(handler'[g], published, open, endpoint)
      BY <3>1, ShiftedFits DEF DeliveryInv, CallsInv
    <3>3. Busy' = Busy /\ handler' \in [Busy -> Handler]
      BY <3>1, <3>2 DEF Busy, CallFits
    <3>4. ASSUME NEW g \in Busy PROVE CallFits(handler'[g], published', open', endpoint')
      BY <1>4, <3>2
    <3> QED BY <3>3, <3>4 DEF DeliveryInv, CallsInv
  <2>2. CASE Accept(s) \/ Register(s) \/ Leave(s)
    <3>1. handler' = handler
      BY <2>2 DEF Accept, Register, Leave
    <3>2. ASSUME NEW g \in Busy PROVE CallFits(handler[g], published', open', endpoint')
      BY <1>4 DEF DeliveryInv, CallsInv
    <3>3. Busy' = Busy
      BY <3>1 DEF Busy
    <3> QED BY <3>1, <3>2, <3>3 DEF DeliveryInv, CallsInv
  <2> QED BY <2>1, <2>2
<1>6. PlaceInv'
  <2>1. CASE Accept(s)
    <3>1. active' = active /\ open' = open \cup {s} /\ endpoint[s] = "away"
          /\ endpoint' = [endpoint EXCEPT ![s] = "accepted"]
      BY <2>1 DEF Accept, At
    <3> QED BY <1>2, <1>3, <3>1 DEF DeliveryInv, PlaceInv, ListMatchesEndpoints
  <2>2. CASE Register(s)
    <3>1. active' = Append(active, s) /\ open' = open /\ endpoint[s] = "accepted"
          /\ endpoint' = [endpoint EXCEPT ![s] = "serving"]
      BY <2>2 DEF Register, At
    <3>2. s \notin ToSet(active)
      BY <3>1 DEF DeliveryInv, PlaceInv, ListMatchesEndpoints
    <3>3. \A i \in 1..Len(active) : active[i] # s
      BY <1>2, <3>2 DEF ToSet
    <3>4. /\ active' \in Seq(Sockets) /\ Len(active') = Len(active) + 1 /\ Len(active) \in Nat
          /\ active'[Len(active) + 1] = s /\ \A i \in 1..Len(active) : active'[i] = active[i]
      BY <1>2, <3>1
    <3>5. /\ DOMAIN active = 1..Len(active) /\ DOMAIN active' = 1..(Len(active) + 1)
          /\ \A i \in DOMAIN active' : i \in 1..Len(active) \/ i = Len(active) + 1
      BY <1>2, <3>4
    <3>6. IsInjective(active')
      BY <1>2, <3>3, <3>4, <3>5 DEF IsInjective
    <3>7. ToSet(active') = ToSet(active) \cup {s}
      BY <3>4, <3>5 DEF ToSet
    <3> QED BY <1>2, <1>3, <3>1, <3>4, <3>6, <3>7 DEF DeliveryInv, PlaceInv, ListMatchesEndpoints
  <2>3. CASE Leave(s)
    <3>1. active' = active /\ open' = open \ {s} /\ endpoint' = endpoint
      BY <2>3 DEF Leave
    <3> QED BY <1>2, <1>3, <3>1 DEF DeliveryInv, PlaceInv, ListMatchesEndpoints
  <2>4. CASE Disconnect(s)
    <3>1. active' = Without(active, {s}) /\ open' = open /\ s \notin open
          /\ endpoint' = [endpoint EXCEPT ![s] = "ended"]
      BY <2>4 DEF Disconnect, At
    <3>2. /\ active' \in Seq(Sockets) /\ IsInjective(active')
          /\ ToSet(active') = ToSet(active) \ {s}
      BY <3>1, ActiveWithout DEF DeliveryInv
    <3> QED BY <1>2, <1>3, <3>1, <3>2 DEF DeliveryInv, PlaceInv, ListMatchesEndpoints
  <2> QED BY <2>1, <2>2, <2>3, <2>4
<1> QED BY <1>5, <1>6

\* The process ends, and its connections with it.
LEMMA CrashFits ==
    ASSUME DeliveryInv, Crash
    PROVE  PlaceInv' /\ CallsInv'
<1>1. /\ handler' = [h \in {} |-> None] /\ active' = <<>> /\ open' = {} /\ published' = published
      /\ endpoint' = [s \in Sockets |-> IF endpoint[s] = "away" THEN "away" ELSE "ended"]
  BY DEF Crash
<1>2. CallsInv'
  BY <1>1 DEF CallsInv, Busy
<1>3. active' \in Seq(Sockets) /\ IsInjective(active') /\ ToSet(active') = {}
  BY <1>1 DEF IsInjective, ToSet
<1>4. endpoint' \in [Sockets -> Endpoints] /\ \A s \in Sockets : endpoint'[s] # "serving"
  BY <1>1 DEF Endpoints
<1> QED BY <1>1, <1>2, <1>3, <1>4 DEF PlaceInv, ListMatchesEndpoints

\* The calls go on without their message, those cut off without their broadcast.
LEMMA ChannelFits ==
    ASSUME DeliveryInv, ChannelLost
    PROVE  PlaceInv' /\ CallsInv'
<1>1. PICK cut \in SUBSET Unacked :
         handler' = [h \in Busy |->
             IF h \notin Unacked THEN handler[h]
             ELSE IF h \in cut
             THEN [Call(handler[h].event) EXCEPT !.owned = FALSE, !.cast = "over",
                                                 !.save = handler[h].save]
             ELSE [handler[h] EXCEPT !.owned = FALSE]]
  BY DEF ChannelLost
<1>2. UNCHANGED <<published, active, open, endpoint>>
  BY DEF ChannelLost, sockets
<1>3. ASSUME NEW h \in Busy PROVE CallFits(handler'[h], published, open, endpoint)
  <2>1. CallFits(handler[h], published, open, endpoint)
    BY DEF DeliveryInv, CallsInv
  <2>2. CASE h \notin Unacked
    BY <1>1, <2>1, <2>2
  <2>3. CASE h \in Unacked /\ h \in cut
    <3>1. handler'[h] = [Call(handler[h].event) EXCEPT !.owned = FALSE, !.cast = "over",
                                                       !.save = handler[h].save]
      BY <1>1, <2>3
    <3>2. PICK c : c = handler'[h]
      OBVIOUS
    <3>3. handler[h].event \in Events /\ handler[h].event \in published
          /\ handler[h].save \in {"select", "insert", "saved", "failed"}
      BY <2>1 DEF CallFits, Handler
    <3>4. c = [event |-> handler[h].event, owned |-> FALSE, cast |-> "over", to |-> None,
               next |-> 1, stale |-> {}, save |-> handler[h].save, audience |-> {}, shifts |-> 0]
      BY <3>1, <3>2 DEF Call
    <3>5. CallFits(c, published, open, endpoint)
      BY <3>3, <3>4 DEF CallFits, Handler
    <3> QED BY <3>2, <3>5
  <2>4. CASE h \in Unacked /\ h \notin cut
    <3>1. handler'[h] = [handler[h] EXCEPT !.owned = FALSE]
      BY <1>1, <2>4
    <3> QED BY <2>1, <3>1 DEF CallFits, Handler
  <2> QED BY <2>2, <2>3, <2>4
<1>4. Busy' = Busy /\ handler' \in [Busy -> Handler]
  BY <1>1, <1>3 DEF Busy, CallFits
<1>5. CallsInv'
  BY <1>2, <1>3, <1>4 DEF DeliveryInv, CallsInv
<1> QED BY <1>2, <1>5 DEF DeliveryInv, PlaceInv, ListMatchesEndpoints

\* The steps that touch neither calls nor connections.
LEMMA NothingFits ==
    ASSUME DeliveryInv, UNCHANGED <<handler, active, open, endpoint>>, published \subseteq published'
    PROVE  PlaceInv' /\ CallsInv'
<1>1. Busy' = Busy
  BY DEF Busy
<1>2. ASSUME NEW h \in Busy PROVE CallFits(handler[h], published', open, endpoint)
  BY FitsLater DEF DeliveryInv, CallsInv
<1>3. CallsInv'
  BY <1>1, <1>2 DEF DeliveryInv, CallsInv
<1> QED BY <1>3 DEF DeliveryInv, PlaceInv, ListMatchesEndpoints

\* What is stored, refused, received and in the queue was published.
LEMMA BasicsKept ==
    ASSUME DeliveryInv, [Next]_vars
    PROVE  BasicInv' /\ published \subseteq published'
<1> USE DEF BasicInv
<1>1. \A h \in Busy : handler[h].event \in published
  BY DEF DeliveryInv, CallsInv, CallFits
<1>2. Fault => faults' \in 0..MaxFaults
  BY EventAssumption DEF Fault, DeliveryInv
<1>3. Return(Unacked) => queued' \subseteq published
  BY <1>1 DEF Return, Unacked, DeliveryInv
<1>4. ASSUME NEW e \in Events, Publish(e)
      PROVE  BasicInv' /\ published \subseteq published'
  BY <1>4 DEF Publish, sockets, DeliveryInv
<1>5. ASSUME NEW e \in Events, Reject(e) \/ \E h \in Handlers : Deliver(h, e)
      PROVE  BasicInv' /\ published \subseteq published'
  BY <1>5 DEF Reject, Deliver, sockets, DeliveryInv
<1>6. ASSUME NEW h \in Handlers, Save(h)
      PROVE  BasicInv' /\ published \subseteq published'
  BY <1>1, <1>2, <1>6 DEF Save, Select, Insert, SaveFails, Saving, broker, sockets, DeliveryInv
<1>7. ASSUME NEW h \in Handlers, Broadcast(h)
      PROVE  BasicInv' /\ published \subseteq published'
  <2>1. UNCHANGED <<up, bound, malformed, published, queued, stored, refused, faults>>
    BY <1>7 DEF Broadcast, Begin, Sent, SendFails, Casting, broker
  <2>2. got' \in [Sockets -> SUBSET published]
    <3>1. CASE got' = got
      BY <3>1 DEF DeliveryInv
    <3>2. CASE got' # got
      <4>1. got' = [got EXCEPT ![handler[h].to] = @ \cup {handler[h].event}] /\ h \in Busy
        BY <1>7, <3>2 DEF Broadcast, Begin, Sent, SendFails, Casting
      <4> QED BY <1>1, <4>1 DEF DeliveryInv
    <3> QED BY <3>1, <3>2
  <2> QED BY <2>1, <2>2 DEF DeliveryInv
<1>8. ASSUME NEW h \in Handlers, Settle(h) \/ Finish(h)
      PROVE  BasicInv' /\ published \subseteq published'
  BY <1>1, <1>8 DEF Settle, Finish, broker, sockets, DeliveryInv
<1>9. ASSUME NEW s \in Sockets, Accept(s) \/ Serve(s) \/ Leave(s)
      PROVE  BasicInv' /\ published \subseteq published'
  BY <1>9 DEF Accept, Serve, Register, Disconnect, Leave, At, broker, DeliveryInv
<1>10. CASE Start
  BY <1>10 DEF Start, sockets, DeliveryInv
<1>11. CASE Crash
  BY <1>2, <1>3, <1>11 DEF Crash, DeliveryInv
<1>12. CASE ChannelLost
  BY <1>2, <1>3, <1>12 DEF ChannelLost, sockets, DeliveryInv
<1>13. CASE UNCHANGED vars
  BY <1>13 DEF vars, broker, sockets, DeliveryInv
<1> QED BY <1>4, <1>5, <1>6, <1>7, <1>8, <1>9, <1>10, <1>11, <1>12, <1>13
        DEF Next, Consume, Handle

\* Every step.
LEMMA EveryStepFits ==
    ASSUME DeliveryInv, [Next]_vars
    PROVE  DeliveryInv'
<1>1. BasicInv' /\ published \subseteq published'
  BY BasicsKept
<1>2. ASSUME NEW e \in Events, Publish(e) \/ Reject(e) PROVE PlaceInv' /\ CallsInv'
  BY <1>1, <1>2, NothingFits DEF Publish, Reject, sockets
<1>3. ASSUME Start \/ UNCHANGED vars PROVE PlaceInv' /\ CallsInv'
  BY <1>1, <1>3, NothingFits DEF Start, vars, sockets
<1>4. ASSUME NEW h \in Handlers, Handle(h) PROVE PlaceInv' /\ CallsInv'
  BY <1>4, ThreadFits, BroadcastFits, FinishFits DEF Handle
<1>5. ASSUME NEW s \in Sockets, Accept(s) \/ Serve(s) \/ Leave(s) PROVE PlaceInv' /\ CallsInv'
  BY <1>5, EndpointFits DEF Serve
<1>6. PlaceInv' /\ CallsInv'
  BY <1>2, <1>3, <1>4, <1>5, DeliverFits, CrashFits, ChannelFits DEF Next, Consume
<1> QED BY <1>1, <1>6 DEF DeliveryInv

\* At first there are neither calls nor connections.
LEMMA DeliveryStart == Init => DeliveryInv
<1> SUFFICES ASSUME Init PROVE DeliveryInv
  OBVIOUS
<1>1. BasicInv
  <2>1. 0 \in 0..MaxFaults
    BY EventAssumption
  <2> QED BY <2>1 DEF Init, BasicInv
<1>2. active \in Seq(Sockets) /\ IsInjective(active) /\ ToSet(active) = {}
  BY DEF Init, IsInjective, ToSet
<1>3. PlaceInv
  BY <1>2 DEF Init, PlaceInv, ListMatchesEndpoints, Endpoints
<1>4. CallsInv
  BY DEF Init, CallsInv, Busy
<1> QED BY <1>1, <1>3, <1>4 DEF DeliveryInv

\* Every variable keeps its shape: what is in the queue, in the table or at a browser was
\* published, and a connection is listed at most once, whatever broadcasts and endpoints
\* take out of the list and when (EventConsumer, ConnectionManager).
THEOREM DeliveryTypes == Spec => []TypeOK
<1>1. DeliveryInv => TypeOK
  BY DEF DeliveryInv, BasicInv, PlaceInv, CallsInv, TypeOK
<1>2. DeliveryInv /\ [Next]_vars => DeliveryInv'
  BY EveryStepFits
<1> QED BY <1>1, <1>2, DeliveryStart, PTL DEF Spec

\* A connection in the list has an endpoint that takes it out, and no browser that is
\* still there is taken out (ConnectionManager.connect, disconnect, broadcast).
THEOREM ListsMatch == Spec => []ListMatchesEndpoints
<1>1. DeliveryInv => ListMatchesEndpoints
  BY DEF DeliveryInv, PlaceInv
<1>2. DeliveryInv /\ [Next]_vars => DeliveryInv'
  BY EveryStepFits
<1> QED BY <1>1, <1>2, DeliveryStart, PTL DEF Spec

----------------------------------------------------------------------------
(* What a broadcast can miss                                               *)

\* The connections a broadcast began with that it has passed without an event, at a moment
\* when it sends and at its end; and those the loop has behind it when a send is over.
Skipped(c, act, op, gt) ==
    {s \in c.audience \cap op : /\ c.event \notin gt[s] /\ s # c.to
                                /\ \E i \in DOMAIN act : i < c.next /\ act[i] = s}
Lacking(c, act, op, gt) == {s \in c.audience \cap ToSet(act) \cap op : c.event \notin gt[s]}
Behind(c, act, op, gt) ==
    {s \in c.audience \cap op : /\ c.event \notin gt[s]
                                /\ \E i \in DOMAIN act : i < c.next /\ act[i] = s}

CountFits(c, act, op, gt) ==
    /\ c.cast = "sending" => Cardinality(Skipped(c, act, op, gt)) <= c.shifts
    /\ c.cast = "over" => Cardinality(Lacking(c, act, op, gt)) <= c.shifts

CountInv == \A h \in Busy : CountFits(handler[h], active, open, got)

\* The sets that are counted are finite: they are in the list.
LEMMA ListedIsFinite ==
    ASSUME PlaceInv, NEW A, A \subseteq ToSet(active)
    PROVE  IsFiniteSet(A) /\ Cardinality(A) \in Nat
<1>1. Len(active) \in Nat /\ IsFiniteSet(1..Len(active)) /\ DOMAIN active = 1..Len(active)
  <2>1. Len(active) \in Nat /\ DOMAIN active = 1..Len(active)
    BY DEF PlaceInv
  <2> QED BY <2>1, FS_Interval
<1>2. \A y \in A : \E m \in 1..Len(active) : active[m] = y
  BY <1>1 DEF ToSet
<1>3. IsFiniteSet(A)
  BY <1>1, <1>2, ImageOfFinite
<1> QED BY <1>3, FS_CardinalityType

\* A smaller part of the list has no more connections.
LEMMA NoMore ==
    ASSUME PlaceInv, NEW A, A \subseteq ToSet(active), NEW B, B \subseteq A
    PROVE  Cardinality(B) <= Cardinality(A)
BY ListedIsFinite, FS_Subset

\* What is skipped, or behind, is in the list.
LEMMA SkippedListed ==
    ASSUME NEW c, NEW op, NEW gt
    PROVE  /\ Skipped(c, active, op, gt) \subseteq ToSet(active)
           /\ Lacking(c, active, op, gt) \subseteq ToSet(active)
           /\ Behind(c, active, op, gt) \subseteq ToSet(active)
BY DEF Skipped, Lacking, Behind, ToSet

\* Entries are taken out of the list while a broadcast runs: it may pass as many more as
\* are taken out before its position, and they are counted.
LEMMA CountShifted ==
    ASSUME PlaceInv, NEW c, c \in Handler, c.next >= 1, NEW S, NEW gt,
           CountFits(c, active, open, gt)
    PROVE  CountFits(Shifted(c, S), Without(active, S), open, gt)
<1> DEFINE w == Without(active, S)
           K == Places(active, S)
<1>1. active \in Seq(Sockets) /\ Len(active) \in Nat /\ DOMAIN active = 1..Len(active)
  BY DEF PlaceInv
<1>2. ToSet(w) \subseteq ToSet(active)
  BY ActiveWithout
<1>3. CASE c.cast # "sending"
  <2>1. Shifted(c, S) = c
    BY <1>3 DEF Shifted
  <2>2. Lacking(c, w, open, gt) \subseteq Lacking(c, active, open, gt)
    BY <1>2 DEF Lacking
  <2> HIDE DEF w
  <2>3. Cardinality(Lacking(c, w, open, gt)) <= Cardinality(Lacking(c, active, open, gt))
    BY <2>2, NoMore, SkippedListed
  <2>4. /\ Cardinality(Lacking(c, w, open, gt)) \in Nat
        /\ Cardinality(Lacking(c, active, open, gt)) \in Nat
    BY <1>2, <2>2, ListedIsFinite, SkippedListed
  <2>5. c.shifts \in Nat
    BY DEF Handler
  <2>6. CountFits(c, w, open, gt)
    BY <1>3, <2>3, <2>4, <2>5 DEF CountFits
  <2> QED BY <2>1, <2>6 DEF w
<1>4. CASE c.cast = "sending"
  <2> DEFINE gone == {i \in 1..Len(active) : active[i] \in S /\ i < c.next}
             moved == {m \in DOMAIN w : m < c.next /\ Ascending(K)[m] >= c.next}
             I == {w[m] : m \in moved}
             old == Skipped(c, active, open, gt)
             d == Shifted(c, S)
  <2>1. c.next \in Nat \ {0} /\ c.shifts \in Nat
    BY DEF Handler
  <2>2. d = [c EXCEPT !.shifts = @ + Cardinality(gone)]
    BY <1>4 DEF Shifted
  <2>3. /\ IsFiniteSet(moved) /\ IsFiniteSet(gone) /\ Cardinality(gone) \in Nat
        /\ Cardinality(moved) <= Cardinality(gone)
    <3>1. \A m : m \in moved <=> m \in DOMAIN w /\ m < c.next /\ Ascending(K)[m] >= c.next
      OBVIOUS
    <3>2. \A i : i \in gone <=> i \in 1..Len(active) /\ active[i] \in S /\ i < c.next
      OBVIOUS
    <3> HIDE DEF moved, gone
    <3> QED BY <1>1, <2>1, <3>1, <3>2, WithoutMoves
  <2>4. /\ d.shifts = c.shifts + Cardinality(gone) /\ d.cast = "sending" /\ d.next = c.next
        /\ d.to = c.to /\ d.event = c.event /\ d.audience = c.audience
    <3> HIDE DEF gone, d
    <3> QED BY <1>4, <2>2 DEF Handler
  <2>5. IsFiniteSet(I) /\ Cardinality(I) <= Cardinality(moved)
    <3>1. \A y \in I : \E m \in moved : w[m] = y
      OBVIOUS
    <3> HIDE DEF I, moved, w
    <3> QED BY <2>3, <3>1, ImageOfFinite
  <2>6. Skipped(d, w, open, gt) \subseteq old \cup I
    <3>1. DOMAIN w = 1..Cardinality(K)
          /\ \A n \in 1..Cardinality(K) : Ascending(K)[n] \in K /\ w[n] = active[Ascending(K)[n]]
      BY <1>1, WithoutPlaces
    <3>2. \A i \in K : i \in DOMAIN active /\ i \in Int
      BY <1>1 DEF Places
    <3> HIDE DEF w, K, d
    <3>3. ASSUME NEW s \in Skipped(d, w, open, gt) PROVE s \in old \cup I
      <4>1. /\ s \in c.audience \cap open /\ c.event \notin gt[s] /\ s # c.to
            /\ \E m \in DOMAIN w : m < c.next /\ w[m] = s
        BY <2>4, <3>3 DEF Skipped
      <4>2. PICK m \in DOMAIN w : m < c.next /\ w[m] = s
        BY <4>1
      <4>3. Ascending(K)[m] \in K /\ active[Ascending(K)[m]] = s
        BY <3>1, <4>2
      <4>4. CASE Ascending(K)[m] < c.next
        <5>1. s \in old
          BY <3>2, <4>1, <4>3, <4>4 DEF Skipped
        <5> QED BY <5>1
      <4>5. CASE Ascending(K)[m] >= c.next
        <5>1. m \in moved
          BY <4>2, <4>5
        <5> HIDE DEF moved
        <5>2. s \in I
          BY <4>2, <5>1
        <5> QED BY <5>2
      <4> QED BY <2>1, <3>2, <4>3, <4>4, <4>5
    <3> QED BY <3>3
  <2>7. IsFiniteSet(old) /\ Cardinality(old) \in Nat /\ Cardinality(old) <= c.shifts
    BY <1>4, ListedIsFinite, SkippedListed DEF CountFits
  <2> HIDE DEF old, I, moved, gone, d, w
  <2>8. /\ Cardinality(I) \in Nat /\ Cardinality(moved) \in Nat
        /\ Cardinality(old \cap I) \in Nat
        /\ IsFiniteSet(old \cup I)
        /\ Cardinality(old \cup I) = Cardinality(old) + Cardinality(I) - Cardinality(old \cap I)
    BY <2>3, <2>5, <2>7, FS_Union, FS_Intersection, FS_CardinalityType
  <2>9. /\ Cardinality(Skipped(d, w, open, gt)) <= Cardinality(old \cup I)
        /\ Cardinality(Skipped(d, w, open, gt)) \in Nat /\ Cardinality(old \cup I) \in Nat
    BY <2>6, <2>8, FS_Subset, FS_CardinalityType
  <2>10. Cardinality(Skipped(d, w, open, gt)) <= d.shifts
    BY <2>1, <2>3, <2>4, <2>5, <2>7, <2>8, <2>9
  <2>11. CountFits(d, w, open, gt)
    BY <2>4, <2>10 DEF CountFits
  <2> QED BY <2>11 DEF d, w
<1> QED BY <1>3, <1>4

\* What a broadcast lacks does not grow while its call, but for the message, is what it
\* was, browsers receive events and none of the connections it began with comes back.
LEMMA CountStays ==
    ASSUME PlaceInv, NEW c, c \in Handler, NEW d, NEW act, NEW op, NEW gt, NEW old,
           CountFits(c, active, op, old),
           d.cast = c.cast, d.event = c.event, d.to = c.to, d.next = c.next,
           d.audience = c.audience, d.shifts = c.shifts,
           \A s \in Sockets : old[s] \subseteq gt[s],
           NEW op2, \A s \in c.audience : s \in op2 => s \in op,
           \A s \in c.audience : s \in ToSet(act) => s \in ToSet(active),
           \A s \in c.audience, i \in DOMAIN act : act[i] = s => i \in DOMAIN active /\ active[i] = s
    PROVE  CountFits(d, act, op2, gt)
<1>1. c.audience \subseteq Sockets /\ c.shifts \in Nat
  BY DEF Handler
<1>2. Skipped(d, act, op2, gt) \subseteq Skipped(c, active, op, old)
  BY <1>1 DEF Skipped
<1>3. Lacking(d, act, op2, gt) \subseteq Lacking(c, active, op, old)
  BY <1>1 DEF Lacking
<1>4. /\ Cardinality(Skipped(d, act, op2, gt)) <= Cardinality(Skipped(c, active, op, old))
      /\ Cardinality(Lacking(d, act, op2, gt)) <= Cardinality(Lacking(c, active, op, old))
  BY <1>2, <1>3, NoMore, SkippedListed
<1>5. /\ Cardinality(Skipped(d, act, op2, gt)) \in Nat /\ Cardinality(Lacking(d, act, op2, gt)) \in Nat
      /\ Cardinality(Skipped(c, active, op, old)) \in Nat
      /\ Cardinality(Lacking(c, active, op, old)) \in Nat
  BY <1>2, <1>3, ListedIsFinite, SkippedListed
<1> QED BY <1>1, <1>4, <1>5 DEF CountFits

\* From one await of a broadcast to the next, what is behind it may be passed, and the
\* other broadcasts hear of what it takes out of the list.
LEMMA AdvanceCounts ==
    ASSUME DeliveryInv, DeliveryInv', CountInv, NEW h \in Busy, NEW call, Advance(h, call),
           call \in Handler, call.next >= 1,
           Cardinality(Behind(call, active, open, got')) <= call.shifts,
           UNCHANGED open, \A s \in Sockets : got[s] \subseteq got'[s]
    PROVE  CountInv'
<1> DEFINE listed == call.next <= Len(active)
           moved == IF listed
                    THEN [call EXCEPT !.cast = "sending", !.to = active[call.next], !.next = @ + 1]
                    ELSE [call EXCEPT !.cast = "over", !.to = None, !.next = 1, !.stale = {}]
           gone == IF listed THEN {} ELSE call.stale
           behind == Behind(call, active, open, got')
<1>1. /\ active' = Without(active, gone)
      /\ handler' = [g \in Busy |-> IF g = h THEN moved ELSE Shifted(handler[g], gone)]
  BY DEF Advance
<1>2. /\ active \in Seq(Sockets) /\ Len(active) \in Nat /\ DOMAIN active = 1..Len(active)
      /\ call.next \in Nat /\ call.shifts \in Nat
  BY DEF DeliveryInv, PlaceInv, Handler
<1>3. IsFiniteSet(behind) /\ Cardinality(behind) \in Nat
  BY SkippedListed, ListedIsFinite DEF DeliveryInv
<1>4. CountFits(moved, active', open, got')
  <2>1. CASE listed
    <3>1. active' = active
      BY <1>1, <1>2, <2>1, WithoutNothing
    <3>2. moved = [call EXCEPT !.cast = "sending", !.to = active[call.next], !.next = @ + 1]
      BY <2>1
    <3> HIDE DEF moved
    <3>3. /\ moved.cast = "sending" /\ moved.to = active[call.next] /\ moved.next = call.next + 1
          /\ moved.event = call.event /\ moved.audience = call.audience
          /\ moved.shifts = call.shifts
      BY <3>2 DEF Handler
    <3>4. Skipped(moved, active, open, got') \subseteq behind
      <4>1. SUFFICES ASSUME NEW s \in Skipped(moved, active, open, got') PROVE s \in behind
        OBVIOUS
      <4>2. PICK i \in DOMAIN active : i < call.next + 1 /\ active[i] = s
        BY <3>3 DEF Skipped
      <4>3. s # active[call.next] /\ s \in call.audience \cap open /\ call.event \notin got'[s]
        BY <3>3 DEF Skipped
      <4>4. i < call.next
        BY <1>2, <4>2, <4>3
      <4> QED BY <4>2, <4>3, <4>4 DEF Behind
    <3> HIDE DEF behind
    <3>5. /\ Cardinality(Skipped(moved, active, open, got')) <= Cardinality(behind)
          /\ Cardinality(Skipped(moved, active, open, got')) \in Nat
      BY <1>3, <3>4, FS_Subset, FS_CardinalityType
    <3>6. Cardinality(behind) <= call.shifts
      BY DEF behind
    <3>7. Cardinality(Skipped(moved, active, open, got')) <= moved.shifts
      BY <1>2, <1>3, <3>3, <3>5, <3>6
    <3> QED BY <3>1, <3>3, <3>7 DEF CountFits
  <2>2. CASE ~listed
    <3>1. ToSet(active') \subseteq ToSet(active)
      BY <1>1, ActiveWithout DEF DeliveryInv
    <3>2. moved = [call EXCEPT !.cast = "over", !.to = None, !.next = 1, !.stale = {}]
      BY <2>2
    <3> HIDE DEF moved
    <3>3. /\ moved.cast = "over" /\ moved.event = call.event /\ moved.audience = call.audience
          /\ moved.shifts = call.shifts
      BY <3>2 DEF Handler
    <3>4. Lacking(moved, active', open, got') \subseteq behind
      <4>1. SUFFICES ASSUME NEW s \in Lacking(moved, active', open, got') PROVE s \in behind
        OBVIOUS
      <4>2. PICK i \in DOMAIN active : active[i] = s
        BY <3>1 DEF Lacking, ToSet
      <4>3. i < call.next
        BY <1>2, <2>2, <4>2
      <4>4. s \in call.audience \cap open /\ call.event \notin got'[s]
        BY <3>3 DEF Lacking
      <4> QED BY <4>2, <4>3, <4>4 DEF Behind
    <3> HIDE DEF behind
    <3>5. /\ Cardinality(Lacking(moved, active', open, got')) <= Cardinality(behind)
          /\ Cardinality(Lacking(moved, active', open, got')) \in Nat
      BY <1>3, <3>4, FS_Subset, FS_CardinalityType
    <3>6. Cardinality(behind) <= call.shifts
      BY DEF behind
    <3>7. Cardinality(Lacking(moved, active', open, got')) <= moved.shifts
      BY <1>2, <1>3, <3>3, <3>5, <3>6
    <3> QED BY <3>3, <3>7 DEF CountFits
  <2> QED BY <2>1, <2>2
<1> HIDE DEF moved, gone, behind
<1>5. ASSUME NEW g \in Busy, g # h
      PROVE  CountFits(Shifted(handler[g], gone), active', open, got')
  <2>1. handler[g] \in Handler /\ handler[g].next >= 1 /\ CountFits(handler[g], active, open, got)
    BY DEF DeliveryInv, CallsInv, CallFits, CountInv
  <2>2. handler[g].audience \subseteq Sockets /\ handler[g].shifts \in Nat
    BY <2>1 DEF Handler
  <2>3. CountFits(handler[g], active, open, got')
    BY <2>1, CountStays DEF DeliveryInv, ToSet
  <2> QED BY <1>1, <2>1, <2>3, CountShifted DEF DeliveryInv
<1>6. Busy' = Busy
  BY <1>1 DEF Busy
<1>7. ASSUME NEW g \in Busy PROVE CountFits(handler'[g], active', open', got')
  <2>1. CASE g = h
    BY <1>1, <1>4, <2>1
  <2>2. CASE g # h
    BY <1>1, <1>5, <2>2
  <2> QED BY <2>1, <2>2
<1> QED BY <1>6, <1>7 DEF CountInv

\* A call of which no step of a broadcast is known yet, or whose broadcast has been cut
\* off, has nothing to count; and one may become another with its broadcast as it was.
Fresh(d) == d.shifts >= 0 /\ (d.cast = "new" \/ d.audience = {})
SameCast(c, d) ==
    /\ d.cast = c.cast /\ d.event = c.event /\ d.to = c.to /\ d.next = c.next
    /\ d.audience = c.audience /\ d.shifts = c.shifts

\* Such a connection fits every count.
LEMMA FreshCounts ==
    ASSUME NEW d, Fresh(d), NEW act, NEW op, NEW gt
    PROVE  CountFits(d, act, op, gt)
<1>1. CASE d.cast = "new"
  BY <1>1 DEF CountFits
<1>2. CASE d.audience = {}
  <2>1. Skipped(d, act, op, gt) = {} /\ Lacking(d, act, op, gt) = {}
    BY <1>2 DEF Skipped, Lacking
  <2> QED BY <2>1, FS_EmptySet DEF CountFits, Fresh
<1> QED BY <1>1, <1>2 DEF Fresh

\* Steps that move no broadcast on and take nothing out of the list; a connection that is
\* opened or listed is none of those a broadcast began with.
LEMMA CountKept ==
    ASSUME DeliveryInv, CountInv, UNCHANGED got,
           \A h \in Busy' : (h \in Busy /\ SameCast(handler[h], handler'[h])) \/ Fresh(handler'[h]),
           \A s \in Sockets : endpoint[s] \in {"serving", "ended"} /\ s \in open' => s \in open,
           \A s \in Sockets, i \in DOMAIN active' :
              endpoint[s] \in {"serving", "ended"} /\ active'[i] = s
                 => i \in DOMAIN active /\ active[i] = s
    PROVE  CountInv'
<1>1. ASSUME NEW h \in Busy, SameCast(handler[h], handler'[h])
      PROVE  CountFits(handler'[h], active', open', got')
  <2>1. PICK c : c = handler[h]
    OBVIOUS
  <2>2. PICK d : d = handler'[h]
    OBVIOUS
  <2>3. /\ c \in Handler /\ CountFits(c, active, open, got) /\ c.audience \subseteq Sockets
        /\ \A s \in c.audience : endpoint[s] \in {"serving", "ended"}
    BY <2>1 DEF DeliveryInv, CallsInv, CallFits, CountInv, Handler
  <2>4. \A s \in c.audience : s \in open' => s \in open
    BY <2>3
  <2>5. \A s \in c.audience, i \in DOMAIN active' :
           active'[i] = s => i \in DOMAIN active /\ active[i] = s
    BY <2>3
  <2>6. \A s \in c.audience : s \in ToSet(active') => s \in ToSet(active)
    BY <2>5 DEF ToSet
  <2>7. /\ d.cast = c.cast /\ d.event = c.event /\ d.to = c.to /\ d.next = c.next
        /\ d.audience = c.audience /\ d.shifts = c.shifts
    BY <1>1, <2>1, <2>2 DEF SameCast
  <2>8. PlaceInv
    BY DEF DeliveryInv
  <2>9. CountFits(d, active', open', got)
    BY <2>3, <2>4, <2>5, <2>6, <2>7, <2>8, CountStays
  <2> QED BY <2>2, <2>9
<1>2. ASSUME NEW h \in Busy', Fresh(handler'[h])
      PROVE  CountFits(handler'[h], active', open', got')
  BY <1>2, FreshCounts
<1> QED BY <1>1, <1>2 DEF CountInv

\* The steps of a broadcast: at the front nothing is behind it; when a send is over, what
\* is behind it is what it had passed, or the connection it sent to, which has the event
\* unless it is gone.
LEMMA BroadcastCounts ==
    ASSUME DeliveryInv, DeliveryInv', CountInv, NEW h \in Handlers, Broadcast(h)
    PROVE  CountInv'
<1>1. h \in Busy /\ UNCHANGED open
  BY DEF Broadcast, Begin, Sent, SendFails, Casting
<1>2. PICK c : c = handler[h]
  OBVIOUS
<1>3. /\ c \in Handler /\ c.next >= 1 /\ CountFits(c, active, open, got)
      /\ c.cast = "new" => c.next = 1
      /\ c.cast = "sending" => c.to \in Sockets
      /\ c.shifts \in Nat /\ c.next \in Nat /\ c.event \in Events
      /\ got \in [Sockets -> SUBSET published] /\ PlaceInv
  BY <1>1, <1>2 DEF DeliveryInv, CallsInv, CallFits, CountInv, Handler, BasicInv
<1>4. CASE Begin(h)
  <2>1. PICK d : d = [c EXCEPT !.audience = ToSet(active)]
    OBVIOUS
  <2>2. Advance(h, d) /\ c.cast = "new" /\ got' = got
    BY <1>2, <1>4, <2>1 DEF Begin, Casting
  <2>3. ToSet(active) \subseteq Sockets
    BY <1>3 DEF PlaceInv, ToSet
  <2>4. d \in Handler /\ d.next = 1 /\ d.shifts = c.shifts
    BY <1>3, <2>1, <2>2, <2>3 DEF Handler
  <2>5. DOMAIN active = 1..Len(active) /\ Len(active) \in Nat
    BY <1>3 DEF PlaceInv
  <2>6. Behind(d, active, open, got') = {}
    BY <2>4, <2>5 DEF Behind
  <2>7. Cardinality(Behind(d, active, open, got')) <= d.shifts
    BY <1>3, <2>4, <2>6, FS_EmptySet
  <2> QED BY <1>1, <2>2, <2>4, <2>7, AdvanceCounts
<1>5. CASE Sent(h)
  <2>1. /\ Advance(h, c) /\ c.cast = "sending"
        /\ got' = IF c.to \in open THEN [got EXCEPT ![c.to] = @ \cup {c.event}] ELSE got
    BY <1>2, <1>5 DEF Sent, Casting
  <2>2. \A s \in Sockets : got[s] \subseteq got'[s]
    BY <1>3, <2>1
  <2>3. c.to \in open => c.event \in got'[c.to]
    BY <1>3, <2>1
  <2>4. open \subseteq Sockets
    BY <1>3 DEF PlaceInv
  <2>5. Behind(c, active, open, got') \subseteq Skipped(c, active, open, got)
    BY <2>2, <2>3, <2>4 DEF Behind, Skipped
  <2>6. Cardinality(Behind(c, active, open, got')) <= c.shifts
    <3>1. Cardinality(Behind(c, active, open, got')) <= Cardinality(Skipped(c, active, open, got))
      BY <1>3, <2>5, NoMore, SkippedListed
    <3>2. /\ Cardinality(Behind(c, active, open, got')) \in Nat
          /\ Cardinality(Skipped(c, active, open, got)) \in Nat
      BY <1>3, ListedIsFinite, SkippedListed
    <3> QED BY <1>3, <2>1, <3>1, <3>2 DEF CountFits
  <2> QED BY <1>1, <1>3, <2>1, <2>2, <2>6, AdvanceCounts
<1>6. CASE SendFails(h)
  <2>1. PICK d : d = [c EXCEPT !.stale = @ \cup {c.to}]
    OBVIOUS
  <2>2. Advance(h, d) /\ c.cast = "sending" /\ got' = got /\ c.to \notin open
    BY <1>2, <1>6, <2>1 DEF SendFails, Casting
  <2>3. /\ d \in Handler /\ d.next = c.next /\ d.shifts = c.shifts /\ d.event = c.event
        /\ d.audience = c.audience
    BY <1>3, <2>1, <2>2 DEF Handler
  <2>4. Behind(d, active, open, got') \subseteq Skipped(c, active, open, got)
    BY <2>2, <2>3 DEF Behind, Skipped
  <2>5. Cardinality(Behind(d, active, open, got')) <= d.shifts
    <3>1. Cardinality(Behind(d, active, open, got')) <= Cardinality(Skipped(c, active, open, got))
      BY <1>3, <2>4, NoMore, SkippedListed
    <3>2. /\ Cardinality(Behind(d, active, open, got')) \in Nat
          /\ Cardinality(Skipped(c, active, open, got)) \in Nat
      BY <1>3, ListedIsFinite, SkippedListed
    <3> QED BY <1>3, <2>2, <2>3, <3>1, <3>2 DEF CountFits
  <2> QED BY <1>1, <1>3, <2>2, <2>3, <2>5, AdvanceCounts
<1> QED BY <1>4, <1>5, <1>6 DEF Broadcast

\* The endpoints: only a connection that was never listed is opened or listed, and one
\* that is taken out is counted.
LEMMA EndpointCounts ==
    ASSUME DeliveryInv, CountInv, NEW s \in Sockets,
           Accept(s) \/ Register(s) \/ Leave(s) \/ Disconnect(s)
    PROVE  CountInv'
<1>1. got' = got
  BY DEF Accept, Register, Leave, Disconnect, At
<1>2. CASE Accept(s)
  <2>1. /\ open' = open \cup {s} /\ endpoint[s] = "away" /\ active' = active
        /\ handler' = handler
    BY <1>2 DEF Accept, At
  <2>2. Busy' = Busy /\ \A h \in Busy : SameCast(handler[h], handler'[h])
    BY <2>1 DEF Busy, SameCast
  <2> QED BY <1>1, <2>1, <2>2, CountKept
<1>3. CASE Register(s)
  <2>1. /\ active' = Append(active, s) /\ endpoint[s] = "accepted" /\ open' = open
        /\ handler' = handler
    BY <1>3 DEF Register, At
  <2>2. Busy' = Busy /\ \A h \in Busy : SameCast(handler[h], handler'[h])
    BY <2>1 DEF Busy, SameCast
  <2>3. active \in Seq(Sockets) /\ DOMAIN active = 1..Len(active) /\ Len(active) \in Nat
    BY DEF DeliveryInv, PlaceInv
  <2>4. /\ DOMAIN active' = 1..(Len(active) + 1) /\ active'[Len(active) + 1] = s
        /\ \A i \in 1..Len(active) : active'[i] = active[i]
    BY <2>1, <2>3
  <2>5. \A i \in DOMAIN active' : \/ i \in DOMAIN active /\ active'[i] = active[i]
                                \/ active'[i] = s
    BY <2>3, <2>4
  <2> QED BY <1>1, <2>1, <2>2, <2>5, CountKept
<1>4. CASE Leave(s)
  <2>1. open' = open \ {s} /\ active' = active /\ handler' = handler
    BY <1>4 DEF Leave
  <2>2. Busy' = Busy /\ \A h \in Busy : SameCast(handler[h], handler'[h])
    BY <2>1 DEF Busy, SameCast
  <2> QED BY <1>1, <2>1, <2>2, CountKept
<1>5. CASE Disconnect(s)
  <2>1. /\ active' = Without(active, {s}) /\ open' = open
        /\ handler' = [h \in Busy |-> Shifted(handler[h], {s})]
    BY <1>5 DEF Disconnect
  <2>2. Busy' = Busy
    BY <2>1 DEF Busy
  <2>3. ASSUME NEW h \in Busy PROVE CountFits(handler'[h], active', open', got')
    <3>1. handler[h] \in Handler /\ handler[h].next >= 1 /\ PlaceInv
          /\ CountFits(handler[h], active, open, got)
      BY DEF DeliveryInv, CallsInv, CallFits, CountInv
    <3>2. CountFits(Shifted(handler[h], {s}), Without(active, {s}), open, got)
      BY <3>1, CountShifted
    <3> QED BY <1>1, <2>1, <3>2
  <2> QED BY <2>2, <2>3 DEF CountInv
<1> QED BY <1>2, <1>3, <1>4, <1>5

\* The calls come, save, are acknowledged, go, or lose their message.
LEMMA CallCounts ==
    ASSUME DeliveryInv, CountInv, NEW h \in Handlers, NEW e \in Events,
           Deliver(h, e) \/ Save(h) \/ Settle(h) \/ Finish(h)
    PROVE  CountInv'
<1>1. UNCHANGED <<active, open, got>>
  BY DEF Deliver, Save, Select, Insert, SaveFails, Saving, Settle, Finish, sockets
<1>2. handler \in [Busy -> Handler]
  BY DEF DeliveryInv, CallsInv
<1>3. ASSUME NEW g \in Busy'
      PROVE  (g \in Busy /\ SameCast(handler[g], handler'[g])) \/ Fresh(handler'[g])
  <2>1. CASE Deliver(h, e)
    <3>1. handler' = [f \in Busy \cup {h} |-> IF f = h THEN Call(e) ELSE handler[f]]
      BY <2>1 DEF Deliver
    <3>2. Busy' = Busy \cup {h}
      BY <3>1 DEF Busy
    <3>3. Fresh(Call(e))
      BY DEF Fresh, Call
    <3> QED BY <3>1, <3>2, <3>3 DEF SameCast
  <2>2. CASE Save(h)
    <3>1. PICK outcome : h \in Busy /\ handler' = [handler EXCEPT ![h].save = outcome]
      BY <2>2 DEF Save, Select, Insert, SaveFails, Saving, To
    <3>2. g \in Busy
      BY <3>1 DEF Busy
    <3>3. handler'[g] = handler[g] \/ handler'[g] = [handler[g] EXCEPT !.save = outcome]
      BY <1>2, <3>1, <3>2
    <3> QED BY <1>2, <3>2, <3>3 DEF SameCast, Handler
  <2>3. CASE Settle(h)
    <3>1. h \in Busy /\ handler' = [handler EXCEPT ![h].owned = FALSE]
      BY <2>3 DEF Settle
    <3>2. g \in Busy
      BY <3>1 DEF Busy
    <3>3. handler'[g] = handler[g] \/ handler'[g] = [handler[g] EXCEPT !.owned = FALSE]
      BY <1>2, <3>1, <3>2
    <3> QED BY <1>2, <3>2, <3>3 DEF SameCast, Handler
  <2>4. CASE Finish(h)
    <3>1. handler' = [f \in Busy \ {h} |-> handler[f]]
      BY <2>4 DEF Finish, Restrict
    <3>2. Busy' = Busy \ {h}
      BY <3>1 DEF Busy
    <3> QED BY <3>1, <3>2 DEF SameCast
  <2> QED BY <2>1, <2>2, <2>3, <2>4
<1> QED BY <1>1, <1>3, CountKept

\* The channel is lost: a broadcast that is cut off is counted no more.
LEMMA ChannelCounts ==
    ASSUME DeliveryInv, CountInv, ChannelLost
    PROVE  CountInv'
<1>1. PICK cut \in SUBSET Unacked :
         handler' = [h \in Busy |->
             IF h \notin Unacked THEN handler[h]
             ELSE IF h \in cut
             THEN [Call(handler[h].event) EXCEPT !.owned = FALSE, !.cast = "over",
                                                 !.save = handler[h].save]
             ELSE [handler[h] EXCEPT !.owned = FALSE]]
  BY DEF ChannelLost
<1>2. UNCHANGED <<active, open, got>> /\ handler \in [Busy -> Handler]
  BY DEF ChannelLost, sockets, DeliveryInv, CallsInv
<1>3. Busy' = Busy
  BY <1>1 DEF Busy
<1>4. ASSUME NEW g \in Busy
      PROVE  SameCast(handler[g], handler'[g]) \/ Fresh(handler'[g])
  <2>1. CASE g \notin Unacked
    BY <1>1, <2>1 DEF SameCast
  <2>2. CASE g \in Unacked /\ g \in cut
    <3>1. handler'[g] = [Call(handler[g].event) EXCEPT !.owned = FALSE, !.cast = "over",
                                                       !.save = handler[g].save]
      BY <1>1, <2>2
    <3>2. handler'[g].shifts = 0 /\ handler'[g].audience = {}
      BY <3>1 DEF Call
    <3> QED BY <3>2 DEF Fresh
  <2>3. CASE g \in Unacked /\ g \notin cut
    <3>1. handler'[g] = [handler[g] EXCEPT !.owned = FALSE]
      BY <1>1, <2>3
    <3> QED BY <1>2, <3>1 DEF SameCast, Handler
  <2> QED BY <2>1, <2>2, <2>3
<1> QED BY <1>2, <1>3, <1>4, CountKept

\* Every step.
LEMMA EveryStepCounts ==
    ASSUME DeliveryInv, DeliveryInv', CountInv, [Next]_vars
    PROVE  CountInv'
<1>1. ASSUME UNCHANGED <<handler, active, open, got>> PROVE CountInv'
  <2>1. Busy' = Busy
    BY <1>1 DEF Busy
  <2> QED BY <1>1, <2>1 DEF CountInv
<1>2. ASSUME (\E e \in Events : Publish(e) \/ Reject(e)) \/ Start \/ UNCHANGED vars
      PROVE  CountInv'
  BY <1>1, <1>2 DEF Publish, Reject, Start, vars, sockets
<1>3. ASSUME NEW h \in Handlers, NEW e \in Events, Deliver(h, e) PROVE CountInv'
  BY <1>3, CallCounts
<1>4. ASSUME NEW h \in Handlers, Handle(h) PROVE CountInv'
  <2>1. CASE Broadcast(h)
    BY <2>1, BroadcastCounts
  <2>2. CASE Save(h) \/ Settle(h) \/ Finish(h)
    <3>1. h \in Busy
      BY <2>2 DEF Save, Select, Insert, SaveFails, Saving, Settle, Finish
    <3>2. handler[h].event \in Events
      BY <3>1 DEF DeliveryInv, CallsInv, CallFits, Handler
    <3> QED BY <2>2, <3>2, CallCounts
  <2> QED BY <1>4, <2>1, <2>2 DEF Handle
<1>5. ASSUME NEW s \in Sockets, Accept(s) \/ Serve(s) \/ Leave(s) PROVE CountInv'
  BY <1>5, EndpointCounts DEF Serve
<1>6. ASSUME Crash PROVE CountInv'
  <2>1. Busy' = {}
    BY <1>6 DEF Crash, Busy
  <2> QED BY <2>1 DEF CountInv
<1> QED BY <1>2, <1>3, <1>4, <1>5, <1>6, ChannelCounts DEF Next, Consume

\* A broadcast leaves out at most as many of the connections it began with, still there and
\* still listed, as were taken out of the list at or before its position while it ran
\* (ConnectionManager.broadcast goes over the list that disconnect changes).
THEOREM BroadcastsMiss == Spec => []MissesAreShifts
<1>1. Init => CountInv
  BY DEF Init, CountInv, Busy
<1>2. DeliveryInv /\ CountInv /\ [Next]_vars => DeliveryInv' /\ CountInv'
  BY EveryStepFits, EveryStepCounts
<1>3. CountInv => MissesAreShifts
  <2>1. \A h : Missed(h) = Lacking(handler[h], active, open, got)
    BY DEF Missed, Lacking
  <2> QED BY <2>1 DEF CountInv, CountFits, MissesAreShifts
<1> QED BY <1>1, <1>2, <1>3, DeliveryStart, PTL DEF Spec
=============================================================================

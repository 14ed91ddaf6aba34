---------------------------- MODULE EventDelivery ----------------------------
(***************************************************************************)
(* The way of a security event from the AI service to the events table and *)
(* to the browsers: RabbitMQ's durable queue, EventConsumer, whose         *)
(* _handle_message broadcasts and saves in parallel, ConnectionManager and *)
(* the /ws/events endpoint.                                                *)
(*                                                                         *)
(* A message in the queue carries one event.  Its order is left out: the   *)
(* broker may deliver any queued message next, as it does once messages    *)
(* have been returned to the queue.                                        *)
(***************************************************************************)
EXTENDS Lists, SequencesExt

CONSTANTS
    Events,     \* security events, with distinct event_id
    Sockets,    \* WebSocket connections, each opened at most once
    Handlers,   \* slots for running calls of _handle_message
    None,       \* no socket
    Prefetch,   \* set_qos(prefetch_count): unacknowledged messages at one time
    MaxFaults   \* bound: crashes, lost channels and database errors, together

ASSUME EventAssumption ==
    /\ Prefetch \in Nat \ {0} /\ MaxFaults \in Nat

VARIABLES
    up,        \* the backend is running and subscribed
    bound,     \* the durable queue exists and is bound to the exchange
    malformed, \* events that AIEventDTO, or the payload built from it, rejects
    published, \* events publish_event was called with
    queued,    \* events whose message is ready in the queue
    handler,   \* busy slot -> Handler
    stored,    \* ids in the events table
    active,    \* ConnectionManager.active_connections
    endpoint,  \* Sockets -> where websocket_endpoint is
    open,      \* sockets whose browser is still there
    got,       \* Sockets -> events the browser received
    refused,   \* history: events acknowledged though they could not be stored
    faults     \* how many of MaxFaults have happened

broker == <<bound, malformed, published, queued>>
sockets == <<active, endpoint, open, got>>
vars == <<up, bound, malformed, published, queued, handler, stored, active, endpoint,
          open, got, refused, faults>>

\* One call of _handle_message: its delivery, unacknowledged while "owned"; the
\* broadcast, which is sending to "to" and will look at index "next" of the list;
\* the thread that saves.  "audience" and "shifts" are history: the sockets
\* listed when the broadcast began, and how many entries were taken out of the
\* list before index "next" while it ran.
Handler == [event : Events, owned : BOOLEAN,
            cast : {"new", "sending", "over"}, to : Sockets \cup {None}, next : Nat,
            stale : SUBSET Sockets,
            save : {"select", "insert", "saved", "failed"},
            audience : SUBSET Sockets, shifts : Nat]

Endpoints == {"away", "accepted", "serving", "ended"}

Call(e) == [event |-> e, owned |-> TRUE, cast |-> "new", to |-> None, next |-> 1,
            stale |-> {}, save |-> "select", audience |-> {}, shifts |-> 0]

Busy == DOMAIN handler
Unacked == {h \in Busy : handler[h].owned}
Fault == faults < MaxFaults /\ faults' = faults + 1

----------------------------------------------------------------------------
(* The AI service and the broker                                           *)

\* RabbitMQService.publish_event.  The event is dropped when the service is not
\* connected or the publish fails, and also, though the call succeeds, while no
\* queue is bound to the exchange.  It is not tried again.
Publish(e) ==
    /\ e \notin published
    /\ published' = published \cup {e}
    /\ queued' \in IF bound THEN {queued, queued \cup {e}} ELSE {queued}
    /\ UNCHANGED <<up, bound, malformed, handler, stored, sockets, refused, faults>>

\* A message comes in: its body is read and gather starts the broadcast and the
\* thread.
Deliver(h, e) ==
    /\ up /\ e \in queued \ malformed
    /\ h \notin Busy /\ Cardinality(Unacked) < Prefetch
    /\ queued' = queued \ {e}
    /\ handler' = [g \in Busy \cup {h} |-> IF g = h THEN Call(e) ELSE handler[g]]
    /\ UNCHANGED <<up, bound, malformed, published, stored, sockets, refused, faults>>

\* A message that cannot be read raises before gather: logged, acknowledged.
Reject(e) ==
    /\ up /\ e \in queued \cap malformed
    /\ queued' = queued \ {e}
    /\ refused' = refused \cup {e}
    /\ UNCHANGED <<up, bound, malformed, published, handler, stored, sockets, faults>>

----------------------------------------------------------------------------
(* The thread: EventRepositoryImpl.save                                    *)

Saving(h, at) ==
    /\ up /\ h \in Busy /\ handler[h].save = at
    /\ UNCHANGED <<up, broker, sockets, refused>>

To(h, outcome) == handler' = [handler EXCEPT ![h].save = outcome]

\* Mutant: the test of "existing" the wrong way round.
SelectInverted(h) ==
    /\ Saving(h, "select")
    /\ To(h, IF handler[h].event \in stored THEN "insert" ELSE "saved")
    /\ UNCHANGED <<stored, faults>>

\* The event's id is looked up.
Select(h) ==
    /\ Saving(h, "select")
    /\ To(h, IF handler[h].event \in stored THEN "saved" ELSE "insert")
    /\ UNCHANGED <<stored, faults>>

\* The row is inserted; if another thread inserted it since, the primary key is
\* violated and the exception reaches gather.
Insert(h) ==
    /\ Saving(h, "insert")
    /\ To(h, IF handler[h].event \in stored THEN "failed" ELSE "saved")
    /\ stored' = stored \cup {handler[h].event}
    /\ UNCHANGED faults

\* The database is not to be reached.
SaveFails(h) ==
    /\ \E at \in {"select", "insert"} : Saving(h, at)
    /\ To(h, "failed")
    /\ Fault
    /\ UNCHANGED stored

----------------------------------------------------------------------------
(* The broadcast: ConnectionManager.broadcast                              *)

\* What becomes of a call, whose loop goes by index, when the sockets S leave the list.
Shifted(call, S) ==
    IF call.cast # "sending" THEN call
    ELSE [call EXCEPT !.shifts = @ + Cardinality({i \in 1..Len(active) :
                                                    active[i] \in S /\ i < call.next})]

\* From one await to the next: the loop takes the entry at index "next", or
\* is over, and then the connections that failed leave the list.
Advance(h, call) ==
    LET listed == call.next <= Len(active)
        moved == IF listed
                 THEN [call EXCEPT !.cast = "sending", !.to = active[call.next], !.next = @ + 1]
                 ELSE [call EXCEPT !.cast = "over", !.to = None, !.next = 1, !.stale = {}]
        gone == IF listed THEN {} ELSE call.stale
    IN  /\ active' = Without(active, gone)
        /\ handler' = [g \in Busy |-> IF g = h THEN moved ELSE Shifted(handler[g], gone)]

Casting(h, at) ==
    /\ up /\ h \in Busy /\ handler[h].cast = at
    /\ UNCHANGED <<up, broker, stored, endpoint, open, refused, faults>>

Begin(h) ==
    /\ Casting(h, "new")
    /\ Advance(h, [handler[h] EXCEPT !.audience = ToSet(active)])
    /\ UNCHANGED got

\* send_json returns.  A browser that has gone receives nothing, and the server
\* may not know.
Sent(h) ==
    /\ Casting(h, "sending")
    /\ LET s == handler[h].to IN
       got' = IF s \in open THEN [got EXCEPT ![s] = @ \cup {handler[h].event}] ELSE got
    /\ Advance(h, handler[h])

\* Mutant: the exception leaves the loop.
SendFailsForAll(h) ==
    /\ Casting(h, "sending")
    /\ handler[h].to \notin open
    /\ active' = Without(active, {handler[h].to})
    /\ handler' = [g \in Busy |->
          IF g = h THEN [handler[h] EXCEPT !.cast = "over", !.to = None, !.next = 1, !.stale = {}]
          ELSE Shifted(handler[g], {handler[h].to})]
    /\ UNCHANGED got

\* send_json raises.
SendFails(h) ==
    /\ Casting(h, "sending")
    /\ handler[h].to \notin open
    /\ Advance(h, [handler[h] EXCEPT !.stale = @ \cup {handler[h].to}])
    /\ UNCHANGED got

----------------------------------------------------------------------------
(* The end of _handle_message                                              *)

\* Mutant: the message is acknowledged when it comes in.
SettleAtOnce(h) ==
    /\ up /\ h \in Busy /\ handler[h].owned
    /\ handler' = [handler EXCEPT ![h].owned = FALSE]
    /\ UNCHANGED <<up, broker, stored, sockets, refused, faults>>

\* gather returns when both are done, or raises as soon as the thread does; in
\* both cases the message is acknowledged, and a broadcast still under way
\* goes on by itself.
Settle(h) ==
    /\ up /\ h \in Busy /\ handler[h].owned
    /\ \/ handler[h].save = "failed"
       \/ handler[h].save = "saved" /\ handler[h].cast = "over"
    /\ handler' = [handler EXCEPT ![h].owned = FALSE]
    /\ refused' = IF handler[h].save = "failed" THEN refused \cup {handler[h].event}
                  ELSE refused
    /\ UNCHANGED <<up, broker, stored, sockets, faults>>

\* Nothing of the call is left.
Finish(h) ==
    /\ up /\ h \in Busy /\ ~handler[h].owned
    /\ handler[h].cast = "over" /\ handler[h].save \in {"saved", "failed"}
    /\ handler' = Restrict(handler, Busy \ {h})
    /\ UNCHANGED <<up, broker, stored, sockets, refused, faults>>

----------------------------------------------------------------------------
(* The browsers and websocket_endpoint                                     *)

At(s, from, to) ==
    /\ up /\ endpoint[s] = from
    /\ endpoint' = [endpoint EXCEPT ![s] = to]
    /\ UNCHANGED <<up, broker, stored, got, refused, faults>>

\* Mutant: the connection is listed before it is accepted, and after.
AcceptListed(s) ==
    /\ At(s, "away", "accepted")
    /\ open' = open \cup {s}
    /\ active' = Append(active, s)
    /\ UNCHANGED handler

\* A browser connects; the endpoint awaits accept.
Accept(s) ==
    /\ At(s, "away", "accepted")
    /\ open' = open \cup {s}
    /\ UNCHANGED <<active, handler>>

\* ConnectionManager.connect goes on.
Register(s) ==
    /\ At(s, "accepted", "serving")
    /\ active' = Append(active, s)
    /\ UNCHANGED <<open, handler>>

\* The page is closed, or the network is lost.
Leave(s) ==
    /\ s \in open
    /\ open' = open \ {s}
    /\ UNCHANGED <<up, broker, handler, stored, active, endpoint, got, refused, faults>>

\* Mutant: the endpoint ends and the list is left to the broadcasts.
DisconnectOnly(s) ==
    /\ s \notin open
    /\ At(s, "serving", "ended")
    /\ UNCHANGED <<active, handler, open>>

\* receive_text raises: ConnectionManager.disconnect.
Disconnect(s) ==
    /\ s \notin open
    /\ At(s, "serving", "ended")
    /\ active' = Without(active, {s})
    /\ handler' = [h \in Busy |-> Shifted(handler[h], {s})]
    /\ UNCHANGED open

----------------------------------------------------------------------------
(* The process and its connection to the broker                            *)

\* EventConsumer.start declares the queue and binds it.
Start ==
    /\ ~up /\ up' = TRUE /\ bound' = TRUE
    /\ UNCHANGED <<malformed, published, queued, handler, stored, sockets, refused, faults>>

Return(H) == queued' = queued \cup {handler[h].event : h \in H}

\* The process ends, by EventConsumer.stop or not: the broker takes back what
\* was not acknowledged, and every socket is closed.
Crash ==
    /\ up /\ Fault
    /\ up' = FALSE
    /\ Return(Unacked)
    /\ handler' = [h \in {} |-> None]
    /\ active' = <<>> /\ open' = {}
    /\ endpoint' = [s \in Sockets |-> IF endpoint[s] = "away" THEN "away" ELSE "ended"]
    /\ UNCHANGED <<bound, malformed, published, stored, got, refused>>

\* The channel is lost and connect_robust opens another: the messages are taken
\* back, the threads go on, and so do the broadcasts but for those cancelled.
ChannelLost ==
    /\ up /\ Fault
    /\ Unacked # {}
    /\ Return(Unacked)
    /\ \E cut \in SUBSET Unacked :
          handler' = [h \in Busy |->
             IF h \notin Unacked THEN handler[h]
             ELSE IF h \in cut
             THEN [Call(handler[h].event) EXCEPT !.owned = FALSE, !.cast = "over",
                                                 !.save = handler[h].save]
             ELSE [handler[h] EXCEPT !.owned = FALSE]]
    /\ UNCHANGED <<up, bound, malformed, published, stored, sockets, refused>>

----------------------------------------------------------------------------

Init ==
    /\ up = FALSE /\ bound = FALSE
    /\ malformed \in SUBSET Events
    /\ published = {} /\ queued = {}
    /\ handler = [h \in {} |-> None]
    /\ stored = {} /\ refused = {} /\ faults = 0
    /\ active = <<>> /\ open = {}
    /\ endpoint = [s \in Sockets |-> "away"]
    /\ got = [s \in Sockets |-> {}]

Consume == (\E h \in Handlers, e \in Events : Deliver(h, e)) \/ \E e \in Events : Reject(e)
Save(h) == Select(h) \/ Insert(h) \/ SaveFails(h)
Broadcast(h) == Begin(h) \/ Sent(h) \/ SendFails(h)
Handle(h) == Save(h) \/ Broadcast(h) \/ Settle(h) \/ Finish(h)
Serve(s) == Register(s) \/ Disconnect(s)

Next ==
    \/ \E e \in Events : Publish(e)
    \/ Consume
    \/ \E h \in Handlers : Handle(h)
    \/ \E s \in Sockets : Accept(s) \/ Serve(s) \/ Leave(s)
    \/ Start \/ Crash \/ ChannelLost

Spec == Init /\ [][Next]_vars

\* The process runs and is started again; queries end; a send returns or fails,
\* and a lost browser is noticed, since the server pings each socket.
FairSpec ==
    /\ Spec
    /\ WF_vars(Start) /\ WF_vars(Consume)
    /\ \A h \in Handlers : WF_vars(Handle(h))
    /\ \A s \in Sockets : WF_vars(Serve(s))

----------------------------------------------------------------------------
(* Properties                                                              *)

\* Every variable keeps the shape the code gives it; a connection is listed at
\* most once.
TypeOK ==
    /\ up \in BOOLEAN /\ bound \in BOOLEAN
    /\ malformed \subseteq Events /\ published \subseteq Events /\ queued \subseteq published
    /\ Busy \subseteq Handlers /\ handler \in [Busy -> Handler]
    /\ stored \subseteq published /\ refused \subseteq published
    /\ active \in Seq(Sockets) /\ IsInjective(active)
    /\ endpoint \in [Sockets -> Endpoints] /\ open \subseteq Sockets
    /\ got \in [Sockets -> SUBSET published]
    /\ faults \in 0..MaxFaults

\* No event the broker took is lost by a crash, a lost channel or the order in
\* which broadcast and save end: until it is in the table, its message is in
\* the queue or unacknowledged, unless the database or the message itself was
\* at fault and the exception was logged (EventConsumer._handle_message).
InBroker == queued \cup {handler[h].event : h \in Unacked}
NoneLost ==
    [][\A e \in Events :
          e \in InBroker => e \in InBroker' \cup stored' \cup refused']_vars

\* A broadcast leaves out at most as many of the connections it began with as
\* were taken out of the list behind its back, at or before the entry it was
\* sending to: every other one that is still connected has the event
\* (ConnectionManager.broadcast iterates over the list disconnect changes).
Missed(h) == {s \in handler[h].audience \cap ToSet(active) \cap open :
                 handler[h].event \notin got[s]}
MissesAreShifts ==
    \A h \in Busy : handler[h].cast = "over" => Cardinality(Missed(h)) <= handler[h].shifts

\* An event in the queue ends in the table, or is refused: redelivery after a
\* fault cannot go on for ever, and a second handler of the same event does
\* not keep the first from being stored.
EventuallyStored ==
    \A e \in Events : e \in queued ~> e \in stored \cup refused

\* The list and the endpoints agree, though broadcasts and endpoints both take
\* entries out: an entry has an endpoint that will take it out when its browser
\* goes, and a browser that is still there is never taken out.
ListMatchesEndpoints ==
    \A s \in Sockets : /\ s \in ToSet(active) => endpoint[s] = "serving"
                       /\ endpoint[s] = "serving" /\ s \in open => s \in ToSet(active)
=============================================================================

--------------------------- MODULE CameraLifecycle ---------------------------
(***************************************************************************)
(* The camera workers of the frame extractor: CameraManager, which the     *)
(* HTTP handlers call, CameraWorker, whose _run coroutine is an asyncio    *)
(* task, and the SQLite table of cameras, which outlives the process.      *)
(*                                                                         *)
(* Everything runs on one event loop.  "ready" is that loop's queue: a     *)
(* coroutine runs from one await to the next when its handle is at the     *)
(* head, and an answer from a camera, a timer or a new request only        *)
(* appends a handle.  When a task ends, the stop handlers that await it    *)
(* are appended in the order in which they began to wait.                  *)
(***************************************************************************)
EXTENDS Lists, FiniteSetsExt, SequencesExt

CONSTANTS
    Requests,     \* slots for control requests in flight at one time
    Urls,         \* RTSP addresses
    None,         \* no worker, no task, no row
    MaxCameras,   \* bound: camera ids, and worker objects in one run of the process
    MaxTasks,     \* bound: tasks in one run of the process
    MaxRequests,  \* bound: control requests and stops of the process
    MaxCrashes    \* bound: stops of the process

ASSUME BoundAssumption ==
    /\ MaxCameras \in Nat \ {0} /\ MaxTasks \in Nat /\ MaxCameras <= MaxTasks
    /\ MaxRequests \in Nat /\ MaxCrashes \in Nat
    /\ IsFiniteSet(Requests)

Ids == 1..MaxCameras      \* primary keys of the cameras table
Workers == 1..MaxCameras  \* CameraWorker objects
Tasks == 1..MaxTasks      \* asyncio tasks running CameraWorker._run

VARIABLES
    up,        \* the process is running
    db,        \* the cameras table: Ids -> Row or None
    registry,  \* CameraManager._workers: Ids -> Workers or None
    worker,    \* Workers -> Worker, or None when not created
    task,      \* Tasks -> Task, or None when not created
    ready,     \* the event loop's queue of handles
    req,       \* Requests -> Request
    arrived,   \* how many control requests have arrived
    crashes,   \* how many stops of the process have happened
    wanted,    \* history: Workers -> what the last start, stop, add or load asked for
    patched,   \* history: workers whose "enabled" a PATCH has changed since then
    overlapped \* history: cameras two requests were in flight for together

manager == <<up, db, registry>>
bounds == <<arrived, crashes>>
vars == <<up, db, registry, worker, task, ready, req, arrived, crashes, wanted, patched,
          overlapped>>

Row == [enabled : BOOLEAN, url : Urls]

Statuses == {"stopped", "connecting", "running", "error"}

\* config.id, config.enabled, config.rtsp; source.rtsp_url; _status;
\* _stop_event; _task
Worker == [id : Ids, enabled : BOOLEAN, url : Urls, source : Urls,
           status : Statuses, stopEvent : BOOLEAN, task : Tasks \cup {None}]

\* Where _run is suspended.  "yield" is the sleep(0) of the throttle.
Points == {"new", "connect", "backoff", "read", "send", "yield", "done"}
Task == [worker : Workers, at : Points, cancelled : BOOLEAN, waiters : Seq(Requests)]

\* None is nothing a variable holds otherwise.
ASSUME NoneAssumption ==
    None \notin Int /\ None \notin Row /\ None \notin Worker /\ None \notin Task

Ops == {"add", "patch", "start", "stop", "remove"}
Phases == {"idle", "new", "awaiting", "woken"}
Request == [op : Ops, id : Ids, phase : Phases, worker : Workers \cup {None}]
Idle == [op |-> "stop", id |-> 1, phase |-> "idle", worker |-> None]

THandle(t) == [kind |-> "task", of |-> t]
RHandle(r) == [kind |-> "request", of |-> r]

Live(t) == task[t] # None /\ task[t].at # "done"
Waiting == {"connect", "backoff", "read", "send"}

\* _task is not None and not done()
Running(w) == worker[w].task # None /\ Live(worker[w].task)

FirstFree(f, S) == Min({x \in S : f[x] = None})

\* Mutant: the generated id is not set on the configuration.
NewWorkerWithoutId(id, row) ==
    [id |-> None, enabled |-> row.enabled, url |-> row.url, source |-> row.url,
     status |-> "stopped", stopEvent |-> FALSE, task |-> None]

NewWorker(id, row) == [id |-> id, enabled |-> row.enabled, url |-> row.url,
                       source |-> row.url, status |-> "stopped",
                       stopEvent |-> FALSE, task |-> None]

NewTask(w) == [worker |-> w, at |-> "new", cancelled |-> FALSE, waiters |-> <<>>]

----------------------------------------------------------------------------
(* The worker's task: CameraWorker._run, from one await to the next        *)

Suspend(t, at) == task' = [task EXCEPT ![t].at = at]
SetStatus(t, s) == worker' = [worker EXCEPT ![task[t].worker].status = s]

\* The task is over: the stop handlers awaiting it become ready.
End(t) ==
    LET woken == task[t].waiters IN
    /\ task' = [task EXCEPT ![t].at = "done", ![t].waiters = <<>>]
    /\ req' = [r \in Requests |-> IF Contains(woken, r)
                                  THEN [req[r] EXCEPT !.phase = "woken"] ELSE req[r]]
    /\ ready' = Tail(ready) \o [i \in 1..Len(woken) |-> RHandle(woken[i])]

\* Mutant: no connection or no frame, but the status does not tell.
BackOffQuietly(t) ==
    /\ Suspend(t, "backoff")
    /\ ready' = Tail(ready)
    /\ UNCHANGED <<worker, req>>

\* No connection, or no frame: back off and try again.
BackOff(t) ==
    /\ SetStatus(t, "error")
    /\ Suspend(t, "backoff")
    /\ ready' = Tail(ready)
    /\ UNCHANGED req

\* Mutant: CancelledError is caught inside the loop, which goes on.
FinishNever(t) == BackOff(t)

\* Mutant: the finally clause leaves the status as the exception set it.
FinishInError(t) == End(t) /\ SetStatus(t, "error")

\* The finally clause: the source is released, the sinks are closed.
Finish(t) == End(t) /\ SetStatus(t, "stopped")

\* The head of the while loop, and _handle_connection up to its first await.
Loop(t) ==
    LET w == worker[task[t].worker] IN
    IF w.stopEvent THEN Finish(t)
    ELSE /\ IF w.status \in {"stopped", "error"}
            THEN SetStatus(t, "connecting") /\ Suspend(t, "connect")
            ELSE Suspend(t, "read") /\ UNCHANGED worker
         /\ ready' = Tail(ready)
         /\ UNCHANGED req

AtHead(h) == up /\ ready # <<>> /\ Head(ready) = h

TaskStep(t) ==
    /\ AtHead(THandle(t))
    /\ UNCHANGED <<manager, bounds, patched, overlapped>>

\* A task cancelled before its first step never enters _run's try statement.
CancelledUnstarted(t) ==
    /\ TaskStep(t) /\ task[t].cancelled /\ task[t].at = "new"
    /\ End(t)
    /\ UNCHANGED <<worker, wanted>>

\* CancelledError is raised at the await, caught, and the loop is left.
Cancelled(t) ==
    /\ TaskStep(t) /\ task[t].cancelled /\ task[t].at # "new"
    /\ Finish(t)
    /\ UNCHANGED wanted

Resume(t, at) == TaskStep(t) /\ ~task[t].cancelled /\ task[t].at = at

\* The first step, the end of a back-off or of the throttle's sleep(0), and a
\* frame sent, or not, to the AI service: the loop goes round.
GoRound(t) ==
    /\ \E at \in {"new", "backoff", "yield", "send"} : Resume(t, at)
    /\ Loop(t)
    /\ UNCHANGED wanted

ConnectFails(t) == Resume(t, "connect") /\ BackOff(t) /\ UNCHANGED wanted

\* _handle_connection returns True and the frame is asked for.
Connected(t) ==
    /\ Resume(t, "connect")
    /\ SetStatus(t, "running")
    /\ Suspend(t, "read")
    /\ ready' = Tail(ready)
    /\ UNCHANGED <<req, wanted>>

FrameLost(t) == Resume(t, "read") /\ BackOff(t) /\ UNCHANGED wanted

\* The frame comes too soon.
Throttled(t) ==
    /\ Resume(t, "read")
    /\ Suspend(t, "yield")
    /\ ready' = Append(Tail(ready), THandle(t))
    /\ UNCHANGED <<worker, req, wanted>>

\* The processors see no motion.
FrameSkipped(t) == Resume(t, "read") /\ Loop(t) /\ UNCHANGED wanted

FrameSent(t) ==
    /\ Resume(t, "read")
    /\ Suspend(t, "send")
    /\ ready' = Tail(ready)
    /\ UNCHANGED <<worker, req, wanted>>

\* A processor raises: the task ends with the exception, and nothing starts
\* the camera again.
ProcessorFails(t) ==
    /\ Resume(t, "read")
    /\ Finish(t)
    /\ wanted' = [wanted EXCEPT ![task[t].worker] = FALSE]

\* What a task waits for happens: the camera, a timer, the AI service.
Complete(t) ==
    /\ up /\ Live(t) /\ task[t].at \in Waiting
    /\ ~Contains(ready, THandle(t))
    /\ ready' = Append(ready, THandle(t))
    /\ UNCHANGED <<manager, worker, task, req, bounds, wanted, patched, overlapped>>

----------------------------------------------------------------------------
(* The control requests, each a task of its own                            *)

\* The next id of the cameras table: SQLite takes the largest in use, plus one.
NextId == 1 + Max({0} \cup {i \in Ids : db[i] # None})

InFlight(op) == {r \in Requests : req[r].phase # "idle" /\ req[r].op = op}

\* The bounds leave an id, a worker and a task for every request in flight.
Room(op) ==
    LET created(f) == Cardinality({x \in DOMAIN f : f[x] # None})
        adds == Cardinality(InFlight("add"))
    IN  /\ op = "add" => /\ NextId + adds <= MaxCameras
                         /\ created(worker) + adds < MaxCameras
        /\ op \in {"add", "start"} =>
              created(task) + adds + Cardinality(InFlight("start")) < MaxTasks

\* A client sends a request.
Arrive(r, op, id) ==
    /\ up /\ req[r].phase = "idle"
    /\ arrived + crashes < MaxRequests /\ Room(op)
    /\ req' = [req EXCEPT ![r] = [op |-> op, id |-> id, phase |-> "new", worker |-> None]]
    /\ ready' = Append(ready, RHandle(r))
    /\ arrived' = arrived + 1
    /\ overlapped' = overlapped \cup
          {i \in {id} : \E o \in Ops \ {"add"} : op # "add" /\ \E q \in InFlight(o) : req[q].id = i}
    /\ UNCHANGED <<manager, worker, task, crashes, wanted, patched>>

\* The first step of request r, whose operation is op.
Handle(r, op) ==
    /\ AtHead(RHandle(r))
    /\ req[r].phase = "new" /\ req[r].op = op
    /\ UNCHANGED <<up, bounds, overlapped>>

Respond(r) == req' = [req EXCEPT ![r] = Idle]

\* Mutant: whether a task runs is not looked at.
StartAgain(w, nw) ==
    LET t == FirstFree(task, Tasks) IN
    /\ task' = [task EXCEPT ![t] = NewTask(w)]
    /\ worker' = [worker EXCEPT ![w] = [nw EXCEPT !.task = t, !.stopEvent = FALSE]]
    /\ ready' = Append(Tail(ready), THandle(t))

\* CameraWorker.start
Start(w, nw) ==
    IF Running(w)
    THEN /\ worker' = [worker EXCEPT ![w] = nw]
         /\ ready' = Tail(ready)
         /\ UNCHANGED task
    ELSE LET t == FirstFree(task, Tasks) IN
         /\ task' = [task EXCEPT ![t] = NewTask(w)]
         /\ worker' = [worker EXCEPT ![w] = [nw EXCEPT !.task = t, !.stopEvent = FALSE]]
         /\ ready' = Append(Tail(ready), THandle(t))

\* CameraManager.add_camera
AddCamera(r) ==
    /\ Handle(r, "add")
    /\ \E row \in Row :
         LET id == NextId
             w == FirstFree(worker, Workers)
             t == FirstFree(task, Tasks)
             nw == NewWorker(id, row)
         IN  /\ db' = [db EXCEPT ![id] = row]
             /\ registry' = [registry EXCEPT ![id] = w]
             /\ wanted' = [wanted EXCEPT ![w] = row.enabled]
             /\ IF row.enabled
                THEN /\ worker' = [worker EXCEPT ![w] = [nw EXCEPT !.task = t]]
                     /\ task' = [task EXCEPT ![t] = NewTask(w)]
                     /\ ready' = Append(Tail(ready), THandle(t))
                ELSE /\ worker' = [worker EXCEPT ![w] = nw]
                     /\ ready' = Tail(ready)
                     /\ UNCHANGED task
    /\ Respond(r)
    /\ UNCHANGED patched

\* Mutant: the configuration changes in memory only.
SaveNothing(w) == UNCHANGED db

\* SQLiteCameraRepository.update: nothing when the row is gone.
Save(w) == db' = IF db[w.id] = None THEN db
                 ELSE [db EXCEPT ![w.id] = [enabled |-> w.enabled, url |-> w.url]]

\* _get_or_raise raises KeyError: 404
NotFound(r) ==
    /\ \E op \in Ops \ {"add"} : Handle(r, op)
    /\ registry[req[r].id] = None
    /\ Respond(r)
    /\ ready' = Tail(ready)
    /\ UNCHANGED <<db, registry, worker, task, wanted, patched>>

\* CameraManager.update_camera: the fields are set on the configuration and
\* saved; neither the task nor the source hears of them.
UpdateCamera(r) ==
    /\ Handle(r, "patch")
    /\ registry[req[r].id] # None
    /\ \E row \in Row :
         LET w == registry[req[r].id]
             nw == [worker[w] EXCEPT !.enabled = row.enabled, !.url = row.url]
         IN  /\ worker' = [worker EXCEPT ![w] = nw] /\ Save(nw)
             /\ patched' = IF row.enabled = worker[w].enabled THEN patched
                           ELSE patched \cup {w}
    /\ Respond(r)
    /\ ready' = Tail(ready)
    /\ UNCHANGED <<registry, task, wanted>>

\* CameraManager.start_camera
StartCamera(r) ==
    /\ Handle(r, "start")
    /\ registry[req[r].id] # None
    /\ LET w == registry[req[r].id]
           nw == [worker[w] EXCEPT !.enabled = TRUE]
       IN  /\ Start(w, nw)
           /\ Save(nw)
           /\ wanted' = [wanted EXCEPT ![w] = TRUE] /\ patched' = patched \ {w}
    /\ Respond(r)
    /\ UNCHANGED registry

\* CameraWorker.stop up to its await: cancel the task and wait for it.
AwaitStop(r) ==
    /\ \E op \in {"stop", "remove"} : Handle(r, op)
    /\ registry[req[r].id] # None
    /\ LET w == registry[req[r].id]
           t == worker[w].task
       IN  /\ Running(w)
           /\ worker' = [worker EXCEPT ![w].stopEvent = TRUE]
           /\ task' = [task EXCEPT ![t].cancelled = TRUE,
                                   ![t].waiters = Append(@, r)]
           /\ req' = [req EXCEPT ![r].phase = "awaiting", ![r].worker = w]
           /\ ready' = IF Contains(ready, THandle(t)) THEN Tail(ready)
                       ELSE Append(Tail(ready), THandle(t))
    /\ UNCHANGED <<db, registry, wanted, patched>>

\* The worker request r is stopping, once there is nothing to wait for.
Stopping(r) == IF req[r].phase = "woken" THEN req[r].worker ELSE registry[req[r].id]

StopDone(r, op) ==
    /\ AtHead(RHandle(r))
    /\ req[r].op = op
    /\ \/ req[r].phase = "woken"
       \/ /\ req[r].phase = "new"
          /\ registry[req[r].id] # None
          /\ ~Running(registry[req[r].id])
    /\ wanted' = [wanted EXCEPT ![Stopping(r)] = FALSE]
    /\ patched' = patched \ {Stopping(r)}
    /\ Respond(r)
    /\ ready' = Tail(ready)
    /\ UNCHANGED <<up, task, bounds, overlapped>>

\* CameraWorker.stop as it returns to request r.  The event was set before the
\* await, and is not set again after it.
Stopped(r) == [worker[Stopping(r)] EXCEPT !.stopEvent = @ \/ req[r].phase = "new",
                                          !.task = None, !.status = "stopped"]

\* The rest of CameraManager.stop_camera
StopCamera(r) ==
    /\ StopDone(r, "stop")
    /\ LET nw == [Stopped(r) EXCEPT !.enabled = FALSE] IN
       worker' = [worker EXCEPT ![Stopping(r)] = nw] /\ Save(nw)
    /\ UNCHANGED registry

\* The rest of CameraManager.remove_camera.  If another request has removed
\* the camera meanwhile, "del" raises KeyError: 404.
RemoveCamera(r) ==
    /\ StopDone(r, "remove")
    /\ worker' = [worker EXCEPT ![Stopping(r)] = Stopped(r)]
    /\ registry' = [registry EXCEPT ![req[r].id] = None]
    /\ db' = IF registry[req[r].id] = None THEN db ELSE [db EXCEPT ![req[r].id] = None]

----------------------------------------------------------------------------
(* The process                                                             *)

\* CameraManager.startup: a worker for each row, a task for each enabled one.
Startup ==
    LET enabled == {i \in Ids : db[i] # None /\ db[i].enabled} IN
    /\ ~up
    /\ up' = TRUE
    /\ registry' = [i \in Ids |-> IF db[i] = None THEN None ELSE i]
    /\ worker' = [i \in Ids |-> IF db[i] = None THEN None
                                ELSE [NewWorker(i, db[i]) EXCEPT
                                        !.task = IF i \in enabled THEN i ELSE None]]
    /\ task' = [t \in Tasks |-> IF t \in enabled THEN NewTask(t) ELSE None]
    /\ ready' = LET order == Ascending(enabled) IN
                [i \in 1..Len(order) |-> THandle(order[i])]
    /\ wanted' = [i \in Ids |-> i \in enabled]
    /\ patched' = {} /\ overlapped' = {}
    /\ UNCHANGED <<db, req, bounds>>

\* The process stops, in an orderly way (CameraManager.shutdown leaves the
\* table as it is) or not, with requests in flight: only the table stays.
Down ==
    /\ up' = FALSE
    /\ registry' = [i \in Ids |-> None]
    /\ worker' = [i \in Workers |-> None]
    /\ task' = [t \in Tasks |-> None]
    /\ ready' = <<>>
    /\ req' = [r \in Requests |-> Idle]
    /\ wanted' = [w \in Workers |-> FALSE]
    /\ patched' = {} /\ overlapped' = {}

Crash ==
    /\ up /\ crashes < MaxCrashes /\ arrived + crashes < MaxRequests
    /\ crashes' = crashes + 1 /\ Down
    /\ UNCHANGED <<db, arrived>>

----------------------------------------------------------------------------

Init ==
    /\ up = FALSE
    /\ \E n \in 0..1 : db \in {d \in [Ids -> Row \cup {None}] :
                                 \A i \in Ids : (d[i] = None) = (i > n)}
    /\ registry = [i \in Ids |-> None]
    /\ worker = [i \in Workers |-> None]
    /\ task = [t \in Tasks |-> None]
    /\ ready = <<>>
    /\ req = [r \in Requests |-> Idle]
    /\ arrived = 0 /\ crashes = 0
    /\ wanted = [w \in Workers |-> FALSE]
    /\ patched = {} /\ overlapped = {}

\* One turn of the event loop: the handle at the head of the queue runs.
RunTask(t) ==
    \/ CancelledUnstarted(t) \/ Cancelled(t) \/ GoRound(t)
    \/ ConnectFails(t) \/ Connected(t)
    \/ FrameLost(t) \/ Throttled(t) \/ FrameSkipped(t) \/ FrameSent(t)
    \/ ProcessorFails(t)

RunRequest(r) ==
    \/ AddCamera(r) \/ NotFound(r) \/ UpdateCamera(r) \/ StartCamera(r)
    \/ AwaitStop(r) \/ StopCamera(r) \/ RemoveCamera(r)

LoopTurn == (\E t \in Tasks : RunTask(t)) \/ (\E r \in Requests : RunRequest(r))

Next ==
    \/ LoopTurn
    \/ \E t \in Tasks : Complete(t)
    \/ \E r \in Requests : \/ Arrive(r, "add", 1)
                           \/ \E op \in Ops \ {"add"}, id \in Ids : Arrive(r, op, id)
    \/ Startup
    \/ Crash

Spec == Init /\ [][Next]_vars

\* The event loop keeps turning, what a task waits for ends (the reads, the
\* connection attempts and the AI requests have time limits), the process is
\* started again, and a camera that is tried again and again answers.
FairSpec ==
    /\ Spec
    /\ WF_vars(LoopTurn)
    /\ WF_vars(Startup)
    /\ \A t \in Tasks : WF_vars(Complete(t)) /\ SF_vars(Connected(t))

----------------------------------------------------------------------------
(* Properties                                                              *)

\* Every variable keeps the shape the code gives it; a handle is in the event
\* loop's queue at most once.
TypeOK ==
    /\ up \in BOOLEAN
    /\ db \in [Ids -> Row \cup {None}]
    /\ registry \in [Ids -> Workers \cup {None}]
    /\ worker \in [Workers -> Worker \cup {None}]
    /\ task \in [Tasks -> Task \cup {None}]
    /\ req \in [Requests -> Request]
    /\ arrived \in 0..MaxRequests /\ crashes \in 0..MaxCrashes
    /\ wanted \in [Workers -> BOOLEAN]
    /\ patched \subseteq Workers /\ overlapped \subseteq Ids
    /\ IsInjective(ready)

Alone(i) == i \notin overlapped
Quiet(i) == up /\ Alone(i) /\ \A o \in Ops \ {"add"} : \A r \in InFlight(o) : req[r].id # i

\* A camera's frames are read by at most one task, the one its registered
\* worker would cancel: as long as the requests for that camera came one at a
\* time, nothing a client, a failing camera or a processor did has left a task
\* nobody can stop (CameraWorker.start, stop; CameraManager.remove_camera).
NoOrphan ==
    \A t \in Tasks : Live(t) /\ Alone(worker[task[t].worker].id) =>
        LET w == task[t].worker IN
        registry[worker[w].id] = w /\ worker[w].task = t

\* Between requests a camera does what it was last started or stopped to do: it
\* has a task exactly when it was started, or added or loaded as enabled, and
\* not stopped since nor killed by a processor; a camera without a task says
\* that it is stopped.  A camera whose "enabled" a PATCH has changed since is
\* left out of the first: PatchTakesEffect is about it
\* (CameraManager.start_camera, stop_camera; CameraWorker._run).
ObeysLastRequest ==
    \A i \in Ids : Quiet(i) /\ registry[i] # None =>
        LET w == registry[i] IN
        /\ w \notin patched => (Running(w) <=> wanted[w])
        /\ ~Running(w) => worker[w].status = "stopped"

\* The table holds a row for each registered camera and for no other, and,
\* while its requests come one at a time, the row is the configuration in
\* memory, which is what the next start of the process will load.
TableIsMemory ==
    up => \A i \in Ids :
        /\ (db[i] = None) <=> (registry[i] = None)
        /\ Alone(i) /\ db[i] # None =>
              LET w == worker[registry[i]] IN
              db[i] = [enabled |-> w.enabled, url |-> w.url]

\* Every control request is answered: a stop or a removal, which waits for the
\* camera's task to end, does not wait for ever, whatever the task was waiting
\* for when it was cancelled and whoever else is stopping the camera.
RequestsReturn == \A r \in Requests : req[r].phase # "idle" ~> req[r].phase = "idle"

\* A camera that is to run, and not disabled by a PATCH, and can be reached is
\* always connected again: no lost frame, failed attempt or restart leaves it
\* in "connecting" or "error".
Reconnects ==
    \A w \in Workers :
        []<>(up /\ worker[w] # None /\ wanted[w] /\ w \notin patched /\ Alone(worker[w].id)
                => worker[w].status = "running")

\* "Stop frame extraction for a running camera." (docs/api-reference.md:554):
\* when no request is in flight, a camera last stopped has no task.
StopStops ==
    up /\ (\A r \in Requests : req[r].phase = "idle") =>
        \A t \in Tasks : Live(t) => wanted[task[t].worker]

\* "Enable or disable the camera processing."
\* (schemas/camera_update_request.py:16): between requests, a camera whose
\* "enabled" a PATCH has changed has a task exactly when it is enabled.
PatchTakesEffect ==
    \A i \in Ids : Quiet(i) /\ registry[i] # None =>
        LET w == registry[i] IN w \in patched => (Running(w) <=> worker[w].enabled)
=============================================================================

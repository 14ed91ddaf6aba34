------------------------ MODULE CameraLifecycleProofs ------------------------
(***************************************************************************)
(* What is proved of the camera workers, for any number of cameras,        *)
(* requests in flight, tasks and crashes.                                  *)
(*                                                                         *)
(* ShapeInv is true whoever asks for what: the types, that every runnable   *)
(* task and request is in the event loop's queue once, that who waits for a *)
(* task is on its list, that the registry, the table and the workers agree  *)
(* on which cameras there are, that nothing runs after a crash, and that    *)
(* there are tasks and workers enough.  That no worker is left with a task  *)
(* nobody can stop is not inductive: two requests to one camera break it.   *)
(* CameraInv says it, and that the camera is as it was last started or      *)
(* stopped, of a camera whose requests came one at a time; OverlapInv says  *)
(* that of such a camera no two requests are in flight, so that the one     *)
(* that acts finds nobody else half way.                                    *)
(***************************************************************************)
EXTENDS CameraLifecycle, ListLemmas

----------------------------------------------------------------------------
(* The event loop's queue                                                  *)

Handles == {THandle(t) : t \in Tasks} \cup {RHandle(r) : r \in Requests}

\* Two tasks or requests have two handles.
LEMMA HandlesDiffer ==
    /\ \A t, u : THandle(t) = THandle(u) => t = u
    /\ \A r, q : RHandle(r) = RHandle(q) => r = q
    /\ \A t, r : THandle(t) # RHandle(r)
BY DEF THandle, RHandle

\* What is in a list once its head is taken.
LEMMA TailOfList ==
    ASSUME NEW T, NEW s \in Seq(T), s # <<>>, IsInjective(s)
    PROVE  /\ Head(s) \in ToSet(s)
           /\ Tail(s) \in Seq(T) /\ IsInjective(Tail(s))
           /\ ToSet(Tail(s)) = ToSet(s) \ {Head(s)}
<1>1. /\ Len(s) \in Nat \ {0} /\ DOMAIN s = 1..Len(s)
      /\ Tail(s) \in Seq(T) /\ Len(Tail(s)) = Len(s) - 1 /\ DOMAIN Tail(s) = 1..(Len(s) - 1)
      /\ \A i \in 1..(Len(s) - 1) : Tail(s)[i] = s[i + 1]
      /\ Head(s) = s[1]
  OBVIOUS
<1>2. \A i, j \in 1..Len(s) : s[i] = s[j] => i = j
  BY <1>1 DEF IsInjective
<1>3. IsInjective(Tail(s))
  BY <1>1, <1>2 DEF IsInjective
<1>4. ASSUME NEW x \in ToSet(s), x # Head(s) PROVE x \in ToSet(Tail(s))
  <2>1. PICK i \in 1..Len(s) : s[i] = x
    BY <1>1 DEF ToSet
  <2>2. i - 1 \in 1..(Len(s) - 1) /\ Tail(s)[i - 1] = x
    BY <1>1, <1>4, <2>1
  <2> QED BY <1>1, <2>2 DEF ToSet
<1>5. ASSUME NEW x \in ToSet(Tail(s)) PROVE x \in ToSet(s) /\ x # Head(s)
  <2>1. PICK i \in 1..(Len(s) - 1) : Tail(s)[i] = x
    BY <1>1 DEF ToSet
  <2>2. i + 1 \in 1..Len(s) /\ s[i + 1] = x /\ i + 1 # 1 /\ 1 \in 1..Len(s)
    BY <1>1, <2>1
  <2>3. s[i + 1] # s[1]
    BY <1>2, <2>2
  <2> QED BY <1>1, <2>2, <2>3 DEF ToSet
<1>6. Head(s) \in ToSet(s)
  BY <1>1 DEF ToSet
<1> QED BY <1>1, <1>3, <1>4, <1>5, <1>6

\* What is in a list with an entry more.
LEMMA EntryMore ==
    ASSUME NEW T, NEW s \in Seq(T), IsInjective(s), NEW e \in T, e \notin ToSet(s)
    PROVE  /\ Append(s, e) \in Seq(T) /\ IsInjective(Append(s, e))
           /\ ToSet(Append(s, e)) = ToSet(s) \cup {e}
<1>1. /\ Len(s) \in Nat /\ DOMAIN s = 1..Len(s)
      /\ Append(s, e) \in Seq(T) /\ DOMAIN Append(s, e) = 1..(Len(s) + 1)
      /\ \A i \in 1..Len(s) : Append(s, e)[i] = s[i]
      /\ Append(s, e)[Len(s) + 1] = e
  OBVIOUS
<1>2. \A i \in DOMAIN Append(s, e) : i \in 1..Len(s) \/ i = Len(s) + 1
  BY <1>1
<1>3. \A i \in 1..Len(s) : s[i] # e
  BY <1>1 DEF ToSet
<1>4. \A i, j \in 1..Len(s) : s[i] = s[j] => i = j
  BY <1>1 DEF IsInjective
<1>5. IsInjective(Append(s, e))
  BY <1>1, <1>2, <1>3, <1>4 DEF IsInjective
<1>6. ToSet(Append(s, e)) = ToSet(s) \cup {e}
  BY <1>1, <1>2 DEF ToSet
<1> QED BY <1>1, <1>5, <1>6

\* What is in two lists one after the other.
LEMMA ListsJoined ==
    ASSUME NEW T, NEW s \in Seq(T), NEW u \in Seq(T), IsInjective(s), IsInjective(u),
           ToSet(s) \cap ToSet(u) = {}
    PROVE  /\ s \o u \in Seq(T) /\ IsInjective(s \o u)
           /\ ToSet(s \o u) = ToSet(s) \cup ToSet(u)
<1> DEFINE c == s \o u
<1>1. /\ Len(s) \in Nat /\ DOMAIN s = 1..Len(s) /\ Len(u) \in Nat /\ DOMAIN u = 1..Len(u)
      /\ c \in Seq(T) /\ DOMAIN c = 1..(Len(s) + Len(u))
      /\ \A i \in 1..Len(s) : c[i] = s[i]
      /\ \A i \in (Len(s) + 1)..(Len(s) + Len(u)) : c[i] = u[i - Len(s)]
  OBVIOUS
<1> HIDE DEF c
<1>2. \A i, j \in 1..Len(s) : s[i] = s[j] => i = j
  BY <1>1 DEF IsInjective
<1>3. \A i, j \in 1..Len(u) : u[i] = u[j] => i = j
  BY <1>1 DEF IsInjective
<1>4. \A i \in 1..Len(s), j \in 1..Len(u) : s[i] # u[j]
  BY <1>1 DEF ToSet
<1>5. ASSUME NEW i \in DOMAIN c
      PROVE  \/ i \in 1..Len(s) /\ c[i] = s[i]
             \/ i - Len(s) \in 1..Len(u) /\ c[i] = u[i - Len(s)]
  BY <1>1
<1>6. IsInjective(c)
  <2>1. SUFFICES ASSUME NEW i \in DOMAIN c, NEW j \in DOMAIN c, c[i] = c[j] PROVE i = j
    BY DEF IsInjective
  <2>2. i \in Int /\ j \in Int
    BY <1>1
  <2>3. CASE i \in 1..Len(s) /\ c[i] = s[i]
    BY <1>2, <1>4, <1>5, <2>1, <2>3
  <2>4. CASE i - Len(s) \in 1..Len(u) /\ c[i] = u[i - Len(s)]
    <3>1. CASE j \in 1..Len(s) /\ c[j] = s[j]
      BY <1>4, <2>1, <2>4, <3>1
    <3>2. CASE j - Len(s) \in 1..Len(u) /\ c[j] = u[j - Len(s)]
      <4>1. i - Len(s) = j - Len(s)
        BY <1>3, <2>1, <2>4, <3>2
      <4> QED BY <1>1, <2>2, <4>1
    <3> QED BY <1>5, <3>1, <3>2
  <2> QED BY <1>5, <2>3, <2>4
<1>7. ToSet(c) = ToSet(s) \cup ToSet(u)
  <2>1. ASSUME NEW x \in ToSet(c) PROVE x \in ToSet(s) \cup ToSet(u)
    BY <1>1, <1>5 DEF ToSet
  <2>2. ASSUME NEW i \in 1..Len(s) PROVE s[i] \in ToSet(c)
    BY <1>1 DEF ToSet
  <2>3. ASSUME NEW j \in 1..Len(u) PROVE u[j] \in ToSet(c)
    <3>1. j + Len(s) \in DOMAIN c /\ c[j + Len(s)] = u[j]
      BY <1>1
    <3> QED BY <3>1 DEF ToSet
  <2>4. ToSet(s) \cup ToSet(u) \subseteq ToSet(c)
    BY <1>1, <2>2, <2>3 DEF ToSet
  <2> QED BY <2>1, <2>4
<1> QED BY <1>1, <1>6, <1>7 DEF c

\* A list contains what is in it.
LEMMA ContainedIn ==
    ASSUME NEW T, NEW s \in Seq(T), NEW e
    PROVE  Contains(s, e) <=> e \in ToSet(s)
BY DEF Contains, ToSet

----------------------------------------------------------------------------
(* The invariant                                                           *)

BasicInv ==
    /\ up \in BOOLEAN
    /\ db \in [Ids -> Row \cup {None}]
    /\ registry \in [Ids -> Workers \cup {None}]
    /\ worker \in [Workers -> Worker \cup {None}]
    /\ task \in [Tasks -> Task \cup {None}]
    /\ req \in [Requests -> Request]
    /\ arrived \in 0..MaxRequests /\ crashes \in 0..MaxCrashes
    /\ wanted \in [Workers -> BOOLEAN]
    /\ overlapped \subseteq Ids

\* The event loop has each task and each request at most once; a task it has is not
\* over, and the requests it has are those that have arrived or been woken.
QueueInv ==
    /\ ready \in Seq(Handles) /\ IsInjective(ready)
    /\ \A t \in Tasks : THandle(t) \in ToSet(ready) => Live(t)
    /\ \A r \in Requests :
          RHandle(r) \in ToSet(ready) <=> req[r].phase \in {"new", "woken"}

\* Who awaits a task has cancelled it, awaits no other, and stops its worker.
WaitInv ==
    /\ \A t \in Tasks : task[t] # None =>
          /\ IsInjective(task[t].waiters)
          /\ Live(t) /\ task[t].cancelled => task[t].waiters # <<>>
          /\ \A r \in ToSet(task[t].waiters) :
                /\ Live(t) /\ task[t].cancelled
                /\ req[r].phase = "awaiting" /\ req[r].worker = task[t].worker
    /\ \A t, u \in Tasks : task[t] # None /\ task[u] # None /\ t # u =>
          ToSet(task[t].waiters) \cap ToSet(task[u].waiters) = {}

Pending(r) == req[r].phase \in {"awaiting", "woken"}

\* What the manager, its workers, their tasks and the requests say of each other.
LinkInv ==
    /\ \A i \in Ids : registry[i] # None =>
          worker[registry[i]] # None /\ worker[registry[i]].id = i
    /\ \A w \in Workers : worker[w] # None /\ worker[w].task # None =>
          task[worker[w].task] # None /\ task[worker[w].task].worker = w
    /\ \A t \in Tasks : task[t] # None => worker[task[t].worker] # None
    /\ \A r \in Requests : Pending(r) =>
          /\ req[r].op \in {"stop", "remove"}
          /\ req[r].worker # None /\ worker[req[r].worker] # None
          /\ worker[req[r].worker].id = req[r].id
    /\ up => \A i \in Ids : db[i] = None <=> registry[i] = None

\* Nothing is left of a process that has stopped.
DownInv ==
    ~up => /\ ready = <<>>
           /\ \A r \in Requests : req[r].phase = "idle"
           /\ \A i \in Ids : registry[i] = None
           /\ \A w \in Workers : worker[w] = None
           /\ \A t \in Tasks : task[t] = None

\* The requests in flight find room for what they create.
Made(f) == {x \in DOMAIN f : f[x] # None}
RoomInv ==
    /\ Cardinality(Made(worker)) + Cardinality(InFlight("add")) <= MaxCameras
    /\ Cardinality(Made(task)) + Cardinality(InFlight("add"))
          + Cardinality(InFlight("start")) <= MaxTasks
    /\ NextId + Cardinality(InFlight("add")) <= MaxCameras + 1

\* Two requests in flight for one camera are noted.
OverlapInv ==
    \A r, q \in Requests :
        /\ r # q /\ req[r].phase # "idle" /\ req[q].phase # "idle"
        /\ req[r].op # "add" /\ req[q].op # "add" /\ req[r].id = req[q].id
        => req[r].id \in overlapped

\* A camera whose requests came one at a time: its live tasks are its registered worker's
\* one task; ...
TasksKnown(i) ==
    \A t \in Tasks : Live(t) /\ worker[task[t].worker].id = i =>
       registry[i] = task[t].worker /\ worker[task[t].worker].task = t

\* ... a request that waits for it to stop waits for that worker, which has no task once
\* the request is woken; ...
WaitsKnown(i) ==
    \A r \in Requests : Pending(r) /\ req[r].id = i =>
       registry[i] = req[r].worker /\ (req[r].phase = "woken" => ~Running(req[r].worker))

\* ... and the worker is as it was asked to be, but for a request that is about to say so.
AsAsked(i) ==
    registry[i] # None =>
       LET w == registry[i] IN
       /\ Running(w) => /\ wanted[w]
                        /\ worker[w].stopEvent => task[worker[w].task].cancelled
                        /\ task[worker[w].task].at = "new" => worker[w].status = "stopped"
       /\ ~Running(w) =>
             /\ worker[w].status = "stopped"
             /\ wanted[w] => \E r \in Requests : req[r].phase = "woken" /\ req[r].worker = w
       /\ db[i] = [enabled |-> worker[w].enabled, url |-> worker[w].url]

CameraInv(i) == TasksKnown(i) /\ WaitsKnown(i) /\ AsAsked(i)
CamerasInv == \A i \in Ids : Alone(i) => CameraInv(i)

\* What holds of the workers whoever asks for what, and with it what holds of a camera
\* whose requests came one at a time.
ShapeInv == BasicInv /\ QueueInv /\ WaitInv /\ LinkInv /\ DownInv /\ RoomInv
LifeInv == ShapeInv /\ OverlapInv /\ CamerasInv

----------------------------------------------------------------------------
(* The steps of a task, in two kinds                                       *)

\* It goes on to another await, having set the worker's status or not.
Moves(t) ==
    /\ AtHead(THandle(t))
    /\ \E at \in Points \ {"new", "done"} : task' = [task EXCEPT ![t].at = at]
    /\ \E s \in Statuses : worker' = [worker EXCEPT ![task[t].worker].status = s]
    /\ ready' = Tail(ready) \/ ready' = Append(Tail(ready), THandle(t))
    /\ UNCHANGED <<manager, req, bounds, wanted, overlapped>>

\* It ends: cancelled, told to stop, or killed by a processor.
Ends(t) ==
    /\ AtHead(THandle(t)) /\ End(t)
    /\ \/ worker' = worker /\ task[t].at = "new"
       \/ worker' = [worker EXCEPT ![task[t].worker].status = "stopped"]
    /\ \/ wanted' = [wanted EXCEPT ![task[t].worker] = FALSE]
       \/ wanted' = wanted /\ (task[t].cancelled \/ worker[task[t].worker].stopEvent)
    /\ UNCHANGED <<manager, bounds, overlapped>>

\* The handle at the head is in the queue, and its task is not over.
LEMMA HeadIsLive ==
    ASSUME ShapeInv, NEW t \in Tasks, AtHead(THandle(t))
    PROVE  /\ Live(t) /\ task[t] \in Task /\ task[t].worker \in Workers
           /\ worker[task[t].worker] # None /\ worker[task[t].worker] \in Worker
<1>1. THandle(t) \in ToSet(ready)
  BY TailOfList DEF AtHead, ShapeInv, QueueInv
<1>2. Live(t) /\ task[t] \in Task
  BY <1>1 DEF ShapeInv, QueueInv, Live, BasicInv
<1>3. task[t].worker \in Workers
  BY <1>2 DEF Task
<1> QED BY <1>2, <1>3 DEF ShapeInv, LinkInv, BasicInv, Live

\* Setting the status to what it is changes nothing.
LEMMA StatusKept ==
    ASSUME ShapeInv, NEW w \in Workers, worker[w] \in Worker
    PROVE  worker = [worker EXCEPT ![w].status = worker[w].status] /\ worker[w].status \in Statuses
<1>1. worker[w] = [worker[w] EXCEPT !.status = worker[w].status]
  BY DEF Worker
<1>2. worker \in [Workers -> Worker \cup {None}]
  BY DEF ShapeInv, BasicInv
<1>3. worker[w].status \in Statuses
  BY DEF Worker
<1> QED BY <1>1, <1>2, <1>3

\* Every step of a task is of one of the kinds.
LEMMA TaskKinds ==
    ASSUME ShapeInv, NEW t \in Tasks, RunTask(t)
    PROVE  Moves(t) \/ Ends(t)
<1>1. AtHead(THandle(t)) /\ UNCHANGED <<manager, bounds, overlapped>>
  BY DEF RunTask, CancelledUnstarted, Cancelled, GoRound, ConnectFails, Connected, FrameLost,
         Throttled, FrameSkipped, FrameSent, ProcessorFails, Resume, TaskStep
<1>2. /\ task[t].worker \in Workers /\ worker[task[t].worker] \in Worker
  BY <1>1, HeadIsLive
<1>3. \E s \in Statuses : worker = [worker EXCEPT ![task[t].worker].status = s]
  BY <1>2, StatusKept
<1>4. ASSUME BackOff(t), wanted' = wanted PROVE Moves(t)
  <2>1. "error" \in Statuses /\ "backoff" \in Points \ {"new", "done"}
    BY DEF Statuses, Points
  <2> QED BY <1>1, <1>4, <2>1 DEF BackOff, SetStatus, Suspend, Moves
<1>5. ASSUME Loop(t), wanted' = wanted PROVE Moves(t) \/ Ends(t)
  <2>1. CASE worker[task[t].worker].stopEvent
    BY <1>1, <1>5, <2>1 DEF Loop, Finish, SetStatus, Ends
  <2>2. CASE ~worker[task[t].worker].stopEvent
    <3>1. /\ "connecting" \in Statuses /\ "connect" \in Points \ {"new", "done"}
          /\ "read" \in Points \ {"new", "done"}
      BY DEF Statuses, Points
    <3>2. ready' = Tail(ready) /\ req' = req
      BY <1>5, <2>2 DEF Loop
    <3>3. CASE worker[task[t].worker].status \in {"stopped", "error"}
      BY <1>1, <1>5, <2>2, <3>1, <3>2, <3>3 DEF Loop, SetStatus, Suspend, Moves
    <3>4. CASE worker[task[t].worker].status \notin {"stopped", "error"}
      <4>1. task' = [task EXCEPT ![t].at = "read"] /\ worker' = worker
        BY <1>5, <2>2, <3>4 DEF Loop, Suspend
      <4> QED BY <1>1, <1>3, <1>5, <3>1, <3>2, <4>1 DEF Moves
    <3> QED BY <3>3, <3>4
  <2> QED BY <2>1, <2>2
<1>6. CASE CancelledUnstarted(t)
  BY <1>1, <1>6 DEF CancelledUnstarted, Ends
<1>7. CASE Cancelled(t)
  BY <1>1, <1>7 DEF Cancelled, Finish, SetStatus, Ends
<1>8. CASE GoRound(t) \/ FrameSkipped(t)
  BY <1>5, <1>8 DEF GoRound, FrameSkipped
<1>9. CASE ConnectFails(t) \/ FrameLost(t)
  BY <1>4, <1>9 DEF ConnectFails, FrameLost
<1>10. CASE Connected(t)
  <2>1. "running" \in Statuses /\ "read" \in Points \ {"new", "done"}
    BY DEF Statuses, Points
  <2> QED BY <1>1, <1>10, <2>1 DEF Connected, SetStatus, Suspend, Moves
<1>11. CASE Throttled(t) \/ FrameSent(t)
  <2>1. "yield" \in Points \ {"new", "done"} /\ "send" \in Points \ {"new", "done"}
    BY DEF Points
  <2> QED BY <1>1, <1>3, <1>11, <2>1 DEF Throttled, FrameSent, Suspend, Moves
<1>12. CASE ProcessorFails(t)
  BY <1>1, <1>12 DEF ProcessorFails, Finish, SetStatus, Ends
<1> QED BY <1>6, <1>7, <1>8, <1>9, <1>10, <1>11, <1>12 DEF RunTask

\* What a step of the first kind leaves as it was.
LEMMA MovesEffect ==
    ASSUME ShapeInv, NEW t \in Tasks, Moves(t), NEW w, w = task[t].worker
    PROVE  /\ w \in Workers /\ worker[w] # None /\ Live(t)
           /\ task' \in [Tasks -> Task \cup {None}] /\ task'[t] # None /\ Live(t)'
           /\ \A u \in Tasks : u # t => task'[u] = task[u]
           /\ task'[t].worker = w /\ task'[t].cancelled = task[t].cancelled
           /\ task'[t].waiters = task[t].waiters /\ task'[t].at # "new"
           /\ worker' \in [Workers -> Worker \cup {None}] /\ worker'[w] # None
           /\ \A v \in Workers : v # w => worker'[v] = worker[v]
           /\ worker'[w].id = worker[w].id /\ worker'[w].task = worker[w].task
           /\ worker'[w].enabled = worker[w].enabled /\ worker'[w].url = worker[w].url
           /\ worker'[w].stopEvent = worker[w].stopEvent
           /\ UNCHANGED <<up, db, registry, req, arrived, crashes, wanted, overlapped>>
<1>1. Live(t) /\ task[t] \in Task /\ w \in Workers /\ worker[w] # None /\ worker[w] \in Worker
  BY HeadIsLive DEF Moves
<1>2. task \in [Tasks -> Task \cup {None}] /\ worker \in [Workers -> Worker \cup {None}]
  BY DEF ShapeInv, BasicInv
<1>3. PICK at \in Points \ {"new", "done"} : task' = [task EXCEPT ![t].at = at]
  BY DEF Moves
<1>4. PICK k : k = [task[t] EXCEPT !.at = at]
  OBVIOUS
<1>5. /\ k \in Task /\ k.at = at /\ k.worker = w /\ k.cancelled = task[t].cancelled
      /\ k.waiters = task[t].waiters
  BY <1>1, <1>4 DEF Task
<1>6. task' = [task EXCEPT ![t] = k] /\ k # None
  BY <1>3, <1>4, <1>5, NoneAssumption
<1>7. PICK s \in Statuses : worker' = [worker EXCEPT ![w].status = s]
  BY DEF Moves
<1>8. PICK c : c = [worker[w] EXCEPT !.status = s]
  OBVIOUS
<1>9. /\ c \in Worker /\ c.id = worker[w].id /\ c.task = worker[w].task
      /\ c.enabled = worker[w].enabled /\ c.url = worker[w].url
      /\ c.stopEvent = worker[w].stopEvent
  BY <1>1, <1>8 DEF Worker
<1>10. worker' = [worker EXCEPT ![w] = c] /\ c # None
  BY <1>7, <1>8, <1>9, NoneAssumption
<1>11. UNCHANGED <<up, db, registry, req, arrived, crashes, wanted, overlapped>>
  BY DEF Moves, manager, bounds
<1>12. /\ task' \in [Tasks -> Task \cup {None}] /\ task'[t] = k
       /\ \A u \in Tasks : u # t => task'[u] = task[u]
  BY <1>2, <1>5, <1>6
<1>13. /\ worker' \in [Workers -> Worker \cup {None}] /\ worker'[w] = c
       /\ \A v \in Workers : v # w => worker'[v] = worker[v]
  BY <1>1, <1>2, <1>9, <1>10
<1>14. Live(t)'
  BY <1>5, <1>6, <1>12 DEF Live
<1> QED BY <1>1, <1>5, <1>6, <1>9, <1>10, <1>11, <1>12, <1>13, <1>14

\* The queue after a step that takes the head and may append a handle that is not in it.
LEMMA QueueTurns ==
    ASSUME QueueInv, ready # <<>>, NEW new,
           \/ ready' = Tail(ready) /\ new = {}
           \/ \E h \in Handles : /\ ready' = Append(Tail(ready), h) /\ new = {h}
                                 /\ h \notin ToSet(ready) \/ h = Head(ready)
    PROVE  /\ ready' \in Seq(Handles) /\ IsInjective(ready')
           /\ ToSet(ready') = (ToSet(ready) \ {Head(ready)}) \cup new
           /\ Head(ready) \in ToSet(ready)
<1>1. /\ Head(ready) \in ToSet(ready)
      /\ Tail(ready) \in Seq(Handles) /\ IsInjective(Tail(ready))
      /\ ToSet(Tail(ready)) = ToSet(ready) \ {Head(ready)}
  BY TailOfList DEF QueueInv
<1>2. CASE ready' = Tail(ready) /\ new = {}
  BY <1>1, <1>2
<1>3. ASSUME NEW h \in Handles, ready' = Append(Tail(ready), h), new = {h},
             h \notin ToSet(ready) \/ h = Head(ready)
      PROVE  /\ ready' \in Seq(Handles) /\ IsInjective(ready')
             /\ ToSet(ready') = (ToSet(ready) \ {Head(ready)}) \cup new
  <2>1. h \notin ToSet(Tail(ready))
    BY <1>1, <1>3
  <2>2. /\ Append(Tail(ready), h) \in Seq(Handles) /\ IsInjective(Append(Tail(ready), h))
        /\ ToSet(Append(Tail(ready), h)) = ToSet(Tail(ready)) \cup {h}
    <3>1. PICK s : s = Tail(ready)
      OBVIOUS
    <3>2. s \in Seq(Handles) /\ IsInjective(s) /\ h \notin ToSet(s)
      BY <1>1, <2>1, <3>1
    <3>3. /\ Append(s, h) \in Seq(Handles) /\ IsInjective(Append(s, h))
          /\ ToSet(Append(s, h)) = ToSet(s) \cup {h}
      BY <3>2, EntryMore
    <3> QED BY <3>1, <3>3
  <2> QED BY <1>1, <1>3, <2>2
<1> QED BY <1>1, <1>2, <1>3

\* The room that the requests in flight find stays while nothing is created for them.
LEMMA RoomKept ==
    ASSUME RoomInv, BasicInv, NextId' <= NextId, NextId \in Int, NextId' \in Int,
           Made(worker)' \subseteq Made(worker), Made(task)' \subseteq Made(task),
           InFlight("add")' \subseteq InFlight("add"), InFlight("start")' \subseteq InFlight("start")
    PROVE  RoomInv'
<1>1. /\ IsFiniteSet(Made(worker)) /\ IsFiniteSet(Made(task))
  <2>1. Made(worker) \in SUBSET Workers /\ Made(task) \in SUBSET Tasks
    BY DEF BasicInv, Made
  <2>2. IsFiniteSet(Workers) /\ IsFiniteSet(Tasks)
    <3>1. 1 \in Int /\ MaxCameras \in Int /\ MaxTasks \in Int
      BY BoundAssumption
    <3>2. IsFiniteSet(1..MaxCameras) /\ IsFiniteSet(1..MaxTasks)
      BY <3>1, FS_Interval
    <3> QED BY <3>2 DEF Workers, Tasks
  <2> QED BY <2>1, <2>2, FS_Subset
<1>2. \A op : IsFiniteSet(InFlight(op))
  BY BoundAssumption, FS_Subset DEF InFlight
<1>3. /\ Cardinality(Made(worker)) \in Nat /\ Cardinality(Made(worker)') \in Nat
      /\ Cardinality(Made(worker)') <= Cardinality(Made(worker))
      /\ Cardinality(Made(task)) \in Nat /\ Cardinality(Made(task)') \in Nat
      /\ Cardinality(Made(task)') <= Cardinality(Made(task))
  BY <1>1, FS_Subset, FS_CardinalityType
<1>4. /\ Cardinality(InFlight("add")) \in Nat /\ Cardinality(InFlight("add")') \in Nat
      /\ Cardinality(InFlight("add")') <= Cardinality(InFlight("add"))
      /\ Cardinality(InFlight("start")) \in Nat /\ Cardinality(InFlight("start")') \in Nat
      /\ Cardinality(InFlight("start")') <= Cardinality(InFlight("start"))
  BY <1>2, FS_Subset, FS_CardinalityType
<1>5. RoomInv' <=> /\ Cardinality(Made(worker)') + Cardinality(InFlight("add")') <= MaxCameras
                   /\ Cardinality(Made(task)') + Cardinality(InFlight("add")')
                         + Cardinality(InFlight("start")') <= MaxTasks
                   /\ NextId' + Cardinality(InFlight("add")') <= MaxCameras + 1
  BY DEF RoomInv
<1>6. MaxCameras \in Int /\ MaxTasks \in Int
  BY BoundAssumption
<1> QED BY <1>3, <1>4, <1>5, <1>6 DEF RoomInv

\* The next id is in reach of the table.
LEMMA NextIdType ==
    ASSUME NEW d
    PROVE  LET D == {i \in Ids : d[i] # None}
           IN  /\ Max({0} \cup D) \in {0} \cup D
               /\ \A i \in {0} \cup D : i <= Max({0} \cup D)
<1> DEFINE D == {i \in Ids : d[i] # None}
           S == {0} \cup D
           T == {MaxCameras - i : i \in S}
<1>1. MaxCameras \in Nat /\ \A i \in S : i \in Int /\ 0 <= i /\ i <= MaxCameras
  BY BoundAssumption DEF Ids
<1>2. T \in SUBSET Nat /\ T # {}
  BY <1>1
<1>3. PICK x \in T : \A y \in T : x <= y
  BY <1>2, LeastNatural
<1>4. PICK m \in S : x = MaxCameras - m
  OBVIOUS
<1>5. \A i \in S : MaxCameras - m <= MaxCameras - i
  BY <1>3, <1>4
<1>6. \A i \in S : m >= i
  <2> HIDE DEF S, T
  <2> QED BY <1>1, <1>5
<1> HIDE DEF S
<1>7. Max(S) \in S /\ \A i \in S : Max(S) >= i
  BY <1>6 DEF Max
<1>8. \A i \in S : i <= Max(S)
  BY <1>1, <1>7
<1> QED BY <1>7, <1>8 DEF S

\* The same, from what each thing was and is.
LEMMA RoomStays ==
    ASSUME RoomInv, BasicInv, BasicInv',
           \A i \in Ids : db'[i] # None => db[i] # None,
           \A w \in Workers : worker'[w] # None => worker[w] # None,
           \A t \in Tasks : task'[t] # None => task[t] # None,
           \A r \in Requests : req'[r].phase # "idle" =>
              req[r].phase # "idle" /\ req'[r].op = req[r].op
    PROVE  RoomInv'
<1>1. NextId \in Int /\ NextId' \in Int /\ NextId' <= NextId
  <2> DEFINE D == {i \in Ids : db[i] # None}
             E == {i \in Ids : db'[i] # None}
  <2>1. /\ Max({0} \cup D) \in {0} \cup D /\ \A i \in {0} \cup D : i <= Max({0} \cup D)
        /\ Max({0} \cup E) \in {0} \cup E
    BY NextIdType
  <2>2. NextId = 1 + Max({0} \cup D) /\ NextId' = 1 + Max({0} \cup E)
    BY DEF NextId
  <2>3. E \subseteq D /\ D \subseteq Int
    BY DEF Ids
  <2> HIDE DEF D, E
  <2>4. PICK m, n : m = Max({0} \cup D) /\ n = Max({0} \cup E)
    OBVIOUS
  <2>5. m \in {0} \cup D /\ n \in {0} \cup E /\ \A i \in {0} \cup D : i <= m
    BY <2>1, <2>4
  <2>6. n \in {0} \cup D
    BY <2>3, <2>5
  <2>7. m \in Int /\ n \in Int /\ n <= m
    BY <2>3, <2>5, <2>6
  <2> QED BY <2>2, <2>4, <2>7
<1>2. Made(worker)' \subseteq Made(worker) /\ Made(task)' \subseteq Made(task)
  BY DEF BasicInv, Made
<1>3. InFlight("add")' \subseteq InFlight("add") /\ InFlight("start")' \subseteq InFlight("start")
  BY DEF InFlight
<1> QED BY <1>1, <1>2, <1>3, RoomKept

\* A step of the first kind keeps the shape of everything.
LEMMA MovesShape ==
    ASSUME ShapeInv, NEW t \in Tasks, Moves(t)
    PROVE  ShapeInv'
<1> DEFINE w == task[t].worker
<1> HIDE DEF w
<1>1. /\ w \in Workers /\ worker[w] # None /\ Live(t)
      /\ task' \in [Tasks -> Task \cup {None}] /\ task'[t] # None /\ Live(t)'
      /\ \A u \in Tasks : u # t => task'[u] = task[u]
      /\ task'[t].worker = w /\ task'[t].cancelled = task[t].cancelled
      /\ task'[t].waiters = task[t].waiters
      /\ worker' \in [Workers -> Worker \cup {None}] /\ worker'[w] # None
      /\ \A v \in Workers : v # w => worker'[v] = worker[v]
      /\ worker'[w].id = worker[w].id /\ worker'[w].task = worker[w].task
      /\ UNCHANGED <<up, db, registry, req, arrived, crashes, wanted, overlapped>>
  BY MovesEffect DEF w
<1>2. w = task[t].worker /\ task[t] # None
  BY <1>1 DEF w, Live
<1>3. BasicInv'
  BY <1>1 DEF ShapeInv, BasicInv
<1>4. QueueInv'
  <2>1. up /\ ready # <<>> /\ Head(ready) = THandle(t) /\ THandle(t) \in Handles
    BY DEF Moves, AtHead, Handles
  <2>2. PICK new : /\ new \subseteq {THandle(t)}
                   /\ \/ ready' = Tail(ready) /\ new = {}
                      \/ ready' = Append(Tail(ready), THandle(t)) /\ new = {THandle(t)}
    <3>1. CASE ready' = Tail(ready)
      <4>1. {} \subseteq {THandle(t)}
        OBVIOUS
      <4> QED BY <3>1, <4>1
    <3>2. CASE ready' = Append(Tail(ready), THandle(t))
      <4>1. {THandle(t)} \subseteq {THandle(t)}
        OBVIOUS
      <4> QED BY <3>2, <4>1
    <3> QED BY <3>1, <3>2 DEF Moves
  <2>3. /\ ready' \in Seq(Handles) /\ IsInjective(ready')
        /\ ToSet(ready') = (ToSet(ready) \ {THandle(t)}) \cup new
    BY <2>1, <2>2, QueueTurns DEF ShapeInv
  <2>4. ASSUME NEW u \in Tasks, THandle(u) \in ToSet(ready') PROVE Live(u)'
    <3>1. CASE u = t
      BY <1>1, <3>1
    <3>2. CASE u # t
      <4>1. THandle(u) \in ToSet(ready)
        BY <2>2, <2>3, <2>4, <3>2, HandlesDiffer
      <4> QED BY <1>1, <3>2, <4>1 DEF ShapeInv, QueueInv, Live
    <3> QED BY <3>1, <3>2
  <2>5. ASSUME NEW r \in Requests
        PROVE  RHandle(r) \in ToSet(ready') <=> RHandle(r) \in ToSet(ready)
    BY <2>2, <2>3, HandlesDiffer
  <2> QED BY <1>1, <2>3, <2>4, <2>5 DEF ShapeInv, QueueInv
<1>5. WaitInv'
  <2>1. ASSUME NEW u \in Tasks, task'[u] # None
        PROVE  /\ task[u] # None /\ task'[u].waiters = task[u].waiters
               /\ task'[u].worker = task[u].worker /\ task'[u].cancelled = task[u].cancelled
               /\ Live(u)' <=> Live(u)
    BY <1>1, <1>2, <2>1 DEF Live
  <2>2. WaitInv
    BY DEF ShapeInv
  <2>3. ASSUME NEW u \in Tasks, task'[u] # None
        PROVE  /\ IsInjective(task'[u].waiters)
               /\ Live(u)' /\ task'[u].cancelled => task'[u].waiters # <<>>
               /\ \A r \in ToSet(task'[u].waiters) :
                     /\ Live(u)' /\ task'[u].cancelled
                     /\ req'[r].phase = "awaiting" /\ req'[r].worker = task'[u].worker
    BY <1>1, <2>1, <2>2, <2>3 DEF WaitInv
  <2>4. \A u, v \in Tasks : task'[u] # None /\ task'[v] # None /\ u # v =>
           ToSet(task'[u].waiters) \cap ToSet(task'[v].waiters) = {}
    BY <2>1, <2>2 DEF WaitInv
  <2> QED BY <2>3, <2>4 DEF WaitInv
<1>6. LinkInv'
  <2>1. \A i \in Ids : registry[i] # None => registry[i] \in Workers
    BY DEF ShapeInv, BasicInv
  <2>2. \A v \in Workers : worker[v] # None /\ worker[v].task # None => worker[v].task \in Tasks
    BY DEF ShapeInv, BasicInv, Worker
  <2>3. \A u \in Tasks : task[u] # None => task[u].worker \in Workers
    BY DEF ShapeInv, BasicInv, Task
  <2>4. \A r \in Requests : req[r].worker # None => req[r].worker \in Workers
    BY DEF ShapeInv, BasicInv, Request
  <2> QED BY <1>1, <1>2, <2>1, <2>2, <2>3, <2>4 DEF ShapeInv, LinkInv, Pending
<1>7. DownInv'
  BY <1>1 DEF Moves, AtHead, DownInv
<1>8. RoomInv'
  BY <1>1, <1>2, <1>3, RoomStays DEF ShapeInv
<1> QED BY <1>3, <1>4, <1>5, <1>6, <1>7, <1>8 DEF ShapeInv

\* What a task that ends leaves behind.
LEMMA EndsEffect ==
    ASSUME ShapeInv, NEW t \in Tasks, Ends(t), NEW w, w = task[t].worker,
           NEW woken, woken = task[t].waiters
    PROVE  /\ w \in Workers /\ worker[w] # None /\ Live(t) /\ woken \in Seq(Requests)
           /\ task' \in [Tasks -> Task \cup {None}] /\ task'[t] # None /\ ~Live(t)'
           /\ \A u \in Tasks : u # t => task'[u] = task[u]
           /\ task'[t].worker = w /\ task'[t].waiters = <<>>
           /\ worker' \in [Workers -> Worker \cup {None}] /\ worker'[w] # None
           /\ \A v \in Workers : v # w => worker'[v] = worker[v]
           /\ worker'[w].id = worker[w].id /\ worker'[w].task = worker[w].task
           /\ worker'[w].enabled = worker[w].enabled /\ worker'[w].url = worker[w].url
           /\ worker'[w].stopEvent = worker[w].stopEvent
           /\ \/ worker'[w].status = "stopped"
              \/ task[t].at = "new" /\ worker' = worker
           /\ req' \in [Requests -> Request]
           /\ \A r \in Requests : r \notin ToSet(woken) => req'[r] = req[r]
           /\ \A r \in ToSet(woken) : /\ req'[r].phase = "woken" /\ req'[r].op = req[r].op
                                      /\ req'[r].id = req[r].id /\ req'[r].worker = req[r].worker
           /\ UNCHANGED <<up, db, registry, arrived, crashes, overlapped>>
           /\ wanted' \in [Workers -> BOOLEAN]
           /\ \A v \in Workers : v # w => wanted'[v] = wanted[v]
<1>1. Live(t) /\ task[t] \in Task /\ w \in Workers /\ worker[w] # None /\ worker[w] \in Worker
  BY HeadIsLive DEF Ends
<1>2. /\ task \in [Tasks -> Task \cup {None}] /\ worker \in [Workers -> Worker \cup {None}]
      /\ req \in [Requests -> Request] /\ wanted \in [Workers -> BOOLEAN]
      /\ woken \in Seq(Requests)
  BY <1>1 DEF ShapeInv, BasicInv, Task
<1>3. PICK k : k = [task[t] EXCEPT !.at = "done", !.waiters = <<>>]
  OBVIOUS
<1>4. task' = [task EXCEPT ![t] = k]
  BY <1>3 DEF Ends, End
<1>5. k \in Task /\ k.at = "done" /\ k.worker = w /\ k.waiters = <<>> /\ k # None
  <2>1. "done" \in Points /\ <<>> \in Seq(Requests)
    BY DEF Points
  <2>2. k \in Task /\ k.at = "done" /\ k.worker = w /\ k.waiters = <<>>
    BY <1>1, <1>3, <2>1 DEF Task
  <2> QED BY <2>2, NoneAssumption
<1>6. /\ task' \in [Tasks -> Task \cup {None}] /\ task'[t] = k
      /\ \A u \in Tasks : u # t => task'[u] = task[u]
  BY <1>2, <1>4, <1>5
<1>7. ~Live(t)'
  BY <1>5, <1>6 DEF Live
<1>8. PICK c : /\ c \in Worker /\ c.id = worker[w].id /\ c.task = worker[w].task
               /\ c.enabled = worker[w].enabled /\ c.url = worker[w].url
               /\ c.stopEvent = worker[w].stopEvent /\ worker' = [worker EXCEPT ![w] = c]
               /\ c.status = "stopped" \/ (task[t].at = "new" /\ worker' = worker)
  <2>1. CASE worker' = worker /\ task[t].at = "new"
    <3>1. worker' = [worker EXCEPT ![w] = worker[w]]
      BY <1>2, <2>1
    <3> QED BY <1>1, <2>1, <3>1
  <2>2. CASE worker' = [worker EXCEPT ![w].status = "stopped"]
    <3>1. PICK c : c = [worker[w] EXCEPT !.status = "stopped"]
      OBVIOUS
    <3>2. worker' = [worker EXCEPT ![w] = c]
      BY <2>2, <3>1
    <3>3. "stopped" \in Statuses
      BY DEF Statuses
    <3>4. /\ c \in Worker /\ c.id = worker[w].id /\ c.task = worker[w].task
          /\ c.enabled = worker[w].enabled /\ c.url = worker[w].url
          /\ c.stopEvent = worker[w].stopEvent /\ c.status = "stopped"
      BY <1>1, <3>1, <3>3 DEF Worker
    <3> QED BY <3>2, <3>4
  <2> QED BY <2>1, <2>2 DEF Ends
<1>9. /\ worker' \in [Workers -> Worker \cup {None}] /\ worker'[w] = c
      /\ \A v \in Workers : v # w => worker'[v] = worker[v]
  BY <1>1, <1>2, <1>8
<1>10. c # None
  BY <1>8, NoneAssumption
<1>11. \A r \in Requests : Contains(woken, r) <=> r \in ToSet(woken)
  BY <1>2, ContainedIn
<1>12. ToSet(woken) \subseteq Requests
  BY <1>2 DEF ToSet
<1>13. req' = [r \in Requests |-> IF r \in ToSet(woken)
                                  THEN [req[r] EXCEPT !.phase = "woken"] ELSE req[r]]
  BY <1>11 DEF Ends, End
<1>14. ASSUME NEW r \in ToSet(woken)
       PROVE  /\ req'[r] \in Request /\ req'[r].phase = "woken" /\ req'[r].op = req[r].op
              /\ req'[r].id = req[r].id /\ req'[r].worker = req[r].worker
  <2>1. req'[r] = [req[r] EXCEPT !.phase = "woken"] /\ req[r] \in Request
    BY <1>2, <1>12, <1>13
  <2>2. "woken" \in Phases
    BY DEF Phases
  <2> QED BY <2>1, <2>2 DEF Request
<1>15. /\ \A r \in Requests : r \notin ToSet(woken) => req'[r] = req[r]
       /\ req' \in [Requests -> Request]
  <2>1. \A r \in Requests : r \notin ToSet(woken) => req'[r] = req[r]
    BY <1>13
  <2>2. \A r \in Requests : req'[r] \in Request
    BY <1>2, <1>14, <2>1
  <2>3. DOMAIN req' = Requests /\ req' = [r \in Requests |-> req'[r]]
    BY <1>13
  <2> QED BY <2>1, <2>2, <2>3
<1>16. UNCHANGED <<up, db, registry, arrived, crashes, overlapped>>
  BY DEF Ends, manager, bounds
<1>17. wanted' \in [Workers -> BOOLEAN] /\ \A v \in Workers : v # w => wanted'[v] = wanted[v]
  BY <1>2 DEF Ends
<1> QED BY <1>1, <1>2, <1>5, <1>6, <1>7, <1>8, <1>9, <1>10, <1>14, <1>15, <1>16, <1>17

\* The queue when a task has ended: who awaited it is in it.
LEMMA EndsQueue ==
    ASSUME ShapeInv, NEW t \in Tasks, Ends(t)
    PROVE  /\ ready' \in Seq(Handles) /\ IsInjective(ready')
           /\ ToSet(ready') = (ToSet(ready) \ {THandle(t)})
                                 \cup {RHandle(r) : r \in ToSet(task[t].waiters)}
<1>1. PICK woken : woken = task[t].waiters
  OBVIOUS
<1>2. /\ woken \in Seq(Requests) /\ IsInjective(woken)
      /\ \A r \in ToSet(woken) : r \in Requests /\ req[r].phase = "awaiting"
  <2>1. Live(t) /\ woken \in Seq(Requests)
    BY <1>1, HeadIsLive DEF Ends, Task
  <2>2. ToSet(woken) \subseteq Requests
    BY <2>1 DEF ToSet
  <2> QED BY <1>1, <2>1, <2>2 DEF ShapeInv, WaitInv, Live
<1>3. PICK u : u = [i \in 1..Len(woken) |-> RHandle(woken[i])]
  OBVIOUS
<1>4. /\ u \in Seq(Handles) /\ IsInjective(u)
      /\ ToSet(u) = {RHandle(r) : r \in ToSet(woken)}
  <2>1. Len(woken) \in Nat /\ DOMAIN woken = 1..Len(woken)
    BY <1>2
  <2>2. \A i \in 1..Len(woken) : woken[i] \in Requests /\ RHandle(woken[i]) \in Handles
    BY <1>2 DEF Handles
  <2>3. u \in [1..Len(woken) -> Handles]
    BY <1>3, <2>2
  <2>4. u \in Seq(Handles) /\ DOMAIN u = 1..Len(woken)
    BY <2>1, <2>3
  <2>5. \A i, j \in 1..Len(woken) : woken[i] = woken[j] => i = j
    BY <1>2, <2>1 DEF IsInjective
  <2>6. \A i \in 1..Len(woken) : u[i] = RHandle(woken[i])
    BY <1>3
  <2>7. IsInjective(u)
    BY <2>4, <2>5, <2>6, HandlesDiffer DEF IsInjective
  <2>8. ToSet(u) = {RHandle(r) : r \in ToSet(woken)}
    BY <2>1, <2>4, <2>6 DEF ToSet
  <2> QED BY <2>4, <2>7, <2>8
<1>5. PICK s : s = Tail(ready)
  OBVIOUS
<1>6. s \in Seq(Handles) /\ IsInjective(s) /\ ToSet(s) = ToSet(ready) \ {THandle(t)}
  BY <1>5, TailOfList DEF Ends, AtHead, ShapeInv, QueueInv
<1>7. ToSet(s) \cap ToSet(u) = {}
  <2>1. ASSUME NEW r \in ToSet(woken) PROVE RHandle(r) \notin ToSet(ready)
    BY <1>2 DEF ShapeInv, QueueInv
  <2> QED BY <1>4, <1>6, <2>1
<1>8. ready' = s \o u
  BY <1>1, <1>3, <1>5 DEF Ends, End
<1>9. /\ s \o u \in Seq(Handles) /\ IsInjective(s \o u)
      /\ ToSet(s \o u) = ToSet(s) \cup ToSet(u)
  BY <1>4, <1>6, <1>7, ListsJoined
<1> QED BY <1>1, <1>4, <1>6, <1>8, <1>9

\* A task that ends keeps the shape of everything.
LEMMA EndsShape ==
    ASSUME ShapeInv, NEW t \in Tasks, Ends(t)
    PROVE  ShapeInv'
<1>1. PICK w, woken : w = task[t].worker /\ woken = task[t].waiters
  OBVIOUS
<1>2. /\ w \in Workers /\ worker[w] # None /\ Live(t) /\ woken \in Seq(Requests)
      /\ task' \in [Tasks -> Task \cup {None}] /\ task'[t] # None /\ ~Live(t)'
      /\ \A u \in Tasks : u # t => task'[u] = task[u]
      /\ task'[t].worker = w /\ task'[t].waiters = <<>>
      /\ worker' \in [Workers -> Worker \cup {None}] /\ worker'[w] # None
      /\ \A v \in Workers : v # w => worker'[v] = worker[v]
      /\ worker'[w].id = worker[w].id /\ worker'[w].task = worker[w].task
      /\ req' \in [Requests -> Request]
      /\ \A r \in Requests : r \notin ToSet(woken) => req'[r] = req[r]
      /\ \A r \in ToSet(woken) : /\ req'[r].phase = "woken" /\ req'[r].op = req[r].op
                                 /\ req'[r].id = req[r].id /\ req'[r].worker = req[r].worker
      /\ UNCHANGED <<up, db, registry, arrived, crashes, overlapped>>
      /\ wanted' \in [Workers -> BOOLEAN]
  BY <1>1, EndsEffect
<1>3. task[t] # None
  BY <1>2 DEF Live
<1>4. \A r \in ToSet(woken) : r \in Requests /\ req[r].phase = "awaiting" /\ req[r].worker = w
  <2>1. ToSet(woken) \subseteq Requests
    BY <1>2 DEF ToSet
  <2> QED BY <1>1, <1>3, <2>1 DEF ShapeInv, WaitInv
<1>5. BasicInv'
  BY <1>2 DEF ShapeInv, BasicInv
<1>6. QueueInv'
  <2>1. /\ ready' \in Seq(Handles) /\ IsInjective(ready')
        /\ ToSet(ready') = (ToSet(ready) \ {THandle(t)}) \cup {RHandle(r) : r \in ToSet(woken)}
    BY <1>1, EndsQueue
  <2>2. ASSUME NEW u \in Tasks, THandle(u) \in ToSet(ready') PROVE Live(u)'
    <3>1. u # t /\ THandle(u) \in ToSet(ready)
      BY <2>1, <2>2, HandlesDiffer
    <3> QED BY <1>2, <3>1 DEF ShapeInv, QueueInv, Live
  <2>3. ASSUME NEW r \in Requests
        PROVE  RHandle(r) \in ToSet(ready') <=> req'[r].phase \in {"new", "woken"}
    <3>1. RHandle(r) \in ToSet(ready') <=> RHandle(r) \in ToSet(ready) \/ r \in ToSet(woken)
      BY <2>1, HandlesDiffer
    <3> QED BY <1>2, <3>1 DEF ShapeInv, QueueInv
  <2> QED BY <2>1, <2>2, <2>3 DEF QueueInv
<1>7. WaitInv'
  <2>1. WaitInv
    BY DEF ShapeInv
  <2>2. task'[t].waiters = <<>> /\ IsInjective(<<>>) /\ ToSet(<<>>) = {}
    BY <1>2 DEF IsInjective, ToSet
  <2>3. ASSUME NEW u \in Tasks, u # t, task'[u] # None
        PROVE  /\ task'[u] = task[u] /\ (Live(u)' <=> Live(u))
               /\ ToSet(task[u].waiters) \cap ToSet(woken) = {}
               /\ ToSet(task[u].waiters) \subseteq Requests
    <3>1. task'[u] = task[u]
      BY <1>2, <2>3
    <3>2. task[u].waiters \in Seq(Requests)
      BY <2>3, <3>1 DEF ShapeInv, BasicInv, Task
    <3>3. ToSet(task[u].waiters) \subseteq Requests
      BY <3>2 DEF ToSet
    <3>4. ToSet(task[u].waiters) \cap ToSet(woken) = {}
      BY <1>1, <1>3, <2>1, <2>3, <3>1 DEF WaitInv
    <3> QED BY <3>1, <3>3, <3>4 DEF Live
  <2>4. ASSUME NEW u \in Tasks, task'[u] # None
        PROVE  /\ IsInjective(task'[u].waiters)
               /\ Live(u)' /\ task'[u].cancelled => task'[u].waiters # <<>>
               /\ \A r \in ToSet(task'[u].waiters) :
                     /\ Live(u)' /\ task'[u].cancelled
                     /\ req'[r].phase = "awaiting" /\ req'[r].worker = task'[u].worker
    <3>1. CASE u = t
      BY <1>2, <2>2, <3>1
    <3>2. CASE u # t
      <4>1. \A r \in ToSet(task[u].waiters) : req'[r] = req[r]
        BY <1>2, <2>3, <2>4, <3>2
      <4>2. task[u] # None
        BY <2>3, <2>4, <3>2
      <4> QED BY <2>1, <2>3, <2>4, <3>2, <4>1, <4>2 DEF WaitInv
    <3> QED BY <3>1, <3>2
  <2>5. \A u, v \in Tasks : task'[u] # None /\ task'[v] # None /\ u # v =>
           ToSet(task'[u].waiters) \cap ToSet(task'[v].waiters) = {}
    BY <2>1, <2>2, <2>3 DEF WaitInv
  <2> QED BY <2>4, <2>5 DEF WaitInv
<1>8. LinkInv'
  <2>1. \A i \in Ids : registry[i] # None => registry[i] \in Workers
    BY DEF ShapeInv, BasicInv
  <2>2. \A v \in Workers : worker[v] # None /\ worker[v].task # None => worker[v].task \in Tasks
    BY DEF ShapeInv, BasicInv, Worker
  <2>3. \A u \in Tasks : task[u] # None => task[u].worker \in Workers
    BY DEF ShapeInv, BasicInv, Task
  <2>4. \A r \in Requests : req[r].worker # None => req[r].worker \in Workers
    BY DEF ShapeInv, BasicInv, Request
  <2>5. ASSUME NEW r \in Requests, Pending(r)'
        PROVE  /\ Pending(r) /\ req'[r].op = req[r].op /\ req'[r].id = req[r].id
               /\ req'[r].worker = req[r].worker
    BY <1>2, <1>4, <2>5 DEF Pending
  <2>6. \A v \in Workers : worker[v] # None =>
           worker'[v] # None /\ worker'[v].id = worker[v].id /\ worker'[v].task = worker[v].task
    BY <1>2
  <2>7. \A v \in Workers : worker'[v] # None => worker[v] # None
    BY <1>2
  <2>8. \A u \in Tasks : task'[u] # None <=> task[u] # None
    BY <1>2, <1>3
  <2>9. \A u \in Tasks : task[u] # None => task'[u].worker = task[u].worker
    BY <1>1, <1>2
  <2>10. LinkInv
    BY DEF ShapeInv
  <2>11. \A r \in Requests : Pending(r)' =>
          /\ req'[r].op \in {"stop", "remove"}
          /\ req'[r].worker # None /\ worker'[req'[r].worker] # None
          /\ worker'[req'[r].worker].id = req'[r].id
    BY <2>4, <2>5, <2>6, <2>10 DEF LinkInv
  <2>12. \A v \in Workers : worker'[v] # None /\ worker'[v].task # None =>
          task'[worker'[v].task] # None /\ task'[worker'[v].task].worker = v
    BY <2>2, <2>6, <2>7, <2>8, <2>9, <2>10 DEF LinkInv
  <2> QED BY <1>2, <2>1, <2>3, <2>6, <2>8, <2>9, <2>10, <2>11, <2>12 DEF LinkInv
<1>9. DownInv'
  BY <1>2 DEF Ends, AtHead, DownInv
<1>10. RoomInv'
  BY <1>2, <1>3, <1>4, <1>5, RoomStays DEF ShapeInv
<1> QED BY <1>5, <1>6, <1>7, <1>8, <1>9, <1>10 DEF ShapeInv

----------------------------------------------------------------------------
(* The steps of the requests, and the shape of things                      *)

\* The handle at the head belongs to a request that has arrived or been woken.
LEMMA HeadIsAsked ==
    ASSUME ShapeInv, NEW r \in Requests, AtHead(RHandle(r))
    PROVE  up /\ req[r] \in Request /\ req[r].phase \in {"new", "woken"}
<1>1. RHandle(r) \in ToSet(ready)
  BY TailOfList DEF AtHead, ShapeInv, QueueInv
<1> QED BY <1>1 DEF AtHead, ShapeInv, QueueInv, BasicInv

\* An answered request is idle, the others are as they were.
LEMMA Answered ==
    ASSUME BasicInv, NEW r \in Requests, Respond(r)
    PROVE  /\ req' \in [Requests -> Request] /\ req'[r].phase = "idle"
           /\ \A q \in Requests : q # r => req'[q] = req[q]
<1>1. 1 \in Ids /\ "stop" \in Ops /\ "idle" \in Phases
  BY BoundAssumption DEF Ids, Ops, Phases
<1>2. Idle \in Request /\ Idle.phase = "idle"
  BY <1>1 DEF Idle, Request
<1> QED BY <1>2 DEF BasicInv, Respond

\* The queue when a request has run and may have put a task into it.
LEMMA RequestQueue ==
    ASSUME ShapeInv, NEW r \in Requests, AtHead(RHandle(r)), NEW new,
           \/ ready' = Tail(ready) /\ new = {}
           \/ \E t \in Tasks : /\ ready' = Append(Tail(ready), THandle(t)) /\ new = {t}
                               /\ THandle(t) \notin ToSet(ready),
           \A u \in Tasks : u \in new \/ Live(u) => Live(u)',
           req'[r].phase \notin {"new", "woken"},
           \A q \in Requests : q # r => req'[q].phase = req[q].phase
    PROVE  QueueInv'
<1>1. QueueInv /\ ready # <<>> /\ Head(ready) = RHandle(r)
  BY DEF ShapeInv, AtHead
<1>2. PICK more : /\ more = {THandle(u) : u \in new}
                  /\ \/ ready' = Tail(ready) /\ more = {}
                     \/ \E h \in Handles : /\ ready' = Append(Tail(ready), h) /\ more = {h}
                                           /\ h \notin ToSet(ready) \/ h = Head(ready)
  <2>1. CASE ready' = Tail(ready) /\ new = {}
    <3>1. {THandle(u) : u \in new} = {}
      BY <2>1
    <3> QED BY <2>1, <3>1
  <2>2. ASSUME NEW t \in Tasks, ready' = Append(Tail(ready), THandle(t)), new = {t},
               THandle(t) \notin ToSet(ready)
        PROVE  \E h \in Handles : /\ ready' = Append(Tail(ready), h)
                                  /\ {THandle(u) : u \in new} = {h}
                                  /\ h \notin ToSet(ready) \/ h = Head(ready)
    <3>1. {THandle(u) : u \in new} = {THandle(t)} /\ THandle(t) \in Handles
      BY <2>2 DEF Handles
    <3> QED BY <2>2, <3>1
  <2> QED BY <2>1, <2>2
<1>3. /\ ready' \in Seq(Handles) /\ IsInjective(ready')
      /\ ToSet(ready') = (ToSet(ready) \ {Head(ready)}) \cup more
  BY <1>1, <1>2, QueueTurns
<1>4. ASSUME NEW u \in Tasks, THandle(u) \in ToSet(ready') PROVE Live(u)'
  <2>1. THandle(u) \in ToSet(ready) \/ u \in new
    BY <1>2, <1>3, <1>4, HandlesDiffer
  <2> QED BY <1>1, <2>1 DEF QueueInv
<1>5. ASSUME NEW q \in Requests
      PROVE  RHandle(q) \in ToSet(ready') <=> req'[q].phase \in {"new", "woken"}
  <2>1. RHandle(q) \notin more
    BY <1>2, HandlesDiffer
  <2>2. RHandle(q) \in ToSet(ready') <=> RHandle(q) \in ToSet(ready) /\ q # r
    BY <1>1, <1>3, <2>1, HandlesDiffer
  <2> QED BY <1>1, <2>2 DEF QueueInv
<1> QED BY <1>3, <1>4, <1>5 DEF QueueInv

\* A request that awaits nothing is awaited by none; new tasks have no one waiting.
LEMMA RequestWait ==
    ASSUME ShapeInv, NEW r \in Requests, req[r].phase # "awaiting",
           \A q \in Requests : q # r => req'[q] = req[q],
           \A u \in Tasks : \/ task'[u] = task[u]
                            \/ task'[u].waiters = <<>> /\ ~task'[u].cancelled
    PROVE  WaitInv'
<1>1. WaitInv
  BY DEF ShapeInv
<1>2. IsInjective(<<>>) /\ ToSet(<<>>) = {}
  BY DEF IsInjective, ToSet
<1>3. ASSUME NEW u \in Tasks, task[u] # None
      PROVE  /\ r \notin ToSet(task[u].waiters) /\ ToSet(task[u].waiters) \subseteq Requests
  <2>1. task[u].waiters \in Seq(Requests)
    BY <1>3 DEF ShapeInv, BasicInv, Task
  <2>2. ToSet(task[u].waiters) \subseteq Requests
    BY <2>1 DEF ToSet
  <2> QED BY <1>1, <1>3, <2>2 DEF WaitInv
<1>4. ASSUME NEW u \in Tasks, task'[u] # None
      PROVE  /\ IsInjective(task'[u].waiters)
             /\ Live(u)' /\ task'[u].cancelled => task'[u].waiters # <<>>
             /\ \A q \in ToSet(task'[u].waiters) :
                   /\ Live(u)' /\ task'[u].cancelled
                   /\ req'[q].phase = "awaiting" /\ req'[q].worker = task'[u].worker
  <2>1. CASE task'[u] = task[u]
    <3>1. task[u] # None /\ (Live(u)' <=> Live(u))
      BY <1>4, <2>1 DEF Live
    <3>2. \A q \in ToSet(task[u].waiters) : req'[q] = req[q]
      BY <1>3, <3>1
    <3> QED BY <1>1, <2>1, <3>1, <3>2 DEF WaitInv
  <2>2. CASE task'[u].waiters = <<>> /\ ~task'[u].cancelled
    BY <1>2, <2>2
  <2> QED BY <2>1, <2>2
<1>5. \A u, v \in Tasks : task'[u] # None /\ task'[v] # None /\ u # v =>
         ToSet(task'[u].waiters) \cap ToSet(task'[v].waiters) = {}
  <2>1. SUFFICES ASSUME NEW u \in Tasks, NEW v \in Tasks, task'[u] # None, task'[v] # None, u # v
                 PROVE  ToSet(task'[u].waiters) \cap ToSet(task'[v].waiters) = {}
    OBVIOUS
  <2>2. CASE task'[u].waiters = <<>> \/ task'[v].waiters = <<>>
    BY <1>2, <2>2
  <2>3. CASE task'[u] = task[u] /\ task'[v] = task[v]
    BY <1>1, <2>1, <2>3 DEF WaitInv
  <2> QED BY <2>2, <2>3
<1> QED BY <1>4, <1>5 DEF WaitInv

\* A request is answered: workers keep their ids and get no tasks, cameras may be removed,
\* and the table goes with them.
LEMMA AnsweredShape ==
    ASSUME ShapeInv, BasicInv', NEW r \in Requests, AtHead(RHandle(r)), Respond(r),
           ready' = Tail(ready), UNCHANGED <<up, task>>,
           \A v \in Workers : worker'[v] # None <=> worker[v] # None,
           \A v \in Workers : worker[v] # None =>
              worker'[v].id = worker[v].id /\ worker'[v].task \in {worker[v].task, None},
           \A i \in Ids : registry'[i] \in {registry[i], None},
           \A i \in Ids : db'[i] = None <=> registry'[i] = None
    PROVE  ShapeInv'
<1>1. up /\ req[r].phase \in {"new", "woken"}
  BY HeadIsAsked
<1>2. /\ req'[r].phase = "idle" /\ \A q \in Requests : q # r => req'[q] = req[q]
  BY Answered DEF ShapeInv
<1>3. QueueInv'
  <2>1. PICK new : new = {}
    OBVIOUS
  <2>2. \A u \in Tasks : u \in new \/ Live(u) => Live(u)'
    BY <2>1 DEF Live
  <2>3. /\ req'[r].phase \notin {"new", "woken"}
        /\ \A q \in Requests : q # r => req'[q].phase = req[q].phase
    BY <1>2
  <2> QED BY <2>1, <2>2, <2>3, RequestQueue
<1>4. WaitInv'
  BY <1>1, <1>2, RequestWait
<1>5. LinkInv'
  <2>1. \A i \in Ids : registry[i] # None => registry[i] \in Workers
    BY DEF ShapeInv, BasicInv
  <2>2. \A v \in Workers : worker[v] # None /\ worker[v].task # None => worker[v].task \in Tasks
    BY DEF ShapeInv, BasicInv, Worker
  <2>3. \A u \in Tasks : task[u] # None => task[u].worker \in Workers
    BY DEF ShapeInv, BasicInv, Task
  <2>4. \A q \in Requests : req[q].worker # None => req[q].worker \in Workers
    BY DEF ShapeInv, BasicInv, Request
  <2>5. \A q \in Requests : Pending(q)' => Pending(q) /\ req'[q] = req[q]
    BY <1>2 DEF Pending
  <2> QED BY <2>1, <2>2, <2>3, <2>4, <2>5 DEF ShapeInv, LinkInv
<1>6. DownInv'
  BY <1>1 DEF DownInv
<1>7. RoomInv'
  <2>1. \A i \in Ids : db'[i] # None => db[i] # None
    BY <1>1 DEF ShapeInv, LinkInv
  <2> QED BY <1>2, <2>1, RoomStays DEF ShapeInv
<1> QED BY <1>3, <1>4, <1>5, <1>6, <1>7 DEF ShapeInv

\* One worker is set to c, which has its id.
Sets(w, c) ==
    /\ w \in Workers /\ worker[w] # None /\ worker[w] \in Worker
    /\ c \in Worker /\ c.id = worker[w].id
    /\ worker' = [worker EXCEPT ![w] = c]

\* The other workers stay, and this one keeps its id.
LEMMA SetsEffect ==
    ASSUME BasicInv, NEW w, NEW c, Sets(w, c)
    PROVE  /\ worker' \in [Workers -> Worker \cup {None}] /\ worker'[w] = c /\ c # None
           /\ \A v \in Workers : v # w => worker'[v] = worker[v]
           /\ \A v \in Workers : worker'[v] # None <=> worker[v] # None
           /\ \A v \in Workers : worker[v] # None => worker'[v].id = worker[v].id
<1>1. c # None
  BY NoneAssumption DEF Sets
<1> QED BY <1>1 DEF BasicInv, Sets

\* A row of the table that is there is set to the configuration, none is made.
RowSaved(c) ==
    /\ db' \in [Ids -> Row \cup {None}]
    /\ \A i \in Ids : db'[i] = None <=> db[i] = None
    /\ \A i \in Ids : i # c.id => db'[i] = db[i]
    /\ db[c.id] # None => db'[c.id] = [enabled |-> c.enabled, url |-> c.url]

\* Saving changes at most the row of the worker it saves, and makes none.
LEMMA SaveEffect ==
    ASSUME BasicInv, NEW c \in Worker, Save(c)
    PROVE  RowSaved(c)
<1>1. PICK row : row = [enabled |-> c.enabled, url |-> c.url]
  OBVIOUS
<1>2. c.id \in Ids /\ row \in Row /\ row # None
  <2>1. c.id \in Ids /\ row \in Row
    BY <1>1 DEF Worker, Row
  <2> QED BY <2>1, NoneAssumption
<1>3. db' = IF db[c.id] = None THEN db ELSE [db EXCEPT ![c.id] = row]
  BY <1>1 DEF Save
<1>4. CASE db[c.id] = None
  BY <1>3, <1>4 DEF BasicInv, RowSaved
<1>5. CASE db[c.id] # None
  <2>1. /\ db' \in [Ids -> Row \cup {None}] /\ db'[c.id] = row
        /\ \A i \in Ids : i # c.id => db'[i] = db[i]
    BY <1>2, <1>3, <1>5 DEF BasicInv
  <2> QED BY <1>1, <1>2, <1>5, <2>1 DEF RowSaved
<1> QED BY <1>4, <1>5

\* The worker that is registered for an id has it.
LEMMA Registered ==
    ASSUME ShapeInv, NEW i \in Ids, registry[i] # None
    PROVE  /\ registry[i] \in Workers /\ worker[registry[i]] # None
           /\ worker[registry[i]] \in Worker /\ worker[registry[i]].id = i
BY DEF ShapeInv, BasicInv, LinkInv

\* PATCH changes the configuration in memory and in the table.
LEMMA UpdateEffect ==
    ASSUME ShapeInv, NEW r \in Requests, UpdateCamera(r), NEW w, w = registry[req[r].id]
    PROVE  \E c : /\ Sets(w, c) /\ c.id = req[r].id /\ RowSaved(c)
                  /\ c.task = worker[w].task /\ c.status = worker[w].status
                  /\ c.stopEvent = worker[w].stopEvent
<1>1. AtHead(RHandle(r)) /\ registry[req[r].id] # None
  BY DEF UpdateCamera, Handle
<1>2. req[r].id \in Ids
  BY <1>1, HeadIsAsked DEF Request
<1>3. w \in Workers /\ worker[w] # None /\ worker[w] \in Worker /\ worker[w].id = req[r].id
  BY <1>1, <1>2, Registered
<1>4. PICK row \in Row :
         LET nw == [worker[w] EXCEPT !.enabled = row.enabled, !.url = row.url]
         IN  worker' = [worker EXCEPT ![w] = nw] /\ Save(nw)
  BY DEF UpdateCamera
<1>5. PICK c : c = [worker[w] EXCEPT !.enabled = row.enabled, !.url = row.url]
  OBVIOUS
<1>6. worker' = [worker EXCEPT ![w] = c] /\ Save(c)
  BY <1>4, <1>5
<1>7. /\ c \in Worker /\ c.id = worker[w].id /\ c.task = worker[w].task
      /\ c.status = worker[w].status /\ c.stopEvent = worker[w].stopEvent
  BY <1>3, <1>5 DEF Worker, Row
<1>8. RowSaved(c)
  BY <1>6, <1>7, SaveEffect DEF ShapeInv
<1> QED BY <1>3, <1>6, <1>7, <1>8 DEF Sets

\* The worker a request stops, once there is nothing to wait for.
LEMMA StoppingIs ==
    ASSUME ShapeInv, NEW r \in Requests, NEW op, StopDone(r, op)
    PROVE  /\ Stopping(r) \in Workers /\ worker[Stopping(r)] # None
           /\ worker[Stopping(r)] \in Worker /\ worker[Stopping(r)].id = req[r].id
           /\ req[r].id \in Ids
<1>1. AtHead(RHandle(r))
  BY DEF StopDone
<1>2. req[r] \in Request /\ req[r].id \in Ids /\ req[r].worker \in Workers \cup {None}
  BY <1>1, HeadIsAsked DEF Request
<1>3. CASE req[r].phase = "woken"
  <2>1. Stopping(r) = req[r].worker
    BY <1>3 DEF Stopping
  <2> QED BY <1>2, <1>3, <2>1 DEF ShapeInv, BasicInv, LinkInv, Pending
<1>4. CASE req[r].phase # "woken"
  <2>1. Stopping(r) = registry[req[r].id] /\ registry[req[r].id] # None
    BY <1>4 DEF Stopping, StopDone
  <2> QED BY <1>2, <2>1, Registered
<1> QED BY <1>3, <1>4

\* CameraWorker.stop has returned: the worker has no task and says so.
LEMMA StoppedIs ==
    ASSUME ShapeInv, NEW r \in Requests, NEW op, StopDone(r, op), NEW w, w = Stopping(r)
    PROVE  \E c \in Worker : /\ c = Stopped(r) /\ c.id = worker[w].id /\ c.task = None
                             /\ c.status = "stopped" /\ c.enabled = worker[w].enabled
                             /\ c.url = worker[w].url
<1>1. worker[w] \in Worker
  BY StoppingIs
<1>2. PICK b : b = (worker[w].stopEvent \/ req[r].phase = "new")
  OBVIOUS
<1>3. b \in BOOLEAN
  BY <1>2
<1>4. PICK c : c = [worker[w] EXCEPT !.stopEvent = b, !.task = None, !.status = "stopped"]
  OBVIOUS
<1>5. c = Stopped(r)
  BY <1>2, <1>4 DEF Stopped
<1>6. "stopped" \in Statuses
  BY DEF Statuses
<1>7. /\ c \in Worker /\ c.id = worker[w].id /\ c.task = None
      /\ c.status = "stopped" /\ c.enabled = worker[w].enabled /\ c.url = worker[w].url
  BY <1>1, <1>3, <1>4, <1>6 DEF Worker
<1> QED BY <1>5, <1>7

\* POST stop, once the task is over, sets and saves the configuration.
LEMMA StopEffect ==
    ASSUME ShapeInv, NEW r \in Requests, StopCamera(r), NEW w, w = Stopping(r)
    PROVE  \E c : /\ Sets(w, c) /\ c.id = req[r].id /\ RowSaved(c)
                  /\ c.task = None /\ c.status = "stopped"
<1>1. StopDone(r, "stop")
  BY DEF StopCamera
<1>2. /\ w \in Workers /\ worker[w] # None /\ worker[w] \in Worker /\ worker[w].id = req[r].id
  BY <1>1, StoppingIs
<1>3. PICK d \in Worker : /\ d = Stopped(r) /\ d.id = worker[w].id /\ d.task = None
                          /\ d.status = "stopped"
  BY <1>1, StoppedIs
<1>4. PICK c : c = [d EXCEPT !.enabled = FALSE]
  OBVIOUS
<1>5. c \in Worker /\ c.id = worker[w].id /\ c.task = None /\ c.status = "stopped"
  BY <1>3, <1>4 DEF Worker
<1>6. worker' = [worker EXCEPT ![w] = c] /\ Save(c)
  BY <1>3, <1>4 DEF StopCamera
<1>7. RowSaved(c)
  BY <1>5, <1>6, SaveEffect DEF ShapeInv
<1> QED BY <1>2, <1>5, <1>6, <1>7 DEF Sets

\* DELETE, once the task is over, forgets the camera in memory and in the table.
LEMMA RemoveEffect ==
    ASSUME ShapeInv, NEW r \in Requests, RemoveCamera(r), NEW w, w = Stopping(r)
    PROVE  /\ \E c : /\ Sets(w, c) /\ c.id = req[r].id
                     /\ c.task = None /\ c.status = "stopped"
           /\ registry' \in [Ids -> Workers \cup {None}] /\ registry'[req[r].id] = None
           /\ \A i \in Ids : i # req[r].id => registry'[i] = registry[i]
           /\ db' \in [Ids -> Row \cup {None}] /\ db'[req[r].id] = None
           /\ \A i \in Ids : i # req[r].id => db'[i] = db[i]
<1>1. StopDone(r, "remove")
  BY DEF RemoveCamera
<1>2. /\ w \in Workers /\ worker[w] # None /\ worker[w] \in Worker /\ worker[w].id = req[r].id
      /\ req[r].id \in Ids
  BY <1>1, StoppingIs
<1>3. PICK d \in Worker : /\ d = Stopped(r) /\ d.id = worker[w].id /\ d.task = None
                          /\ d.status = "stopped"
  BY <1>1, StoppedIs
<1>4. Sets(w, d)
  BY <1>2, <1>3 DEF RemoveCamera, Sets
<1>5. /\ registry' = [registry EXCEPT ![req[r].id] = None]
      /\ db' = IF registry[req[r].id] = None THEN db ELSE [db EXCEPT ![req[r].id] = None]
  BY DEF RemoveCamera
<1>6. up
  BY <1>1, HeadIsAsked DEF StopDone
<1>7. registry[req[r].id] = None => db[req[r].id] = None
  BY <1>2, <1>6 DEF ShapeInv, LinkInv
<1>8. /\ registry' \in [Ids -> Workers \cup {None}] /\ registry'[req[r].id] = None
      /\ \A i \in Ids : i # req[r].id => registry'[i] = registry[i]
  BY <1>2, <1>5 DEF ShapeInv, BasicInv
<1>9. /\ db' \in [Ids -> Row \cup {None}] /\ db'[req[r].id] = None
      /\ \A i \in Ids : i # req[r].id => db'[i] = db[i]
  BY <1>2, <1>5, <1>7 DEF ShapeInv, BasicInv
<1> QED BY <1>2, <1>3, <1>4, <1>8, <1>9

\* A finite set with an element more.
LEMMA OneMore ==
    ASSUME NEW S, IsFiniteSet(S), NEW x, x \notin S, NEW U, U = S \cup {x}
    PROVE  Cardinality(U) = Cardinality(S) + 1
BY FS_AddElement

\* The same with one less.
LEMMA OneLess ==
    ASSUME NEW S, IsFiniteSet(S), NEW x, x \in S, NEW U, U = S \ {x}
    PROVE  Cardinality(U) = Cardinality(S) - 1
BY FS_RemoveElement

\* What the room is counted by is finite.
LEMMA Countable ==
    ASSUME BasicInv
    PROVE  /\ IsFiniteSet(Made(worker)) /\ Cardinality(Made(worker)) \in Nat
           /\ IsFiniteSet(Made(task)) /\ Cardinality(Made(task)) \in Nat
           /\ \A op : IsFiniteSet(InFlight(op)) /\ Cardinality(InFlight(op)) \in Nat
<1>1. Made(worker) \in SUBSET Workers /\ Made(task) \in SUBSET Tasks
  BY DEF BasicInv, Made
<1>2. 1 \in Int /\ MaxCameras \in Int /\ MaxTasks \in Int
  BY BoundAssumption
<1>3. IsFiniteSet(Workers) /\ IsFiniteSet(Tasks)
  BY <1>2, FS_Interval DEF Workers, Tasks
<1>4. \A op : InFlight(op) \in SUBSET Requests
  BY DEF InFlight
<1> QED BY <1>1, <1>3, <1>4, BoundAssumption, FS_Subset, FS_CardinalityType

\* While there is room there is a free one, and FirstFree finds it.
LEMMA FreeOne ==
    ASSUME NEW N \in Nat, NEW f, DOMAIN f = 1..N, Cardinality(Made(f)) < N
    PROVE  FirstFree(f, 1..N) \in 1..N /\ f[FirstFree(f, 1..N)] = None
<1> DEFINE F == {x \in 1..N : f[x] = None}
<1>1. F # {}
  <2>1. SUFFICES ASSUME F = {} PROVE FALSE
    OBVIOUS
  <2>2. Made(f) = 1..N
    BY <2>1 DEF Made
  <2>3. Cardinality(1..N) = N
    <3>1. 1 \in Int /\ N \in Int
      OBVIOUS
    <3>2. Cardinality(1..N) = IF 1 > N THEN 0 ELSE N - 1 + 1
      BY <3>1, FS_Interval
    <3> QED BY <3>2
  <2> QED BY <2>2, <2>3
<1>2. F \in SUBSET Nat
  OBVIOUS
<1>3. PICK x \in F : \A y \in F : x <= y
  BY <1>1, <1>2, LeastNatural
<1>4. Min(F) \in F
  BY <1>3 DEF Min
<1>5. FirstFree(f, 1..N) = Min(F)
  BY DEF FirstFree
<1> QED BY <1>4, <1>5

\* What a new task is.
LEMMA NewTaskIs ==
    ASSUME NEW w \in Workers
    PROVE  /\ NewTask(w) \in Task /\ NewTask(w) # None /\ NewTask(w).worker = w
           /\ NewTask(w).at = "new" /\ NewTask(w).cancelled = FALSE /\ NewTask(w).waiters = <<>>
<1>1. "new" \in Points /\ <<>> \in Seq(Requests)
  BY DEF Points
<1>2. /\ NewTask(w) \in Task /\ NewTask(w).worker = w
      /\ NewTask(w).at = "new" /\ NewTask(w).cancelled = FALSE /\ NewTask(w).waiters = <<>>
  BY <1>1 DEF NewTask, Task
<1> QED BY <1>2, NoneAssumption

\* A task is made where there was none.
Makes(t, w) ==
    /\ t \in Tasks /\ task[t] = None /\ task' \in [Tasks -> Task \cup {None}]
    /\ task'[t] # None /\ task'[t].worker = w /\ task'[t].at = "new"
    /\ ~task'[t].cancelled /\ task'[t].waiters = <<>> /\ Live(t)'
    /\ \A u \in Tasks : u # t => task'[u] = task[u]

\* The worker's new task is alive, and is the only one that changes.
LEMMA MakesTask ==
    ASSUME BasicInv, NEW w \in Workers, NEW t \in Tasks, task[t] = None,
           task' = [task EXCEPT ![t] = NewTask(w)]
    PROVE  Makes(t, w)
<1>1. PICK k : k = NewTask(w)
  OBVIOUS
<1>2. /\ k \in Task /\ k # None /\ k.worker = w /\ k.at = "new" /\ k.cancelled = FALSE
      /\ k.waiters = <<>>
  BY <1>1, NewTaskIs
<1>3. task' \in [Tasks -> Task \cup {None}] /\ task'[t] = k
      /\ \A u \in Tasks : u # t => task'[u] = task[u]
  BY <1>1, <1>2 DEF BasicInv
<1> QED BY <1>2, <1>3 DEF Makes, Live

\* There is a free task for a request in flight that makes one.
LEMMA FreeTask ==
    ASSUME ShapeInv, NEW r \in Requests, req[r].phase # "idle", req[r].op \in {"add", "start"},
           NEW t, t = FirstFree(task, Tasks)
    PROVE  t \in Tasks /\ task[t] = None
<1>1. r \in InFlight(req[r].op)
  BY DEF InFlight
<1>2. /\ Cardinality(Made(task)) \in Nat
      /\ Cardinality(InFlight("add")) \in Nat /\ Cardinality(InFlight("start")) \in Nat
      /\ IsFiniteSet(InFlight("add")) /\ IsFiniteSet(InFlight("start"))
  BY Countable DEF ShapeInv
<1>3. Cardinality(InFlight("add")) + Cardinality(InFlight("start")) >= 1
  <2>1. InFlight(req[r].op) # {}
    BY <1>1
  <2>2. Cardinality(InFlight(req[r].op)) # 0
    BY <1>2, <2>1, FS_EmptySet
  <2> QED BY <1>2, <2>2
<1>4. MaxTasks \in Nat /\ Tasks = 1..MaxTasks /\ DOMAIN task = 1..MaxTasks
  BY BoundAssumption DEF Tasks, ShapeInv, BasicInv
<1>5. Cardinality(Made(task)) < MaxTasks
  BY <1>2, <1>3, <1>4 DEF ShapeInv, RoomInv
<1> QED BY <1>4, <1>5, FreeOne

\* POST start makes a task if the worker has none that is not over.
LEMMA StartEffect ==
    ASSUME ShapeInv, NEW r \in Requests, StartCamera(r), NEW w, w = registry[req[r].id]
    PROVE  \E c : /\ Sets(w, c) /\ c.id = req[r].id /\ RowSaved(c)
                  /\ c.status = worker[w].status
                  /\ \/ /\ Running(w) /\ ready' = Tail(ready) /\ task' = task
                        /\ c.task = worker[w].task /\ c.stopEvent = worker[w].stopEvent
                     \/ \E t \in Tasks : /\ ~Running(w) /\ Makes(t, w)
                                         /\ ready' = Append(Tail(ready), THandle(t))
                                         /\ c.task = t /\ ~c.stopEvent
<1>1. /\ AtHead(RHandle(r)) /\ registry[req[r].id] # None
      /\ req[r].phase = "new" /\ req[r].op = "start"
  BY DEF StartCamera, Handle
<1>2. req[r].id \in Ids
  BY <1>1, HeadIsAsked DEF Request
<1>3. w \in Workers /\ worker[w] # None /\ worker[w] \in Worker /\ worker[w].id = req[r].id
  BY <1>1, <1>2, Registered
<1>4. PICK nw : nw = [worker[w] EXCEPT !.enabled = TRUE]
  OBVIOUS
<1>5. /\ nw \in Worker /\ nw.id = worker[w].id /\ nw.task = worker[w].task
      /\ nw.status = worker[w].status /\ nw.stopEvent = worker[w].stopEvent
  BY <1>3, <1>4 DEF Worker
<1>6. Start(w, nw) /\ Save(nw)
  BY <1>4 DEF StartCamera
<1>7. RowSaved(nw)
  BY <1>5, <1>6, SaveEffect DEF ShapeInv
<1>8. CASE Running(w)
  <2>1. worker' = [worker EXCEPT ![w] = nw] /\ ready' = Tail(ready) /\ task' = task
    BY <1>6, <1>8 DEF Start
  <2> QED BY <1>3, <1>5, <1>7, <1>8, <2>1 DEF Sets
<1>9. CASE ~Running(w)
  <2>1. PICK t : t = FirstFree(task, Tasks)
    OBVIOUS
  <2>2. t \in Tasks /\ task[t] = None
    BY <1>1, <2>1, FreeTask
  <2>3. PICK c : c = [nw EXCEPT !.task = t, !.stopEvent = FALSE]
    OBVIOUS
  <2>4. /\ task' = [task EXCEPT ![t] = NewTask(w)] /\ worker' = [worker EXCEPT ![w] = c]
        /\ ready' = Append(Tail(ready), THandle(t))
    BY <1>6, <1>9, <2>1, <2>3 DEF Start
  <2>5. /\ c \in Worker /\ c.id = nw.id /\ c.task = t /\ c.status = nw.status
        /\ c.stopEvent = FALSE /\ c.enabled = nw.enabled /\ c.url = nw.url
    BY <1>5, <2>2, <2>3 DEF Worker
  <2>6. Makes(t, w)
    BY <1>3, <2>2, <2>4, MakesTask DEF ShapeInv
  <2>7. RowSaved(c)
    BY <1>7, <2>5 DEF RowSaved
  <2>8. Sets(w, c)
    BY <1>3, <1>5, <2>4, <2>5 DEF Sets
  <2> QED BY <1>3, <1>5, <1>9, <2>2, <2>4, <2>5, <2>6, <2>7, <2>8
<1> QED BY <1>8, <1>9

\* The answers that make no task keep the shape of everything.
LEMMA AnswersShape ==
    ASSUME ShapeInv, NEW r \in Requests,
           NotFound(r) \/ UpdateCamera(r) \/ StopCamera(r) \/ RemoveCamera(r)
    PROVE  ShapeInv'
<1>1. /\ AtHead(RHandle(r)) /\ Respond(r) /\ ready' = Tail(ready)
      /\ UNCHANGED <<up, task, arrived, crashes, overlapped>>
  BY DEF NotFound, UpdateCamera, StopCamera, RemoveCamera, Handle, StopDone, bounds
<1>2. req' \in [Requests -> Request]
  BY <1>1, Answered DEF ShapeInv
<1>3. wanted' \in [Workers -> BOOLEAN]
  BY DEF ShapeInv, BasicInv, NotFound, UpdateCamera, StopCamera, RemoveCamera, StopDone
<1>4. up /\ \A i \in Ids : db[i] = None <=> registry[i] = None
  BY <1>1, HeadIsAsked DEF ShapeInv, LinkInv
<1>5. CASE NotFound(r)
  <2>1. UNCHANGED <<db, registry, worker>>
    BY <1>5 DEF NotFound
  <2>2. BasicInv'
    BY <1>1, <1>2, <1>3, <2>1 DEF ShapeInv, BasicInv
  <2> QED BY <1>1, <1>4, <2>1, <2>2, AnsweredShape
<1>6. CASE UpdateCamera(r) \/ StopCamera(r)
  <2>1. PICK w, c : /\ Sets(w, c) /\ RowSaved(c) /\ c.task \in {worker[w].task, None}
                    /\ registry' = registry
    BY <1>6, UpdateEffect, StopEffect DEF UpdateCamera, StopCamera
  <2>2. /\ worker' \in [Workers -> Worker \cup {None}] /\ worker'[w] = c /\ c # None
        /\ \A v \in Workers : v # w => worker'[v] = worker[v]
        /\ \A v \in Workers : worker'[v] # None <=> worker[v] # None
        /\ \A v \in Workers : worker[v] # None => worker'[v].id = worker[v].id
    BY <2>1, SetsEffect DEF ShapeInv
  <2>3. \A v \in Workers : worker[v] # None => worker'[v].task \in {worker[v].task, None}
    BY <2>1, <2>2
  <2>4. \A i \in Ids : db'[i] = None <=> registry'[i] = None
    BY <1>4, <2>1 DEF RowSaved
  <2>5. BasicInv'
    BY <1>1, <1>2, <1>3, <2>1, <2>2 DEF ShapeInv, BasicInv, RowSaved
  <2> QED BY <1>1, <2>1, <2>2, <2>3, <2>4, <2>5, AnsweredShape
<1>7. CASE RemoveCamera(r)
  <2>1. PICK w : w = Stopping(r)
    OBVIOUS
  <2>2. /\ \E c : Sets(w, c) /\ c.id = req[r].id /\ c.task = None /\ c.status = "stopped"
        /\ registry' \in [Ids -> Workers \cup {None}] /\ registry'[req[r].id] = None
        /\ \A i \in Ids : i # req[r].id => registry'[i] = registry[i]
        /\ db' \in [Ids -> Row \cup {None}] /\ db'[req[r].id] = None
        /\ \A i \in Ids : i # req[r].id => db'[i] = db[i]
    BY <1>7, <2>1, RemoveEffect
  <2>3. PICK c : Sets(w, c) /\ c.task = None
    BY <2>2
  <2>4. /\ worker' \in [Workers -> Worker \cup {None}] /\ worker'[w] = c /\ c # None
        /\ \A v \in Workers : v # w => worker'[v] = worker[v]
        /\ \A v \in Workers : worker'[v] # None <=> worker[v] # None
        /\ \A v \in Workers : worker[v] # None => worker'[v].id = worker[v].id
    BY <2>3, SetsEffect DEF ShapeInv
  <2>5. \A v \in Workers : worker[v] # None => worker'[v].task \in {worker[v].task, None}
    BY <2>3, <2>4
  <2>6. \A i \in Ids : db'[i] = None <=> registry'[i] = None
    BY <1>4, <2>2
  <2>7. \A i \in Ids : registry'[i] \in {registry[i], None}
    BY <2>2
  <2>8. BasicInv'
    BY <1>1, <1>2, <1>3, <2>2, <2>4 DEF ShapeInv, BasicInv
  <2> QED BY <1>1, <2>4, <2>5, <2>6, <2>7, <2>8, AnsweredShape
<1> QED BY <1>5, <1>6, <1>7

\* POST start, the same.
LEMMA StartShape ==
    ASSUME ShapeInv, NEW r \in Requests, StartCamera(r)
    PROVE  ShapeInv'
<1>1. /\ AtHead(RHandle(r)) /\ Respond(r) /\ req[r].phase = "new" /\ req[r].op = "start"
      /\ UNCHANGED <<up, registry, arrived, crashes, overlapped>>
  BY DEF StartCamera, Handle, bounds
<1>2. /\ req' \in [Requests -> Request] /\ req'[r].phase = "idle"
      /\ \A q \in Requests : q # r => req'[q] = req[q]
  BY <1>1, Answered DEF ShapeInv
<1>3. wanted' \in [Workers -> BOOLEAN]
  BY DEF ShapeInv, BasicInv, StartCamera
<1>4. up /\ \A i \in Ids : db[i] = None <=> registry[i] = None
  BY <1>1, HeadIsAsked DEF ShapeInv, LinkInv
<1>5. PICK w : w = registry[req[r].id]
  OBVIOUS
<1>6. PICK c : /\ Sets(w, c) /\ RowSaved(c)
               /\ \/ /\ Running(w) /\ ready' = Tail(ready) /\ task' = task
                     /\ c.task = worker[w].task
                  \/ \E t \in Tasks : /\ ~Running(w) /\ Makes(t, w)
                                      /\ ready' = Append(Tail(ready), THandle(t))
                                      /\ c.task = t
  BY <1>5, StartEffect
<1>7. /\ worker' \in [Workers -> Worker \cup {None}] /\ worker'[w] = c /\ c # None
      /\ \A v \in Workers : v # w => worker'[v] = worker[v]
      /\ \A v \in Workers : worker'[v] # None <=> worker[v] # None
      /\ \A v \in Workers : worker[v] # None => worker'[v].id = worker[v].id
  BY <1>6, SetsEffect DEF ShapeInv
<1>8. \A i \in Ids : db'[i] = None <=> registry'[i] = None
  BY <1>1, <1>4, <1>6 DEF RowSaved
<1>9. CASE /\ Running(w) /\ ready' = Tail(ready) /\ task' = task
           /\ c.task = worker[w].task
  <2>1. BasicInv'
    BY <1>1, <1>2, <1>3, <1>6, <1>7, <1>9 DEF ShapeInv, BasicInv, RowSaved
  <2>2. \A v \in Workers : worker[v] # None => worker'[v].task \in {worker[v].task, None}
    BY <1>7, <1>9
  <2> QED BY <1>1, <1>7, <1>8, <1>9, <2>1, <2>2, AnsweredShape
<1>10. ASSUME NEW t \in Tasks, Makes(t, w), ready' = Append(Tail(ready), THandle(t)), c.task = t
       PROVE  ShapeInv'
  <2>1. BasicInv'
    BY <1>1, <1>2, <1>3, <1>6, <1>7, <1>10 DEF ShapeInv, BasicInv, RowSaved, Makes
  <2>2. QueueInv'
    <3>1. THandle(t) \notin ToSet(ready)
      BY <1>10 DEF ShapeInv, QueueInv, Live, Makes
    <3>2. PICK new : new = {t}
      OBVIOUS
    <3>3. \A u \in Tasks : u \in new \/ Live(u) => Live(u)'
      BY <1>10, <3>2 DEF Live, Makes
    <3>4. /\ req'[r].phase \notin {"new", "woken"}
          /\ \A q \in Requests : q # r => req'[q].phase = req[q].phase
      BY <1>2
    <3> QED BY <1>1, <1>10, <3>1, <3>2, <3>3, <3>4, RequestQueue
  <2>3. WaitInv'
    BY <1>1, <1>2, <1>10, RequestWait DEF Makes
  <2>4. LinkInv'
    <3>1. \A i \in Ids : registry[i] # None => registry[i] \in Workers
      BY DEF ShapeInv, BasicInv
    <3>2. \A v \in Workers : worker[v] # None /\ worker[v].task # None => worker[v].task \in Tasks
      BY DEF ShapeInv, BasicInv, Worker
    <3>3. \A u \in Tasks : task[u] # None => task[u].worker \in Workers
      BY DEF ShapeInv, BasicInv, Task
    <3>4. \A q \in Requests : req[q].worker # None => req[q].worker \in Workers
      BY DEF ShapeInv, BasicInv, Request
    <3>5. \A q \in Requests : Pending(q)' => Pending(q) /\ req'[q] = req[q]
      BY <1>2 DEF Pending
    <3>6. w \in Workers /\ worker[w] # None
      BY <1>6 DEF Sets
    <3> QED BY <1>1, <1>7, <1>8, <1>10, <3>1, <3>2, <3>3, <3>4, <3>5, <3>6
            DEF ShapeInv, LinkInv, Makes
  <2>5. DownInv'
    BY <1>1, <1>4 DEF DownInv
  <2>6. RoomInv'
    <3>1. /\ Made(task)' = Made(task) \cup {t} /\ t \notin Made(task)
          /\ Made(worker)' = Made(worker)
      BY <1>7, <1>10, <2>1 DEF ShapeInv, BasicInv, Made, Makes
    <3>2. /\ InFlight("add")' = InFlight("add") /\ r \in InFlight("start")
          /\ InFlight("start")' = InFlight("start") \ {r}
      BY <1>1, <1>2 DEF InFlight
    <3>3. NextId' = NextId
      <4>1. {i \in Ids : db'[i] # None} = {i \in Ids : db[i] # None}
        BY <1>6 DEF RowSaved
      <4> QED BY <4>1 DEF NextId
    <3>4. /\ IsFiniteSet(Made(task)) /\ Cardinality(Made(task)) \in Nat
          /\ IsFiniteSet(InFlight("start")) /\ Cardinality(InFlight("start")) \in Nat
          /\ Cardinality(InFlight("add")) \in Nat
      BY Countable DEF ShapeInv
    <3>5. /\ Cardinality(Made(task)') = Cardinality(Made(task)) + 1
          /\ Cardinality(InFlight("start")') = Cardinality(InFlight("start")) - 1
      BY <3>1, <3>2, <3>4, OneMore, OneLess
    <3>6. RoomInv' <=> /\ Cardinality(Made(worker)') + Cardinality(InFlight("add")') <= MaxCameras
                       /\ Cardinality(Made(task)') + Cardinality(InFlight("add")')
                             + Cardinality(InFlight("start")') <= MaxTasks
                       /\ NextId' + Cardinality(InFlight("add")') <= MaxCameras + 1
      BY DEF RoomInv
    <3>7. RoomInv
      BY DEF ShapeInv
    <3>8. MaxTasks \in Int
      BY BoundAssumption
    <3>9. Cardinality(Made(task)') + Cardinality(InFlight("add")')
             + Cardinality(InFlight("start")') <= MaxTasks
      BY <3>2, <3>4, <3>5, <3>7, <3>8 DEF RoomInv
    <3> QED BY <3>1, <3>2, <3>3, <3>6, <3>7, <3>9 DEF RoomInv
  <2> QED BY <2>1, <2>2, <2>3, <2>4, <2>5, <2>6 DEF ShapeInv
<1> QED BY <1>6, <1>9, <1>10

\* Stop and remove cancel the task and wait for it.
Awaits(r, w, t) ==
    /\ AtHead(RHandle(r)) /\ req[r].phase = "new" /\ req[r].op \in {"stop", "remove"}
    /\ req[r].id \in Ids /\ registry[req[r].id] # None
    /\ \E c : /\ Sets(w, c) /\ c.id = req[r].id /\ c.task = t
              /\ c.status = worker[w].status
              /\ c.enabled = worker[w].enabled /\ c.url = worker[w].url
    /\ t \in Tasks /\ Live(t) /\ task[t].worker = w /\ Live(t)'
    /\ task' \in [Tasks -> Task \cup {None}] /\ task'[t] # None
    /\ \A u \in Tasks : u # t => task'[u] = task[u]
    /\ task'[t].worker = w /\ task'[t].at = task[t].at /\ task'[t].cancelled
    /\ task'[t].waiters = Append(task[t].waiters, r)
    /\ req' \in [Requests -> Request]
    /\ req'[r].phase = "awaiting" /\ req'[r].worker = w
    /\ req'[r].op = req[r].op /\ req'[r].id = req[r].id
    /\ \A q \in Requests : q # r => req'[q] = req[q]
    /\ \/ ready' = Tail(ready)
       \/ ready' = Append(Tail(ready), THandle(t)) /\ THandle(t) \notin ToSet(ready)
    /\ UNCHANGED <<up, db, registry, wanted, arrived, crashes, overlapped>>

\* What a request does that has to wait for the task to stop.
LEMMA AwaitEffect ==
    ASSUME ShapeInv, NEW r \in Requests, AwaitStop(r), NEW w, w = registry[req[r].id],
           NEW t, t = worker[w].task
    PROVE  Awaits(r, w, t)
<1>1. /\ AtHead(RHandle(r)) /\ req[r].phase = "new" /\ req[r].op \in {"stop", "remove"}
      /\ registry[req[r].id] # None
      /\ UNCHANGED <<up, db, registry, wanted, arrived, crashes, overlapped>>
  BY DEF AwaitStop, Handle, bounds
<1>2. req[r] \in Request /\ req[r].id \in Ids
  BY <1>1, HeadIsAsked DEF Request
<1>3. w \in Workers /\ worker[w] # None /\ worker[w] \in Worker /\ worker[w].id = req[r].id
  BY <1>1, <1>2, Registered
<1>4. /\ Running(w)
      /\ worker' = [worker EXCEPT ![w].stopEvent = TRUE]
      /\ task' = [task EXCEPT ![t].cancelled = TRUE, ![t].waiters = Append(@, r)]
      /\ req' = [req EXCEPT ![r].phase = "awaiting", ![r].worker = w]
      /\ ready' = IF Contains(ready, THandle(t)) THEN Tail(ready)
                  ELSE Append(Tail(ready), THandle(t))
  BY DEF AwaitStop
<1>5. t \in Tasks /\ Live(t)
  BY <1>3, <1>4 DEF Running, Worker
<1>6. task[t] \in Task /\ task[t].worker = w
  <2>1. t # None
    BY <1>5, NoneAssumption DEF Tasks
  <2> QED BY <1>3, <1>5, <2>1 DEF ShapeInv, BasicInv, LinkInv, Live
<1>7. PICK c : c = [worker[w] EXCEPT !.stopEvent = TRUE]
  OBVIOUS
<1>8. /\ c \in Worker /\ c.id = worker[w].id /\ c.task = t /\ c.status = worker[w].status
      /\ c.enabled = worker[w].enabled /\ c.url = worker[w].url
  BY <1>3, <1>7 DEF Worker
<1>9. Sets(w, c)
  BY <1>3, <1>4, <1>7, <1>8 DEF Sets
<1>10. PICK k : k = [task[t] EXCEPT !.cancelled = TRUE, !.waiters = Append(@, r)]
  OBVIOUS
<1>11. task' = [task EXCEPT ![t] = k]
  BY <1>4, <1>10
<1>12. PICK more : more = Append(task[t].waiters, r) /\ more \in Seq(Requests)
  <2>1. task[t].waiters \in Seq(Requests)
    BY <1>6 DEF Task
  <2>2. Append(task[t].waiters, r) \in Seq(Requests)
    BY <2>1
  <2> QED BY <2>2
<1>13. k = [task[t] EXCEPT !.cancelled = TRUE, !.waiters = more]
  BY <1>6, <1>10, <1>12 DEF Task
<1>14. /\ k \in Task /\ k.worker = w /\ k.at = task[t].at /\ k.cancelled /\ k.waiters = more
  BY <1>6, <1>12, <1>13 DEF Task
<1>15. k # None
  BY <1>14, NoneAssumption
<1>16. /\ task' \in [Tasks -> Task \cup {None}] /\ task'[t] = k
       /\ \A u \in Tasks : u # t => task'[u] = task[u]
  BY <1>5, <1>11, <1>14 DEF ShapeInv, BasicInv
<1>17. Live(t)'
  BY <1>5, <1>14, <1>15, <1>16 DEF Live
<1>18. PICK m : m = [req[r] EXCEPT !.phase = "awaiting", !.worker = w]
  OBVIOUS
<1>19. req' = [req EXCEPT ![r] = m]
  BY <1>4, <1>18
<1>20. "awaiting" \in Phases
  BY DEF Phases
<1>21. /\ m \in Request /\ m.phase = "awaiting" /\ m.worker = w /\ m.op = req[r].op
       /\ m.id = req[r].id
  BY <1>2, <1>3, <1>18, <1>20 DEF Request
<1>22. /\ req' \in [Requests -> Request] /\ req'[r] = m
       /\ \A q \in Requests : q # r => req'[q] = req[q]
  BY <1>19, <1>21 DEF ShapeInv, BasicInv
<1>23. Contains(ready, THandle(t)) <=> THandle(t) \in ToSet(ready)
  BY ContainedIn DEF ShapeInv, QueueInv
<1>24. \/ ready' = Tail(ready)
       \/ ready' = Append(Tail(ready), THandle(t)) /\ THandle(t) \notin ToSet(ready)
  BY <1>4, <1>23
<1>25. \E d : /\ Sets(w, d) /\ d.id = req[r].id /\ d.task = t
              /\ d.status = worker[w].status
              /\ d.enabled = worker[w].enabled /\ d.url = worker[w].url
  BY <1>3, <1>8, <1>9
<1>26. /\ task'[t].worker = w /\ task'[t].at = task[t].at /\ task'[t].cancelled
       /\ task'[t].waiters = Append(task[t].waiters, r) /\ task'[t] # None
  BY <1>12, <1>14, <1>15, <1>16
<1>27. /\ req'[r].phase = "awaiting" /\ req'[r].worker = w
       /\ req'[r].op = req[r].op /\ req'[r].id = req[r].id
  BY <1>21, <1>22
<1> QED BY <1>1, <1>2, <1>5, <1>6, <1>16, <1>17, <1>22, <1>24, <1>25, <1>26, <1>27 DEF Awaits

\* The shape, when a request begins to wait.
LEMMA AwaitShape ==
    ASSUME ShapeInv, NEW r \in Requests, AwaitStop(r)
    PROVE  ShapeInv'
<1>1. PICK w, t : w = registry[req[r].id] /\ t = worker[w].task
  OBVIOUS
<1>2. Awaits(r, w, t)
  BY <1>1, AwaitEffect
<1>3. /\ AtHead(RHandle(r)) /\ req[r].phase = "new" /\ req[r].op \in {"stop", "remove"}
      /\ req[r].id \in Ids /\ registry[req[r].id] # None
      /\ \E c : /\ Sets(w, c) /\ c.id = req[r].id /\ c.task = t
                /\ c.status = worker[w].status
                /\ c.enabled = worker[w].enabled /\ c.url = worker[w].url
      /\ t \in Tasks /\ Live(t) /\ task[t].worker = w /\ Live(t)'
      /\ task' \in [Tasks -> Task \cup {None}] /\ task'[t] # None
      /\ \A u \in Tasks : u # t => task'[u] = task[u]
      /\ task'[t].worker = w /\ task'[t].at = task[t].at /\ task'[t].cancelled
      /\ task'[t].waiters = Append(task[t].waiters, r)
      /\ req' \in [Requests -> Request]
      /\ req'[r].phase = "awaiting" /\ req'[r].worker = w
      /\ req'[r].op = req[r].op /\ req'[r].id = req[r].id
      /\ \A q \in Requests : q # r => req'[q] = req[q]
      /\ \/ ready' = Tail(ready)
         \/ ready' = Append(Tail(ready), THandle(t)) /\ THandle(t) \notin ToSet(ready)
      /\ UNCHANGED <<up, db, registry, wanted, arrived, crashes, overlapped>>
  BY <1>2 DEF Awaits
<1>4. PICK c : Sets(w, c) /\ c.id = req[r].id /\ c.task = t
  BY <1>3
<1>5. /\ worker' \in [Workers -> Worker \cup {None}] /\ worker'[w] = c /\ c # None
      /\ \A v \in Workers : v # w => worker'[v] = worker[v]
      /\ \A v \in Workers : worker'[v] # None <=> worker[v] # None
      /\ \A v \in Workers : worker[v] # None => worker'[v].id = worker[v].id
      /\ w \in Workers /\ worker[w] # None
  BY <1>4, SetsEffect DEF ShapeInv, Sets
<1>6. BasicInv'
  BY <1>3, <1>5 DEF ShapeInv, BasicInv
<1>7. QueueInv'
  <2>1. PICK new : \/ ready' = Tail(ready) /\ new = {}
                   \/ /\ ready' = Append(Tail(ready), THandle(t)) /\ new = {t}
                      /\ THandle(t) \notin ToSet(ready)
    BY <1>3
  <2>2. \A u \in Tasks : u \in new \/ Live(u) => Live(u)'
    BY <1>3, <2>1 DEF Live
  <2>3. /\ req'[r].phase \notin {"new", "woken"}
        /\ \A q \in Requests : q # r => req'[q].phase = req[q].phase
    BY <1>3
  <2> QED BY <1>3, <2>1, <2>2, <2>3, RequestQueue
<1>8. WaitInv'
  <2>1. WaitInv /\ task[t] # None
    BY <1>3 DEF ShapeInv, Live
  <2>2. ASSUME NEW u \in Tasks, task[u] # None
        PROVE  /\ r \notin ToSet(task[u].waiters) /\ ToSet(task[u].waiters) \subseteq Requests
               /\ task[u].waiters \in Seq(Requests) /\ IsInjective(task[u].waiters)
    <3>1. task[u].waiters \in Seq(Requests)
      BY <2>2 DEF ShapeInv, BasicInv, Task
    <3>2. ToSet(task[u].waiters) \subseteq Requests
      BY <3>1 DEF ToSet
    <3> QED BY <1>3, <2>1, <2>2, <3>1, <3>2 DEF WaitInv
  <2>3. PICK list : list = task[t].waiters
    OBVIOUS
  <2>4. /\ list \in Seq(Requests) /\ IsInjective(list) /\ r \notin ToSet(list)
        /\ ToSet(list) \subseteq Requests
    BY <1>3, <2>1, <2>2, <2>3
  <2>5. PICK more : more = Append(list, r)
    OBVIOUS
  <2>6. /\ IsInjective(more) /\ ToSet(more) = ToSet(list) \cup {r}
        /\ more # <<>> /\ task'[t].waiters = more
    <3>1. IsInjective(more) /\ ToSet(more) = ToSet(list) \cup {r}
      BY <2>4, <2>5, EntryMore
    <3>2. more # <<>>
      BY <2>4, <2>5
    <3> QED BY <1>3, <2>3, <2>5, <3>1, <3>2
  <2>7. ASSUME NEW u \in Tasks, task'[u] # None
        PROVE  /\ IsInjective(task'[u].waiters)
               /\ Live(u)' /\ task'[u].cancelled => task'[u].waiters # <<>>
               /\ \A q \in ToSet(task'[u].waiters) :
                     /\ Live(u)' /\ task'[u].cancelled
                     /\ req'[q].phase = "awaiting" /\ req'[q].worker = task'[u].worker
    <3>1. CASE u = t
      <4>1. \A q \in ToSet(list) : /\ req'[q] = req[q]
                                   /\ req[q].phase = "awaiting" /\ req[q].worker = w
        BY <1>3, <2>1, <2>3, <2>4 DEF WaitInv
      <4> QED BY <1>3, <2>6, <3>1, <4>1
    <3>2. CASE u # t
      <4>1. task'[u] = task[u] /\ task[u] # None /\ (Live(u)' <=> Live(u))
        BY <1>3, <2>7, <3>2 DEF Live
      <4>2. \A q \in ToSet(task[u].waiters) : req'[q] = req[q]
        BY <1>3, <2>2, <4>1
      <4> QED BY <2>1, <4>1, <4>2 DEF WaitInv
    <3> QED BY <3>1, <3>2
  <2>8. \A u, v \in Tasks : task'[u] # None /\ task'[v] # None /\ u # v =>
           ToSet(task'[u].waiters) \cap ToSet(task'[v].waiters) = {}
    <3>1. ASSUME NEW u \in Tasks, u # t, task'[u] # None
          PROVE  /\ task'[u] = task[u] /\ task[u] # None
                 /\ ToSet(task[u].waiters) \cap ToSet(more) = {}
      <4>1. task'[u] = task[u] /\ task[u] # None
        BY <1>3, <3>1
      <4>2. ToSet(task[u].waiters) \cap ToSet(list) = {}
        BY <1>3, <2>1, <2>3, <3>1, <4>1 DEF WaitInv
      <4> QED BY <2>2, <2>6, <4>1, <4>2
    <3>2. SUFFICES ASSUME NEW u \in Tasks, NEW v \in Tasks,
                          task'[u] # None, task'[v] # None, u # v
                   PROVE  ToSet(task'[u].waiters) \cap ToSet(task'[v].waiters) = {}
      OBVIOUS
    <3>3. CASE u = t \/ v = t
      BY <2>6, <3>1, <3>2, <3>3
    <3>4. CASE u # t /\ v # t
      BY <2>1, <3>1, <3>2, <3>4 DEF WaitInv
    <3> QED BY <3>3, <3>4
  <2> QED BY <2>7, <2>8 DEF WaitInv
<1>9. LinkInv'
  <2>1. \A i \in Ids : registry[i] # None => registry[i] \in Workers
    BY DEF ShapeInv, BasicInv
  <2>2. \A v \in Workers : worker[v] # None /\ worker[v].task # None => worker[v].task \in Tasks
    BY DEF ShapeInv, BasicInv, Worker
  <2>3. \A u \in Tasks : task[u] # None => task[u].worker \in Workers
    BY DEF ShapeInv, BasicInv, Task
  <2>4. \A q \in Requests : req[q].worker # None => req[q].worker \in Workers
    BY DEF ShapeInv, BasicInv, Request
  <2>5. \A v \in Workers : worker[v] # None => worker'[v].task = worker[v].task
    BY <1>1, <1>4, <1>5
  <2>6. \A u \in Tasks : /\ task'[u] # None <=> task[u] # None
                         /\ task[u] # None => task'[u].worker = task[u].worker
    BY <1>3 DEF Live
  <2>7. \A q \in Requests : Pending(q)' =>
           /\ req'[q].op \in {"stop", "remove"}
           /\ req'[q].worker # None /\ worker'[req'[q].worker] # None
           /\ worker'[req'[q].worker].id = req'[q].id
    <3>1. ASSUME NEW q \in Requests, Pending(q)', q # r
          PROVE  Pending(q) /\ req'[q] = req[q]
      BY <1>3, <3>1 DEF Pending
    <3>2. w # None
      BY <1>3, <1>1
    <3> QED BY <1>3, <1>4, <1>5, <2>4, <3>1, <3>2 DEF ShapeInv, LinkInv
  <2> QED BY <1>3, <1>5, <2>1, <2>2, <2>3, <2>5, <2>6, <2>7 DEF ShapeInv, LinkInv
<1>10. DownInv'
  BY <1>3 DEF AtHead, DownInv
<1>11. RoomInv'
  BY <1>3, <1>5, <1>6, RoomStays DEF ShapeInv, Live
<1> QED BY <1>6, <1>7, <1>8, <1>9, <1>10, <1>11 DEF ShapeInv

\* POST creates the row, the worker, and its task if it is enabled.
Adds(r, i, w, row) ==
    /\ AtHead(RHandle(r)) /\ req[r].phase = "new" /\ req[r].op = "add" /\ Respond(r)
    /\ i = NextId /\ i \in Ids /\ db[i] = None /\ registry[i] = None
    /\ w \in Workers /\ worker[w] = None /\ row \in Row
    /\ db' \in [Ids -> Row \cup {None}] /\ db'[i] = row /\ db'[i] # None
    /\ registry' \in [Ids -> Workers \cup {None}] /\ registry'[i] = w /\ registry'[i] # None
    /\ worker' \in [Workers -> Worker \cup {None}] /\ worker'[w] # None
    /\ worker'[w].id = i /\ worker'[w].status = "stopped" /\ ~worker'[w].stopEvent
    /\ row = [enabled |-> worker'[w].enabled, url |-> worker'[w].url]
    /\ wanted' \in [Workers -> BOOLEAN] /\ wanted'[w] = row.enabled
    /\ \A j \in Ids : j # i => db'[j] = db[j] /\ registry'[j] = registry[j]
    /\ \A v \in Workers : v # w => worker'[v] = worker[v] /\ wanted'[v] = wanted[v]
    /\ \/ /\ ~row.enabled /\ task' = task /\ worker'[w].task = None
          /\ ready' = Tail(ready)
       \/ \E t \in Tasks : /\ row.enabled /\ Makes(t, w) /\ worker'[w].task = t
                           /\ ready' = Append(Tail(ready), THandle(t))
    /\ UNCHANGED <<up, arrived, crashes, overlapped>>

\* What a request to add a camera does.
LEMMA AddEffect ==
    ASSUME ShapeInv, NEW r \in Requests, AddCamera(r)
    PROVE  \E i, w, row : Adds(r, i, w, row)
<1>1. /\ AtHead(RHandle(r)) /\ req[r].phase = "new" /\ req[r].op = "add" /\ Respond(r)
      /\ UNCHANGED <<up, arrived, crashes, overlapped>>
  BY DEF AddCamera, Handle, bounds
<1>2. up
  BY <1>1, HeadIsAsked
<1>3. /\ Cardinality(InFlight("add")) \in Nat /\ Cardinality(InFlight("add")) >= 1
      /\ Cardinality(Made(worker)) \in Nat
  <2>1. r \in InFlight("add")
    BY <1>1 DEF InFlight
  <2>2. IsFiniteSet(InFlight("add")) /\ Cardinality(InFlight("add")) \in Nat
    BY Countable DEF ShapeInv
  <2>3. Cardinality(InFlight("add")) # 0
    BY <2>1, <2>2, FS_EmptySet
  <2> QED BY <2>2, <2>3, Countable DEF ShapeInv
<1>4. PICK i : i = NextId
  OBVIOUS
<1>5. i \in Ids /\ db[i] = None
  <2> DEFINE D == {j \in Ids : db[j] # None}
  <2>1. /\ Max({0} \cup D) \in {0} \cup D /\ \A j \in {0} \cup D : j <= Max({0} \cup D)
    BY NextIdType
  <2>2. i = 1 + Max({0} \cup D)
    BY <1>4 DEF NextId
  <2>3. \A j : j \in D <=> j \in Ids /\ db[j] # None
    OBVIOUS
  <2> HIDE DEF D
  <2>4. PICK m : m = Max({0} \cup D)
    OBVIOUS
  <2>5. m \in {0} \cup D /\ (\A j \in D : j <= m) /\ i = 1 + m
    BY <2>1, <2>2, <2>4
  <2>6. \A j \in Ids : j \in Int /\ 1 <= j
    BY DEF Ids
  <2>7. m \in Int /\ 0 <= m
    BY <2>3, <2>5, <2>6
  <2>8. i \in 1..MaxCameras
    <3>1. i + Cardinality(InFlight("add")) <= MaxCameras + 1 /\ MaxCameras \in Nat
      BY <1>4, BoundAssumption DEF ShapeInv, RoomInv
    <3> QED BY <1>3, <2>5, <2>7, <3>1
  <2>9. i \notin D
    BY <2>5, <2>7
  <2> QED BY <2>3, <2>8, <2>9 DEF Ids
<1>6. registry[i] = None
  BY <1>2, <1>5 DEF ShapeInv, LinkInv
<1>7. PICK w : w = FirstFree(worker, Workers)
  OBVIOUS
<1>8. w \in Workers /\ worker[w] = None
  <2>1. MaxCameras \in Nat /\ Workers = 1..MaxCameras /\ DOMAIN worker = 1..MaxCameras
    BY BoundAssumption DEF Workers, ShapeInv, BasicInv
  <2>2. Cardinality(Made(worker)) < MaxCameras
    BY <1>3, <2>1 DEF ShapeInv, RoomInv
  <2> QED BY <1>7, <2>1, <2>2, FreeOne
<1>9. PICK t : t = FirstFree(task, Tasks)
  OBVIOUS
<1>10. t \in Tasks /\ task[t] = None
  BY <1>1, <1>9, FreeTask
<1>11. PICK row \in Row :
         /\ db' = [db EXCEPT ![i] = row]
         /\ registry' = [registry EXCEPT ![i] = w]
         /\ wanted' = [wanted EXCEPT ![w] = row.enabled]
         /\ IF row.enabled
            THEN /\ worker' = [worker EXCEPT ![w] = [NewWorker(i, row) EXCEPT !.task = t]]
                 /\ task' = [task EXCEPT ![t] = NewTask(w)]
                 /\ ready' = Append(Tail(ready), THandle(t))
            ELSE /\ worker' = [worker EXCEPT ![w] = NewWorker(i, row)]
                 /\ ready' = Tail(ready)
                 /\ task' = task
  BY <1>4, <1>7, <1>9 DEF AddCamera
<1>12. row.enabled \in BOOLEAN /\ row.url \in Urls
  BY DEF Row
<1>13. PICK nw : nw = NewWorker(i, row)
  OBVIOUS
<1>14. /\ nw \in Worker /\ nw.id = i /\ nw.status = "stopped" /\ nw.stopEvent = FALSE
       /\ nw.enabled = row.enabled /\ nw.url = row.url /\ nw.task = None
  <2>1. "stopped" \in Statuses
    BY DEF Statuses
  <2> QED BY <1>5, <1>12, <1>13, <2>1 DEF NewWorker, Worker
<1>15. PICK c : /\ c \in Worker /\ c.id = i /\ c.status = "stopped" /\ ~c.stopEvent
                /\ c.enabled = row.enabled /\ c.url = row.url
                /\ worker' = [worker EXCEPT ![w] = c]
                /\ \/ /\ ~row.enabled /\ task' = task /\ c.task = None
                      /\ ready' = Tail(ready)
                   \/ /\ row.enabled /\ Makes(t, w) /\ c.task = t
                      /\ ready' = Append(Tail(ready), THandle(t))
  <2>1. CASE row.enabled
    <3>1. PICK c : c = [nw EXCEPT !.task = t]
      OBVIOUS
    <3>2. /\ c \in Worker /\ c.id = i /\ c.status = "stopped" /\ ~c.stopEvent
          /\ c.enabled = row.enabled /\ c.url = row.url /\ c.task = t
      BY <1>10, <1>14, <3>1 DEF Worker
    <3>3. /\ worker' = [worker EXCEPT ![w] = c] /\ task' = [task EXCEPT ![t] = NewTask(w)]
          /\ ready' = Append(Tail(ready), THandle(t))
      BY <1>11, <1>13, <2>1, <3>1
    <3>4. Makes(t, w)
      BY <1>8, <1>10, <3>3, MakesTask DEF ShapeInv
    <3> QED BY <2>1, <3>2, <3>3, <3>4
  <2>2. CASE ~row.enabled
    <3>1. /\ worker' = [worker EXCEPT ![w] = nw] /\ task' = task /\ ready' = Tail(ready)
      BY <1>11, <1>13, <2>2
    <3> QED BY <1>14, <2>2, <3>1
  <2> QED BY <2>1, <2>2
<1>16. c # None /\ row # None /\ w # None
  BY <1>8, <1>15, NoneAssumption DEF Workers
<1>17. /\ db' \in [Ids -> Row \cup {None}] /\ db'[i] = row
       /\ registry' \in [Ids -> Workers \cup {None}] /\ registry'[i] = w
       /\ \A j \in Ids : j # i => db'[j] = db[j] /\ registry'[j] = registry[j]
  BY <1>5, <1>8, <1>11 DEF ShapeInv, BasicInv
<1>18. /\ worker' \in [Workers -> Worker \cup {None}] /\ worker'[w] = c
       /\ wanted' \in [Workers -> BOOLEAN] /\ wanted'[w] = row.enabled
       /\ \A v \in Workers : v # w => worker'[v] = worker[v] /\ wanted'[v] = wanted[v]
  BY <1>8, <1>11, <1>12, <1>15 DEF ShapeInv, BasicInv
<1>19. row = [enabled |-> c.enabled, url |-> c.url]
  BY <1>15 DEF Row
<1>20. Adds(r, i, w, row)
  <2>1. \/ /\ ~row.enabled /\ task' = task /\ worker'[w].task = None
           /\ ready' = Tail(ready)
        \/ \E u \in Tasks : /\ row.enabled /\ Makes(u, w) /\ worker'[w].task = u
                            /\ ready' = Append(Tail(ready), THandle(u))
    BY <1>10, <1>15, <1>18
  <2>2. /\ worker'[w] # None /\ worker'[w].id = i /\ worker'[w].status = "stopped"
        /\ ~worker'[w].stopEvent
        /\ row = [enabled |-> worker'[w].enabled, url |-> worker'[w].url]
    BY <1>15, <1>16, <1>18, <1>19
  <2>3. row \in Row /\ db'[i] # None /\ registry'[i] # None
    BY <1>11, <1>16, <1>17
  <2> QED BY <1>1, <1>4, <1>5, <1>6, <1>8, <1>17, <1>18, <2>1, <2>2, <2>3 DEF Adds
<1> QED BY <1>20

\* The shape, when a camera is added.
LEMMA AddShape ==
    ASSUME ShapeInv, NEW r \in Requests, AddCamera(r)
    PROVE  ShapeInv'
<1>1. PICK i, w, row : Adds(r, i, w, row)
  BY AddEffect
<1>2. /\ AtHead(RHandle(r)) /\ req[r].phase = "new" /\ req[r].op = "add" /\ Respond(r)
      /\ i = NextId /\ i \in Ids /\ db[i] = None /\ registry[i] = None
      /\ w \in Workers /\ worker[w] = None
      /\ db' \in [Ids -> Row \cup {None}] /\ db'[i] # None
      /\ registry' \in [Ids -> Workers \cup {None}] /\ registry'[i] = w /\ registry'[i] # None
      /\ worker' \in [Workers -> Worker \cup {None}] /\ worker'[w] # None
      /\ worker'[w].id = i
      /\ wanted' \in [Workers -> BOOLEAN]
      /\ \A j \in Ids : j # i => db'[j] = db[j] /\ registry'[j] = registry[j]
      /\ \A v \in Workers : v # w => worker'[v] = worker[v]
      /\ \/ task' = task /\ worker'[w].task = None /\ ready' = Tail(ready)
         \/ \E t \in Tasks : /\ Makes(t, w) /\ worker'[w].task = t
                             /\ ready' = Append(Tail(ready), THandle(t))
      /\ UNCHANGED <<up, arrived, crashes, overlapped>>
  BY <1>1 DEF Adds
<1>3. /\ req' \in [Requests -> Request] /\ req'[r].phase = "idle"
      /\ \A q \in Requests : q # r => req'[q] = req[q]
  BY <1>2, Answered DEF ShapeInv
<1>4. up /\ \A j \in Ids : db[j] = None <=> registry[j] = None
  BY <1>2, HeadIsAsked DEF ShapeInv, LinkInv
<1>5. PICK new : \/ /\ new = {} /\ task' = task /\ worker'[w].task = None
                    /\ ready' = Tail(ready)
                 \/ \E t \in Tasks : /\ new = {t} /\ Makes(t, w) /\ worker'[w].task = t
                                     /\ ready' = Append(Tail(ready), THandle(t))
  BY <1>2
<1>6. /\ new \subseteq Tasks /\ task' \in [Tasks -> Task \cup {None}]
      /\ \A u \in Tasks : u \notin new => task'[u] = task[u]
      /\ \A u \in new : /\ task[u] = None /\ task'[u] # None /\ task'[u].worker = w
                        /\ task'[u].waiters = <<>> /\ ~task'[u].cancelled /\ Live(u)'
      /\ worker'[w].task # None => worker'[w].task \in new
  <2>1. CASE new = {} /\ task' = task /\ worker'[w].task = None
    BY <2>1 DEF ShapeInv, BasicInv
  <2>2. ASSUME NEW t \in Tasks, new = {t}, Makes(t, w), worker'[w].task = t
        PROVE  /\ new \subseteq Tasks /\ task' \in [Tasks -> Task \cup {None}]
               /\ \A u \in Tasks : u \notin new => task'[u] = task[u]
               /\ \A u \in new : /\ task[u] = None /\ task'[u] # None /\ task'[u].worker = w
                                 /\ task'[u].waiters = <<>> /\ ~task'[u].cancelled /\ Live(u)'
               /\ worker'[w].task # None => worker'[w].task \in new
    BY <2>2 DEF Makes
  <2> QED BY <1>5, <2>1, <2>2
<1>7. BasicInv'
  BY <1>2, <1>3, <1>6 DEF ShapeInv, BasicInv
<1>8. QueueInv'
  <2>1. \A u \in Tasks : u \in new \/ Live(u) => Live(u)'
    BY <1>6 DEF Live
  <2>2. \A u \in new : THandle(u) \notin ToSet(ready)
    BY <1>6 DEF ShapeInv, QueueInv, Live
  <2>3. /\ req'[r].phase \notin {"new", "woken"}
        /\ \A q \in Requests : q # r => req'[q].phase = req[q].phase
    BY <1>3
  <2>4. \/ ready' = Tail(ready) /\ new = {}
        \/ \E t \in Tasks : /\ ready' = Append(Tail(ready), THandle(t)) /\ new = {t}
                            /\ THandle(t) \notin ToSet(ready)
    BY <1>5, <2>2
  <2> QED BY <1>2, <2>1, <2>3, <2>4, RequestQueue
<1>9. WaitInv'
  <2>1. \A u \in Tasks : \/ task'[u] = task[u]
                         \/ task'[u].waiters = <<>> /\ ~task'[u].cancelled
    BY <1>6
  <2> QED BY <1>2, <1>3, <2>1, RequestWait
<1>10. LinkInv'
  <2>1. \A j \in Ids : registry[j] # None => registry[j] \in Workers
    BY DEF ShapeInv, BasicInv
  <2>2. \A v \in Workers : worker[v] # None /\ worker[v].task # None => worker[v].task \in Tasks
    BY DEF ShapeInv, BasicInv, Worker
  <2>3. \A u \in Tasks : task[u] # None => task[u].worker \in Workers
    BY DEF ShapeInv, BasicInv, Task
  <2>4. \A q \in Requests : req[q].worker # None => req[q].worker \in Workers
    BY DEF ShapeInv, BasicInv, Request
  <2>5. \A q \in Requests : Pending(q)' => Pending(q) /\ req'[q] = req[q]
    BY <1>3 DEF Pending
  <2>6. LinkInv
    BY DEF ShapeInv
  <2>7. \A v \in Workers : worker[v] # None => v # w /\ worker'[v] = worker[v]
    BY <1>2
  <2>8. \A j \in Ids : registry'[j] # None =>
           worker'[registry'[j]] # None /\ worker'[registry'[j]].id = j
    BY <1>2, <2>1, <2>6, <2>7 DEF LinkInv
  <2>9. ASSUME NEW v \in Workers, worker'[v] # None, worker'[v].task # None
        PROVE  task'[worker'[v].task] # None /\ task'[worker'[v].task].worker = v
    <3>1. CASE v = w
      BY <1>6, <2>9, <3>1
    <3>2. CASE v # w
      <4>1. worker'[v] = worker[v]
        BY <1>2, <3>2
      <4>2. /\ worker[v].task \in Tasks /\ task[worker[v].task] # None
            /\ task[worker[v].task].worker = v
        BY <2>2, <2>6, <2>9, <4>1 DEF LinkInv
      <4> QED BY <1>6, <4>1, <4>2
    <3> QED BY <3>1, <3>2
  <2>10. \A u \in Tasks : task'[u] # None => worker'[task'[u].worker] # None
    BY <1>2, <1>6, <2>3, <2>6, <2>7 DEF LinkInv
  <2>11. \A q \in Requests : Pending(q)' =>
           /\ req'[q].op \in {"stop", "remove"}
           /\ req'[q].worker # None /\ worker'[req'[q].worker] # None
           /\ worker'[req'[q].worker].id = req'[q].id
    BY <2>4, <2>5, <2>6, <2>7 DEF LinkInv
  <2>12. \A j \in Ids : db'[j] = None <=> registry'[j] = None
    BY <1>2, <1>4
  <2> QED BY <2>8, <2>9, <2>10, <2>11, <2>12 DEF LinkInv
<1>11. DownInv'
  BY <1>2, <1>4 DEF DownInv
<1>12. RoomInv'
  <2>1. /\ Made(worker)' = Made(worker) \cup {w} /\ w \notin Made(worker)
        /\ Made(task)' = Made(task) \cup new
    BY <1>2, <1>6, <1>7 DEF ShapeInv, BasicInv, Made
  <2>2. /\ r \in InFlight("add") /\ InFlight("add")' = InFlight("add") \ {r}
        /\ InFlight("start")' = InFlight("start")
    BY <1>2, <1>3 DEF InFlight
  <2>3. /\ IsFiniteSet(Made(worker)) /\ Cardinality(Made(worker)) \in Nat
        /\ IsFiniteSet(Made(task)) /\ Cardinality(Made(task)) \in Nat
        /\ IsFiniteSet(InFlight("add")) /\ Cardinality(InFlight("add")) \in Nat
        /\ Cardinality(InFlight("start")) \in Nat
    BY Countable DEF ShapeInv
  <2>4. /\ Cardinality(Made(worker)') = Cardinality(Made(worker)) + 1
        /\ Cardinality(InFlight("add")') = Cardinality(InFlight("add")) - 1
    BY <2>1, <2>2, <2>3, OneMore, OneLess
  <2>5. /\ Cardinality(Made(task)') \in Nat
        /\ Cardinality(Made(task)') <= Cardinality(Made(task)) + 1
    <3>1. CASE new = {}
      <4>1. Made(task)' = Made(task)
        BY <2>1, <3>1
      <4> QED BY <2>3, <4>1
    <3>2. ASSUME NEW t \in Tasks, new = {t}
          PROVE  /\ Cardinality(Made(task)') \in Nat
                 /\ Cardinality(Made(task)') <= Cardinality(Made(task)) + 1
      <4>1. t \notin Made(task) /\ Made(task)' = Made(task) \cup {t}
        BY <1>6, <2>1, <3>2 DEF Made
      <4>2. Cardinality(Made(task)') = Cardinality(Made(task)) + 1
        BY <2>3, <4>1, OneMore
      <4> QED BY <2>3, <4>2
    <3> QED BY <1>5, <3>1, <3>2
  <2>6. NextId' = NextId + 1 /\ NextId \in Int
    <3> DEFINE D == {j \in Ids : db[j] # None}
               E == {j \in Ids : db'[j] # None}
    <3>1. /\ Max({0} \cup D) \in {0} \cup D /\ \A j \in {0} \cup D : j <= Max({0} \cup D)
          /\ Max({0} \cup E) \in {0} \cup E /\ \A j \in {0} \cup E : j <= Max({0} \cup E)
      BY NextIdType
    <3>2. NextId = 1 + Max({0} \cup D) /\ NextId' = 1 + Max({0} \cup E)
      BY DEF NextId
    <3>3. E = D \cup {i} /\ D \subseteq Int /\ i \in Int
      BY <1>2 DEF Ids
    <3> HIDE DEF D, E
    <3>4. PICK m, n : m = Max({0} \cup D) /\ n = Max({0} \cup E)
      OBVIOUS
    <3>5. /\ m \in {0} \cup D /\ (\A j \in {0} \cup D : j <= m)
          /\ n \in {0} \cup D \cup {i} /\ (\A j \in {0} \cup D \cup {i} : j <= n)
      BY <3>1, <3>3, <3>4
    <3>6. i = m + 1 /\ m \in Int
      BY <1>2, <3>2, <3>3, <3>4, <3>5
    <3>7. n = i
      <4>1. n \in Int /\ i <= n
        BY <3>3, <3>5
      <4>2. n <= m \/ n = i
        BY <3>5
      <4> QED BY <3>6, <4>1, <4>2
    <3> QED BY <3>2, <3>4, <3>6, <3>7
  <2>7. RoomInv' <=> /\ Cardinality(Made(worker)') + Cardinality(InFlight("add")') <= MaxCameras
                     /\ Cardinality(Made(task)') + Cardinality(InFlight("add")')
                           + Cardinality(InFlight("start")') <= MaxTasks
                     /\ NextId' + Cardinality(InFlight("add")') <= MaxCameras + 1
    BY DEF RoomInv
  <2>8. RoomInv /\ MaxTasks \in Int /\ MaxCameras \in Int
    BY BoundAssumption DEF ShapeInv
  <2>9. Cardinality(InFlight("start")') = Cardinality(InFlight("start"))
    BY <2>2
  <2> QED BY <2>3, <2>4, <2>5, <2>6, <2>7, <2>8, <2>9 DEF RoomInv
<1> QED BY <1>7, <1>8, <1>9, <1>10, <1>11, <1>12 DEF ShapeInv

\* A request that arrives is at the end of the queue; the bounds have left it room.
LEMMA ArriveShape ==
    ASSUME ShapeInv, NEW r \in Requests, NEW op \in Ops, NEW id \in Ids, Arrive(r, op, id)
    PROVE  ShapeInv'
<1>1. /\ up /\ req[r].phase = "idle" /\ arrived + crashes < MaxRequests /\ Room(op)
      /\ ready' = Append(ready, RHandle(r)) /\ arrived' = arrived + 1
      /\ overlapped' \subseteq overlapped \cup {id}
      /\ UNCHANGED <<up, db, registry, worker, task, crashes, wanted>>
  BY DEF Arrive, manager
<1>2. /\ req' \in [Requests -> Request] /\ req'[r].phase = "new" /\ req'[r].op = op
      /\ \A q \in Requests : q # r => req'[q] = req[q]
  <2>1. PICK m : m = [op |-> op, id |-> id, phase |-> "new", worker |-> None]
    OBVIOUS
  <2>2. "new" \in Phases
    BY DEF Phases
  <2>3. m \in Request /\ m.phase = "new" /\ m.op = op
    BY <2>1, <2>2 DEF Request
  <2>4. req' = [req EXCEPT ![r] = m]
    BY <2>1 DEF Arrive
  <2> QED BY <2>3, <2>4 DEF ShapeInv, BasicInv
<1>3. BasicInv'
  <2>1. arrived + 1 \in 0..MaxRequests
    BY <1>1, BoundAssumption DEF ShapeInv, BasicInv
  <2> QED BY <1>1, <1>2, <2>1 DEF ShapeInv, BasicInv
<1>4. QueueInv'
  <2>1. PICK s : s = ready
    OBVIOUS
  <2>2. s \in Seq(Handles) /\ IsInjective(s) /\ RHandle(r) \in Handles
    BY <2>1 DEF ShapeInv, QueueInv, Handles
  <2>3. RHandle(r) \notin ToSet(s)
    BY <1>1, <2>1 DEF ShapeInv, QueueInv
  <2>4. /\ ready' \in Seq(Handles) /\ IsInjective(ready')
        /\ ToSet(ready') = ToSet(ready) \cup {RHandle(r)}
    <3>1. PICK h : h = RHandle(r)
      OBVIOUS
    <3>2. h \in Handles /\ h \notin ToSet(s)
      BY <2>2, <2>3, <3>1
    <3>3. /\ Append(s, h) \in Seq(Handles) /\ IsInjective(Append(s, h))
          /\ ToSet(Append(s, h)) = ToSet(s) \cup {h}
      BY <2>2, <3>2, EntryMore
    <3> QED BY <1>1, <2>1, <3>1, <3>3
  <2>5. ASSUME NEW t \in Tasks, THandle(t) \in ToSet(ready') PROVE Live(t)'
    <3>1. THandle(t) \in ToSet(ready)
      BY <2>4, <2>5, HandlesDiffer
    <3> QED BY <1>1, <3>1 DEF ShapeInv, QueueInv, Live
  <2>6. ASSUME NEW q \in Requests
        PROVE  RHandle(q) \in ToSet(ready') <=> req'[q].phase \in {"new", "woken"}
    <3>1. RHandle(q) \in ToSet(ready') <=> RHandle(q) \in ToSet(ready) \/ q = r
      BY <2>4, HandlesDiffer
    <3> QED BY <1>2, <3>1 DEF ShapeInv, QueueInv
  <2> QED BY <2>4, <2>5, <2>6 DEF QueueInv
<1>5. WaitInv'
  BY <1>1, <1>2, RequestWait
<1>6. LinkInv'
  <2>1. \A q \in Requests : Pending(q)' => Pending(q) /\ req'[q] = req[q]
    BY <1>2 DEF Pending
  <2> QED BY <1>1, <2>1 DEF ShapeInv, LinkInv
<1>7. DownInv'
  BY <1>1 DEF DownInv
<1>8. RoomInv'
  <2>1. /\ \A o : o # op => InFlight(o)' = InFlight(o)
        /\ InFlight(op)' = InFlight(op) \cup {r} /\ r \notin InFlight(op)
    BY <1>1, <1>2 DEF InFlight
  <2>2. /\ Cardinality(Made(worker)) \in Nat /\ Cardinality(Made(task)) \in Nat
        /\ \A o : IsFiniteSet(InFlight(o)) /\ Cardinality(InFlight(o)) \in Nat
    BY Countable DEF ShapeInv
  <2>3. Cardinality(InFlight(op)') = Cardinality(InFlight(op)) + 1
    BY <2>1, <2>2, OneMore
  <2>4. Made(worker)' = Made(worker) /\ Made(task)' = Made(task) /\ NextId' = NextId
    BY <1>1 DEF Made, NextId
  <2>5. PICK adds, starts, ws, ts :
           /\ adds = Cardinality(InFlight("add")) /\ starts = Cardinality(InFlight("start"))
           /\ ws = Cardinality(Made(worker)) /\ ts = Cardinality(Made(task))
    OBVIOUS
  <2>6. adds \in Nat /\ starts \in Nat /\ ws \in Nat /\ ts \in Nat
    BY <2>2, <2>5
  <2>7. /\ op = "add" => NextId + adds <= MaxCameras /\ ws + adds < MaxCameras
        /\ op \in {"add", "start"} => ts + adds + starts < MaxTasks
    BY <1>1, <2>5 DEF Room, Made
  <2>8. /\ ws + adds <= MaxCameras /\ ts + adds + starts <= MaxTasks
        /\ NextId + adds <= MaxCameras + 1
    BY <2>5 DEF ShapeInv, RoomInv
  <2>9. NextId \in Int
    <3> DEFINE D == {j \in Ids : db[j] # None}
    <3>1. Max({0} \cup D) \in {0} \cup D
      BY NextIdType
    <3>2. NextId = 1 + Max({0} \cup D) /\ D \subseteq Int
      BY DEF NextId, Ids
    <3> HIDE DEF D
    <3>3. PICK m : m = Max({0} \cup D)
      OBVIOUS
    <3> QED BY <3>1, <3>2, <3>3
  <2>10. PICK adds2, starts2 : /\ adds2 = Cardinality(InFlight("add")')
                               /\ starts2 = Cardinality(InFlight("start")')
    OBVIOUS
  <2>11. /\ op = "add" => adds2 = adds + 1 /\ starts2 = starts
         /\ op = "start" => adds2 = adds /\ starts2 = starts + 1
         /\ op \notin {"add", "start"} => adds2 = adds /\ starts2 = starts
    BY <2>1, <2>3, <2>5, <2>10
  <2>12. MaxCameras \in Int /\ MaxTasks \in Int
    BY BoundAssumption
  <2>13. /\ ws + adds2 <= MaxCameras /\ ts + adds2 + starts2 <= MaxTasks
         /\ NextId + adds2 <= MaxCameras + 1
    BY <2>6, <2>7, <2>8, <2>9, <2>11, <2>12
  <2>14. RoomInv' <=> /\ Cardinality(Made(worker)') + Cardinality(InFlight("add")') <= MaxCameras
                      /\ Cardinality(Made(task)') + Cardinality(InFlight("add")')
                            + Cardinality(InFlight("start")') <= MaxTasks
                      /\ NextId' + Cardinality(InFlight("add")') <= MaxCameras + 1
    BY DEF RoomInv
  <2> QED BY <2>4, <2>5, <2>10, <2>13, <2>14
<1> QED BY <1>3, <1>4, <1>5, <1>6, <1>7, <1>8 DEF ShapeInv

\* What a task waited for has happened: it is at the end of the queue.
LEMMA CompleteShape ==
    ASSUME ShapeInv, NEW t \in Tasks, Complete(t)
    PROVE  ShapeInv'
<1>1. /\ up /\ Live(t) /\ ready' = Append(ready, THandle(t))
      /\ UNCHANGED <<up, db, registry, worker, task, req, arrived, crashes, wanted, overlapped>>
  BY DEF Complete, manager, bounds
<1>2. PICK s, h : s = ready /\ h = THandle(t)
  OBVIOUS
<1>3. s \in Seq(Handles) /\ IsInjective(s) /\ h \in Handles
  BY <1>2 DEF ShapeInv, QueueInv, Handles
<1>4. h \notin ToSet(s)
  BY <1>2, <1>3, ContainedIn DEF Complete
<1>5. /\ Append(s, h) \in Seq(Handles) /\ IsInjective(Append(s, h))
      /\ ToSet(Append(s, h)) = ToSet(s) \cup {h}
  BY <1>3, <1>4, EntryMore
<1>6. QueueInv'
  <2>1. ASSUME NEW u \in Tasks, THandle(u) \in ToSet(ready') PROVE Live(u)'
    <3>1. THandle(u) \in ToSet(ready) \/ u = t
      BY <1>1, <1>2, <1>5, <2>1, HandlesDiffer
    <3> QED BY <1>1, <3>1 DEF ShapeInv, QueueInv, Live
  <2>2. ASSUME NEW q \in Requests
        PROVE  RHandle(q) \in ToSet(ready') <=> RHandle(q) \in ToSet(ready)
    BY <1>1, <1>2, <1>5, HandlesDiffer
  <2> QED BY <1>1, <1>2, <1>5, <2>1, <2>2 DEF ShapeInv, QueueInv
<1>7. BasicInv'
  BY <1>1 DEF ShapeInv, BasicInv
<1>8. WaitInv'
  BY <1>1 DEF ShapeInv, WaitInv, Live
<1>9. LinkInv'
  BY <1>1 DEF ShapeInv, LinkInv, Pending
<1>10. DownInv'
  BY <1>1 DEF DownInv
<1>11. RoomInv'
  BY <1>1, <1>7, RoomStays DEF ShapeInv
<1> QED BY <1>6, <1>7, <1>8, <1>9, <1>10, <1>11 DEF ShapeInv

\* With no request in flight there is room for a worker and a task for each camera.
LEMMA RoomAtRest ==
    ASSUME NEW ws, ws \subseteq Workers, NEW ts, ts \subseteq Ids, NEW d
    PROVE  /\ Cardinality(ws) + Cardinality({}) <= MaxCameras
           /\ Cardinality(ts) + Cardinality({}) + Cardinality({}) <= MaxTasks
           /\ 1 + Max({0} \cup {i \in Ids : d[i] # None}) + Cardinality({}) <= MaxCameras + 1
<1>1. MaxCameras \in Nat /\ MaxTasks \in Nat /\ MaxCameras <= MaxTasks /\ 1 \in Int
      /\ MaxCameras \in Int /\ MaxCameras >= 1
  BY BoundAssumption
<1>2. IsFiniteSet(1..MaxCameras) /\ Cardinality(1..MaxCameras) = MaxCameras
  <2>1. /\ IsFiniteSet(1..MaxCameras)
        /\ Cardinality(1..MaxCameras) = IF 1 > MaxCameras THEN 0 ELSE MaxCameras - 1 + 1
    BY <1>1, FS_Interval
  <2> QED BY <1>1, <2>1
<1>3. ws \in SUBSET (1..MaxCameras) /\ ts \in SUBSET (1..MaxCameras)
  BY DEF Workers, Ids
<1>4. /\ Cardinality(ws) \in Nat /\ Cardinality(ws) <= MaxCameras
      /\ Cardinality(ts) \in Nat /\ Cardinality(ts) <= MaxCameras
  <2>1. PICK S : S = 1..MaxCameras
    OBVIOUS
  <2>2. IsFiniteSet(S) /\ Cardinality(S) = MaxCameras /\ ws \in SUBSET S /\ ts \in SUBSET S
    BY <1>2, <1>3, <2>1
  <2>3. /\ IsFiniteSet(ws) /\ Cardinality(ws) <= Cardinality(S)
        /\ IsFiniteSet(ts) /\ Cardinality(ts) <= Cardinality(S)
    BY <2>2, FS_Subset
  <2>4. Cardinality(ws) \in Nat /\ Cardinality(ts) \in Nat
    BY <2>3, FS_CardinalityType
  <2> QED BY <2>2, <2>3, <2>4
<1>5. Cardinality({}) = 0
  BY FS_EmptySet
<1>6. PICK m : m = Max({0} \cup {i \in Ids : d[i] # None})
  OBVIOUS
<1>7. m \in Int /\ m <= MaxCameras
  <2> DEFINE D == {i \in Ids : d[i] # None}
  <2>1. \A i \in {0} \cup D : i \in Int /\ i <= MaxCameras
    BY <1>1 DEF Ids
  <2>2. m \in {0} \cup D
    BY <1>6, NextIdType
  <2> HIDE DEF D
  <2> QED BY <2>1, <2>2
<1>8. 1 + m + Cardinality({}) <= MaxCameras + 1
  BY <1>1, <1>5, <1>7
<1> QED BY <1>1, <1>4, <1>5, <1>6, <1>8

\* A process that starts has a worker for each row, registered under its id, and a task for
\* each that is enabled; all tasks are in the queue.
Begins(enabled) ==
    /\ ~up /\ up' /\ enabled \subseteq Ids
    /\ \A i \in Ids : i \in enabled <=> db[i] # None /\ db[i].enabled
    /\ registry' \in [Ids -> Workers \cup {None}]
    /\ \A i \in Ids : /\ db[i] = None => registry'[i] = None
                      /\ db[i] # None => registry'[i] = i /\ i # None
    /\ worker' \in [Workers -> Worker \cup {None}]
    /\ \A i \in Ids : db[i] = None => worker'[i] = None
    /\ \A i \in Ids : db[i] # None =>
          /\ worker'[i] # None /\ worker'[i].id = i /\ worker'[i].status = "stopped"
          /\ ~worker'[i].stopEvent
          /\ db[i] = [enabled |-> worker'[i].enabled, url |-> worker'[i].url]
          /\ i \in enabled => worker'[i].task = i
          /\ i \notin enabled => worker'[i].task = None
    /\ task' \in [Tasks -> Task \cup {None}]
    /\ \A t \in Tasks : t \notin enabled => task'[t] = None
    /\ \A t \in enabled :
          /\ t \in Tasks /\ t \in Workers /\ task'[t] # None /\ task'[t].worker = t
          /\ task'[t].at = "new" /\ ~task'[t].cancelled /\ task'[t].waiters = <<>>
    /\ ready' \in Seq(Handles) /\ IsInjective(ready')
    /\ ToSet(ready') = {THandle(t) : t \in enabled}
    /\ wanted' \in [Workers -> BOOLEAN]
    /\ \A i \in Ids : wanted'[i] <=> i \in enabled
    /\ overlapped' = {}
    /\ UNCHANGED <<db, req, arrived, crashes>>

\* Startup is that.
LEMMA StartupEffect ==
    ASSUME ShapeInv, Startup
    PROVE  \E enabled : Begins(enabled)
<1>1. PICK enabled : enabled = {i \in Ids : db[i] # None /\ db[i].enabled}
  OBVIOUS
<1>2. /\ ~up /\ up' = TRUE
      /\ registry' = [i \in Ids |-> IF db[i] = None THEN None ELSE i]
      /\ worker' = [i \in Ids |-> IF db[i] = None THEN None
                                  ELSE [NewWorker(i, db[i]) EXCEPT
                                          !.task = IF i \in enabled THEN i ELSE None]]
      /\ task' = [t \in Tasks |-> IF t \in enabled THEN NewTask(t) ELSE None]
      /\ ready' = [i \in 1..Len(Ascending(enabled)) |-> THandle(Ascending(enabled)[i])]
      /\ wanted' = [i \in Ids |-> i \in enabled]
      /\ overlapped' = {}
      /\ UNCHANGED <<db, req, arrived, crashes>>
  BY <1>1 DEF Startup, bounds
<1>3. /\ enabled \subseteq Ids /\ Ids = Workers /\ Ids \subseteq Tasks /\ Ids \subseteq Int
      /\ \A i \in Ids : i \in enabled <=> db[i] # None /\ db[i].enabled
  BY <1>1, BoundAssumption DEF Ids, Workers, Tasks
<1>4. \A i \in Ids : i # None
  BY <1>3, NoneAssumption
<1>5. ASSUME NEW i \in Ids, db[i] # None
      PROVE  /\ worker'[i] \in Worker /\ worker'[i].id = i /\ worker'[i].status = "stopped"
             /\ ~worker'[i].stopEvent
             /\ db[i] = [enabled |-> worker'[i].enabled, url |-> worker'[i].url]
             /\ i \in enabled => worker'[i].task = i
             /\ i \notin enabled => worker'[i].task = None
  <2>1. PICK row : row = db[i]
    OBVIOUS
  <2>2. row \in Row /\ row.enabled \in BOOLEAN /\ row.url \in Urls
    BY <1>5, <2>1 DEF ShapeInv, BasicInv, Row
  <2>3. PICK k : k = IF i \in enabled THEN i ELSE None
    OBVIOUS
  <2>4. k \in Tasks \cup {None}
    BY <1>3, <2>3
  <2>5. PICK nw : nw = NewWorker(i, row)
    OBVIOUS
  <2>6. "stopped" \in Statuses
    BY DEF Statuses
  <2>7. /\ nw \in Worker /\ nw.id = i /\ nw.status = "stopped" /\ nw.stopEvent = FALSE
        /\ nw.enabled = row.enabled /\ nw.url = row.url
    BY <2>2, <2>5, <2>6 DEF NewWorker, Worker
  <2>8. PICK c : c = [nw EXCEPT !.task = k]
    OBVIOUS
  <2>9. /\ c \in Worker /\ c.id = i /\ c.status = "stopped" /\ ~c.stopEvent
        /\ c.enabled = row.enabled /\ c.url = row.url /\ c.task = k
    BY <2>4, <2>7, <2>8 DEF Worker
  <2>10. worker'[i] = c
    BY <1>2, <1>5, <2>1, <2>3, <2>5, <2>8
  <2>11. row = [enabled |-> c.enabled, url |-> c.url]
    BY <2>2, <2>9 DEF Row
  <2> QED BY <2>1, <2>3, <2>9, <2>10, <2>11
<1>6. /\ \A i \in Ids : db[i] = None => worker'[i] = None
      /\ worker' \in [Workers -> Worker \cup {None}]
  <2>1. \A i \in Ids : db[i] = None => worker'[i] = None
    BY <1>2
  <2>2. \A i \in Ids : worker'[i] \in Worker \cup {None}
    BY <1>5, <2>1
  <2>3. worker' = [i \in Ids |-> worker'[i]]
    BY <1>2
  <2> QED BY <1>3, <2>1, <2>2, <2>3
<1>7. \A i \in Ids : db[i] # None => worker'[i] # None
  BY <1>5, NoneAssumption
<1>8. /\ registry' \in [Ids -> Workers \cup {None}] /\ wanted' \in [Workers -> BOOLEAN]
      /\ \A i \in Ids : /\ db[i] = None => registry'[i] = None
                        /\ db[i] # None => registry'[i] = i
                        /\ wanted'[i] <=> i \in enabled
  <2>1. \A i \in Ids : registry'[i] = IF db[i] = None THEN None ELSE i
    BY <1>2
  <2>2. \A i \in Ids : wanted'[i] = (i \in enabled)
    BY <1>2
  <2>3. wanted' \in [Workers -> BOOLEAN]
    BY <1>2, <1>3
  <2>4. registry' \in [Ids -> Workers \cup {None}]
    BY <1>2, <1>3
  <2> QED BY <2>1, <2>2, <2>3, <2>4
<1>9. ASSUME NEW t \in enabled
      PROVE  /\ t \in Tasks /\ t \in Workers /\ task'[t] \in Task /\ task'[t] # None
             /\ task'[t].worker = t
             /\ task'[t].at = "new" /\ ~task'[t].cancelled /\ task'[t].waiters = <<>>
  <2>1. t \in Tasks /\ t \in Workers /\ task'[t] = NewTask(t)
    BY <1>2, <1>3
  <2>2. PICK k : k = NewTask(t)
    OBVIOUS
  <2>3. /\ k \in Task /\ k # None /\ k.worker = t /\ k.at = "new" /\ ~k.cancelled
        /\ k.waiters = <<>>
    BY <2>1, <2>2, NewTaskIs
  <2> QED BY <2>1, <2>2, <2>3
<1>10. /\ \A t \in Tasks : t \notin enabled => task'[t] = None
       /\ task' \in [Tasks -> Task \cup {None}]
  <2>1. \A t \in Tasks : t \notin enabled => task'[t] = None
    BY <1>2
  <2>2. \A t \in Tasks : task'[t] \in Task \cup {None}
    BY <1>9, <2>1
  <2>3. task' = [t \in Tasks |-> task'[t]]
    BY <1>2
  <2> QED BY <2>1, <2>2, <2>3
<1>11. /\ ready' \in Seq(Handles) /\ IsInjective(ready')
       /\ ToSet(ready') = {THandle(t) : t \in enabled}
  <2>1. enabled \in SUBSET Int /\ IsFiniteSet(enabled)
    <3>1. IsFiniteSet(Ids)
      BY BoundAssumption, FS_Interval DEF Ids
    <3> QED BY <1>3, <3>1, FS_Subset
  <2>2. PICK n, order : n = Cardinality(enabled) /\ order = Ascending(enabled)
    OBVIOUS
  <2>3. /\ n \in Nat /\ order \in Seq(enabled) /\ Len(order) = n /\ DOMAIN order = 1..n
        /\ \A m \in 1..n : order[m] \in enabled /\ Rank(enabled, order[m]) = m
        /\ \A i \in enabled : /\ Rank(enabled, i) \in 1..n
                              /\ order[Rank(enabled, i)] = i
    BY <2>1, <2>2, AscendingProperties, FS_CardinalityType
  <2>4. ready' = [m \in 1..n |-> THandle(order[m])]
    BY <1>2, <2>2, <2>3
  <2>5. \A m \in 1..n : ready'[m] = THandle(order[m]) /\ THandle(order[m]) \in Handles
    BY <1>9, <2>3, <2>4 DEF Handles
  <2>6. ready' \in [1..n -> Handles]
    BY <2>4, <2>5
  <2>7. ready' \in Seq(Handles) /\ DOMAIN ready' = 1..n
    BY <2>3, <2>6
  <2>8. ASSUME NEW l \in 1..n, NEW m \in 1..n, ready'[l] = ready'[m] PROVE l = m
    <3>1. order[l] = order[m]
      BY <2>5, <2>8, HandlesDiffer
    <3> QED BY <2>3, <3>1
  <2>9. IsInjective(ready')
    BY <2>7, <2>8 DEF IsInjective
  <2>10. ASSUME NEW h \in ToSet(ready') PROVE h \in {THandle(t) : t \in enabled}
    BY <2>3, <2>5, <2>7 DEF ToSet
  <2>11. ASSUME NEW t \in enabled PROVE THandle(t) \in ToSet(ready')
    <3>1. PICK m \in 1..n : order[m] = t
      BY <2>3
    <3> QED BY <2>5, <2>7, <3>1 DEF ToSet
  <2> QED BY <2>7, <2>9, <2>10, <2>11
<1>12. Begins(enabled)
  <2>1. \A i \in Ids : db[i] # None =>
           /\ worker'[i] # None /\ worker'[i].id = i /\ worker'[i].status = "stopped"
           /\ ~worker'[i].stopEvent
           /\ db[i] = [enabled |-> worker'[i].enabled, url |-> worker'[i].url]
           /\ i \in enabled => worker'[i].task = i
           /\ i \notin enabled => worker'[i].task = None
    BY <1>5, <1>7
  <2>2. \A t \in enabled :
           /\ t \in Tasks /\ t \in Workers /\ task'[t] # None /\ task'[t].worker = t
           /\ task'[t].at = "new" /\ ~task'[t].cancelled /\ task'[t].waiters = <<>>
    BY <1>9
  <2>3. \A i \in Ids : /\ db[i] = None => registry'[i] = None
                       /\ db[i] # None => registry'[i] = i /\ i # None
    BY <1>4, <1>8
  <2>4. ~up /\ up' /\ overlapped' = {} /\ UNCHANGED <<db, req, arrived, crashes>>
    BY <1>2
  <2> QED BY <1>3, <1>6, <1>8, <1>10, <1>11, <2>1, <2>2, <2>3, <2>4 DEF Begins
<1> QED BY <1>12

\* The shape, when the process starts.
LEMMA StartupShape ==
    ASSUME ShapeInv, Startup
    PROVE  ShapeInv'
<1>1. PICK enabled : Begins(enabled)
  BY StartupEffect
<1>2. /\ ~up /\ up' /\ enabled \subseteq Ids
      /\ registry' \in [Ids -> Workers \cup {None}]
      /\ \A i \in Ids : /\ db[i] = None => registry'[i] = None
                        /\ db[i] # None => registry'[i] = i /\ i # None
      /\ worker' \in [Workers -> Worker \cup {None}]
      /\ \A i \in Ids : db[i] = None => worker'[i] = None
      /\ \A i \in Ids : db[i] # None =>
            /\ worker'[i] # None /\ worker'[i].id = i
            /\ i \in enabled => worker'[i].task = i
            /\ i \notin enabled => worker'[i].task = None
      /\ \A i \in Ids : i \in enabled => db[i] # None
      /\ overlapped' = {} /\ wanted' \in [Workers -> BOOLEAN]
      /\ UNCHANGED <<db, req, arrived, crashes>>
  BY <1>1 DEF Begins
<1>3. /\ task' \in [Tasks -> Task \cup {None}]
      /\ \A t \in Tasks : t \notin enabled => task'[t] = None
      /\ \A t \in enabled :
            /\ t \in Tasks /\ t \in Workers /\ task'[t] # None /\ task'[t].worker = t
            /\ task'[t].at = "new" /\ ~task'[t].cancelled /\ task'[t].waiters = <<>>
  BY <1>1 DEF Begins
<1>4. /\ ready' \in Seq(Handles) /\ IsInjective(ready')
      /\ ToSet(ready') = {THandle(t) : t \in enabled}
  BY <1>1 DEF Begins
<1>5. \A r \in Requests : req'[r].phase = "idle"
  BY <1>2 DEF ShapeInv, DownInv
<1>6. BasicInv'
  <2>1. up' \in BOOLEAN
    BY <1>1 DEF Begins, Startup
  <2> QED BY <1>2, <1>3, <2>1 DEF ShapeInv, BasicInv
<1>7. QueueInv'
  <2>1. ASSUME NEW t \in Tasks, THandle(t) \in ToSet(ready') PROVE Live(t)'
    <3>1. t \in enabled
      BY <1>4, <2>1, HandlesDiffer
    <3> QED BY <1>3, <3>1 DEF Live
  <2>2. \A r \in Requests : RHandle(r) \notin ToSet(ready')
    BY <1>4, HandlesDiffer
  <2> QED BY <1>4, <1>5, <2>1, <2>2 DEF QueueInv
<1>8. WaitInv'
  <2>1. ASSUME NEW t \in Tasks, task'[t] # None
        PROVE  task'[t].waiters = <<>> /\ ~task'[t].cancelled
    BY <1>3, <2>1
  <2>2. IsInjective(<<>>) /\ ToSet(<<>>) = {}
    BY DEF IsInjective, ToSet
  <2> QED BY <2>1, <2>2 DEF WaitInv
<1>9. LinkInv'
  <2>1. Ids = Workers
    BY DEF Ids, Workers
  <2>2. \A i \in Ids : db'[i] = None <=> registry'[i] = None
    BY <1>2
  <2>3. \A i \in Ids : registry'[i] # None =>
           worker'[registry'[i]] # None /\ worker'[registry'[i]].id = i
    BY <1>2
  <2>4. \A w \in Workers : worker'[w] # None /\ worker'[w].task # None =>
           task'[worker'[w].task] # None /\ task'[worker'[w].task].worker = w
    BY <1>2, <1>3, <2>1
  <2>5. \A t \in Tasks : task'[t] # None => worker'[task'[t].worker] # None
    BY <1>2, <1>3
  <2>6. \A r \in Requests : ~Pending(r)'
    BY <1>5 DEF Pending
  <2> QED BY <2>2, <2>3, <2>4, <2>5, <2>6 DEF LinkInv
<1>10. DownInv'
  BY <1>2 DEF DownInv
<1>11. RoomInv'
  <2>1. InFlight("add")' = {} /\ InFlight("start")' = {}
    BY <1>5 DEF InFlight
  <2>2. Made(worker)' \subseteq Workers /\ Made(task)' \subseteq Ids
    BY <1>2, <1>3 DEF Made
  <2>3. NextId' = 1 + Max({0} \cup {i \in Ids : db'[i] # None})
    BY DEF NextId
  <2> QED BY <2>1, <2>2, <2>3, RoomAtRest DEF RoomInv
<1> QED BY <1>6, <1>7, <1>8, <1>9, <1>10, <1>11 DEF ShapeInv

\* Nothing is left of the process.
LEMMA AtRest ==
    ASSUME NEW f, f = [i \in Ids |-> None], NEW g, g = [w \in Workers |-> None],
           NEW h, h = [t \in Tasks |-> None], NEW q, q = [r \in Requests |-> Idle],
           NEW b, b = [w \in Workers |-> FALSE]
    PROVE  /\ f \in [Ids -> Workers \cup {None}] /\ g \in [Workers -> Worker \cup {None}]
           /\ h \in [Tasks -> Task \cup {None}] /\ q \in [Requests -> Request]
           /\ b \in [Workers -> BOOLEAN] /\ {} \subseteq Ids
           /\ \A i \in Ids : f[i] = None
           /\ \A w \in Workers : g[w] = None
           /\ \A t \in Tasks : h[t] = None
           /\ \A r \in Requests : q[r].phase = "idle"
           /\ Made(g) = {} /\ Made(h) = {}
           /\ <<>> \in Seq(Handles) /\ IsInjective(<<>>) /\ ToSet(<<>>) = {}
<1>1. 1 \in Ids /\ "stop" \in Ops /\ "idle" \in Phases
  BY BoundAssumption DEF Ids, Ops, Phases
<1>2. Idle \in Request /\ Idle.phase = "idle"
  BY <1>1 DEF Idle, Request
<1>3. <<>> \in Seq(Handles) /\ IsInjective(<<>>) /\ ToSet(<<>>) = {}
  BY DEF IsInjective, ToSet
<1>4. q \in [Requests -> Request] /\ \A r \in Requests : q[r].phase = "idle"
  BY <1>2
<1>5. Made(g) = {} /\ Made(h) = {}
  BY DEF Made
<1> QED BY <1>3, <1>4, <1>5

\* The shape, when the process stops.
LEMMA CrashShape ==
    ASSUME ShapeInv, Crash
    PROVE  ShapeInv'
<1>1. /\ up' = FALSE /\ ready' = <<>> /\ overlapped' = {}
      /\ registry' = [i \in Ids |-> None] /\ worker' = [w \in Workers |-> None]
      /\ task' = [t \in Tasks |-> None] /\ req' = [r \in Requests |-> Idle]
      /\ wanted' = [w \in Workers |-> FALSE]
      /\ crashes < MaxCrashes /\ crashes' = crashes + 1 /\ db' = db /\ arrived' = arrived
  BY DEF Crash, Down
<1>2. /\ registry' \in [Ids -> Workers \cup {None}] /\ worker' \in [Workers -> Worker \cup {None}]
      /\ task' \in [Tasks -> Task \cup {None}] /\ req' \in [Requests -> Request]
      /\ wanted' \in [Workers -> BOOLEAN] /\ overlapped' \subseteq Ids
      /\ \A i \in Ids : registry'[i] = None
      /\ \A w \in Workers : worker'[w] = None
      /\ \A t \in Tasks : task'[t] = None
      /\ \A r \in Requests : req'[r].phase = "idle"
      /\ ready' \in Seq(Handles) /\ IsInjective(ready') /\ ToSet(ready') = {}
  BY <1>1, AtRest
<1>3. BasicInv'
  <2>1. crashes + 1 \in 0..MaxCrashes
    BY <1>1, BoundAssumption DEF ShapeInv, BasicInv
  <2> QED BY <1>1, <1>2, <2>1 DEF ShapeInv, BasicInv
<1>4. QueueInv'
  BY <1>2 DEF QueueInv
<1>5. WaitInv' /\ DownInv'
  BY <1>1, <1>2 DEF WaitInv, DownInv
<1>6. LinkInv'
  BY <1>1, <1>2 DEF LinkInv, Pending
<1>7. RoomInv'
  <2>1. InFlight("add")' = {} /\ InFlight("start")' = {}
    BY <1>2 DEF InFlight
  <2>2. Made(worker)' \subseteq Workers /\ Made(task)' \subseteq Ids
    BY <1>2, <1>3 DEF Made, BasicInv
  <2>3. NextId' = 1 + Max({0} \cup {i \in Ids : db'[i] # None})
    BY DEF NextId
  <2> QED BY <2>1, <2>2, <2>3, RoomAtRest DEF RoomInv
<1> QED BY <1>3, <1>4, <1>5, <1>6, <1>7 DEF ShapeInv

\* The shape, before the first start.
LEMMA InitShape ==
    ASSUME Init
    PROVE  ShapeInv
<1>1. /\ up = FALSE /\ ready = <<>> /\ overlapped = {}
      /\ registry = [i \in Ids |-> None] /\ worker = [w \in Workers |-> None]
      /\ task = [t \in Tasks |-> None] /\ req = [r \in Requests |-> Idle]
      /\ wanted = [w \in Workers |-> FALSE]
      /\ crashes = 0 /\ db \in [Ids -> Row \cup {None}] /\ arrived = 0
  BY DEF Init
<1>2. /\ registry \in [Ids -> Workers \cup {None}] /\ worker \in [Workers -> Worker \cup {None}]
      /\ task \in [Tasks -> Task \cup {None}] /\ req \in [Requests -> Request]
      /\ wanted \in [Workers -> BOOLEAN] /\ overlapped \subseteq Ids
      /\ \A i \in Ids : registry[i] = None
      /\ \A w \in Workers : worker[w] = None
      /\ \A t \in Tasks : task[t] = None
      /\ \A r \in Requests : req[r].phase = "idle"
      /\ ready \in Seq(Handles) /\ IsInjective(ready) /\ ToSet(ready) = {}
  BY <1>1, AtRest
<1>3. BasicInv
  <2>1. crashes \in 0..MaxCrashes /\ arrived \in 0..MaxRequests
    BY <1>1, BoundAssumption
  <2> QED BY <1>1, <1>2, <2>1 DEF BasicInv
<1>4. QueueInv
  BY <1>2 DEF QueueInv
<1>5. WaitInv /\ DownInv
  BY <1>1, <1>2 DEF WaitInv, DownInv
<1>6. LinkInv
  BY <1>1, <1>2 DEF LinkInv, Pending
<1>7. RoomInv
  <2>1. InFlight("add") = {} /\ InFlight("start") = {}
    BY <1>2 DEF InFlight
  <2>2. Made(worker) \subseteq Workers /\ Made(task) \subseteq Ids
    BY <1>2, <1>3 DEF Made, BasicInv
  <2>3. NextId = 1 + Max({0} \cup {i \in Ids : db[i] # None})
    BY DEF NextId
  <2> QED BY <2>1, <2>2, <2>3, RoomAtRest DEF RoomInv
<1> QED BY <1>3, <1>4, <1>5, <1>6, <1>7 DEF ShapeInv

\* Every step keeps the shape.
LEMMA StepShape ==
    ASSUME ShapeInv, [Next]_vars
    PROVE  ShapeInv'
<1>1. ASSUME NEW t \in Tasks, RunTask(t) PROVE ShapeInv'
  BY <1>1, TaskKinds, MovesShape, EndsShape
<1>2. ASSUME NEW r \in Requests, RunRequest(r) PROVE ShapeInv'
  BY <1>2, AddShape, AnswersShape, StartShape, AwaitShape DEF RunRequest
<1>3. ASSUME NEW t \in Tasks, Complete(t) PROVE ShapeInv'
  BY <1>3, CompleteShape
<1>4. ASSUME NEW r \in Requests,
             \/ Arrive(r, "add", 1)
             \/ \E op \in Ops \ {"add"}, id \in Ids : Arrive(r, op, id)
      PROVE  ShapeInv'
  <2>1. "add" \in Ops /\ 1 \in Ids
    BY BoundAssumption DEF Ops, Ids
  <2> QED BY <1>4, <2>1, ArriveShape
<1>5. CASE Startup
  BY <1>5, StartupShape
<1>6. CASE Crash
  BY <1>6, CrashShape
<1>7. CASE UNCHANGED vars
  <2>1. UNCHANGED <<up, db, registry, worker, task, ready, req, arrived, crashes, wanted, overlapped>>
    BY <1>7 DEF vars
  <2>2. BasicInv' /\ QueueInv'
    BY <2>1 DEF ShapeInv, BasicInv, QueueInv, Live
  <2>3. WaitInv' /\ DownInv'
    BY <2>1 DEF ShapeInv, WaitInv, DownInv, Live
  <2>4. LinkInv'
    BY <2>1 DEF ShapeInv, LinkInv, Pending
  <2>5. RoomInv'
    BY <2>1, <2>2, RoomStays DEF ShapeInv
  <2> QED BY <2>2, <2>3, <2>4, <2>5 DEF ShapeInv
<1> QED BY <1>1, <1>2, <1>3, <1>4, <1>5, <1>6, <1>7 DEF Next, LoopTurn

\* What a PATCH has changed, a start or a stop has settled, is a worker's.
LEMMA PatchedAreWorkers ==
    ASSUME ShapeInv, patched \subseteq Workers, [Next]_vars
    PROVE  patched' \subseteq Workers
<1>1. ASSUME NEW t \in Tasks, RunTask(t) PROVE patched' = patched
  BY <1>1 DEF RunTask, CancelledUnstarted, Cancelled, GoRound, ConnectFails, Connected, FrameLost,
              Throttled, FrameSkipped, FrameSent, ProcessorFails, Resume, TaskStep
<1>2. ASSUME NEW r \in Requests, UpdateCamera(r) PROVE patched' \subseteq Workers
  <2>1. registry[req[r].id] \in Workers
    BY <1>2 DEF UpdateCamera, ShapeInv, BasicInv, Request
  <2>2. patched' = patched \/ patched' = patched \cup {registry[req[r].id]}
    BY <1>2 DEF UpdateCamera
  <2> QED BY <2>1, <2>2
<1>3. ASSUME NEW r \in Requests, RunRequest(r), ~UpdateCamera(r) PROVE patched' \subseteq patched
  BY <1>3 DEF RunRequest, AddCamera, NotFound, StartCamera, AwaitStop, StopCamera, RemoveCamera,
              StopDone
<1>4. ASSUME NEW r \in Requests, NEW op, NEW id, Arrive(r, op, id) PROVE patched' = patched
  BY <1>4 DEF Arrive
<1>5. ASSUME NEW t \in Tasks, Complete(t) PROVE patched' = patched
  BY <1>5 DEF Complete
<1>6. Startup \/ Crash => patched' = {}
  BY DEF Startup, Crash, Down
<1>7. UNCHANGED vars => patched' = patched
  BY DEF vars
<1> QED BY <1>1, <1>2, <1>3, <1>4, <1>5, <1>6, <1>7 DEF Next, LoopTurn

\* Every variable keeps the shape the code gives it, and a handle is in the event loop's
\* queue at most once (CameraWorker.start, stop; CameraManager).
THEOREM CameraTypes == Spec => []TypeOK
<1> DEFINE Inv == ShapeInv /\ patched \subseteq Workers
<1>1. Init => Inv
  BY InitShape DEF Init
<1>2. Inv /\ [Next]_vars => Inv'
  BY StepShape, PatchedAreWorkers
<1>3. Inv => TypeOK
  BY DEF ShapeInv, BasicInv, QueueInv, TypeOK
<1> QED BY <1>1, <1>2, <1>3, PTL DEF Spec

----------------------------------------------------------------------------
(* What holds of a camera whose requests came one at a time                *)

\* What is said of a camera stays true while its worker's task is not touched, no request
\* for it begins to wait, is woken or answered after that, and its row is kept or follows.
LEMMA CameraKept ==
    ASSUME ShapeInv, ShapeInv', NEW i \in Ids, CameraInv(i), registry'[i] = registry[i],
           \A w \in Workers : worker[w] # None =>
              worker'[w] # None /\ worker'[w].id = worker[w].id,
           \A w \in Workers : worker[w] # None /\ worker[w].id = i =>
              /\ worker'[w].task = worker[w].task /\ worker'[w].status = worker[w].status
              /\ worker'[w].stopEvent = worker[w].stopEvent
              /\ (wanted'[w] <=> wanted[w]) \/ (wanted'[w] /\ Running(w)),
           \A t \in Tasks : task'[t] # None /\ worker'[task'[t].worker].id = i =>
              task'[t] = task[t],
           \A r \in Requests : Pending(r)' /\ req'[r].id = i => req'[r] = req[r],
           \A r \in Requests : req[r].phase = "woken" /\ req[r].id = i => req'[r] = req[r],
           registry[i] # None =>
              db'[i] = [enabled |-> worker'[registry[i]].enabled, url |-> worker'[registry[i]].url]
    PROVE  CameraInv(i)'
<1>1. \A t \in Tasks : task[t] # None => task[t].worker \in Workers
  BY DEF ShapeInv, BasicInv, Task
<1>2. ASSUME NEW t \in Tasks, Live(t)', worker'[task'[t].worker].id = i
      PROVE  Live(t) /\ task'[t] = task[t] /\ worker[task[t].worker].id = i
  <2>1. task'[t] # None /\ task'[t] = task[t]
    BY <1>2 DEF Live
  <2>2. Live(t)
    BY <1>2, <2>1 DEF Live
  <2>3. task[t].worker \in Workers /\ worker[task[t].worker] # None
    BY <1>1, <2>1 DEF ShapeInv, LinkInv
  <2> QED BY <1>2, <2>1, <2>2, <2>3
<1>3. ASSUME NEW w \in Workers, worker[w] # None, worker[w].id = i
      PROVE  /\ worker[w].task # None => task'[worker[w].task] = task[worker[w].task]
             /\ Running(w)' <=> Running(w)
  <2>1. worker'[w] # None /\ worker'[w].task = worker[w].task /\ worker'[w].id = i
    BY <1>3
  <2>2. worker[w].task # None =>
           /\ worker[w].task \in Tasks /\ task'[worker[w].task] # None
           /\ task'[worker[w].task].worker = w
    BY <1>3, <2>1 DEF ShapeInv, BasicInv, LinkInv, Worker
  <2>3. worker[w].task # None => task'[worker[w].task] = task[worker[w].task]
    BY <2>1, <2>2
  <2> QED BY <2>1, <2>3 DEF Running, Live
<1>4. ASSUME NEW t \in Tasks, Live(t)', worker'[task'[t].worker].id = i
      PROVE  registry'[i] = task'[t].worker /\ worker'[task'[t].worker].task = t
  <2>1. Live(t) /\ task'[t] = task[t] /\ worker[task[t].worker].id = i
    BY <1>2, <1>4
  <2>2. registry[i] = task[t].worker /\ worker[task[t].worker].task = t
    BY <2>1 DEF CameraInv, TasksKnown
  <2>3. task[t].worker \in Workers /\ worker[task[t].worker] # None
    BY <1>1, <2>1 DEF ShapeInv, LinkInv, Live
  <2> QED BY <2>1, <2>2, <2>3
<1>5. ASSUME NEW r \in Requests, Pending(r)', req'[r].id = i, NEW w, w = req'[r].worker
      PROVE  registry'[i] = w /\ (req'[r].phase = "woken" => ~Running(w)')
  <2>1. req'[r] = req[r] /\ Pending(r)
    BY <1>5 DEF Pending
  <2>2. req[r].worker \in Workers /\ worker[req[r].worker] # None /\ worker[req[r].worker].id = i
    BY <1>5, <2>1 DEF ShapeInv, BasicInv, LinkInv, Request
  <2>3. /\ registry[i] = req[r].worker
        /\ req[r].phase = "woken" => ~Running(req[r].worker)
    BY <1>5, <2>1 DEF CameraInv, WaitsKnown
  <2>4. w \in Workers /\ w = req[r].worker /\ worker[w] # None /\ worker[w].id = i
    BY <1>5, <2>1, <2>2
  <2>5. Running(w)' <=> Running(w)
    BY <1>3, <2>4
  <2> QED BY <2>1, <2>3, <2>4, <2>5
<1>6. ASSUME NEW w, w = registry[i], w # None
      PROVE  /\ Running(w)' => /\ wanted'[w]
                               /\ worker'[w].stopEvent => task'[worker'[w].task].cancelled
                               /\ task'[worker'[w].task].at = "new" => worker'[w].status = "stopped"
             /\ ~Running(w)' =>
                   /\ worker'[w].status = "stopped"
                   /\ wanted'[w] => \E r \in Requests : req'[r].phase = "woken" /\ req'[r].worker = w
  <2>1. w \in Workers /\ worker[w] # None /\ worker[w].id = i
    BY <1>6, Registered
  <2>2. /\ worker'[w].task = worker[w].task /\ worker'[w].status = worker[w].status
        /\ worker'[w].stopEvent = worker[w].stopEvent
        /\ (wanted'[w] <=> wanted[w]) \/ (wanted'[w] /\ Running(w))
    BY <2>1
  <2>3. /\ worker[w].task # None => task'[worker[w].task] = task[worker[w].task]
        /\ Running(w)' <=> Running(w)
    BY <1>3, <2>1
  <2>4. /\ Running(w) => /\ wanted[w]
                         /\ worker[w].stopEvent => task[worker[w].task].cancelled
                         /\ task[worker[w].task].at = "new" => worker[w].status = "stopped"
        /\ ~Running(w) =>
              /\ worker[w].status = "stopped"
              /\ wanted[w] => \E r \in Requests : req[r].phase = "woken" /\ req[r].worker = w
    BY <1>6 DEF CameraInv, AsAsked
  <2>5. CASE Running(w)
    <3>1. worker[w].task # None
      BY <2>5 DEF Running
    <3> QED BY <2>2, <2>3, <2>4, <2>5, <3>1
  <2>6. CASE ~Running(w)
    <3>1. ASSUME wanted'[w]
          PROVE  \E r \in Requests : req'[r].phase = "woken" /\ req'[r].worker = w
      <4>1. PICK r \in Requests : req[r].phase = "woken" /\ req[r].worker = w
        BY <2>2, <2>4, <2>6, <3>1
      <4>2. req[r].id = i
        BY <2>1, <4>1 DEF ShapeInv, LinkInv, Pending
      <4> QED BY <4>1, <4>2
    <3> QED BY <2>2, <2>3, <2>4, <2>6, <3>1
  <2> QED BY <2>5, <2>6
<1>7. ASSUME NEW r \in Requests, Pending(r)', req'[r].id = i
      PROVE  registry'[i] = req'[r].worker
  BY <1>5, <1>7
<1>8. ASSUME NEW r \in Requests, req'[r].phase = "woken", req'[r].id = i, NEW w, w = req'[r].worker
      PROVE  ~Running(w)'
  BY <1>5, <1>8 DEF Pending
<1>9. TasksKnown(i)'
  BY <1>4 DEF TasksKnown
<1>10. WaitsKnown(i)'
  BY <1>7, <1>8 DEF WaitsKnown, Running, Live
<1>11. AsAsked(i)'
  BY <1>6 DEF AsAsked, Running, Live
<1> QED BY <1>9, <1>10, <1>11 DEF CameraInv

\* The same, for a camera that is not touched at all.
LEMMA CameraUntouched ==
    ASSUME ShapeInv, ShapeInv', NEW i \in Ids, CameraInv(i),
           registry'[i] = registry[i], db'[i] = db[i],
           \A w \in Workers : worker[w] # None =>
              worker'[w] # None /\ worker'[w].id = worker[w].id,
           \A w \in Workers : worker[w] # None /\ worker[w].id = i =>
              worker'[w] = worker[w] /\ wanted'[w] = wanted[w],
           \A t \in Tasks : task'[t] # None /\ worker'[task'[t].worker].id = i =>
              task'[t] = task[t],
           \A r \in Requests : Pending(r)' /\ req'[r].id = i => req'[r] = req[r],
           \A r \in Requests : req[r].phase = "woken" /\ req[r].id = i => req'[r] = req[r]
    PROVE  CameraInv(i)'
<1>1. registry[i] # None =>
         db'[i] = [enabled |-> worker'[registry[i]].enabled, url |-> worker'[registry[i]].url]
  BY Registered DEF CameraInv, AsAsked
<1> QED BY <1>1, CameraKept

\* The live task of a camera whose requests came one at a time is its worker's, and its only one.
LEMMA OnlyTask ==
    ASSUME ShapeInv, NEW i \in Ids, CameraInv(i), NEW t \in Tasks, Live(t),
           worker[task[t].worker].id = i
    PROVE  /\ registry[i] = task[t].worker /\ worker[task[t].worker].task = t
           /\ Running(task[t].worker)
           /\ \A u \in Tasks : u # t /\ Live(u) => worker[task[u].worker].id # i
<1>1. registry[i] = task[t].worker /\ worker[task[t].worker].task = t
  BY DEF CameraInv, TasksKnown
<1>2. t # None
  BY NoneAssumption DEF Tasks
<1>3. Running(task[t].worker)
  BY <1>1, <1>2 DEF Running
<1>4. \A u \in Tasks : Live(u) /\ worker[task[u].worker].id = i =>
         registry[i] = task[u].worker /\ worker[task[u].worker].task = u
  BY DEF CameraInv, TasksKnown
<1> QED BY <1>1, <1>3, <1>4

\* A camera that is not registered, or whose worker has no task, has no live task at all.
LEMMA NoTask ==
    ASSUME ShapeInv, NEW i \in Ids, CameraInv(i), registry[i] # None => ~Running(registry[i])
    PROVE  \A u \in Tasks : Live(u) => worker[task[u].worker].id # i
<1>1. SUFFICES ASSUME NEW u \in Tasks, Live(u), worker[task[u].worker].id = i PROVE FALSE
  OBVIOUS
<1>2. registry[i] = task[u].worker /\ Running(task[u].worker)
  BY <1>1, OnlyTask
<1>3. task[u].worker \in Workers
  BY <1>1 DEF ShapeInv, BasicInv, Task, Live
<1>4. registry[i] # None
  BY <1>2, <1>3, NoneAssumption DEF Workers
<1> QED BY <1>2, <1>4

\* Requests that are in flight were so, for the same cameras: no overlap is new.
LEMMA OverlapKept ==
    ASSUME OverlapInv, overlapped' = overlapped,
           \A r \in Requests : req'[r].phase # "idle" =>
              /\ req[r].phase # "idle" /\ req'[r].op = req[r].op /\ req'[r].id = req[r].id
    PROVE  OverlapInv'
BY DEF OverlapInv

\* A task that goes on leaves its camera as it was asked to be.
LEMMA MovesLife ==
    ASSUME LifeInv, NEW t \in Tasks, Moves(t), ShapeInv'
    PROVE  OverlapInv' /\ CamerasInv'
<1>1. PICK w : w = task[t].worker
  OBVIOUS
<1>2. /\ w \in Workers /\ worker[w] # None /\ Live(t)
      /\ task'[t] # None /\ Live(t)'
      /\ \A u \in Tasks : u # t => task'[u] = task[u]
      /\ task'[t].worker = w /\ task'[t].cancelled = task[t].cancelled /\ task'[t].at # "new"
      /\ \A v \in Workers : v # w => worker'[v] = worker[v]
      /\ worker'[w].id = worker[w].id /\ worker'[w].task = worker[w].task /\ worker'[w] # None
      /\ worker'[w].enabled = worker[w].enabled /\ worker'[w].url = worker[w].url
      /\ worker'[w].stopEvent = worker[w].stopEvent
      /\ UNCHANGED <<up, db, registry, req, wanted, overlapped>>
  BY <1>1, MovesEffect DEF LifeInv
<1>3. OverlapInv'
  BY <1>2, OverlapKept DEF LifeInv
<1>4. \A v \in Workers : worker[v] # None => worker'[v] # None /\ worker'[v].id = worker[v].id
  BY <1>2
<1>5. ASSUME NEW i \in Ids, Alone(i)' PROVE CameraInv(i)'
  <2>1. ShapeInv /\ CameraInv(i)
    BY <1>2, <1>5 DEF LifeInv, CamerasInv, Alone
  <2>2. CASE worker[w].id # i
    BY <1>2, <1>4, <2>1, <2>2, CameraUntouched
  <2>3. CASE worker[w].id = i
    <3>1. /\ registry[i] = w /\ worker[w].task = t /\ Running(w)
          /\ \A u \in Tasks : u # t /\ Live(u) => worker[task[u].worker].id # i
      BY <1>1, <1>2, <2>1, <2>3, OnlyTask
    <3>2. TasksKnown(i)'
      <4>1. ASSUME NEW u \in Tasks, u # t, Live(u)' PROVE worker'[task'[u].worker].id # i
        <5>1. task'[u] = task[u] /\ Live(u)
          BY <1>2, <4>1 DEF Live
        <5>2. task[u].worker \in Workers /\ worker[task[u].worker] # None
          BY <2>1, <5>1 DEF ShapeInv, BasicInv, LinkInv, Task, Live
        <5> QED BY <1>4, <3>1, <4>1, <5>1, <5>2
      <4> QED BY <1>2, <3>1, <4>1 DEF TasksKnown
    <3>3. WaitsKnown(i)'
      <4>1. ASSUME NEW r \in Requests, Pending(r)', req'[r].id = i
            PROVE  registry'[i] = req'[r].worker /\ req'[r].phase # "woken"
        <5>1. Pending(r) /\ req'[r] = req[r]
          BY <1>2, <4>1 DEF Pending
        <5> QED BY <1>2, <2>1, <3>1, <4>1, <5>1 DEF CameraInv, WaitsKnown
      <4> QED BY <4>1 DEF WaitsKnown
    <3>4. AsAsked(i)'
      <4>1. /\ wanted[w]
            /\ worker[w].stopEvent => task[t].cancelled
            /\ db[i] = [enabled |-> worker[w].enabled, url |-> worker[w].url]
            /\ w # None /\ t # None
        <5>1. w # None /\ t # None
          BY <1>2, NoneAssumption DEF Workers, Tasks
        <5> QED BY <2>1, <3>1, <5>1 DEF CameraInv, AsAsked
      <4>2. Running(w)'
        BY <1>2, <3>1, <4>1 DEF Running
      <4>3. /\ registry'[i] = w /\ wanted'[w] /\ worker'[w].task = t /\ task'[t].at # "new"
            /\ worker'[w].stopEvent => task'[t].cancelled
            /\ db'[i] = [enabled |-> worker'[w].enabled, url |-> worker'[w].url]
        <5>1. UNCHANGED <<db, registry, wanted>>
          BY <1>2
        <5>2. wanted'[w] /\ registry'[i] = w
          BY <3>1, <4>1, <5>1
        <5>3. db'[i] = [enabled |-> worker'[w].enabled, url |-> worker'[w].url]
          BY <1>2, <4>1, <5>1
        <5>4. worker'[w].task = t /\ task'[t].at # "new"
          BY <1>2, <3>1
        <5>5. worker'[w].stopEvent => task'[t].cancelled
          BY <1>2, <4>1
        <5> QED BY <5>2, <5>3, <5>4, <5>5
      <4> QED BY <4>2, <4>3 DEF AsAsked, Running, Live
    <3> QED BY <3>2, <3>3, <3>4 DEF CameraInv
  <2> QED BY <2>2, <2>3
<1> QED BY <1>3, <1>5 DEF CamerasInv

\* A task that ends: somebody who asked for it is woken, or nothing is wanted any more.
LEMMA EndsLife ==
    ASSUME LifeInv, NEW t \in Tasks, Ends(t), ShapeInv'
    PROVE  OverlapInv' /\ CamerasInv'
<1>1. PICK w, woken : w = task[t].worker /\ woken = task[t].waiters
  OBVIOUS
<1>2. /\ w \in Workers /\ worker[w] # None /\ Live(t) /\ woken \in Seq(Requests)
      /\ task'[t] # None /\ ~Live(t)' /\ task'[t].worker = w
      /\ \A u \in Tasks : u # t => task'[u] = task[u]
      /\ worker'[w] # None
      /\ \A v \in Workers : v # w => worker'[v] = worker[v]
      /\ worker'[w].id = worker[w].id /\ worker'[w].task = worker[w].task
      /\ worker'[w].enabled = worker[w].enabled /\ worker'[w].url = worker[w].url
      /\ \/ worker'[w].status = "stopped"
         \/ task[t].at = "new" /\ worker' = worker
      /\ \A r \in Requests : r \notin ToSet(woken) => req'[r] = req[r]
      /\ \A r \in ToSet(woken) : /\ req'[r].phase = "woken" /\ req'[r].op = req[r].op
                                 /\ req'[r].id = req[r].id /\ req'[r].worker = req[r].worker
      /\ UNCHANGED <<up, db, registry, overlapped>>
      /\ \A v \in Workers : v # w => wanted'[v] = wanted[v]
  BY <1>1, EndsEffect DEF LifeInv
<1>3. \A r \in ToSet(woken) :
         r \in Requests /\ req[r].phase = "awaiting" /\ req[r].worker = w
  <2>1. ToSet(woken) \subseteq Requests
    BY <1>2 DEF ToSet
  <2> QED BY <1>1, <1>2, <2>1 DEF LifeInv, ShapeInv, WaitInv, Live
<1>4. \A r \in ToSet(woken) : req[r].id = worker[w].id
  BY <1>3 DEF LifeInv, ShapeInv, LinkInv, Pending
<1>5. OverlapInv'
  <2>1. \A r \in Requests : req'[r].phase # "idle" =>
           /\ req[r].phase # "idle" /\ req'[r].op = req[r].op /\ req'[r].id = req[r].id
    BY <1>2, <1>3
  <2> QED BY <1>2, <2>1, OverlapKept DEF LifeInv
<1>6. \A v \in Workers : worker[v] # None => worker'[v] # None /\ worker'[v].id = worker[v].id
  BY <1>2
<1>7. ASSUME NEW i \in Ids, Alone(i)' PROVE CameraInv(i)'
  <2>1. ShapeInv /\ CameraInv(i)
    BY <1>2, <1>7 DEF LifeInv, CamerasInv, Alone
  <2>2. CASE worker[w].id # i
    <3>1. \A r \in Requests : req[r].id = i => req'[r] = req[r]
      BY <1>2, <1>4, <2>2
    <3>2. \A r \in Requests : req'[r].id = i => req'[r] = req[r]
      BY <1>2, <3>1
    <3> QED BY <1>2, <1>6, <2>1, <2>2, <3>1, <3>2, CameraUntouched
  <2>3. CASE worker[w].id = i
    <3>1. /\ registry[i] = w /\ worker[w].task = t /\ Running(w)
          /\ \A u \in Tasks : u # t /\ Live(u) => worker[task[u].worker].id # i
      BY <1>1, <1>2, <2>1, <2>3, OnlyTask
    <3>2. ASSUME NEW u \in Tasks, Live(u)' PROVE worker'[task'[u].worker].id # i
      <4>1. task'[u] = task[u] /\ Live(u) /\ u # t
        BY <1>2, <3>2 DEF Live
      <4>2. task[u].worker \in Workers /\ worker[task[u].worker] # None
        BY <2>1, <4>1 DEF ShapeInv, BasicInv, LinkInv, Task, Live
      <4> QED BY <1>6, <3>1, <4>1, <4>2
    <3>3. TasksKnown(i)'
      BY <3>2 DEF TasksKnown
    <3>4. ~Running(w)'
      BY <1>2, <3>1 DEF Running
    <3>5. WaitsKnown(i)'
      <4>1. ASSUME NEW r \in Requests, Pending(r)', req'[r].id = i
            PROVE  registry'[i] = req'[r].worker /\ req'[r].worker = w
        <5>1. Pending(r) /\ req[r].id = i /\ req'[r].worker = req[r].worker
          BY <1>2, <1>3, <4>1 DEF Pending
        <5> QED BY <1>2, <2>1, <3>1, <5>1 DEF CameraInv, WaitsKnown
      <4> QED BY <3>4, <4>1 DEF WaitsKnown, Running, Live
    <3>6. AsAsked(i)'
      <4>1. /\ worker[w].stopEvent => task[t].cancelled
            /\ task[t].at = "new" => worker[w].status = "stopped"
            /\ db[i] = [enabled |-> worker[w].enabled, url |-> worker[w].url]
        <5>1. w # None
          BY <1>2, NoneAssumption DEF Workers
        <5> QED BY <2>1, <3>1, <5>1 DEF CameraInv, AsAsked
      <4>2. worker'[w].status = "stopped"
        BY <1>2, <4>1
      <4>3. ASSUME wanted'[w]
            PROVE  \E r \in Requests : req'[r].phase = "woken" /\ req'[r].worker = w
        <5>1. task[t].cancelled
          <6>1. wanted \in [Workers -> BOOLEAN]
            BY <2>1 DEF ShapeInv, BasicInv
          <6> QED BY <1>1, <1>2, <4>1, <4>3, <6>1 DEF Ends
        <5>2. woken # <<>>
          BY <1>1, <1>2, <2>1, <5>1 DEF ShapeInv, WaitInv, Live
        <5>3. woken[1] \in ToSet(woken)
          BY <1>2, <5>2 DEF ToSet
        <5> QED BY <1>2, <1>3, <5>3
      <4> QED BY <1>2, <3>1, <3>4, <4>1, <4>2, <4>3 DEF AsAsked, Running, Live
    <3> QED BY <3>3, <3>5, <3>6 DEF CameraInv
  <2> QED BY <2>2, <2>3
<1> QED BY <1>5, <1>7 DEF CamerasInv

\* An answered request was in flight, and waits no longer; the others are as they were.
LEMMA AnsweredOverlap ==
    ASSUME LifeInv, NEW r \in Requests, AtHead(RHandle(r)), Respond(r), overlapped' = overlapped
    PROVE  /\ OverlapInv' /\ ~Pending(r)'
           /\ \A q \in Requests : Pending(q)' => q # r /\ Pending(q) /\ req'[q] = req[q]
<1>1. req'[r].phase = "idle" /\ \A q \in Requests : q # r => req'[q] = req[q]
  BY Answered DEF LifeInv, ShapeInv
<1>2. \A q \in Requests : req'[q].phase # "idle" =>
         /\ req[q].phase # "idle" /\ req'[q].op = req[q].op /\ req'[q].id = req[q].id
  BY <1>1
<1>3. ~Pending(r)' /\ \A q \in Requests : Pending(q)' => q # r /\ Pending(q) /\ req'[q] = req[q]
  BY <1>1 DEF Pending
<1> QED BY <1>2, <1>3, OverlapKept DEF LifeInv

\* While a request for a camera is in flight, and no other has been, no other waits for it.
LEMMA OnlyRequest ==
    ASSUME LifeInv, NEW r \in Requests, req[r].phase # "idle", req[r].op # "add",
           Alone(req[r].id)
    PROVE  \A q \in Requests : q # r /\ Pending(q) => req[q].id # req[r].id
<1>1. ASSUME NEW q \in Requests, q # r, Pending(q) PROVE req[q].phase # "idle" /\ req[q].op # "add"
  BY <1>1 DEF LifeInv, ShapeInv, LinkInv, Pending
<1> QED BY <1>1 DEF LifeInv, OverlapInv, Alone

\* 404
LEMMA NotFoundLife ==
    ASSUME LifeInv, NEW r \in Requests, NotFound(r), ShapeInv'
    PROVE  OverlapInv' /\ CamerasInv'
<1>1. /\ AtHead(RHandle(r)) /\ Respond(r) /\ req[r].phase = "new"
      /\ UNCHANGED <<up, db, registry, worker, task, wanted, overlapped>>
  BY DEF NotFound, Handle
<1>2. /\ OverlapInv' /\ ~Pending(r)'
      /\ \A q \in Requests : Pending(q)' => q # r /\ Pending(q) /\ req'[q] = req[q]
  BY <1>1, AnsweredOverlap
<1>3. \A q \in Requests : q # r => req'[q] = req[q]
  BY <1>1, Answered DEF LifeInv, ShapeInv
<1>4. ASSUME NEW i \in Ids, Alone(i)' PROVE CameraInv(i)'
  <2>1. ShapeInv /\ CameraInv(i)
    BY <1>1, <1>4 DEF LifeInv, CamerasInv, Alone
  <2>2. \A q \in Requests : req[q].phase = "woken" => req'[q] = req[q]
    BY <1>1, <1>3
  <2> QED BY <1>1, <1>2, <2>1, <2>2, CameraUntouched
<1> QED BY <1>2, <1>4 DEF CamerasInv

\* PATCH: the row follows the configuration.
LEMMA UpdateLife ==
    ASSUME LifeInv, NEW r \in Requests, UpdateCamera(r), ShapeInv'
    PROVE  OverlapInv' /\ CamerasInv'
<1>1. /\ AtHead(RHandle(r)) /\ Respond(r) /\ req[r].phase = "new" /\ registry[req[r].id] # None
      /\ UNCHANGED <<up, registry, task, wanted, overlapped>>
  BY DEF UpdateCamera, Handle
<1>2. /\ OverlapInv' /\ ~Pending(r)'
      /\ \A q \in Requests : Pending(q)' => q # r /\ Pending(q) /\ req'[q] = req[q]
  BY <1>1, AnsweredOverlap
<1>3. \A q \in Requests : req[q].phase = "woken" => req'[q] = req[q]
  <2>1. \A q \in Requests : q # r => req'[q] = req[q]
    BY <1>1, Answered DEF LifeInv, ShapeInv
  <2> QED BY <1>1, <2>1
<1>4. PICK w : w = registry[req[r].id]
  OBVIOUS
<1>5. PICK c : /\ Sets(w, c) /\ c.id = req[r].id /\ RowSaved(c)
               /\ c.task = worker[w].task /\ c.status = worker[w].status
               /\ c.stopEvent = worker[w].stopEvent
  BY <1>4, UpdateEffect DEF LifeInv
<1>6. /\ worker'[w] = c /\ \A v \in Workers : v # w => worker'[v] = worker[v]
      /\ \A v \in Workers : worker[v] # None => worker'[v] # None /\ worker'[v].id = worker[v].id
      /\ w \in Workers /\ worker[w].id = req[r].id
  BY <1>5, SetsEffect DEF LifeInv, ShapeInv, Sets
<1>7. ASSUME NEW i \in Ids, Alone(i)' PROVE CameraInv(i)'
  <2>1. ShapeInv /\ CameraInv(i)
    BY <1>1, <1>7 DEF LifeInv, CamerasInv, Alone
  <2>2. ASSUME registry[i] # None
        PROVE  db'[i] = [enabled |-> worker'[registry[i]].enabled, url |-> worker'[registry[i]].url]
    <3>1. CASE i = req[r].id
      <4>1. db[i] # None
        BY <1>1, <2>1, <3>1, HeadIsAsked DEF ShapeInv, LinkInv
      <4> QED BY <1>4, <1>5, <1>6, <3>1, <4>1 DEF RowSaved
    <3>2. CASE i # req[r].id
      <4>1. db'[i] = db[i]
        BY <1>5, <3>2 DEF RowSaved
      <4>2. registry[i] \in Workers /\ registry[i] # w
        BY <1>6, <2>1, <2>2, <3>2, Registered
      <4> QED BY <1>6, <2>1, <2>2, <4>1, <4>2 DEF CameraInv, AsAsked
    <3> QED BY <3>1, <3>2
  <2>3. \A v \in Workers : worker[v] # None =>
           /\ worker'[v].task = worker[v].task /\ worker'[v].status = worker[v].status
           /\ worker'[v].stopEvent = worker[v].stopEvent
    BY <1>5, <1>6
  <2> QED BY <1>1, <1>2, <1>3, <1>6, <2>1, <2>2, <2>3, CameraKept
<1> QED BY <1>2, <1>7 DEF CamerasInv

\* Stop or remove begins to wait: the task is told, and will end.
LEMMA AwaitLife ==
    ASSUME LifeInv, NEW r \in Requests, AwaitStop(r), ShapeInv'
    PROVE  OverlapInv' /\ CamerasInv'
<1>1. PICK w, t : w = registry[req[r].id] /\ t = worker[w].task
  OBVIOUS
<1>2. Awaits(r, w, t) /\ Running(w)
  BY <1>1, AwaitEffect DEF AwaitStop, LifeInv
<1>3. /\ req[r].phase = "new" /\ req[r].id \in Ids /\ registry[req[r].id] # None
      /\ t \in Tasks /\ Live(t) /\ task[t].worker = w /\ Live(t)'
      /\ task'[t] # None
      /\ \A u \in Tasks : u # t => task'[u] = task[u]
      /\ task'[t].worker = w /\ task'[t].at = task[t].at /\ task'[t].cancelled
      /\ req'[r].phase = "awaiting" /\ req'[r].worker = w
      /\ req'[r].op = req[r].op /\ req'[r].id = req[r].id
      /\ \A q \in Requests : q # r => req'[q] = req[q]
      /\ UNCHANGED <<up, db, registry, wanted, overlapped>>
  BY <1>2 DEF Awaits
<1>4. PICK c : /\ Sets(w, c) /\ c.id = req[r].id /\ c.task = t
               /\ c.status = worker[w].status
               /\ c.enabled = worker[w].enabled /\ c.url = worker[w].url
  BY <1>2 DEF Awaits
<1>5. /\ worker'[w] = c /\ \A v \in Workers : v # w => worker'[v] = worker[v]
      /\ \A v \in Workers : worker[v] # None => worker'[v] # None /\ worker'[v].id = worker[v].id
      /\ w \in Workers /\ worker[w] # None /\ worker[w].id = req[r].id
  BY <1>4, SetsEffect DEF LifeInv, ShapeInv, Sets
<1>6. OverlapInv'
  <2>1. \A q \in Requests : req'[q].phase # "idle" =>
           /\ req[q].phase # "idle" /\ req'[q].op = req[q].op /\ req'[q].id = req[q].id
    BY <1>3
  <2> QED BY <1>3, <2>1, OverlapKept DEF LifeInv
<1>7. \A q \in Requests : Pending(q)' /\ q # r => Pending(q) /\ req'[q] = req[q]
  BY <1>3 DEF Pending
<1>8. ASSUME NEW i \in Ids, Alone(i)' PROVE CameraInv(i)'
  <2>1. ShapeInv /\ CameraInv(i)
    BY <1>3, <1>8 DEF LifeInv, CamerasInv, Alone
  <2>2. CASE i # req[r].id
    <3>1. \A q \in Requests : Pending(q)' /\ req'[q].id = i => req'[q] = req[q]
      BY <1>3, <1>7, <2>2
    <3>2. \A q \in Requests : req[q].phase = "woken" => req'[q] = req[q]
      BY <1>3
    <3>3. \A u \in Tasks : task'[u] # None /\ worker'[task'[u].worker].id = i => task'[u] = task[u]
      BY <1>3, <1>5, <2>2
    <3> QED BY <1>3, <1>5, <2>1, <2>2, <3>1, <3>2, <3>3, CameraUntouched
  <2>3. CASE i = req[r].id
    <3>1. /\ registry[i] = w /\ worker[w].task = t /\ w # None /\ t # None
          /\ \A u \in Tasks : u # t /\ Live(u) => worker[task[u].worker].id # i
      <4>1. w # None /\ t # None
        BY <1>3, <1>5, NoneAssumption DEF Workers, Tasks
      <4>2. registry[i] = w /\ worker[w].task = t
        BY <1>1, <2>3
      <4>3. worker[task[t].worker].id = i
        BY <1>3, <1>5, <2>3
      <4>4. \A u \in Tasks : u # t /\ Live(u) => worker[task[u].worker].id # i
        BY <1>3, <2>1, <4>3, OnlyTask
      <4> QED BY <4>1, <4>2, <4>4
    <3>2. TasksKnown(i)'
      <4>1. ASSUME NEW u \in Tasks, u # t, Live(u)' PROVE worker'[task'[u].worker].id # i
        <5>1. task'[u] = task[u] /\ Live(u)
          BY <1>3, <4>1 DEF Live
        <5>2. task[u].worker \in Workers /\ worker[task[u].worker] # None
          BY <2>1, <5>1 DEF ShapeInv, BasicInv, LinkInv, Task, Live
        <5> QED BY <1>5, <3>1, <4>1, <5>1, <5>2
      <4> QED BY <1>3, <1>4, <1>5, <3>1, <4>1 DEF TasksKnown
    <3>3. WaitsKnown(i)'
      <4>1. ASSUME NEW q \in Requests, Pending(q)', req'[q].id = i
            PROVE  registry'[i] = req'[q].worker /\ req'[q].phase # "woken"
        <5>1. CASE q = r
          BY <1>3, <3>1, <5>1
        <5>2. CASE q # r
          <6>1. Pending(q) /\ req'[q] = req[q]
            BY <1>7, <4>1, <5>2
          <6> QED BY <1>2, <1>3, <2>1, <3>1, <4>1, <6>1 DEF CameraInv, WaitsKnown
        <5> QED BY <5>1, <5>2
      <4> QED BY <4>1 DEF WaitsKnown
    <3>4. AsAsked(i)'
      <4>1. /\ wanted[w]
            /\ task[t].at = "new" => worker[w].status = "stopped"
            /\ db[i] = [enabled |-> worker[w].enabled, url |-> worker[w].url]
        BY <1>2, <2>1, <3>1 DEF CameraInv, AsAsked
      <4>2. Running(w)' /\ worker'[w].task = t
        BY <1>3, <1>4, <1>5, <3>1 DEF Running
      <4>3. /\ registry'[i] = w /\ wanted'[w] /\ task'[t].cancelled
            /\ task'[t].at = "new" => worker'[w].status = "stopped"
            /\ db'[i] = [enabled |-> worker'[w].enabled, url |-> worker'[w].url]
        BY <1>3, <1>4, <1>5, <3>1, <4>1
      <4> QED BY <4>2, <4>3 DEF AsAsked, Running, Live
    <3> QED BY <3>2, <3>3, <3>4 DEF CameraInv
  <2> QED BY <2>2, <2>3
<1> QED BY <1>6, <1>8 DEF CamerasInv

\* POST start: a task there is goes on, and a new one is the only one.
LEMMA StartLife ==
    ASSUME LifeInv, NEW r \in Requests, StartCamera(r), ShapeInv'
    PROVE  OverlapInv' /\ CamerasInv'
<1>1. PICK w : w = registry[req[r].id]
  OBVIOUS
<1>2. /\ AtHead(RHandle(r)) /\ Respond(r) /\ req[r].phase = "new" /\ req[r].op = "start"
      /\ registry[req[r].id] # None /\ wanted' = [wanted EXCEPT ![w] = TRUE]
      /\ UNCHANGED <<up, registry, overlapped>>
  BY <1>1 DEF StartCamera, Handle
<1>3. /\ OverlapInv' /\ ~Pending(r)'
      /\ \A q \in Requests : Pending(q)' => q # r /\ Pending(q) /\ req'[q] = req[q]
  BY <1>2, AnsweredOverlap
<1>4. \A q \in Requests : req[q].phase = "woken" => req'[q] = req[q]
  <2>1. \A q \in Requests : q # r => req'[q] = req[q]
    BY <1>2, Answered DEF LifeInv, ShapeInv
  <2> QED BY <1>2, <2>1
<1>5. PICK c : /\ Sets(w, c) /\ c.id = req[r].id /\ RowSaved(c)
               /\ c.status = worker[w].status
               /\ \/ /\ Running(w) /\ ready' = Tail(ready) /\ task' = task
                     /\ c.task = worker[w].task /\ c.stopEvent = worker[w].stopEvent
                  \/ \E t \in Tasks : /\ ~Running(w) /\ Makes(t, w)
                                      /\ ready' = Append(Tail(ready), THandle(t))
                                      /\ c.task = t /\ ~c.stopEvent
  BY <1>1, StartEffect DEF LifeInv
<1>6. /\ worker'[w] = c /\ \A v \in Workers : v # w => worker'[v] = worker[v]
      /\ \A v \in Workers : worker[v] # None => worker'[v] # None /\ worker'[v].id = worker[v].id
      /\ w \in Workers /\ worker[w].id = req[r].id
  BY <1>5, SetsEffect DEF LifeInv, ShapeInv, Sets
<1>7. wanted'[w] /\ \A v \in Workers : v # w => wanted'[v] = wanted[v]
  BY <1>2, <1>6 DEF LifeInv, ShapeInv, BasicInv
<1>8. ASSUME NEW i \in Ids, Alone(i)' PROVE CameraInv(i)'
  <2>1. ShapeInv /\ CameraInv(i) /\ Alone(i)
    BY <1>2, <1>8 DEF LifeInv, CamerasInv, Alone
  <2>2. CASE i # req[r].id
    <3>1. \A v \in Workers : worker[v].id = i => worker'[v] = worker[v] /\ wanted'[v] = wanted[v]
      BY <1>6, <1>7, <2>2
    <3>2. \A u \in Tasks : task'[u] # None /\ worker'[task'[u].worker].id = i => task'[u] = task[u]
      BY <1>5, <1>6, <2>2 DEF Makes
    <3>3. db'[i] = db[i]
      BY <1>5, <2>2 DEF RowSaved
    <3> QED BY <1>2, <1>3, <1>4, <1>6, <2>1, <3>1, <3>2, <3>3, CameraUntouched
  <2>3. CASE i = req[r].id
    <3>1. w # None /\ registry[i] = w /\ registry'[i] = w
      BY <1>1, <1>2, <2>3
    <3>2. db'[i] = [enabled |-> worker'[w].enabled, url |-> worker'[w].url]
      <4>1. db[i] # None
        BY <1>2, <2>1, <2>3, HeadIsAsked DEF ShapeInv, LinkInv
      <4> QED BY <1>5, <1>6, <2>3, <4>1 DEF RowSaved
    <3>3. CASE /\ Running(w) /\ task' = task
               /\ c.task = worker[w].task /\ c.stopEvent = worker[w].stopEvent
      <4>1. \A v \in Workers : worker[v] # None =>
               /\ worker'[v].task = worker[v].task /\ worker'[v].status = worker[v].status
               /\ worker'[v].stopEvent = worker[v].stopEvent
               /\ (wanted'[v] <=> wanted[v]) \/ (wanted'[v] /\ Running(v))
        BY <1>5, <1>6, <1>7, <3>3
      <4> QED BY <1>2, <1>3, <1>4, <1>6, <2>1, <3>1, <3>2, <3>3, <4>1, CameraKept
    <3>4. ASSUME NEW t \in Tasks, ~Running(w), Makes(t, w), c.task = t, ~c.stopEvent
          PROVE  CameraInv(i)'
      <4>1. /\ task'[t] # None /\ Live(t)' /\ task'[t].worker = w /\ task'[t].at = "new"
            /\ \A u \in Tasks : u # t => task'[u] = task[u]
        BY <3>4 DEF Makes
      <4>2. \A u \in Tasks : Live(u) => worker[task[u].worker].id # i
        BY <2>1, <3>1, <3>4, NoTask
      <4>3. ASSUME NEW u \in Tasks, u # t, Live(u)' PROVE worker'[task'[u].worker].id # i
        <5>1. task'[u] = task[u] /\ Live(u)
          BY <4>1, <4>3 DEF Live
        <5>2. task[u].worker \in Workers /\ worker[task[u].worker] # None
          BY <2>1, <5>1 DEF ShapeInv, BasicInv, LinkInv, Task, Live
        <5> QED BY <1>6, <4>2, <5>1, <5>2
      <4>4. TasksKnown(i)'
        BY <1>6, <3>1, <3>4, <4>1, <4>3 DEF TasksKnown
      <4>5. WaitsKnown(i)'
        <5>1. \A q \in Requests : Pending(q)' => req'[q].id # i
          BY <1>2, <1>3, <2>1, <2>3, OnlyRequest
        <5> QED BY <5>1 DEF WaitsKnown
      <4>6. AsAsked(i)'
        <5>1. worker[w].status = "stopped"
          BY <2>1, <3>1, <3>4 DEF CameraInv, AsAsked
        <5>2. /\ worker'[w].task = t /\ worker'[w].status = "stopped" /\ ~worker'[w].stopEvent
          BY <1>5, <1>6, <3>4, <5>1
        <5>3. t # None
          BY NoneAssumption DEF Tasks
        <5>4. Running(w)'
          BY <4>1, <5>2, <5>3 DEF Running
        <5> QED BY <1>7, <3>1, <3>2, <5>2, <5>4 DEF AsAsked, Running, Live
      <4> QED BY <4>4, <4>5, <4>6 DEF CameraInv
    <3> QED BY <1>5, <3>3, <3>4
  <2> QED BY <2>2, <2>3
<1> QED BY <1>3, <1>8 DEF CamerasInv

\* A camera is stopped, or removed, when its task is over: it has no other.
LEMMA StopLife ==
    ASSUME LifeInv, NEW r \in Requests, StopCamera(r) \/ RemoveCamera(r), ShapeInv'
    PROVE  OverlapInv' /\ CamerasInv'
<1>1. PICK w : w = Stopping(r)
  OBVIOUS
<1>2. PICK op \in {"stop", "remove"} : StopDone(r, op)
  BY DEF StopCamera, RemoveCamera
<1>3. /\ AtHead(RHandle(r)) /\ Respond(r) /\ req[r].op = op /\ req[r].phase # "idle"
      /\ wanted' = [wanted EXCEPT ![w] = FALSE]
      /\ UNCHANGED <<up, task, overlapped>>
  BY <1>1, <1>2 DEF StopDone
<1>4. /\ OverlapInv' /\ ~Pending(r)'
      /\ \A q \in Requests : Pending(q)' => q # r /\ Pending(q) /\ req'[q] = req[q]
  BY <1>3, AnsweredOverlap
<1>5. \A q \in Requests : q # r => req'[q] = req[q]
  BY <1>3, Answered DEF LifeInv, ShapeInv
<1>6. req[r].id \in Ids
  BY <1>2, StoppingIs DEF LifeInv
<1>7. PICK c : /\ Sets(w, c) /\ c.id = req[r].id /\ c.task = None /\ c.status = "stopped"
               /\ StopCamera(r) => RowSaved(c)
  BY <1>1, StopEffect, RemoveEffect DEF LifeInv
<1>8. /\ worker'[w] = c /\ \A v \in Workers : v # w => worker'[v] = worker[v]
      /\ \A v \in Workers : worker[v] # None => worker'[v] # None /\ worker'[v].id = worker[v].id
      /\ w \in Workers /\ worker[w].id = req[r].id
  BY <1>7, SetsEffect DEF LifeInv, ShapeInv, Sets
<1>9. ~wanted'[w] /\ \A v \in Workers : v # w => wanted'[v] = wanted[v]
  BY <1>3, <1>8 DEF LifeInv, ShapeInv, BasicInv
<1>10. /\ \A j \in Ids : j # req[r].id => db'[j] = db[j] /\ registry'[j] = registry[j]
       /\ registry'[req[r].id] = None \/ (StopCamera(r) /\ registry' = registry)
  <2>1. CASE StopCamera(r)
    BY <1>7, <2>1 DEF StopCamera, RowSaved
  <2>2. CASE RemoveCamera(r)
    BY <1>1, <2>2, RemoveEffect DEF LifeInv
  <2> QED BY <2>1, <2>2
<1>11. ASSUME NEW i \in Ids, Alone(i)' PROVE CameraInv(i)'
  <2>1. ShapeInv /\ CameraInv(i) /\ Alone(i)
    BY <1>3, <1>11 DEF LifeInv, CamerasInv, Alone
  <2>2. CASE i # req[r].id
    <3>1. \A v \in Workers : worker[v].id = i => worker'[v] = worker[v] /\ wanted'[v] = wanted[v]
      BY <1>8, <1>9, <2>2
    <3>2. \A q \in Requests : req[q].id = i => req'[q] = req[q]
      BY <1>5, <2>2
    <3> QED BY <1>3, <1>4, <1>8, <1>10, <2>1, <2>2, <3>1, <3>2, CameraUntouched
  <2>3. CASE i = req[r].id
    <3>1. registry[i] = w /\ ~Running(w)
      <4>1. CASE req[r].phase = "woken"
        <5>1. w = req[r].worker
          BY <1>1, <4>1 DEF Stopping
        <5> QED BY <2>1, <2>3, <4>1, <5>1 DEF CameraInv, WaitsKnown, Pending
      <4>2. CASE req[r].phase # "woken"
        BY <1>1, <1>2, <2>3, <4>2 DEF StopDone, Stopping
      <4> QED BY <4>1, <4>2
    <3>2. \A u \in Tasks : Live(u) => worker[task[u].worker].id # i
      BY <2>1, <3>1, NoTask
    <3>3. TasksKnown(i)'
      <4>1. ASSUME NEW u \in Tasks, Live(u)' PROVE worker'[task'[u].worker].id # i
        <5>1. task'[u] = task[u] /\ Live(u)
          BY <1>3, <4>1 DEF Live
        <5>2. task[u].worker \in Workers /\ worker[task[u].worker] # None
          BY <2>1, <5>1 DEF ShapeInv, BasicInv, LinkInv, Task, Live
        <5> QED BY <1>8, <3>2, <5>1, <5>2
      <4> QED BY <4>1 DEF TasksKnown
    <3>4. WaitsKnown(i)'
      <4>1. req[r].op # "add"
        BY <1>2, <1>3
      <4>2. \A q \in Requests : Pending(q)' => req'[q].id # i
        BY <1>3, <1>4, <2>1, <2>3, <4>1, OnlyRequest
      <4> QED BY <4>2 DEF WaitsKnown
    <3>5. AsAsked(i)'
      <4>1. CASE registry'[i] = None
        BY <4>1 DEF AsAsked
      <4>2. CASE StopCamera(r) /\ registry' = registry
        <5>1. ~Running(w)' /\ worker'[w].status = "stopped" /\ ~wanted'[w]
          BY <1>7, <1>8, <1>9 DEF Running
        <5>2. db'[i] = [enabled |-> worker'[w].enabled, url |-> worker'[w].url]
          <6>1. w # None
            BY <1>8, NoneAssumption DEF Workers
          <6>2. db[i] # None
            BY <1>3, <2>1, <3>1, <6>1, HeadIsAsked DEF ShapeInv, LinkInv
          <6> QED BY <1>7, <1>8, <2>3, <4>2, <6>2 DEF RowSaved
        <5> QED BY <3>1, <4>2, <5>1, <5>2 DEF AsAsked, Running, Live
      <4> QED BY <1>10, <2>3, <4>1, <4>2
    <3> QED BY <3>3, <3>4, <3>5 DEF CameraInv
  <2> QED BY <2>2, <2>3
<1> QED BY <1>4, <1>11 DEF CamerasInv

\* A camera that is added has one task, if it is enabled.
LEMMA AddLife ==
    ASSUME LifeInv, NEW r \in Requests, AddCamera(r), ShapeInv'
    PROVE  OverlapInv' /\ CamerasInv'
<1>1. PICK j, w, row : Adds(r, j, w, row)
  BY AddEffect DEF LifeInv
<1>2. /\ AtHead(RHandle(r)) /\ req[r].phase = "new" /\ Respond(r)
      /\ j \in Ids /\ registry[j] = None
      /\ w \in Workers /\ worker[w] = None
      /\ db'[j] = row /\ registry'[j] = w
      /\ worker'[w] # None
      /\ worker'[w].id = j /\ worker'[w].status = "stopped" /\ ~worker'[w].stopEvent
      /\ row = [enabled |-> worker'[w].enabled, url |-> worker'[w].url]
      /\ wanted'[w] = row.enabled
      /\ \A i \in Ids : i # j => db'[i] = db[i] /\ registry'[i] = registry[i]
      /\ \A v \in Workers : v # w => worker'[v] = worker[v] /\ wanted'[v] = wanted[v]
      /\ \/ ~row.enabled /\ task' = task /\ worker'[w].task = None
         \/ \E t \in Tasks : row.enabled /\ Makes(t, w) /\ worker'[w].task = t
      /\ UNCHANGED <<up, overlapped>>
  BY <1>1 DEF Adds
<1>3. /\ OverlapInv' /\ ~Pending(r)'
      /\ \A q \in Requests : Pending(q)' => q # r /\ Pending(q) /\ req'[q] = req[q]
  BY <1>2, AnsweredOverlap
<1>4. \A q \in Requests : req[q].phase = "woken" => req'[q] = req[q]
  <2>1. \A q \in Requests : q # r => req'[q] = req[q]
    BY <1>2, Answered DEF LifeInv, ShapeInv
  <2> QED BY <1>2, <2>1
<1>5. \A v \in Workers : worker[v] # None => v # w /\ worker'[v] = worker[v]
  BY <1>2
<1>6. ASSUME NEW i \in Ids, Alone(i)' PROVE CameraInv(i)'
  <2>1. ShapeInv /\ CameraInv(i)
    BY <1>2, <1>6 DEF LifeInv, CamerasInv, Alone
  <2>2. CASE i # j
    <3>1. \A v \in Workers : worker[v] # None => worker'[v] = worker[v] /\ wanted'[v] = wanted[v]
      BY <1>2, <1>5
    <3>2. \A u \in Tasks : task'[u] # None /\ worker'[task'[u].worker].id = i => task'[u] = task[u]
      BY <1>2, <2>2 DEF Makes
    <3> QED BY <1>2, <1>3, <1>4, <1>5, <2>1, <2>2, <3>1, <3>2, CameraUntouched
  <2>3. CASE i = j
    <3>1. \A u \in Tasks : Live(u) => worker[task[u].worker].id # i
      BY <1>2, <2>1, <2>3, NoTask
    <3>2. ASSUME NEW u \in Tasks, Live(u)', task'[u] = task[u]
          PROVE  worker'[task'[u].worker].id # i
      <4>1. Live(u)
        BY <3>2 DEF Live
      <4>2. task[u].worker \in Workers /\ worker[task[u].worker] # None
        BY <2>1, <4>1 DEF ShapeInv, BasicInv, LinkInv, Task, Live
      <4> QED BY <1>5, <3>1, <3>2, <4>1, <4>2
    <3>3. WaitsKnown(i)'
      <4>1. ASSUME NEW q \in Requests, Pending(q)', req'[q].id = i PROVE FALSE
        <5>1. Pending(q) /\ req[q].id = i
          BY <1>3, <4>1
        <5>2. registry[i] = req[q].worker /\ req[q].worker # None
          BY <2>1, <5>1 DEF CameraInv, WaitsKnown, ShapeInv, LinkInv
        <5> QED BY <1>2, <2>3, <5>2
      <4> QED BY <4>1 DEF WaitsKnown
    <3>4. CASE ~row.enabled /\ task' = task /\ worker'[w].task = None
      <4>1. TasksKnown(i)'
        BY <3>2, <3>4 DEF TasksKnown
      <4>2. ~Running(w)'
        BY <3>4 DEF Running
      <4>3. /\ registry'[i] = w /\ worker'[w].status = "stopped" /\ ~wanted'[w]
            /\ db'[i] = [enabled |-> worker'[w].enabled, url |-> worker'[w].url]
        BY <1>2, <2>3, <3>4
      <4>4. AsAsked(i)'
        BY <4>2, <4>3 DEF AsAsked, Running, Live
      <4> QED BY <3>3, <4>1, <4>4 DEF CameraInv
    <3>5. ASSUME NEW t \in Tasks, row.enabled, Makes(t, w), worker'[w].task = t
          PROVE  CameraInv(i)'
      <4>1. /\ task'[t] # None /\ Live(t)' /\ task'[t].worker = w
            /\ \A u \in Tasks : u # t => task'[u] = task[u]
        BY <3>5 DEF Makes
      <4>2. TasksKnown(i)'
        BY <1>2, <2>3, <3>2, <3>5, <4>1 DEF TasksKnown
      <4>3. t # None
        BY NoneAssumption DEF Tasks
      <4>4. Running(w)'
        BY <3>5, <4>1, <4>3 DEF Running
      <4>5. /\ registry'[i] = w /\ worker'[w].status = "stopped" /\ wanted'[w]
            /\ ~worker'[w].stopEvent
            /\ db'[i] = [enabled |-> worker'[w].enabled, url |-> worker'[w].url]
        BY <1>2, <2>3, <3>5
      <4>6. AsAsked(i)'
        BY <4>4, <4>5 DEF AsAsked, Running, Live
      <4> QED BY <3>3, <4>2, <4>6 DEF CameraInv
    <3> QED BY <1>2, <3>4, <3>5
  <2> QED BY <2>2, <2>3
<1> QED BY <1>3, <1>6 DEF CamerasInv

\* A request that arrives is noted if there is another one for its camera.
LEMMA ArriveLife ==
    ASSUME LifeInv, NEW r \in Requests, NEW op \in Ops, NEW id \in Ids, Arrive(r, op, id), ShapeInv'
    PROVE  OverlapInv' /\ CamerasInv'
<1>1. /\ req[r].phase = "idle"
      /\ overlapped' = overlapped \cup
            {i \in {id} : \E o \in Ops \ {"add"} : op # "add" /\ \E q \in InFlight(o) : req[q].id = i}
      /\ UNCHANGED <<up, db, registry, worker, task, wanted>>
  BY DEF Arrive, manager
<1>2. /\ req'[r].phase = "new" /\ req'[r].op = op /\ req'[r].id = id
      /\ \A q \in Requests : q # r => req'[q] = req[q]
  <2>1. PICK m : m = [op |-> op, id |-> id, phase |-> "new", worker |-> None]
    OBVIOUS
  <2>2. m.phase = "new" /\ m.op = op /\ m.id = id
    BY <2>1
  <2>3. req' = [req EXCEPT ![r] = m]
    BY <2>1 DEF Arrive
  <2> QED BY <2>2, <2>3 DEF LifeInv, ShapeInv, BasicInv
<1>3. ASSUME NEW q \in Requests, q # r, req[q].phase # "idle", req[q].op # "add", op # "add",
             req[q].id = id
      PROVE  id \in overlapped'
  <2>1. req[q].op \in Ops \ {"add"} /\ q \in InFlight(req[q].op)
    BY <1>3 DEF InFlight, LifeInv, ShapeInv, BasicInv, Request
  <2> QED BY <1>1, <1>3, <2>1
<1>4. OverlapInv'
  <2>1. SUFFICES ASSUME NEW p \in Requests, NEW q \in Requests, p # q,
                        req'[p].phase # "idle", req'[q].phase # "idle",
                        req'[p].op # "add", req'[q].op # "add", req'[p].id = req'[q].id
                 PROVE  req'[p].id \in overlapped'
    BY DEF OverlapInv
  <2>2. CASE p # r /\ q # r
    <3>1. req'[p] = req[p] /\ req'[q] = req[q]
      BY <1>2, <2>2
    <3>2. req[p].id \in overlapped
      BY <2>1, <3>1 DEF LifeInv, OverlapInv
    <3> QED BY <1>1, <3>1, <3>2
  <2>3. CASE p = r
    <3>1. q # r /\ req'[q] = req[q]
      BY <1>2, <2>1, <2>3
    <3> QED BY <1>2, <1>3, <2>1, <2>3, <3>1
  <2>4. CASE q = r
    <3>1. p # r /\ req'[p] = req[p]
      BY <1>2, <2>1, <2>4
    <3> QED BY <1>2, <1>3, <2>1, <2>4, <3>1
  <2> QED BY <2>2, <2>3, <2>4
<1>5. ASSUME NEW i \in Ids, Alone(i)' PROVE CameraInv(i)'
  <2>1. ShapeInv /\ CameraInv(i)
    BY <1>1, <1>5 DEF LifeInv, CamerasInv, Alone
  <2>2. \A q \in Requests : Pending(q)' => req'[q] = req[q]
    BY <1>2 DEF Pending
  <2>3. \A q \in Requests : req[q].phase = "woken" => req'[q] = req[q]
    BY <1>1, <1>2
  <2> QED BY <1>1, <2>1, <2>2, <2>3, CameraUntouched
<1> QED BY <1>4, <1>5 DEF CamerasInv

\* A step that touches the queue only.
LEMMA QuietLife ==
    ASSUME LifeInv, ShapeInv', UNCHANGED <<up, db, registry, worker, task, req, wanted, overlapped>>
    PROVE  OverlapInv' /\ CamerasInv'
<1>1. OverlapInv'
  BY OverlapKept DEF LifeInv
<1>2. ASSUME NEW i \in Ids, Alone(i)' PROVE CameraInv(i)'
  <2>1. ShapeInv /\ CameraInv(i)
    BY <1>2 DEF LifeInv, CamerasInv, Alone
  <2> QED BY <2>1, CameraUntouched
<1> QED BY <1>1, <1>2 DEF CamerasInv

\* The process starts with the cameras of its table, each as its row says.
LEMMA StartupLife ==
    ASSUME LifeInv, Startup, ShapeInv'
    PROVE  OverlapInv' /\ CamerasInv'
<1>1. PICK enabled : Begins(enabled)
  BY StartupEffect DEF LifeInv
<1>2. /\ \A i \in Ids : /\ db[i] = None => registry'[i] = None
                        /\ db[i] # None => registry'[i] = i /\ i # None
      /\ \A i \in Ids : db[i] # None =>
            /\ worker'[i].id = i /\ worker'[i].status = "stopped"
            /\ ~worker'[i].stopEvent
            /\ db[i] = [enabled |-> worker'[i].enabled, url |-> worker'[i].url]
            /\ i \in enabled => worker'[i].task = i
            /\ i \notin enabled => worker'[i].task = None
      /\ \A t \in Tasks : t \notin enabled => task'[t] = None
      /\ \A t \in enabled : /\ t \in Tasks /\ task'[t] # None /\ task'[t].worker = t
                            /\ task'[t].at = "new"
      /\ \A i \in Ids : wanted'[i] <=> i \in enabled
      /\ \A i \in Ids : i \in enabled => db[i] # None
      /\ enabled \subseteq Ids /\ db' = db /\ req' = req /\ ~up
  BY <1>1 DEF Begins
<1>3. \A r \in Requests : req'[r].phase = "idle"
  BY <1>2 DEF LifeInv, ShapeInv, DownInv
<1>4. OverlapInv'
  BY <1>3 DEF OverlapInv
<1>5. ASSUME NEW i \in Ids PROVE CameraInv(i)'
  <2>1. TasksKnown(i)'
    <3>1. ASSUME NEW t \in Tasks, Live(t)', worker'[task'[t].worker].id = i
          PROVE  registry'[i] = task'[t].worker /\ worker'[task'[t].worker].task = t
      <4>1. t \in enabled
        BY <1>2, <3>1 DEF Live
      <4>2. task'[t].worker = t /\ t \in Ids /\ db[t] # None
        BY <1>2, <4>1
      <4>3. worker'[t].id = t /\ worker'[t].task = t /\ registry'[t] = t
        BY <1>2, <4>1, <4>2
      <4>4. t = i
        BY <3>1, <4>2, <4>3
      <4> QED BY <4>2, <4>3, <4>4
    <3> QED BY <3>1 DEF TasksKnown
  <2>2. WaitsKnown(i)'
    BY <1>3 DEF WaitsKnown, Pending
  <2>3. AsAsked(i)'
    <3>1. CASE db[i] = None
      BY <1>2, <3>1 DEF AsAsked
    <3>2. CASE db[i] # None /\ i \in enabled
      <4>1. Running(i)'
        <5>1. i # None /\ worker'[i].task = i
          BY <1>2, <3>2
        <5>2. task'[i] # None /\ task'[i].at = "new"
          BY <1>2, <3>2
        <5> QED BY <5>1, <5>2 DEF Running, Live
      <4>2. /\ registry'[i] = i /\ wanted'[i] /\ ~worker'[i].stopEvent
            /\ worker'[i].status = "stopped"
            /\ db'[i] = [enabled |-> worker'[i].enabled, url |-> worker'[i].url]
        BY <1>2, <3>2
      <4> QED BY <4>1, <4>2 DEF AsAsked, Running, Live
    <3>3. CASE db[i] # None /\ i \notin enabled
      <4>1. ~Running(i)'
        BY <1>2, <3>3 DEF Running
      <4>2. /\ registry'[i] = i /\ ~wanted'[i] /\ worker'[i].status = "stopped"
            /\ db'[i] = [enabled |-> worker'[i].enabled, url |-> worker'[i].url]
        BY <1>2, <3>3
      <4> QED BY <4>1, <4>2 DEF AsAsked, Running, Live
    <3> QED BY <3>1, <3>2, <3>3
  <2> QED BY <2>1, <2>2, <2>3 DEF CameraInv
<1> QED BY <1>4, <1>5 DEF CamerasInv

\* Nothing is said of a camera of a process that has stopped.
LEMMA CrashLife ==
    ASSUME LifeInv, Crash
    PROVE  OverlapInv' /\ CamerasInv'
<1>1. /\ registry' = [i \in Ids |-> None] /\ task' = [t \in Tasks |-> None]
      /\ req' = [r \in Requests |-> Idle]
  BY DEF Crash, Down
<1>2. /\ \A i \in Ids : registry'[i] = None
      /\ \A t \in Tasks : task'[t] = None
      /\ \A r \in Requests : req'[r].phase = "idle"
  BY <1>1 DEF Idle
<1>3. OverlapInv'
  BY <1>2 DEF OverlapInv
<1>4. ASSUME NEW i \in Ids PROVE TasksKnown(i)' /\ WaitsKnown(i)' /\ AsAsked(i)'
  BY <1>2 DEF TasksKnown, WaitsKnown, AsAsked, Live, Pending
<1> QED BY <1>3, <1>4 DEF CamerasInv, CameraInv

\* The invariant holds before the first start, ...
LEMMA InitLife ==
    ASSUME Init
    PROVE  LifeInv
<1>1. ShapeInv
  BY InitShape
<1>2. /\ \A i \in Ids : registry[i] = None
      /\ \A t \in Tasks : task[t] = None
      /\ \A r \in Requests : req[r].phase = "idle"
  BY DEF Init, Idle
<1>3. OverlapInv
  BY <1>2 DEF OverlapInv
<1>4. ASSUME NEW i \in Ids PROVE TasksKnown(i) /\ WaitsKnown(i) /\ AsAsked(i)
  BY <1>2 DEF TasksKnown, WaitsKnown, AsAsked, Live, Pending
<1> QED BY <1>1, <1>3, <1>4 DEF LifeInv, CamerasInv, CameraInv

\* ... and every step keeps it.
LEMMA StepLife ==
    ASSUME LifeInv, [Next]_vars
    PROVE  LifeInv'
<1>1. ShapeInv'
  BY StepShape DEF LifeInv
<1>2. ASSUME NEW t \in Tasks, RunTask(t) PROVE OverlapInv' /\ CamerasInv'
  BY <1>1, <1>2, TaskKinds, MovesLife, EndsLife DEF LifeInv
<1>3. ASSUME NEW r \in Requests, RunRequest(r) PROVE OverlapInv' /\ CamerasInv'
  BY <1>1, <1>3, AddLife, NotFoundLife, UpdateLife, StartLife, AwaitLife, StopLife DEF RunRequest
<1>4. ASSUME NEW t \in Tasks, Complete(t) PROVE OverlapInv' /\ CamerasInv'
  BY <1>1, <1>4, QuietLife DEF Complete, manager
<1>5. ASSUME NEW r \in Requests,
             \/ Arrive(r, "add", 1)
             \/ \E op \in Ops \ {"add"}, id \in Ids : Arrive(r, op, id)
      PROVE  OverlapInv' /\ CamerasInv'
  <2>1. "add" \in Ops /\ 1 \in Ids
    BY BoundAssumption DEF Ops, Ids
  <2> QED BY <1>1, <1>5, <2>1, ArriveLife
<1>6. ASSUME Startup PROVE OverlapInv' /\ CamerasInv'
  BY <1>1, <1>6, StartupLife
<1>7. ASSUME Crash PROVE OverlapInv' /\ CamerasInv'
  BY <1>7, CrashLife
<1>8. ASSUME UNCHANGED vars PROVE OverlapInv' /\ CamerasInv'
  BY <1>1, <1>8, QuietLife DEF vars
<1>9. OverlapInv' /\ CamerasInv'
  BY <1>2, <1>3, <1>4, <1>5, <1>6, <1>7, <1>8 DEF Next, LoopTurn
<1> QED BY <1>1, <1>9 DEF LifeInv

\* No task is left that nobody can stop: while the requests for a camera come one at a time,
\* a live task of it is the one its registered worker would cancel (CameraWorker.start, stop;
\* CameraManager.remove_camera).
THEOREM NoOrphans == Spec => []NoOrphan
<1>1. LifeInv => NoOrphan
  <2>1. SUFFICES ASSUME LifeInv, NEW t \in Tasks, Live(t), Alone(worker[task[t].worker].id)
                 PROVE  LET w == task[t].worker IN
                        registry[worker[w].id] = w /\ worker[w].task = t
    BY DEF NoOrphan
  <2>2. PICK w : w = task[t].worker
    OBVIOUS
  <2>3. worker[w].id \in Ids
    BY <2>1, <2>2 DEF LifeInv, ShapeInv, BasicInv, LinkInv, Task, Worker, Live
  <2>4. registry[worker[w].id] = w /\ worker[w].task = t
    BY <2>1, <2>2, <2>3 DEF LifeInv, CamerasInv, CameraInv, TasksKnown
  <2> QED BY <2>2, <2>4
<1> QED BY <1>1, InitLife, StepLife, PTL DEF Spec

\* Between requests a camera does what it was last started or stopped to do, unless a
\* PATCH has changed its "enabled" since, and says so (CameraManager.start_camera,
\* stop_camera; CameraWorker._run).
THEOREM RequestsObeyed == Spec => []ObeysLastRequest
<1>1. LifeInv => ObeysLastRequest
  <2>1. SUFFICES ASSUME LifeInv, NEW i \in Ids, Quiet(i), registry[i] # None, NEW w, w = registry[i]
                 PROVE  (Running(w) <=> wanted[w]) /\ (~Running(w) => worker[w].status = "stopped")
    BY DEF ObeysLastRequest
  <2>2. w \in Workers /\ worker[w] # None /\ worker[w].id = i
    BY <2>1, Registered DEF LifeInv
  <2>3. /\ Running(w) => wanted[w]
        /\ ~Running(w) =>
              /\ worker[w].status = "stopped"
              /\ wanted[w] => \E r \in Requests : req[r].phase = "woken" /\ req[r].worker = w
    BY <2>1 DEF LifeInv, CamerasInv, CameraInv, AsAsked, Quiet
  <2>4. ASSUME NEW r \in Requests, req[r].phase = "woken", req[r].worker = w PROVE FALSE
    <3>1. req[r].op \in {"stop", "remove"} /\ req[r].id = i
      BY <2>1, <2>2, <2>4 DEF LifeInv, ShapeInv, LinkInv, Pending
    <3>2. req[r].op \in Ops \ {"add"} /\ r \in InFlight(req[r].op)
      BY <2>4, <3>1 DEF Ops, InFlight
    <3> QED BY <2>1, <3>1, <3>2 DEF Quiet
  <2>5. wanted[w] \in BOOLEAN
    BY <2>1, <2>2 DEF LifeInv, ShapeInv, BasicInv
  <2> QED BY <2>3, <2>4, <2>5
<1> QED BY <1>1, InitLife, StepLife, PTL DEF Spec

\* The table has a row for each registered camera and no other, and it is the configuration in
\* memory (SQLiteCameraRepository, CameraManager.update_camera).
THEOREM TableFollows == Spec => []TableIsMemory
<1>1. LifeInv => TableIsMemory
  <2>1. SUFFICES ASSUME LifeInv, up, NEW i \in Ids
                 PROVE  /\ (db[i] = None) <=> (registry[i] = None)
                        /\ Alone(i) /\ db[i] # None =>
                              LET w == worker[registry[i]] IN
                              db[i] = [enabled |-> w.enabled, url |-> w.url]
    BY DEF TableIsMemory
  <2>2. db[i] = None <=> registry[i] = None
    BY <2>1 DEF LifeInv, ShapeInv, LinkInv
  <2>3. Alone(i) /\ registry[i] # None =>
           db[i] = [enabled |-> worker[registry[i]].enabled, url |-> worker[registry[i]].url]
    BY <2>1 DEF LifeInv, CamerasInv, CameraInv, AsAsked
  <2> QED BY <2>2, <2>3
<1> QED BY <1>1, InitLife, StepLife, PTL DEF Spec
=============================================================================

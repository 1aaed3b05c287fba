---------------------- MODULE BackgroundExecutor_proofs ----------------------
(***************************************************************************)
(* Proofs about the executor for any sources, web threads, submissions,    *)
(* workers, attempts and crashes.                                          *)
(*                                                                         *)
(* RInv is the registry: who stands behind every entry of _active, and     *)
(* under which entry every task is found. Beside it LInv, of the run       *)
(* services, which the steps of a worker are.                              *)
(***************************************************************************)
EXTENDS BackgroundExecutor, RunLifecycle_proofs, SequenceTheorems

Owning == {"reserved", "submitted"}
Submitted == {"submitted", "stored"}
Working == {"running", "fetched", "failing"}

QueueIsQueued ==
  /\ \A i \in 1 .. Len(queue) : task[queue[i]].pc = "queued"
  /\ \A i, j \in 1 .. Len(queue) : queue[i] = queue[j] => i = j

TasksHaveSources ==
  \A t \in Tasks :
    /\ task[t].pc \in Live => task[t].source \in Sources
    /\ task[t].pc \in Working => task[t].run \in RunIds

RequestsHaveSources ==
  \A q \in Requests :
    /\ request[q].pc \notin {"idle", "next"} => request[q].source \in Sources
    /\ request[q].pc \in Owning => active[request[q].source] = Reserved
    /\ request[q].pc \in Submitted =>
         /\ request[q].task \in Tasks /\ task[request[q].task].pc # "unused"
         /\ task[request[q].task].source = request[q].source

OwnersDiffer ==
  \A p, q \in Requests :
    /\ request[p].pc \in Owning /\ request[q].pc \in Owning
    /\ request[p].source = request[q].source
    => p = q

ReservedIsOwned ==
  \A s \in Sources : active[s] = Reserved =>
    \E q \in Requests : request[q].source = s /\ request[q].pc \in Owning

RInv ==
  /\ ExecutorTypeOK
  /\ QueueIsQueued
  /\ TasksHaveSources
  /\ RequestsHaveSources
  /\ OwnersDiffer
  /\ ReservedIsOwned
  /\ LiveTaskIsRegistered

-----------------------------------------------------------------------------
(* Web threads that only change their own request, and not to a state that *)
(* owns a reservation.                                                     *)
LEMMA RequestMoves ==
  ASSUME RInv, TypeOK', NEW q \in Requests, NEW r \in RequestState,
         request' = [request EXCEPT ![q] = r],
         UNCHANGED <<active, shutdown, accepting, queue, task, abandoned, crashes>>,
         request[q].pc \notin Owning \cup Submitted,
         r.pc \notin Owning \cup Submitted,
         r.pc \notin {"idle", "next"} => r.source \in Sources
  PROVE  RInv'
<1>1. ExecutorTypeOK'
  BY DEF RInv, ExecutorTypeOK
<1>2. /\ request'[q] = r
      /\ \A p \in Requests : p # q => request'[p] = request[p]
  BY DEF RInv, ExecutorTypeOK
<1>3. QueueIsQueued' /\ TasksHaveSources'
  BY DEF RInv, QueueIsQueued, TasksHaveSources
<1>4. RequestsHaveSources'
  BY <1>2 DEF RInv, RequestsHaveSources, Owning, Submitted
<1>5. OwnersDiffer'
  BY <1>2 DEF RInv, OwnersDiffer, Owning
<1>6. ReservedIsOwned'
  BY <1>2 DEF RInv, ReservedIsOwned, Owning
<1>7. LiveTaskIsRegistered'
  BY <1>2 DEF RInv, LiveTaskIsRegistered, Submitted
<1> QED BY <1>1, <1>3, <1>4, <1>5, <1>6, <1>7 DEF RInv

(* What NextSource leaves of a request.                                    *)
Rest(q) ==
  IF request[q].todo = {} THEN Idle
  ELSE [pc |-> "next", todo |-> request[q].todo, source |-> NoSource, task |-> NoTask]

LEMMA RestIs ==
  ASSUME RInv, NEW q \in Requests
  PROVE  /\ Rest(q) \in RequestState /\ Rest(q).pc \in {"idle", "next"}
         /\ NextSource(q) => request' = [request EXCEPT ![q] = Rest(q)]
<1>1. request[q] \in RequestState
  BY DEF RInv, ExecutorTypeOK
<1>2. Rest(q) \in RequestState /\ Rest(q).pc \in {"idle", "next"}
  BY <1>1 DEF Rest, Idle, RequestState, RequestPc
<1>3. ASSUME NextSource(q)
      PROVE  request' = [request EXCEPT ![q] = Rest(q)]
  BY <1>3, Zenon DEF NextSource, Rest
<1> QED BY <1>2, <1>3

(* A step to another pc of the same request.                               *)
LEMMA AdvanceIs ==
  ASSUME RInv, NEW q \in Requests, NEW pc \in RequestPc, Advance(q, pc)
  PROVE  /\ request' = [request EXCEPT ![q] = [request[q] EXCEPT !.pc = pc]]
         /\ [request[q] EXCEPT !.pc = pc] \in RequestState
         /\ [request[q] EXCEPT !.pc = pc].pc = pc
         /\ [request[q] EXCEPT !.pc = pc].source = request[q].source
<1>1. request[q] \in RequestState
  BY DEF RInv, ExecutorTypeOK
<1>2. request' = [request EXCEPT ![q] = [request[q] EXCEPT !.pc = pc]]
  BY Zenon DEF Advance
<1> QED BY <1>1, <1>2 DEF RequestState

LEMMA EarlyRequestRInv ==
  ASSUME RInv, TypeOK', NEW q \in Requests,
         \/ \E c \in Companies : ReceiveRequest(q, c)
         \/ ValidateSource(q) \/ CheckRunning(q)
  PROVE  RInv'
<1>0. /\ request[q] \in RequestState /\ request \in [Requests -> RequestState]
      /\ request[q].pc \in {"idle", "next", "validated"}
      /\ UNCHANGED <<active, shutdown, accepting, queue, task, abandoned, crashes>>
  BY DEF RInv, ExecutorTypeOK, ReceiveRequest, ValidateSource, CheckRunning, AtRequest
<1>1. request[q].pc \notin Owning \cup Submitted
  BY <1>0 DEF Owning, Submitted
<1>2. ASSUME NEW c \in Companies, ReceiveRequest(q, c)
      PROVE  RInv'
  <2> DEFINE r == [request[q] EXCEPT !.pc = "next", !.todo = Candidates(c)]
  <2>1. request' = [request EXCEPT ![q] = r]
    BY <1>2, <1>0, Zenon DEF ReceiveRequest
  <2>2. r \in RequestState /\ r.pc = "next"
    BY <1>0 DEF RequestState, RequestPc, Candidates
  <2> HIDE DEF r
  <2> QED BY <1>0, <1>1, <2>1, <2>2, RequestMoves DEF Owning, Submitted
<1>3. CASE ValidateSource(q)
  <2>1. PICK s \in request[q].todo :
          IF Executable(s)
            THEN request' = [request EXCEPT ![q].pc = "validated", ![q].source = s,
                                            ![q].todo = @ \ {s}]
            ELSE request' = [request EXCEPT ![q] =
                               IF @.todo = {s} THEN Idle
                               ELSE [@ EXCEPT !.todo = request[q].todo \ {s}]]
    BY <1>3 DEF ValidateSource
  <2>2. s \in Sources
    BY <1>0 DEF RequestState
  <2>3. CASE Executable(s)
    <3> DEFINE r == [request[q] EXCEPT !.pc = "validated", !.source = s, !.todo = @ \ {s}]
    <3>1. request' = [request EXCEPT ![q] = r]
      BY <2>1, <2>3, <1>0, Zenon
    <3>2. r \in RequestState /\ r.pc = "validated" /\ r.source = s
      BY <1>0, <2>2 DEF RequestState, RequestPc
    <3> HIDE DEF r
    <3> QED BY <1>0, <1>1, <2>2, <3>1, <3>2, RequestMoves DEF Owning, Submitted
  <2>4. CASE ~Executable(s)
    <3> DEFINE e == [request[q] EXCEPT !.todo = request[q].todo \ {s}]
    <3> DEFINE r == IF request[q].todo = {s} THEN Idle ELSE e
    <3>1. request' = [request EXCEPT ![q] = r]
      BY <2>1, <2>4, Zenon
    <3>2. request[q].pc = "next"
      BY <1>3 DEF ValidateSource, AtRequest
    <3>3. r \in RequestState /\ r.pc \in {"idle", "next"}
      BY <1>0, <3>2 DEF RequestState, RequestPc, Idle
    <3> HIDE DEF r
    <3> QED BY <1>0, <1>1, <3>1, <3>3, RequestMoves DEF Owning, Submitted
  <2> QED BY <2>3, <2>4
<1>4. CASE CheckRunning(q)
  <2>1. CASE NextSource(q)
    BY <1>0, <1>1, <2>1, RestIs, RequestMoves DEF Owning, Submitted
  <2>2. CASE Advance(q, "checked")
    <3> DEFINE r == [request[q] EXCEPT !.pc = "checked"]
    <3>1. request[q].source \in Sources
      BY <1>4 DEF RInv, RequestsHaveSources, CheckRunning, AtRequest
    <3>2. request' = [request EXCEPT ![q] = r] /\ r \in RequestState /\ r.pc = "checked"
          /\ r.source = request[q].source
      BY <2>2, AdvanceIs DEF RequestPc
    <3> HIDE DEF r
    <3> QED BY <1>0, <1>1, <3>1, <3>2, RequestMoves DEF Owning, Submitted
  <2> QED BY <1>4, <2>1, <2>2 DEF CheckRunning
<1> QED BY <1>2, <1>3, <1>4

(* The first critical section.                                             *)
LEMMA ReserveRInv ==
  ASSUME RInv, TypeOK', NEW q \in Requests, Reserve(q)
  PROVE  RInv'
<1> DEFINE s == request[q].source
<1>0. /\ request[q] \in RequestState /\ request \in [Requests -> RequestState]
      /\ request[q].pc = "checked" /\ s \in Sources
      /\ UNCHANGED <<shutdown, accepting, queue, task, abandoned, crashes>>
      /\ active \in [Sources -> Tasks \cup {Free, Reserved}]
  BY DEF RInv, ExecutorTypeOK, Reserve, AtRequest, RequestsHaveSources
<1>1. request[q].pc \notin Owning \cup Submitted
  BY <1>0 DEF Owning, Submitted
<1>2. CASE NextSource(q) /\ UNCHANGED active
  BY <1>0, <1>1, <1>2, RestIs, RequestMoves DEF Owning, Submitted
<1>3. CASE /\ ~Blocked(s) /\ Advance(q, "reserved")
           /\ active' = [active EXCEPT ![s] = Reserved]
  <2> DEFINE r == [request[q] EXCEPT !.pc = "reserved"]
  <2>1. request' = [request EXCEPT ![q] = r] /\ r \in RequestState /\ r.pc = "reserved"
        /\ r.source = s
    BY <1>3, AdvanceIs DEF RequestPc
  <2> HIDE DEF r
  <2>2. request'[q] = r /\ \A p \in Requests : p # q => request'[p] = request[p]
    BY <1>0, <2>1
  <2>3. active'[s] = Reserved /\ \A z \in Sources : z # s => active'[z] = active[z]
    BY <1>0, <1>3
  <2>4. active[s] # Reserved /\ \A t \in Tasks : active[s] = t => task[t].pc = "done"
    BY <1>3 DEF Blocked
  <2>5. ExecutorTypeOK'
    BY <1>0, <1>3, <2>1 DEF RInv, ExecutorTypeOK
  <2>6. QueueIsQueued' /\ TasksHaveSources'
    BY <1>0 DEF RInv, QueueIsQueued, TasksHaveSources
  <2>7. \A p \in Requests : request[p].pc \in Owning => request[p].source # s
    BY <2>4 DEF RInv, RequestsHaveSources
  <2>8. RequestsHaveSources'
    BY <1>0, <2>1, <2>2, <2>3, <2>7 DEF RInv, RequestsHaveSources, Owning, Submitted
  <2>9. OwnersDiffer'
    BY <2>1, <2>2, <2>7 DEF RInv, OwnersDiffer, Owning
  <2>10. ReservedIsOwned'
    <3>1. r.pc \in Owning
      BY <2>1 DEF Owning
    <3>2. ASSUME NEW z \in Sources, active'[z] = Reserved
          PROVE  \E p \in Requests : request'[p].source = z /\ request'[p].pc \in Owning
      <4>1. CASE z = s
        BY <2>1, <2>2, <3>1, <4>1
      <4>2. CASE z # s
        <5>1. PICK p \in Requests : request[p].source = z /\ request[p].pc \in Owning
          BY <2>3, <3>2, <4>2 DEF RInv, ReservedIsOwned
        <5>2. p # q
          BY <1>1, <5>1
        <5> QED BY <2>2, <5>1, <5>2
      <4> QED BY <4>1, <4>2
    <3> QED BY <3>2 DEF ReservedIsOwned
  <2>11. LiveTaskIsRegistered'
    <3>1. ASSUME NEW t \in Tasks, task[t].pc \in Live
          PROVE  task[t].source # s
      <4>1. task[t].pc # "done"
        BY <3>1 DEF Live
      <4> QED BY <2>4, <3>1, <4>1 DEF RInv, LiveTaskIsRegistered
    <3>2. ASSUME NEW t \in Tasks, task[t].pc \in Live
          PROVE  \/ active'[task[t].source] = t
                 \/ /\ active'[task[t].source] = Reserved
                    /\ \E p \in Requests : request'[p].task = t /\ request'[p].pc = "submitted"
      <4>1. task[t].source \in Sources /\ task[t].source # s
        BY <3>1, <3>2 DEF RInv, TasksHaveSources
      <4>2. active'[task[t].source] = active[task[t].source]
        BY <2>3, <4>1
      <4>3. ASSUME NEW p \in Requests, request[p].task = t, request[p].pc = "submitted"
            PROVE  request'[p].task = t /\ request'[p].pc = "submitted"
        BY <1>0, <2>2, <4>3
      <4> QED BY <3>2, <4>2, <4>3 DEF RInv, LiveTaskIsRegistered
    <3> QED BY <1>0, <3>2 DEF LiveTaskIsRegistered
  <2> QED BY <2>5, <2>6, <2>8, <2>9, <2>10, <2>11 DEF RInv
<1> QED BY <1>2, <1>3 DEF Reserve

(* A reserved source has no live task: any such task would have been        *)
(* submitted by the request that holds the reservation.                    *)
LEMMA ReservedHasNoTask ==
  ASSUME RInv, NEW q \in Requests, request[q].pc \in Owning,
         NEW t \in Tasks, task[t].pc \in Live, task[t].source = request[q].source
  PROVE  request[q].pc = "submitted" /\ request[q].task = t
<1>1. active[task[t].source] = Reserved
  BY DEF RInv, RequestsHaveSources
<1>2. PICK p \in Requests : request[p].task = t /\ request[p].pc = "submitted"
  BY <1>1, ExecutorAssumption DEF RInv, LiveTaskIsRegistered
<1>3. request[p].source = task[t].source
  BY <1>2 DEF RInv, RequestsHaveSources, Submitted
<1>4. p = q
  BY <1>2, <1>3 DEF RInv, OwnersDiffer, Owning
<1> QED BY <1>2, <1>4

(* Two live tasks never work for one source.                               *)
LEMMA OneLiveTaskPerSource ==
  ASSUME RInv, NEW t \in Tasks, NEW u \in Tasks, task[t].pc \in Live, task[u].pc \in Live,
         task[t].source = task[u].source
  PROVE  t = u
<1>1. CASE active[task[t].source] = Reserved
  <2>1. PICK p \in Requests : request[p].task = t /\ request[p].pc = "submitted"
    BY <1>1, ExecutorAssumption DEF RInv, LiveTaskIsRegistered
  <2>2. request[p].pc \in Owning /\ request[p].source = task[u].source
    BY <2>1 DEF RInv, RequestsHaveSources, Owning, Submitted
  <2> QED BY <2>1, <2>2, ReservedHasNoTask
<1>2. CASE active[task[t].source] # Reserved
  BY <1>2 DEF RInv, LiveTaskIsRegistered
<1> QED BY <1>1, <1>2

(* ThreadPoolExecutor.submit accepts.                                      *)
LEMMA PoolSubmitRInv ==
  ASSUME RInv, TypeOK', NEW q \in Requests, NEW t \in Tasks, PoolSubmit(q, t)
  PROVE  RInv'
<1> DEFINE s == request[q].source
           r == [request[q] EXCEPT !.pc = "submitted", !.task = t]
           x == [Unused EXCEPT !.pc = "queued", !.source = s]
<1>0. /\ request[q] \in RequestState /\ request \in [Requests -> RequestState]
      /\ task \in [Tasks -> TaskState] /\ queue \in Seq(Tasks)
      /\ request[q].pc = "reserved" /\ s \in Sources /\ active[s] = Reserved
      /\ task[t].pc = "unused" /\ queue' = Append(queue, t)
      /\ UNCHANGED <<active, shutdown, accepting, abandoned, crashes>>
  BY DEF RInv, ExecutorTypeOK, PoolSubmit, AtRequest, RequestsHaveSources, Owning
<1>1. request' = [request EXCEPT ![q] = r]
  BY <1>0, Zenon DEF PoolSubmit
<1>2. task' = [task EXCEPT ![t] = x]
  BY DEF PoolSubmit
<1>3. r \in RequestState /\ r.pc = "submitted" /\ r.source = s /\ r.task = t
  BY <1>0 DEF RequestState, RequestPc
<1>4. x \in TaskState /\ x.pc = "queued" /\ x.source = s
  <2>1. 0 \in 0 .. MaxRuns /\ 0 \in 0 .. Attempts - 1
    BY ExecutorAssumption, MaxRunsAssumption
  <2>2. Unused \in TaskState
    BY <2>1 DEF Unused, TaskState, TaskPc
  <2> QED BY <1>0, <2>2 DEF TaskState, TaskPc
<1> HIDE DEF r, x
<1>5. request'[q] = r /\ \A p \in Requests : p # q => request'[p] = request[p]
  BY <1>0, <1>1
<1>6. task'[t] = x /\ \A u \in Tasks : u # t => task'[u] = task[u]
  BY <1>0, <1>2
<1>7. ExecutorTypeOK'
  BY <1>0, <1>1, <1>2, <1>3, <1>4 DEF RInv, ExecutorTypeOK
<1>8. QueueIsQueued'
  <2>1. /\ Len(queue') = Len(queue) + 1 /\ queue'[Len(queue) + 1] = t /\ Len(queue) \in Nat
        /\ \A i \in 1 .. Len(queue) : queue'[i] = queue[i] /\ queue[i] \in Tasks
    BY <1>0
  <2>2. \A i \in 1 .. Len(queue) : queue[i] # t
    BY <1>0 DEF RInv, QueueIsQueued
  <2>3. \A i \in 1 .. Len(queue') : i = Len(queue) + 1 \/ i \in 1 .. Len(queue)
    BY <2>1
  <2>4. \A i \in 1 .. Len(queue') : task'[queue'[i]].pc = "queued"
    BY <1>4, <1>6, <2>1, <2>2, <2>3 DEF RInv, QueueIsQueued
  <2>5. \A i, j \in 1 .. Len(queue') : queue'[i] = queue'[j] => i = j
    BY <2>1, <2>2, <2>3 DEF RInv, QueueIsQueued
  <2> QED BY <2>4, <2>5 DEF QueueIsQueued
<1>9. TasksHaveSources'
  BY <1>0, <1>4, <1>6 DEF RInv, TasksHaveSources, Working
<1>10. RequestsHaveSources'
  <2>1. ASSUME NEW p \in Requests, p # q
        PROVE  /\ request'[p].pc \notin {"idle", "next"} => request'[p].source \in Sources
               /\ request'[p].pc \in Owning => active'[request'[p].source] = Reserved
               /\ request'[p].pc \in Submitted =>
                    /\ request'[p].task \in Tasks /\ task'[request'[p].task].pc # "unused"
                    /\ task'[request'[p].task].source = request'[p].source
    BY <1>0, <1>5, <1>6, <2>1 DEF RInv, RequestsHaveSources
  <2>2. /\ request'[q].source \in Sources /\ active'[request'[q].source] = Reserved
        /\ request'[q].task \in Tasks /\ task'[request'[q].task].pc # "unused"
        /\ task'[request'[q].task].source = request'[q].source
    BY <1>0, <1>3, <1>4, <1>5, <1>6
  <2> QED BY <2>1, <2>2 DEF RequestsHaveSources
<1>11. OwnersDiffer'
  BY <1>0, <1>3, <1>5 DEF RInv, OwnersDiffer, Owning
<1>12. ReservedIsOwned'
  BY <1>0, <1>3, <1>5 DEF RInv, ReservedIsOwned, Owning
<1>13. LiveTaskIsRegistered'
  BY <1>0, <1>3, <1>4, <1>5, <1>6 DEF RInv, LiveTaskIsRegistered
<1> QED BY <1>7, <1>8, <1>9, <1>10, <1>11, <1>12, <1>13 DEF RInv

(* ThreadPoolExecutor.submit raises: the reservation has no task yet, so   *)
(* dropping it uncovers none.                                              *)
LEMMA PoolRefusesRInv ==
  ASSUME RInv, TypeOK', NEW q \in Requests, PoolRefuses(q)
  PROVE  RInv'
<1> DEFINE s == request[q].source
<1>0. /\ request[q] \in RequestState /\ request \in [Requests -> RequestState]
      /\ active \in [Sources -> Tasks \cup {Free, Reserved}]
      /\ request[q].pc = "reserved" /\ s \in Sources /\ active[s] = Reserved
      /\ UNCHANGED <<shutdown, accepting, queue, task, abandoned, crashes>>
      /\ active' = [active EXCEPT ![s] = Free]
      /\ request' = [request EXCEPT ![q] = Idle]
  BY DEF RInv, ExecutorTypeOK, PoolRefuses, PopReservation, AtRequest, RequestsHaveSources, Owning
<1>1. Idle \in RequestState /\ Idle.pc = "idle"
  BY DEF Idle, RequestState, RequestPc
<1>2. request'[q] = Idle /\ \A p \in Requests : p # q => request'[p] = request[p]
  BY <1>0
<1>3. active'[s] = Free /\ \A z \in Sources : z # s => active'[z] = active[z]
  BY <1>0
<1>4. ExecutorTypeOK'
  BY <1>0, <1>1 DEF RInv, ExecutorTypeOK
<1>5. QueueIsQueued' /\ TasksHaveSources'
  BY <1>0 DEF RInv, QueueIsQueued, TasksHaveSources
<1>6. \A p \in Requests : request[p].pc \in Owning /\ p # q => request[p].source # s
  BY <1>0 DEF RInv, OwnersDiffer, Owning
<1>7. RequestsHaveSources'
  BY <1>0, <1>1, <1>2, <1>3, <1>6 DEF RInv, RequestsHaveSources, Owning, Submitted
<1>8. OwnersDiffer'
  BY <1>1, <1>2 DEF RInv, OwnersDiffer, Owning
<1>9. ReservedIsOwned'
  BY <1>2, <1>3, ExecutorAssumption DEF RInv, ReservedIsOwned
<1>10. LiveTaskIsRegistered'
  <2> SUFFICES ASSUME NEW t \in Tasks, task[t].pc \in Live
               PROVE  \/ active'[task[t].source] = t
                      \/ /\ active'[task[t].source] = Reserved
                         /\ \E p \in Requests : request'[p].task = t /\ request'[p].pc = "submitted"
    BY <1>0 DEF LiveTaskIsRegistered
  <2>1. task[t].source # s
    BY <1>0, ReservedHasNoTask DEF Owning
  <2>2. active'[task[t].source] = active[task[t].source]
    BY <1>3, <2>1 DEF RInv, TasksHaveSources
  <2>3. \A p \in Requests : request[p].pc = "submitted" => request'[p] = request[p]
    BY <1>0, <1>2
  <2> QED BY <2>2, <2>3 DEF RInv, LiveTaskIsRegistered
<1> QED BY <1>4, <1>5, <1>7, <1>8, <1>9, <1>10 DEF RInv

(* The second critical section: the reservation becomes the future of the  *)
(* only live task it can stand for.                                        *)
LEMMA StoreFutureRInv ==
  ASSUME RInv, TypeOK', NEW q \in Requests, StoreFuture(q)
  PROVE  RInv'
<1> DEFINE s == request[q].source
           t == request[q].task
           r == [request[q] EXCEPT !.pc = "stored"]
<1>0. /\ request[q] \in RequestState /\ request \in [Requests -> RequestState]
      /\ active \in [Sources -> Tasks \cup {Free, Reserved}]
      /\ request[q].pc = "submitted" /\ s \in Sources /\ active[s] = Reserved
      /\ t \in Tasks /\ task[t].pc # "unused" /\ task[t].source = s
      /\ UNCHANGED <<shutdown, accepting, queue, task, abandoned, crashes>>
      /\ active' = [active EXCEPT ![s] = t]
  BY DEF RInv, ExecutorTypeOK, StoreFuture, AtRequest, RequestsHaveSources, Owning, Submitted
<1>1. /\ request' = [request EXCEPT ![q] = r] /\ r \in RequestState /\ r.pc = "stored"
      /\ r.source = s
  BY AdvanceIs DEF StoreFuture, RequestPc
<1>2. r.task = t
  BY <1>0 DEF RequestState
<1> HIDE DEF r
<1>3. request'[q] = r /\ \A p \in Requests : p # q => request'[p] = request[p]
  BY <1>0, <1>1
<1>4. active'[s] = t /\ \A z \in Sources : z # s => active'[z] = active[z]
  BY <1>0
<1>5. ExecutorTypeOK'
  BY <1>0, <1>1 DEF RInv, ExecutorTypeOK
<1>6. QueueIsQueued' /\ TasksHaveSources'
  BY <1>0 DEF RInv, QueueIsQueued, TasksHaveSources
<1>7. \A p \in Requests : request[p].pc \in Owning /\ p # q => request[p].source # s
  BY <1>0 DEF RInv, OwnersDiffer, Owning
<1>8. RequestsHaveSources'
  BY <1>0, <1>1, <1>2, <1>3, <1>4, <1>7 DEF RInv, RequestsHaveSources, Owning, Submitted
<1>9. OwnersDiffer'
  BY <1>1, <1>3 DEF RInv, OwnersDiffer, Owning
<1>10. ReservedIsOwned'
  BY <1>0, <1>3, <1>4, ExecutorAssumption DEF RInv, ReservedIsOwned
<1>11. LiveTaskIsRegistered'
  <2> SUFFICES ASSUME NEW u \in Tasks, task[u].pc \in Live
               PROVE  \/ active'[task[u].source] = u
                      \/ /\ active'[task[u].source] = Reserved
                         /\ \E p \in Requests : request'[p].task = u /\ request'[p].pc = "submitted"
    BY <1>0 DEF LiveTaskIsRegistered
  <2>1. CASE task[u].source = s
    BY <1>0, <1>4, <2>1, ReservedHasNoTask DEF Owning
  <2>2. CASE task[u].source # s
    <3>1. active'[task[u].source] = active[task[u].source]
      BY <1>4, <2>2 DEF RInv, TasksHaveSources
    <3>2. \A p \in Requests : request[p].pc = "submitted" /\ request[p].task = u
                              => request'[p] = request[p]
      BY <1>0, <1>3, <2>2
    <3> QED BY <3>1, <3>2 DEF RInv, LiveTaskIsRegistered
  <2> QED BY <2>1, <2>2
<1> QED BY <1>5, <1>6, <1>8, <1>9, <1>10, <1>11 DEF RInv

(* A worker moves its own task, and to no pc but a live one or "done".     *)
LEMMA TaskMoves ==
  ASSUME RInv, TypeOK', NEW t \in Tasks, NEW x \in TaskState, task' = [task EXCEPT ![t] = x],
         UNCHANGED <<active, shutdown, accepting, request, crashes>>,
         abandoned' \subseteq RunIds,
         \/ UNCHANGED queue /\ task[t].pc # "queued"
         \/ queue # <<>> /\ t = Head(queue) /\ queue' = Tail(queue),
         task[t].pc # "unused", x.pc \notin {"unused", "queued"},
         x.source = task[t].source,
         x.pc \in Live => task[t].pc \in Live,
         x.pc \in Working => x.run \in RunIds
  PROVE  RInv'
<1>0. task \in [Tasks -> TaskState] /\ queue \in Seq(Tasks)
  BY DEF RInv, ExecutorTypeOK
<1>1. task'[t] = x /\ \A u \in Tasks : u # t => task'[u] = task[u]
  BY <1>0
<1>2. /\ queue' \in Seq(Tasks) /\ Len(queue') \in Nat
      /\ \A i \in 1 .. Len(queue') : queue'[i] \in Tasks /\ queue'[i] # t
                                     /\ task[queue'[i]].pc = "queued"
      /\ \A i, j \in 1 .. Len(queue') : queue'[i] = queue'[j] => i = j
  <2>1. CASE UNCHANGED queue /\ task[t].pc # "queued"
    BY <1>0, <2>1 DEF RInv, QueueIsQueued
  <2>2. CASE queue # <<>> /\ t = Head(queue) /\ queue' = Tail(queue)
    <3>1. /\ Len(queue) \in Nat /\ Len(queue) > 0 /\ Len(queue') = Len(queue) - 1
          /\ queue' \in Seq(Tasks) /\ t = queue[1]
          /\ \A i \in 1 .. Len(queue') : queue'[i] = queue[i + 1] /\ i + 1 \in 1 .. Len(queue)
      BY <1>0, <2>2
    <3>2. \A i \in 1 .. Len(queue') : queue[i + 1] \in Tasks /\ queue[i + 1] # queue[1]
                                      /\ task[queue[i + 1]].pc = "queued"
      BY <1>0, <3>1 DEF RInv, QueueIsQueued
    <3>3. \A i, j \in 1 .. Len(queue') : queue[i + 1] = queue[j + 1] => i = j
      BY <3>1 DEF RInv, QueueIsQueued
    <3> QED BY <3>1, <3>2, <3>3
  <2> QED BY <2>1, <2>2
<1>3. ExecutorTypeOK'
  BY <1>0, <1>2 DEF RInv, ExecutorTypeOK
<1>4. QueueIsQueued'
  BY <1>1, <1>2 DEF QueueIsQueued
<1>5. TasksHaveSources'
  BY <1>1 DEF RInv, TasksHaveSources
<1>6. RequestsHaveSources'
  BY <1>1 DEF RInv, RequestsHaveSources
<1>7. OwnersDiffer' /\ ReservedIsOwned'
  BY DEF RInv, OwnersDiffer, ReservedIsOwned
<1>8. LiveTaskIsRegistered'
  BY <1>1 DEF RInv, LiveTaskIsRegistered
<1> QED BY <1>3, <1>4, <1>5, <1>6, <1>7, <1>8 DEF RInv

(* What TaskAt does.                                                       *)
LEMMA TaskAtIs ==
  ASSUME RInv, NEW t \in Tasks, NEW pc \in TaskPc, TaskAt(t, pc)
  PROVE  /\ task' = [task EXCEPT ![t] = [task[t] EXCEPT !.pc = pc]]
         /\ [task[t] EXCEPT !.pc = pc] \in TaskState
         /\ [task[t] EXCEPT !.pc = pc].pc = pc
         /\ [task[t] EXCEPT !.pc = pc].source = task[t].source
         /\ [task[t] EXCEPT !.pc = pc].run = task[t].run
<1>1. task[t] \in TaskState
  BY DEF RInv, ExecutorTypeOK
<1>2. task' = [task EXCEPT ![t] = [task[t] EXCEPT !.pc = pc]]
  BY Zenon DEF TaskAt
<1> QED BY <1>1, <1>2 DEF TaskState

LEMMA TaskAtMoves ==
  ASSUME RInv, NEW t \in Tasks, NEW pc \in TaskPc, TaskAt(t, pc)
  PROVE  /\ task'[t].pc = pc /\ task'[t].source = task[t].source /\ task'[t].run = task[t].run
         /\ \A u \in Tasks : u # t => task'[u] = task[u]
<1> DEFINE x == [task[t] EXCEPT !.pc = pc]
<1>1. /\ task' = [task EXCEPT ![t] = x] /\ x.pc = pc
      /\ x.source = task[t].source /\ x.run = task[t].run
  BY TaskAtIs
<1>2. task \in [Tasks -> TaskState]
  BY DEF RInv, ExecutorTypeOK
<1> HIDE DEF x
<1> QED BY <1>1, <1>2

(* A worker that only advances its pc.                                     *)
LEMMA TaskAtRInv ==
  ASSUME RInv, TypeOK', NEW t \in Tasks, NEW pc \in TaskPc \ {"unused", "queued"}, TaskAt(t, pc),
         UNCHANGED <<active, shutdown, accepting, request, crashes>>,
         abandoned' \subseteq RunIds,
         \/ UNCHANGED queue /\ task[t].pc # "queued"
         \/ queue # <<>> /\ t = Head(queue) /\ queue' = Tail(queue),
         task[t].pc \in Live,
         pc \in Working => task[t].pc \in Working
  PROVE  RInv'
<1> DEFINE x == [task[t] EXCEPT !.pc = pc]
<1>1. /\ task' = [task EXCEPT ![t] = x] /\ x \in TaskState /\ x.pc = pc
      /\ x.source = task[t].source /\ x.run = task[t].run
  BY TaskAtIs
<1>2. task[t].pc # "unused"
  BY DEF Live
<1>3. x.pc \in Working => x.run \in RunIds
  BY <1>1 DEF RInv, TasksHaveSources
<1> HIDE DEF x
<1> QED BY <1>1, <1>2, <1>3, TaskMoves

(* Every step of a worker before its callback.                             *)
LEMMA TaskStepRInv ==
  ASSUME RInv, TypeOK', NEW t \in Tasks, TaskStep(t), ~RunCallback(t)
  PROVE  RInv'
<1> USE DEF AtTask
<1>0. /\ task[t] \in TaskState /\ task \in [Tasks -> TaskState]
      /\ abandoned \subseteq RunIds /\ queue \in Seq(Tasks)
  BY DEF RInv, ExecutorTypeOK
<1>1. CASE TakeTask(t)
  <2>1. task[t].pc = "queued"
    BY <1>0, <1>1 DEF TakeTask, RInv, QueueIsQueued
  <2> QED BY <1>0, <1>1, <2>1, TaskAtRInv DEF TakeTask, TaskPc, Live, Working
<1>2. CASE LoadSource(t) \/ StartRefused(t)
  <2>1. PICK pc \in {"validated", "returned"} : TaskAt(t, pc)
    BY <1>2 DEF LoadSource, StartRefused
  <2>2. task[t].pc \in {"taken", "validated"}
    BY <1>2 DEF LoadSource, StartRefused
  <2> QED BY <1>0, <1>2, <2>1, <2>2, TaskAtRInv
          DEF LoadSource, StartRefused, TaskPc, Live, Working
<1>3. CASE StartTaskRun(t)
  <2> DEFINE x == [task[t] EXCEPT !.pc = "running", !.run = lastPk + 1]
  <2>1. task' = [task EXCEPT ![t] = x]
    BY <1>3, Zenon DEF StartTaskRun
  <2>2. lastPk + 1 \in RunIds /\ lastPk + 1 \in 0 .. MaxRuns
    BY <1>3, MaxRunsAssumption DEF StartTaskRun, StartRun, RInv, ExecutorTypeOK, TypeOK, RunIds
  <2>3. /\ x \in TaskState /\ x.pc = "running" /\ x.run = lastPk + 1
        /\ x.source = task[t].source
    BY <1>0, <2>2 DEF TaskState, TaskPc
  <2>4. task[t].pc = "validated"
    BY <1>3 DEF StartTaskRun
  <2> HIDE DEF x
  <2>5. /\ UNCHANGED <<active, shutdown, accepting, request, crashes, queue>>
        /\ abandoned' \subseteq RunIds
    BY <1>0, <1>3 DEF StartTaskRun
  <2>6. /\ task[t].pc \in Live /\ task[t].pc \notin {"queued", "unused"}
        /\ x.pc \notin {"unused", "queued"}
    BY <2>3, <2>4 DEF Live, TaskPc
  <2> QED BY <2>1, <2>2, <2>3, <2>5, <2>6, TaskMoves
<1>4. CASE Fetch(t)
  <2>1. PICK pc \in FetchOutcome : TaskAt(t, pc)
    BY <1>4 DEF Fetch
  <2> QED BY <1>0, <1>4, <2>1, TaskAtRInv DEF Fetch, FetchOutcome, TaskPc, Live, Working
<1>5. CASE CommitBatch(t) \/ FinishFailedRun(t) \/ AbandonRun(t)
  <2>1. TaskAt(t, "returned") /\ task[t].pc \in {"fetched", "failing"}
    BY <1>5 DEF CommitBatch, FinishFailedRun, AbandonRun
  <2>2. abandoned' \subseteq RunIds
    BY <1>0, <1>5, <2>1
       DEF CommitBatch, FinishFailedRun, AbandonRun, RInv, TasksHaveSources, Working
  <2> QED BY <1>0, <1>5, <2>1, <2>2, TaskAtRInv
          DEF CommitBatch, FinishFailedRun, AbandonRun, TaskPc, Live, Working
<1>6. CASE RollBackBatch(t) \/ CompleteFuture(t)
  <2>1. PICK pc \in {"failing", "done"} :
          TaskAt(t, pc) /\ (pc = "failing" => task[t].pc = "fetched")
    BY <1>6 DEF RollBackBatch, CompleteFuture
  <2>2. task[t].pc \in {"fetched", "returned"}
    BY <1>6 DEF RollBackBatch, CompleteFuture
  <2> QED BY <1>0, <1>6, <2>1, <2>2, TaskAtRInv
          DEF RollBackBatch, CompleteFuture, TaskPc, Live, Working
<1>7. CASE RetryFailedRun(t)
  <2> DEFINE x == [task[t] EXCEPT !.tries = task[t].tries + 1]
  <2>1. task' = [task EXCEPT ![t] = x]
    BY <1>7, Zenon DEF RetryFailedRun
  <2>2. task[t].tries + 1 \in 0 .. Attempts - 1
    BY <1>0, <1>7, ExecutorAssumption DEF RetryFailedRun, MayRetry, TaskState
  <2>3. /\ x \in TaskState /\ x.pc = "failing" /\ x.run = task[t].run
        /\ x.source = task[t].source /\ task[t].pc = "failing"
    BY <1>0, <1>7, <2>2 DEF RetryFailedRun, TaskState
  <2>4. task[t].run \in RunIds
    BY <2>3 DEF RInv, TasksHaveSources, Working
  <2> HIDE DEF x
  <2> QED BY <1>0, <1>7, <2>1, <2>3, <2>4, TaskMoves DEF RetryFailedRun, Live, TaskPc
<1> QED BY <1>1, <1>2, <1>3, <1>4, <1>5, <1>6, <1>7 DEF TaskStep

(* _release_source only ever frees the entry of the future it was given.   *)
LEMMA ReleasedIs ==
  ASSUME RInv, NEW s, NEW t \in Tasks
  PROVE  /\ Released(s, t) \in [Sources -> Tasks \cup {Free, Reserved}]
         /\ \A z \in Sources : \/ Released(s, t)[z] = active[z]
                               \/ Released(s, t)[z] = Free /\ active[z] = t
BY ExecutorAssumption DEF RInv, ExecutorTypeOK, Released

(* The entry of a task that is over goes away, whoever's request this is.  *)
LEMMA ReleaseKeeps ==
  ASSUME RInv, NEW s, NEW t \in Tasks, task[t].pc = "done", active' = Released(s, t)
  PROVE  /\ active' \in [Sources -> Tasks \cup {Free, Reserved}]
         /\ \A z \in Sources : active[z] = Reserved <=> active'[z] = Reserved
         /\ \A u \in Tasks, z \in Sources : task[u].pc \in Live /\ active[z] = u => active'[z] = u
<1>1. \A u \in Tasks : task[u].pc \in Live => u # t
  BY DEF Live
<1> QED BY <1>1, ReleasedIs, ExecutorAssumption

(* The callback of a future, on the thread that completed it.              *)
LEMMA RunCallbackRInv ==
  ASSUME RInv, TypeOK', NEW t \in Tasks, RunCallback(t)
  PROVE  RInv'
<1> DEFINE x == [task[t] EXCEPT !.callback = FALSE]
<1>0. /\ task[t] \in TaskState /\ task \in [Tasks -> TaskState] /\ task[t].pc = "done"
      /\ active' = Released(task[t].source, t)
      /\ UNCHANGED <<shutdown, accepting, queue, request, abandoned, crashes>>
  BY DEF RInv, ExecutorTypeOK, RunCallback, AtTask
<1>1. task' = [task EXCEPT ![t] = x]
  BY Zenon DEF RunCallback
<1>2. x \in TaskState /\ x.pc = "done" /\ x.source = task[t].source
  BY <1>0 DEF TaskState
<1> HIDE DEF x
<1>3. task'[t] = x /\ \A u \in Tasks : u # t => task'[u] = task[u]
  BY <1>0, <1>1
<1>4. /\ active' \in [Sources -> Tasks \cup {Free, Reserved}]
      /\ \A z \in Sources : active[z] = Reserved <=> active'[z] = Reserved
      /\ \A u \in Tasks, z \in Sources : task[u].pc \in Live /\ active[z] = u => active'[z] = u
  BY <1>0, ReleaseKeeps
<1>5. \A u \in Tasks : task'[u].pc = task[u].pc /\ task'[u].source = task[u].source
                       /\ (task[u].pc # "done" => task'[u] = task[u])
  BY <1>0, <1>2, <1>3
<1>6. ExecutorTypeOK'
  BY <1>0, <1>1, <1>2, <1>4 DEF RInv, ExecutorTypeOK
<1>7. QueueIsQueued'
  BY <1>0, <1>5 DEF RInv, QueueIsQueued, ExecutorTypeOK
<1>8. TasksHaveSources'
  BY <1>5 DEF RInv, TasksHaveSources, Live, Working
<1>9. RequestsHaveSources'
  BY <1>0, <1>4, <1>5 DEF RInv, RequestsHaveSources, Owning
<1>10. OwnersDiffer' /\ ReservedIsOwned'
  BY <1>0, <1>4 DEF RInv, OwnersDiffer, ReservedIsOwned
<1>11. LiveTaskIsRegistered'
  BY <1>0, <1>4, <1>5 DEF RInv, LiveTaskIsRegistered, TasksHaveSources
<1> QED BY <1>6, <1>7, <1>8, <1>9, <1>10, <1>11 DEF RInv

(* add_done_callback: the future is done already, or remembers its         *)
(* callback.                                                               *)
LEMMA AddCallbackRInv ==
  ASSUME RInv, TypeOK', NEW q \in Requests, AddCallback(q)
  PROVE  RInv'
<1> DEFINE s == request[q].source
           t == request[q].task
           r == Rest(q)
<1>0. /\ request[q] \in RequestState /\ request \in [Requests -> RequestState]
      /\ request[q].pc = "stored" /\ s \in Sources /\ t \in Tasks
      /\ task \in [Tasks -> TaskState] /\ task[t].pc # "unused"
      /\ UNCHANGED <<shutdown, accepting, queue, abandoned, crashes>>
  BY DEF RInv, ExecutorTypeOK, AddCallback, AtRequest, RequestsHaveSources, Submitted
<1>1. /\ request' = [request EXCEPT ![q] = r] /\ r \in RequestState
      /\ r.pc \in {"idle", "next"}
  BY RestIs DEF AddCallback
<1> HIDE DEF r
<1>2. request'[q] = r /\ \A p \in Requests : p # q => request'[p] = request[p]
  BY <1>0, <1>1
<1>3. \A p \in Requests : /\ request'[p].pc \in Owning <=> request[p].pc \in Owning
                          /\ request[p].pc \in Owning => request'[p] = request[p]
                          /\ p = q \/ request'[p] = request[p]
  BY <1>0, <1>1, <1>2 DEF Owning
<1>4. /\ task' \in [Tasks -> TaskState]
      /\ \A u \in Tasks : /\ task'[u].pc = task[u].pc /\ task'[u].source = task[u].source
                          /\ task'[u].run = task[u].run
  <2>1. CASE UNCHANGED task
    BY <1>0, <2>1
  <2>2. CASE task' = [task EXCEPT ![t].callback = TRUE]
    <3> DEFINE x == [task[t] EXCEPT !.callback = TRUE]
    <3>1. task' = [task EXCEPT ![t] = x]
      BY <2>2, Zenon
    <3>2. /\ x \in TaskState /\ x.pc = task[t].pc /\ x.source = task[t].source
          /\ x.run = task[t].run
      BY <1>0 DEF TaskState
    <3> HIDE DEF x
    <3> QED BY <1>0, <3>1, <3>2
  <2> QED BY <2>1, <2>2 DEF AddCallback
<1>5. /\ active' \in [Sources -> Tasks \cup {Free, Reserved}]
      /\ \A z \in Sources : active[z] = Reserved <=> active'[z] = Reserved
      /\ \A u \in Tasks, z \in Sources : task[u].pc \in Live /\ active[z] = u => active'[z] = u
  <2>1. CASE UNCHANGED active
    BY <2>1 DEF RInv, ExecutorTypeOK
  <2>2. CASE task[t].pc = "done" /\ active' = Released(s, t)
    BY <1>0, <2>2, ReleaseKeeps
  <2> QED BY <2>1, <2>2 DEF AddCallback
<1>6. ExecutorTypeOK'
  BY <1>0, <1>1, <1>4, <1>5 DEF RInv, ExecutorTypeOK
<1>7. QueueIsQueued'
  BY <1>0, <1>4 DEF RInv, QueueIsQueued, ExecutorTypeOK
<1>8. TasksHaveSources'
  BY <1>4 DEF RInv, TasksHaveSources
<1>9. RequestsHaveSources'
  BY <1>1, <1>2, <1>3, <1>4, <1>5 DEF RInv, RequestsHaveSources, Owning, Submitted
<1>10. OwnersDiffer'
  BY <1>3 DEF RInv, OwnersDiffer
<1>11. ReservedIsOwned'
  BY <1>3, <1>5 DEF RInv, ReservedIsOwned
<1>12. LiveTaskIsRegistered'
  <2>1. \A p \in Requests : request[p].pc = "submitted" => request'[p] = request[p]
    BY <1>3 DEF Owning
  <2> QED BY <1>4, <1>5, <2>1 DEF RInv, LiveTaskIsRegistered, TasksHaveSources
<1> QED BY <1>6, <1>7, <1>8, <1>9, <1>10, <1>11, <1>12 DEF RInv

(* Switches of the executor, and the loss of its memory.                   *)
LEMMA OtherStepsRInv ==
  ASSUME RInv, TypeOK', Shutdown \/ ClosePool \/ Crash \/ UNCHANGED executorVars
  PROVE  RInv'
<1>1. CASE UNCHANGED <<active, queue, task, request, abandoned, crashes>>
           /\ shutdown' \in BOOLEAN /\ accepting' \in BOOLEAN
  BY <1>1 DEF RInv, ExecutorTypeOK, QueueIsQueued, TasksHaveSources, RequestsHaveSources,
              OwnersDiffer, ReservedIsOwned, LiveTaskIsRegistered
<1>2. CASE Crash
  <2>1. /\ 0 \in 0 .. MaxRuns /\ 0 \in 0 .. Attempts - 1
        /\ crashes' \in 0 .. MaxCrashes
    BY <1>2, ExecutorAssumption, MaxRunsAssumption DEF Crash, RInv, ExecutorTypeOK
  <2>2. Unused \in TaskState /\ [Unused EXCEPT !.pc = "done"] \in TaskState
        /\ Unused.pc = "unused" /\ [Unused EXCEPT !.pc = "done"].pc = "done"
    BY <2>1 DEF Unused, TaskState, TaskPc
  <2>3. Idle \in RequestState /\ Idle.pc = "idle"
    BY DEF Idle, RequestState, RequestPc
  <2>4. \A t \in Tasks : task'[t] \in TaskState /\ task'[t].pc \in {"unused", "done"}
    BY <1>2, <2>2 DEF Crash
  <2>5. ExecutorTypeOK'
    <3>1. task' \in [Tasks -> TaskState] /\ request' \in [Requests -> RequestState]
      BY <1>2, <2>2, <2>3 DEF Crash
    <3>2. /\ active' \in [Sources -> Tasks \cup {Free, Reserved}]
          /\ shutdown' \in BOOLEAN /\ accepting' \in BOOLEAN
      BY <1>2 DEF Crash
    <3>4. queue' \in Seq(Tasks)
      BY <1>2, EmptySeq DEF Crash
    <3>3. abandoned' \subseteq RunIds
      BY <1>2 DEF Crash, RInv, ExecutorTypeOK
    <3> QED BY <2>1, <3>1, <3>2, <3>3, <3>4 DEF ExecutorTypeOK
  <2>6. QueueIsQueued'
    BY <1>2 DEF Crash, QueueIsQueued
  <2>7. TasksHaveSources' /\ LiveTaskIsRegistered'
    BY <2>4 DEF TasksHaveSources, LiveTaskIsRegistered, Live, Working
  <2>8. \A q \in Requests : request'[q] = Idle
    BY <1>2 DEF Crash
  <2>9. RequestsHaveSources' /\ OwnersDiffer'
    BY <2>3, <2>8 DEF RequestsHaveSources, OwnersDiffer, Owning, Submitted
  <2>10. ReservedIsOwned'
    BY <1>2, ExecutorAssumption DEF Crash, ReservedIsOwned
  <2> QED BY <2>5, <2>6, <2>7, <2>9, <2>10 DEF RInv
<1>3. shutdown \in BOOLEAN /\ accepting \in BOOLEAN
  BY DEF RInv, ExecutorTypeOK
<1> QED BY <1>1, <1>2, <1>3 DEF Shutdown, ClosePool, executorVars

-----------------------------------------------------------------------------
(* Every step of the executor is a step of the run services or leaves      *)
(* their rows alone, so LInv carries over.                                 *)
LEMMA StepsAreLifecycle ==
  ASSUME RInv, [Next]_vars
  PROVE  [LifecycleNext]_lifecycleVars
<1>1. ASSUME NEW t \in Tasks, TaskStep(t)
      PROVE  [LifecycleNext]_lifecycleVars
  <2>1. CASE StartTaskRun(t)
    <3>1. task[t].source \in Sources
      BY <2>1 DEF StartTaskRun, AtTask, RInv, TasksHaveSources, Live, TaskPc
    <3> QED BY <2>1, <3>1 DEF StartTaskRun, LifecycleNext
  <2>2. CASE CommitBatch(t) \/ FinishFailedRun(t)
    <3>1. task[t].run \in RunIds
      BY <2>2 DEF CommitBatch, FinishFailedRun, AtTask, RInv, TasksHaveSources, Working
    <3>2. PICK status \in Terminal : FinishRun(task[t].run, status)
      BY <2>2 DEF CommitBatch, FinishFailedRun, Terminal
    <3> QED BY <3>1, <3>2 DEF LifecycleNext
  <2> QED
    BY <1>1, <2>1, <2>2 DEF TaskStep, TakeTask, LoadSource, StartRefused, Fetch, RollBackBatch,
       RetryFailedRun, AbandonRun, CompleteFuture, RunCallback
<1>2. ASSUME NEW q \in Requests,
             RequestStep(q) \/ \E c \in Companies : ReceiveRequest(q, c)
      PROVE  UNCHANGED lifecycleVars
  BY <1>2 DEF RequestStep, ReceiveRequest, ValidateSource, CheckRunning, Reserve, PoolSubmit,
     PoolRefuses, StoreFuture, AddCallback
<1>3. CASE Shutdown \/ ClosePool \/ Crash
  BY <1>3 DEF Shutdown, ClosePool, Crash
<1>4. CASE Administer
  BY <1>4 DEF LifecycleNext
<1>5. CASE UNCHANGED vars
  BY <1>5 DEF vars
<1> QED BY <1>1, <1>2, <1>3, <1>4, <1>5 DEF Next

EInv == LInv /\ RInv

LEMMA NextEInv == EInv /\ [Next]_vars => EInv'
<1> SUFFICES ASSUME EInv, [Next]_vars PROVE EInv'
  OBVIOUS
<1> USE DEF EInv
<1>1. LInv' /\ TypeOK'
  <2>1. LInv'
    BY StepsAreLifecycle, NextLInv
  <2> QED BY <2>1 DEF LInv, RunsInv
<1>2. ASSUME NEW q \in Requests, RequestStep(q) \/ \E c \in Companies : ReceiveRequest(q, c)
      PROVE  RInv'
  BY <1>1, <1>2, EarlyRequestRInv, ReserveRInv, PoolSubmitRInv, PoolRefusesRInv,
     StoreFutureRInv, AddCallbackRInv DEF RequestStep
<1>3. ASSUME NEW t \in Tasks, TaskStep(t)
      PROVE  RInv'
  BY <1>1, <1>3, TaskStepRInv, RunCallbackRInv
<1>4. CASE Shutdown \/ ClosePool \/ Crash \/ UNCHANGED executorVars
  BY <1>1, <1>4, OtherStepsRInv
<1> QED BY <1>1, <1>2, <1>3, <1>4 DEF Next, vars

LEMMA InitEInv == Init => EInv
<1> SUFFICES ASSUME Init PROVE EInv
  OBVIOUS
<1> USE DEF Init
<1>1. TypeOK
  BY MaxRunsAssumption DEF TypeOK, CompanyRow, SourceRow, RunRow, NoRun, Presence, Terminal
<1>2. FreshPk /\ OneRunningPerSource /\ RunningIsOwned
  BY DEF FreshPk, OneRunningPerSource, RunningIsOwned, Running, NoRun
<1>3. CachedRunningIsReal
  BY DEF CachedRunningIsReal
<1>4. Unused \in TaskState /\ Unused.pc = "unused"
  <2>1. 0 \in 0 .. MaxRuns /\ 0 \in 0 .. Attempts - 1
    BY ExecutorAssumption, MaxRunsAssumption
  <2> QED BY <2>1 DEF Unused, TaskState, TaskPc
<1>5. Idle \in RequestState /\ Idle.pc = "idle"
  BY DEF Idle, RequestState, RequestPc
<1>6. ExecutorTypeOK
  <2>1. task \in [Tasks -> TaskState] /\ request \in [Requests -> RequestState]
    BY <1>4, <1>5 DEF ExecutorInit
  <2>2. /\ active \in [Sources -> Tasks \cup {Free, Reserved}]
        /\ shutdown \in BOOLEAN /\ accepting \in BOOLEAN /\ abandoned \subseteq RunIds
    BY DEF ExecutorInit
  <2>3. crashes \in 0 .. MaxCrashes
    BY ExecutorAssumption DEF ExecutorInit
  <2>4. queue \in Seq(Tasks)
    BY EmptySeq DEF ExecutorInit
  <2> QED BY <1>1, <2>1, <2>2, <2>3, <2>4 DEF ExecutorTypeOK
<1>7. QueueIsQueued /\ ReservedIsOwned
  BY ExecutorAssumption DEF ExecutorInit, QueueIsQueued, ReservedIsOwned
<1>8. TasksHaveSources /\ LiveTaskIsRegistered
  BY <1>4 DEF ExecutorInit, TasksHaveSources, LiveTaskIsRegistered, Live, Working
<1>9. RequestsHaveSources /\ OwnersDiffer
  BY <1>5 DEF ExecutorInit, RequestsHaveSources, OwnersDiffer, Owning, Submitted
<1> QED BY <1>1, <1>2, <1>3, <1>6, <1>7, <1>8, <1>9 DEF EInv, LInv, RunsInv, RInv

-----------------------------------------------------------------------------
(* RunningHasTask: the worker of a run that goes on goes on with it.       *)
LEMMA WorkersStay ==
  ASSUME RunningHasTask,
         \A r \in RunIds : Running(r)' /\ r \notin abandoned' =>
           /\ Running(r) /\ r \notin abandoned /\ run'[r].source = run[r].source
           /\ \A t \in Tasks : task[t].pc \in Working /\ task[t].run = r =>
                /\ task'[t].pc \in Working /\ task'[t].run = r
                /\ task'[t].source = task[t].source
  PROVE  RunningHasTask'
BY DEF RunningHasTask, Working

(* Deletions and switches leave a RUNNING row as it is.                    *)
LEMMA AdministerKeepsRunning ==
  ASSUME LInv, Administer, NEW r \in RunIds, Running(r)'
  PROVE  Running(r) /\ run'[r].source = run[r].source
<1>1. CASE \E s \in Sources : DeleteSource(s)
  <2>1. PICK s \in Sources : DeleteSource(s)
    BY <1>1
  <2>2. run[r] \in RunRow
    BY DEF LInv, RunsInv, TypeOK
  <2>3. run'[r].status = run[r].status
    BY <2>1, <2>2 DEF DeleteSource, RunRow
  <2>4. run[r].source # s
    BY <2>1, <2>3 DEF DeleteSource, MayDeleteSource, HasRunning, Running
  <2> QED BY <2>1, <2>3, <2>4 DEF DeleteSource, Running
<1>2. CASE \E c \in Companies : DeleteCompany(c)
  BY <1>2 DEF DeleteCompany, RunsWithout, Running, NoRun
<1>3. CASE UNCHANGED run
  BY <1>3 DEF Running
<1> QED BY <1>1, <1>2, <1>3
        DEF Administer, CreateCompany, CreateSource, SaveSourceActive, SaveCompanyActive

LEMMA NextRunningHasTask ==
  ASSUME EInv, EInv', RunningHasTask, [Next]_vars
  PROVE  RunningHasTask'
<1> USE DEF EInv
<1>0. task \in [Tasks -> TaskState]
  BY DEF RInv, ExecutorTypeOK
<1>1. ASSUME NEW t \in Tasks, TaskStep(t)
      PROVE  RunningHasTask'
  <2> USE DEF AtTask
  <2>1. CASE StartTaskRun(t)
    <3> DEFINE new == lastPk + 1
               s == task[t].source
               x == [task[t] EXCEPT !.pc = "running", !.run = new]
    <3>1. /\ new \in RunIds /\ s \in Sources /\ task[t] \in TaskState
          /\ task[t].pc = "validated" /\ StartRun(s) /\ abandoned' = abandoned
      BY <1>0, <2>1, MaxRunsAssumption DEF StartTaskRun, StartRun, LInv, RunsInv, TypeOK, RunIds, RInv,
         TasksHaveSources, Live, TaskPc
    <3>2. task' = [task EXCEPT ![t] = x]
      BY <2>1, Zenon DEF StartTaskRun
    <3>3. x.pc = "running" /\ x.run = new /\ x.source = s
      BY <3>1 DEF TaskState
    <3>4. run'[new].source = s /\ \A r \in RunIds : r # new => run'[r] = run[r]
      BY <3>1 DEF StartRun, LInv, RunsInv, TypeOK
    <3> HIDE DEF x, new, s
    <3>5. task'[t] = x /\ \A u \in Tasks : u # t => task'[u] = task[u]
      BY <1>0, <3>2
    <3> SUFFICES ASSUME NEW r \in RunIds, Running(r)', r \notin abandoned'
                 PROVE  \E u \in Tasks : /\ task'[u].pc \in Working /\ task'[u].run = r
                                         /\ task'[u].source = run'[r].source
      BY DEF RunningHasTask, Working
    <3>6. CASE r = new
      BY <3>3, <3>4, <3>5, <3>6 DEF Working
    <3>7. CASE r # new
      <4>1. PICK u \in Tasks : /\ task[u].pc \in Working /\ task[u].run = r
                               /\ task[u].source = run[r].source
        BY <3>1, <3>4, <3>7 DEF RunningHasTask, Running, Working
      <4>2. u # t
        BY <3>1, <4>1 DEF Working
      <4> QED BY <3>4, <3>5, <3>7, <4>1, <4>2
    <3> QED BY <3>6, <3>7
  <2>2. CASE CommitBatch(t) \/ FinishFailedRun(t)
    <3>1. PICK status \in Terminal : FinishRun(task[t].run, status)
      BY <2>2 DEF CommitBatch, FinishFailedRun, Terminal
    <3>2. task[t].run \in RunIds /\ abandoned' = abandoned
      BY <2>2 DEF CommitBatch, FinishFailedRun, RInv, TasksHaveSources, Working
    <3>3. /\ run'[task[t].run].status # "running"
          /\ \A r \in RunIds : r # task[t].run => run'[r] = run[r]
      <4>1. run[task[t].run] \in [status : {"running"} \cup Terminal,
                                 source : Sources \cup {NoSource}, company : Companies]
        BY <3>1, <3>2 DEF FinishRun, MayFinish, Running, LInv, RunsInv, TypeOK, RunRow, NoRun
      <4>2. [run[task[t].run] EXCEPT !.status = status].status = status
        BY <4>1
      <4>3. run' = [run EXCEPT ![task[t].run] = [run[task[t].run] EXCEPT !.status = status]]
        BY <3>1, Zenon DEF FinishRun
      <4>4. run \in [RunIds -> RunRow]
        BY DEF LInv, RunsInv, TypeOK
      <4> QED BY <3>2, <4>2, <4>3, <4>4 DEF Terminal
    <3>4. \A u \in Tasks : u # t => task'[u] = task[u]
      BY <1>0, <2>2 DEF CommitBatch, FinishFailedRun, TaskAt
    <3>5. \A r \in RunIds : Running(r)' => Running(r) /\ run'[r] = run[r] /\ r # task[t].run
      BY <3>3 DEF Running
    <3> QED BY <3>2, <3>4, <3>5, WorkersStay
  <2>3. CASE AbandonRun(t)
    <3>1. \A u \in Tasks : u # t => task'[u] = task[u]
      BY <1>0, <2>3 DEF AbandonRun, TaskAt
    <3>2. run' = run /\ abandoned' = abandoned \cup {task[t].run}
      BY <2>3 DEF AbandonRun, lifecycleVars
    <3> QED BY <3>1, <3>2, WorkersStay DEF Running
  <2>4. CASE TakeTask(t) \/ LoadSource(t) \/ StartRefused(t) \/ CompleteFuture(t)
             \/ RunCallback(t)
    <3>1. task[t].pc \notin Working
      <4>1. CASE TakeTask(t)
        BY <4>1 DEF TakeTask, RInv, QueueIsQueued, ExecutorTypeOK, Working
      <4> QED BY <2>4, <4>1 DEF LoadSource, StartRefused, CompleteFuture, RunCallback, Working
    <3>2. \A u \in Tasks : u # t => task'[u] = task[u]
      BY <1>0, <2>4
         DEF TakeTask, LoadSource, StartRefused, CompleteFuture, RunCallback, TaskAt
    <3>3. run' = run /\ abandoned' = abandoned
      BY <2>4 DEF TakeTask, LoadSource, StartRefused, CompleteFuture, RunCallback, lifecycleVars
    <3> QED BY <3>1, <3>2, <3>3, WorkersStay DEF Running
  <2>5. CASE Fetch(t) \/ RollBackBatch(t) \/ RetryFailedRun(t)
    <3>1. /\ \A u \in Tasks : u # t => task'[u] = task[u]
          /\ task'[t].pc \in Working /\ task'[t].run = task[t].run
          /\ task'[t].source = task[t].source
      <4>1. task[t] \in TaskState
        BY <1>0
      <4>2. CASE RetryFailedRun(t)
        BY <1>0, <4>1, <4>2 DEF RetryFailedRun, Working, TaskState
      <4>3. CASE Fetch(t) \/ RollBackBatch(t)
        <5>1. PICK pc \in {"fetched", "failing"} : TaskAt(t, pc)
          BY <4>3 DEF Fetch, FetchOutcome, RollBackBatch
        <5>2. pc \in TaskPc
          BY DEF TaskPc
        <5> QED BY <5>1, <5>2, TaskAtMoves DEF Working
      <4> QED BY <2>5, <4>2, <4>3
    <3>2. run' = run /\ abandoned' = abandoned
      BY <2>5 DEF Fetch, RollBackBatch, RetryFailedRun, lifecycleVars
    <3> QED BY <3>1, <3>2, WorkersStay DEF Running
  <2> QED BY <1>1, <2>1, <2>2, <2>3, <2>4, <2>5 DEF TaskStep
<1>2. ASSUME NEW q \in Requests, RequestStep(q) \/ \E c \in Companies : ReceiveRequest(q, c)
      PROVE  RunningHasTask'
  <2>1. run' = run /\ abandoned' = abandoned
    BY <1>2 DEF RequestStep, ReceiveRequest, ValidateSource, CheckRunning, Reserve, PoolSubmit,
       PoolRefuses, StoreFuture, AddCallback, lifecycleVars
  <2>2. \A t \in Tasks : task[t].pc \in Working =>
          /\ task'[t].pc \in Working /\ task'[t].run = task[t].run
          /\ task'[t].source = task[t].source
    <3>1. CASE UNCHANGED task
      BY <3>1
    <3>2. CASE \E t \in Tasks : PoolSubmit(q, t)
      BY <1>0, <3>2 DEF PoolSubmit, Working
    <3>3. CASE AddCallback(q) /\ task' = [task EXCEPT ![request[q].task].callback = TRUE]
      BY <1>0, <3>3 DEF TaskState
    <3> QED BY <1>2, <3>1, <3>2, <3>3 DEF RequestStep, ReceiveRequest, ValidateSource,
       CheckRunning, Reserve, PoolRefuses, StoreFuture, AddCallback
  <2> QED BY <2>1, <2>2, WorkersStay DEF Running
<1>3. CASE Crash
  BY <1>3 DEF Crash, RunningHasTask, Running, lifecycleVars
<1>4. CASE Administer /\ UNCHANGED executorVars
  BY <1>4, AdministerKeepsRunning, WorkersStay DEF executorVars
<1>5. CASE Shutdown \/ ClosePool \/ UNCHANGED vars
  BY <1>5, WorkersStay DEF Shutdown, ClosePool, vars, lifecycleVars, executorVars, Running
<1> QED BY <1>1, <1>2, <1>3, <1>4, <1>5 DEF Next

-----------------------------------------------------------------------------
(* The executor implements SingleFlight: Holder and Ended are what Flight  *)
(* puts for its variables.                                                 *)
Holder == [s \in Sources |->
             IF \E t \in Tasks : task[t].source = s /\ task[t].pc \in Live
             THEN CHOOSE t \in Tasks : task[t].source = s /\ task[t].pc \in Live
             ELSE NoTask]
Ended == {t \in Tasks : task[t].pc = "done"}

HolderIsRight ==
  \A s \in Sources :
    /\ \A t \in Tasks : task[t].source = s /\ task[t].pc \in Live => Holder[s] = t
    /\ (\A t \in Tasks : ~(task[t].source = s /\ task[t].pc \in Live)) => Holder[s] = NoTask
    /\ Holder[s] # NoTask =>
         /\ Holder[s] \in Tasks
         /\ task[Holder[s]].source = s /\ task[Holder[s]].pc \in Live

LEMMA HolderIs == RInv => HolderIsRight
<1> SUFFICES ASSUME RInv, NEW s \in Sources
             PROVE  /\ \A t \in Tasks : task[t].source = s /\ task[t].pc \in Live => Holder[s] = t
                    /\ (\A t \in Tasks : ~(task[t].source = s /\ task[t].pc \in Live))
                         => Holder[s] = NoTask
                    /\ Holder[s] # NoTask =>
                         /\ Holder[s] \in Tasks
                         /\ task[Holder[s]].source = s /\ task[Holder[s]].pc \in Live
  BY DEF HolderIsRight
<1>1. ASSUME NEW t \in Tasks, task[t].source = s, task[t].pc \in Live
      PROVE  Holder[s] = t
  <2> DEFINE u == CHOOSE u \in Tasks : task[u].source = s /\ task[u].pc \in Live
  <2>1. u \in Tasks /\ task[u].source = s /\ task[u].pc \in Live
    BY <1>1
  <2>2. Holder[s] = u
    BY <1>1 DEF Holder
  <2> HIDE DEF u
  <2> QED BY <1>1, <2>1, <2>2, OneLiveTaskPerSource
<1>2. ASSUME \A t \in Tasks : ~(task[t].source = s /\ task[t].pc \in Live)
      PROVE  Holder[s] = NoTask
  BY <1>2 DEF Holder
<1> QED BY <1>1, <1>2, ExecutorAssumption

LEMMA HolderIsPrimed == RInv' => HolderIsRight'
BY HolderIs, PTL

(* A step after which every live task is live still, for its source, and   *)
(* no other task has started or ended, is a stutter of the contract.       *)
LEMMA HolderStays ==
  ASSUME RInv, RInv',
         \A t \in Tasks : /\ task[t].pc \in Live <=> task'[t].pc \in Live
                          /\ task[t].pc \in Live => task'[t].source = task[t].source
                          /\ task[t].pc = "done" <=> task'[t].pc = "done"
  PROVE  Holder' = Holder /\ Ended' = Ended
<1>1. HolderIsRight /\ HolderIsRight'
  BY HolderIs, HolderIsPrimed
<1>2. ASSUME NEW s \in Sources
      PROVE  Holder'[s] = Holder[s]
  <2>1. CASE \E t \in Tasks : task[t].source = s /\ task[t].pc \in Live
    BY <1>1, <2>1 DEF HolderIsRight
  <2>2. CASE \A t \in Tasks : ~(task[t].source = s /\ task[t].pc \in Live)
    BY <1>1, <2>2 DEF HolderIsRight
  <2> QED BY <2>1, <2>2
<1>3. Holder' = Holder
  <2>1. Holder = [s \in Sources |-> Holder[s]] /\ Holder' = [s \in Sources |-> Holder'[s]]
    BY DEF Holder
  <2> QED BY <1>2, <2>1
<1> QED BY <1>3 DEF Ended

LEMMA FlightStep ==
  ASSUME EInv, EInv', [Next]_vars
  PROVE  \/ \E s \in Sources, t \in Tasks :
              /\ Holder[s] = NoTask /\ t \notin Ended
              /\ \A other \in Sources : Holder[other] # t
              /\ Holder' = [Holder EXCEPT ![s] = t] /\ Ended' = Ended
         \/ \E s \in Sources :
              /\ Holder[s] # NoTask
              /\ Holder' = [Holder EXCEPT ![s] = NoTask]
              /\ Ended' = Ended \cup {Holder[s]}
         \/ /\ Holder' = [s \in Sources |-> NoTask]
            /\ Ended' = Ended \cup {Holder[s] : s \in {q \in Sources : Holder[q] # NoTask}}
         \/ Holder' = Holder /\ Ended' = Ended
<1> USE DEF EInv
<1>0. task \in [Tasks -> TaskState] /\ HolderIsRight /\ HolderIsRight'
  BY HolderIs, HolderIsPrimed DEF RInv, ExecutorTypeOK
<1>a. /\ Holder = [s \in Sources |-> Holder[s]]
      /\ Holder' = [s \in Sources |-> Holder'[s]]
  BY DEF Holder
<1>1. ASSUME NEW q \in Requests, NEW t \in Tasks, PoolSubmit(q, t)
      PROVE  \E s \in Sources :
              /\ Holder[s] = NoTask /\ t \notin Ended
              /\ \A other \in Sources : Holder[other] # t
              /\ Holder' = [Holder EXCEPT ![s] = t] /\ Ended' = Ended
  <2> DEFINE s == request[q].source
  <2>1. s \in Sources /\ request[q].pc = "reserved" /\ task[t].pc = "unused"
    BY <1>1 DEF PoolSubmit, AtRequest, RInv, RequestsHaveSources
  <2>2. /\ task'[t].pc = "queued" /\ task'[t].source = s
        /\ \A u \in Tasks : u # t => task'[u] = task[u]
    BY <1>0, <1>1 DEF PoolSubmit, Unused
  <2>3. Holder[s] = NoTask
    BY <1>0, <2>1, ReservedHasNoTask DEF HolderIsRight, Owning
  <2>4. t \notin Ended /\ \A other \in Sources : Holder[other] # t
    BY <1>0, <2>1, ExecutorAssumption DEF HolderIsRight, Ended, Live
  <2>5. Holder'[s] = t
    BY <1>0, <2>1, <2>2 DEF HolderIsRight, Live, TaskPc
  <2>6. ASSUME NEW z \in Sources, z # s
        PROVE  Holder'[z] = Holder[z]
    <3>1. \A u \in Tasks : task'[u].source = z /\ task'[u].pc \in Live
                           <=> task[u].source = z /\ task[u].pc \in Live
      BY <2>1, <2>2, <2>6 DEF Live
    <3> QED BY <1>0, <3>1 DEF HolderIsRight
  <2>7. Holder' = [Holder EXCEPT ![s] = t]
    BY <1>a, <2>1, <2>5, <2>6
  <2>8. Ended' = Ended
    BY <2>1, <2>2 DEF Ended
  <2> QED BY <2>1, <2>3, <2>4, <2>7, <2>8
<1>2. ASSUME NEW t \in Tasks, CompleteFuture(t)
      PROVE  \E s \in Sources :
              /\ Holder[s] # NoTask
              /\ Holder' = [Holder EXCEPT ![s] = NoTask]
              /\ Ended' = Ended \cup {Holder[s]}
  <2> DEFINE s == task[t].source
  <2>1. task[t].pc = "returned" /\ task[t].pc \in Live /\ s \in Sources
    BY <1>2 DEF CompleteFuture, AtTask, RInv, TasksHaveSources, Live, TaskPc
  <2>2. Holder[s] = t /\ Holder[s] # NoTask
    BY <1>0, <2>1, ExecutorAssumption DEF HolderIsRight
  <2>3. /\ task'[t].pc = "done"
        /\ \A u \in Tasks : u # t => task'[u] = task[u]
    <3>1. "done" \in TaskPc
      BY DEF TaskPc
    <3>2. TaskAt(t, "done")
      BY <1>2 DEF CompleteFuture
    <3> QED BY <3>1, <3>2, TaskAtMoves
  <2>4. ASSUME NEW u \in Tasks, task'[u].source = s, task'[u].pc \in Live
        PROVE  FALSE
    <3>1. u # t
      BY <2>3, <2>4 DEF Live
    <3> QED BY <2>1, <2>3, <2>4, <3>1, OneLiveTaskPerSource
  <2>5. Holder'[s] = NoTask
    BY <1>0, <2>1, <2>4 DEF HolderIsRight
  <2>6. ASSUME NEW z \in Sources, z # s
        PROVE  Holder'[z] = Holder[z]
    <3>1. \A u \in Tasks : task'[u].source = z /\ task'[u].pc \in Live
                           => task[u].source = z /\ task[u].pc \in Live
      BY <2>3 DEF Live
    <3>2. \A u \in Tasks : task[u].source = z /\ task[u].pc \in Live
                           => task'[u].source = z /\ task'[u].pc \in Live
      BY <2>3, <2>6
    <3> QED BY <1>0, <3>1, <3>2 DEF HolderIsRight
  <2>7. Holder' = [Holder EXCEPT ![s] = NoTask]
    BY <1>a, <2>1, <2>5, <2>6
  <2>8. Ended' = Ended \cup {Holder[s]}
    BY <2>1, <2>2, <2>3 DEF Ended
  <2> QED BY <2>1, <2>2, <2>7, <2>8
<1>3. ASSUME Crash
      PROVE  /\ Holder' = [s \in Sources |-> NoTask]
             /\ Ended' = Ended \cup {Holder[s] : s \in {q \in Sources : Holder[q] # NoTask}}
  <2>1. \A t \in Tasks : /\ task'[t].pc \notin Live
                         /\ task'[t].pc = "done" <=> task[t].pc # "unused"
    BY <1>3 DEF Crash, Unused, Live
  <2>2. \A s \in Sources : Holder'[s] = NoTask
    BY <1>0, <2>1 DEF HolderIsRight
  <2>3. Holder' = [s \in Sources |-> NoTask]
    BY <1>a, <2>2
  <2>4. \A t \in Tasks : task[t].pc \in Live <=>
          t \in {Holder[s] : s \in {q \in Sources : Holder[q] # NoTask}}
    <3>1. ASSUME NEW t \in Tasks, task[t].pc \in Live
          PROVE  \E s \in Sources : Holder[s] # NoTask /\ t = Holder[s]
      <4>1. task[t].source \in Sources /\ t # NoTask
        BY <3>1, ExecutorAssumption DEF RInv, TasksHaveSources
      <4>2. Holder[task[t].source] = t
        BY <1>0, <3>1, <4>1 DEF HolderIsRight
      <4> QED BY <4>1, <4>2
    <3>2. ASSUME NEW s \in Sources, Holder[s] # NoTask
          PROVE  task[Holder[s]].pc \in Live
      BY <1>0, <3>2 DEF HolderIsRight
    <3> QED BY <3>1, <3>2
  <2>5. {Holder[s] : s \in {q \in Sources : Holder[q] # NoTask}} \subseteq Tasks
    BY <1>0 DEF HolderIsRight
  <2>6. \A t \in Tasks : task[t].pc # "unused" <=> task[t].pc \in Live \/ task[t].pc = "done"
    BY <1>0 DEF TaskState, Live
  <2> QED BY <2>1, <2>3, <2>4, <2>5, <2>6 DEF Ended
<1>4. ASSUME NEW t \in Tasks, TaskStep(t), ~CompleteFuture(t)
      PROVE  Holder' = Holder /\ Ended' = Ended
  <2> USE DEF AtTask
  <2>1. \A u \in Tasks : u # t => task'[u] = task[u]
    BY <1>0, <1>4 DEF TaskStep, TakeTask, LoadSource, StartTaskRun, StartRefused, Fetch,
       CommitBatch, RollBackBatch, FinishFailedRun, RetryFailedRun, AbandonRun, RunCallback, TaskAt
  <2>2. task[t] \in TaskState
    BY <1>0
  <2>3. CASE RetryFailedRun(t) \/ RunCallback(t)
    <3>1. task'[t].pc = task[t].pc /\ task'[t].source = task[t].source
      BY <1>0, <2>2, <2>3 DEF RetryFailedRun, RunCallback, TaskState
    <3> QED BY <2>1, <3>1, HolderStays
  <2>4. CASE StartTaskRun(t)
    <3>1. /\ task[t].pc = "validated" /\ task'[t].pc = "running"
          /\ task'[t].source = task[t].source
      BY <1>0, <2>2, <2>4 DEF StartTaskRun, TaskState
    <3> QED BY <2>1, <3>1, HolderStays DEF Live, TaskPc
  <2>5. CASE \/ TakeTask(t) \/ LoadSource(t) \/ StartRefused(t) \/ Fetch(t) \/ CommitBatch(t)
             \/ RollBackBatch(t) \/ FinishFailedRun(t) \/ AbandonRun(t)
    <3>1. PICK pc \in Live : TaskAt(t, pc)
      BY <2>5 DEF TakeTask, LoadSource, StartRefused, Fetch, FetchOutcome, CommitBatch,
         RollBackBatch, FinishFailedRun, AbandonRun, Live, TaskPc
    <3>2. task[t].pc \in Live
      <4>1. CASE TakeTask(t)
        BY <4>1 DEF TakeTask, RInv, QueueIsQueued, ExecutorTypeOK, Live, TaskPc
      <4> QED BY <2>5, <4>1 DEF LoadSource, StartRefused, Fetch, CommitBatch,
         RollBackBatch, FinishFailedRun, AbandonRun, Live, TaskPc
    <3>3. pc \in TaskPc
      BY DEF Live
    <3>4. task'[t].pc = pc /\ task'[t].source = task[t].source
      BY <3>1, <3>3, TaskAtMoves
    <3> QED BY <2>1, <3>2, <3>4, HolderStays DEF Live
  <2> QED BY <1>4, <2>3, <2>4, <2>5 DEF TaskStep
<1>5. ASSUME NEW q \in Requests, RequestStep(q) \/ \E c \in Companies : ReceiveRequest(q, c),
             ~ \E t \in Tasks : PoolSubmit(q, t)
      PROVE  Holder' = Holder /\ Ended' = Ended
  <2>1. CASE UNCHANGED task
    BY <2>1, HolderStays
  <2>2. CASE task' = [task EXCEPT ![request[q].task].callback = TRUE]
    BY <1>0, <2>2, HolderStays DEF TaskState
  <2> QED BY <1>5, <2>1, <2>2 DEF RequestStep, ReceiveRequest, ValidateSource,
     CheckRunning, Reserve, PoolRefuses, StoreFuture, AddCallback
<1>6. CASE Shutdown \/ ClosePool \/ UNCHANGED executorVars
  <2>1. UNCHANGED task
    BY <1>6 DEF Shutdown, ClosePool, executorVars
  <2> QED BY <2>1, HolderStays
<1> QED BY <1>1, <1>2, <1>3, <1>4, <1>5, <1>6 DEF Next, vars

-----------------------------------------------------------------------------
LEMMA EInvHolds == Spec => []EInv
BY InitEInv, NextEInv, PTL DEF Spec

(* The variables of the executor and the rows are well formed, for any     *)
(* number of web threads, submissions, workers and crashes.                *)
THEOREM ExecutorType == Spec => []ExecutorTypeOK
<1>1. EInv => ExecutorTypeOK
  BY DEF EInv, RInv
<1> QED BY <1>1, EInvHolds, PTL

(* The task of every future that is not done is the one _active names for  *)
(* its source, or is about to become it: two threads in submit_company and *)
(* any number of callbacks cannot lose or replace it.                      *)
THEOREM ExecutorTaskRegistered == Spec => []LiveTaskIsRegistered
<1>1. EInv => LiveTaskIsRegistered
  BY DEF EInv, RInv
<1> QED BY <1>1, EInvHolds, PTL

(* No reservation of _active leaks, and none is shared by two requests.    *)
THEOREM ExecutorReservationOwned == Spec => []ReservationHasOneOwner
<1>1. EInv => ReservationHasOneOwner
  BY DEF EInv, RInv, ReservationHasOneOwner, ReservedIsOwned, OwnersDiffer, Owning
<1> QED BY <1>1, EInvHolds, PTL

(* A RUNNING row that no task works on was abandoned by the error path of  *)
(* its worker or by the end of the process; there is no third way.         *)
THEOREM ExecutorRunningHasTask == Spec => []RunningHasTask
<1>1. Init => RunningHasTask
  BY DEF Init, RunningHasTask, Running, NoRun
<1>2. RunningHasTask /\ EInv /\ EInv' /\ [Next]_vars => RunningHasTask'
  BY NextRunningHasTask
<1> QED BY <1>1, <1>2, EInvHolds, PTL DEF Spec

(* A worker about to start a run meets a RUNNING row of its source only if *)
(* that row was abandoned: the executor never runs into the constraint by  *)
(* itself.                                                                 *)
THEOREM ExecutorDuplicateAbandoned == Spec => []DuplicateMeansAbandoned
<1>1. EInv /\ RunningHasTask => DuplicateMeansAbandoned
  <2> SUFFICES ASSUME EInv, RunningHasTask, NEW t \in Tasks, NEW r \in RunIds,
                      task[t].pc = "validated", Running(r), run[r].source = task[t].source,
                      r \notin abandoned
               PROVE  FALSE
    BY DEF DuplicateMeansAbandoned
  <2>1. PICK u \in Tasks : task[u].pc \in Working /\ task[u].source = run[r].source
    BY DEF RunningHasTask, Working
  <2> QED BY <2>1, OneLiveTaskPerSource DEF EInv, Live, TaskPc, Working
<1> QED BY <1>1, EInvHolds, ExecutorRunningHasTask, PTL

(* What the run services promise of the rows they promise under the        *)
(* executor, whose workers start and end the runs, retry, give up and die  *)
(* with the process: two runs of one source never exist at a time.         *)
THEOREM ExecutorOneRunning == Spec => []OneRunningPerSource
<1>1. EInv => OneRunningPerSource
  BY DEF EInv, LInv, RunsInv
<1> QED BY <1>1, EInvHolds, PTL

(* A RUNNING row keeps its source and its company for as long as it runs,  *)
(* and a row that the executor abandoned runs for good: neither its source *)
(* nor its company can be deleted while a worker, or nobody, holds it.     *)
THEOREM ExecutorRunningOwned == Spec => []RunningIsOwned
<1>1. EInv => RunningIsOwned
  BY DEF EInv, LInv, RunsInv
<1> QED BY <1>1, EInvHolds, PTL

(* A company shown as running has a RUNNING run, whatever its workers and  *)
(* the process come to: a crash leaves row and status behind together.     *)
THEOREM ExecutorCachedRunning == Spec => []CachedRunningIsReal
<1>1. EInv => CachedRunningIsReal
  BY DEF EInv, LInv
<1> QED BY <1>1, EInvHolds, PTL

(* No worker changes the status of a run that has ended: a commit, a retry *)
(* of the failure path or a restarted process finds only its own run.      *)
THEOREM ExecutorTerminalIsFinal == Spec => TerminalIsFinal
<1>1. EInv /\ [Next]_vars => [\A r \in RunIds : RowIsFinal(r)]_lifecycleVars
  BY StepsAreLifecycle, NextRowsAreFinal DEF EInv, LInv
<1> QED BY <1>1, EInvHolds, PTL DEF Spec, TerminalIsFinal, RowIsFinal

(* The executor implements SingleFlight: a task is admitted for a source   *)
(* only when the source has none, and never twice, whatever web threads,   *)
(* workers, callbacks, the shutdown and crashes do in between.             *)
THEOREM ExecutorIsSingleFlight == Spec => IsSingleFlight
<1>1. Init => Flight!FlightInit
  <2> SUFFICES ASSUME Init PROVE Flight!FlightInit
    OBVIOUS
  <2>1. \A t \in Tasks : task[t].pc = "unused"
    BY DEF Init, ExecutorInit, Unused
  <2>2. Holder = [s \in Sources |-> NoTask] /\ Ended = {}
    BY <2>1 DEF Holder, Ended, Live
  <2> QED BY <2>2 DEF Flight!FlightInit, Holder, Ended
<1>2. EInv /\ EInv' /\ [Next]_vars => [Flight!FlightNext]_Flight!flightVars
  <2> SUFFICES ASSUME EInv, EInv', [Next]_vars
               PROVE  Flight!FlightNext \/ UNCHANGED Flight!flightVars
    OBVIOUS
  <2>1. ASSUME NEW s \in Sources, NEW t \in Tasks,
               Holder[s] = NoTask, t \notin Ended, \A other \in Sources : Holder[other] # t,
               Holder' = [Holder EXCEPT ![s] = t], Ended' = Ended
        PROVE  Flight!FlightNext
    <3>1. Flight!Admit(s, t)
      BY <2>1 DEF Flight!Admit, Holder, Ended
    <3> QED BY <3>1 DEF Flight!FlightNext
  <2>2. ASSUME NEW s \in Sources, Holder[s] # NoTask,
               Holder' = [Holder EXCEPT ![s] = NoTask], Ended' = Ended \cup {Holder[s]}
        PROVE  Flight!FlightNext
    <3>1. Flight!End(s)
      BY <2>2 DEF Flight!End, Holder, Ended
    <3> QED BY <3>1 DEF Flight!FlightNext
  <2>3. ASSUME Holder' = [s \in Sources |-> NoTask],
               Ended' = Ended \cup {Holder[s] : s \in {q \in Sources : Holder[q] # NoTask}}
        PROVE  Flight!FlightNext
    <3>1. Flight!EndAll
      BY <2>3 DEF Flight!EndAll, Holder, Ended
    <3> QED BY <3>1 DEF Flight!FlightNext
  <2>4. ASSUME Holder' = Holder, Ended' = Ended
        PROVE  UNCHANGED Flight!flightVars
    BY <2>4 DEF Flight!flightVars, Holder, Ended
  <2> QED BY <2>1, <2>2, <2>3, <2>4, FlightStep
<1> QED BY <1>1, <1>2, EInvHolds, PTL DEF Spec, IsSingleFlight, Flight!FlightSpec
=============================================================================

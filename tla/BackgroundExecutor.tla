------------------------- MODULE BackgroundExecutor -------------------------
(***************************************************************************)
(* ControlledBackgroundExecutor (scraping/background.py) and the pipeline  *)
(* each of its worker threads runs (scraping/pipeline.py), composed with   *)
(* the run services of RunLifecycle.                                       *)
(*                                                                         *)
(* A request is a web thread inside submit_company: it reads the active    *)
(* sources of a company and submits them in primary-key order.  Every      *)
(* database read, critical section of _lock, and call into the thread pool *)
(* is a step of its own, because other threads run between them.  A worker *)
(* thread is a task taken from the pool's queue: it loads and validates    *)
(* the source again, starts the run, fetches outside any lock, and commits *)
(* or fails the run.                                                       *)
(*                                                                         *)
(* Any database call of a worker may raise (SQLite "database is locked",   *)
(* another process holding the file), and so may the fetch.  Crash is the  *)
(* end of the process: memory is lost, rows stay, and nothing in the code  *)
(* repairs a RUNNING row that no task owns any more.                       *)
(*                                                                         *)
(* Discovery tasks share the pool and are not modelled here.               *)
(***************************************************************************)
EXTENDS RunLifecycle, Sequences

CONSTANTS
  Requests,     \* web threads that call submit_company
  Tasks,        \* bound: submissions a behaviour may make
  Free,         \* the source is not a key of _active
  Reserved,     \* _active[source] is None
  NoTask,       \* a request that has submitted nothing yet
  MaxWorkers,   \* JOB_MONITOR_BACKGROUND_MAX_WORKERS
  Attempts,     \* _SQLITE_FAILED_RUN_FINALIZATION_ATTEMPTS
  MaxCrashes    \* bound: crashes in a behaviour

ASSUME ExecutorAssumption ==
  /\ Sources \subseteq Nat
  /\ Free \notin Tasks /\ Reserved \notin Tasks /\ Free # Reserved /\ NoTask \notin Tasks
  /\ MaxWorkers \in Nat \ {0}
  /\ Attempts \in Nat \ {0}
  /\ MaxCrashes \in Nat

VARIABLES
  active,      \* _active: source -> Free, Reserved, or the task of its future
  shutdown,    \* _shutdown
  accepting,   \* the ThreadPoolExecutor accepts submissions
  queue,       \* the pool's work queue
  task,        \* each submission: its future and the thread working on it
  request,     \* each web thread
  abandoned,   \* history: runs whose task went away without finishing them
  crashes

executorVars == <<active, shutdown, accepting, queue, task, request, abandoned, crashes>>
vars == <<lifecycleVars, executorVars>>

RequestPc == {"idle", "next", "validated", "checked", "reserved", "submitted", "stored"}
TaskPc == {"unused", "queued", "taken", "validated", "running", "fetched", "failing",
           "returned", "done"}
Live == TaskPc \ {"unused", "done"}   \* the future is not done

RequestState == [pc : RequestPc, todo : SUBSET Sources, source : Sources \cup {NoSource},
                 task : Tasks \cup {NoTask}]
TaskState == [pc : TaskPc, source : Sources \cup {NoSource}, run : 0 .. MaxRuns,
              tries : 0 .. Attempts - 1, callback : BOOLEAN]

Idle == [pc |-> "idle", todo |-> {}, source |-> NoSource, task |-> NoTask]
Unused == [pc |-> "unused", source |-> NoSource, run |-> 0, tries |-> 0, callback |-> FALSE]

ExecutorTypeOK ==
  /\ TypeOK
  /\ active \in [Sources -> Tasks \cup {Free, Reserved}]
  /\ shutdown \in BOOLEAN /\ accepting \in BOOLEAN
  /\ queue \in Seq(Tasks)
  /\ task \in [Tasks -> TaskState]
  /\ request \in [Requests -> RequestState]
  /\ abandoned \subseteq RunIds
  /\ crashes \in 0 .. MaxCrashes

ExecutorInit ==
  /\ active = [s \in Sources |-> Free]
  /\ shutdown = FALSE /\ accepting = TRUE
  /\ queue = <<>>
  /\ task = [t \in Tasks |-> Unused]
  /\ request = [q \in Requests |-> Idle]
  /\ abandoned = {} /\ crashes = 0

(* Every company and source is configured and active, and nothing has run. *)
Init ==
  /\ company = [c \in Companies |-> [row |-> "saved", active |-> TRUE, status |-> "never"]]
  /\ source = [s \in Sources |-> [row |-> "saved", active |-> TRUE]]
  /\ run = [r \in RunIds |-> NoRun]
  /\ lastPk = 0
  /\ ExecutorInit

-----------------------------------------------------------------------------
(* Web threads: submit_company -> submit_source -> _queue_source.          *)

AtRequest(q, pc) == request[q].pc = pc

(* The submission of the current source is over; the loop of               *)
(* submit_company goes on with the rest.                                   *)
NextSource(q) ==
  request' = [request EXCEPT ![q] =
                IF @.todo = {} THEN Idle
                ELSE [pc |-> "next", todo |-> @.todo, source |-> NoSource, task |-> NoTask]]

Advance(q, pc) == request' = [request EXCEPT ![q].pc = pc]

Candidates(c) == {s \in Sources : Owner[s] = c /\ source[s].row = "saved" /\ source[s].active}

ReceiveRequest(q, c) ==
  /\ AtRequest(q, "idle")
  /\ company[c].row = "saved" /\ company[c].active
  /\ Candidates(c) # {}
  /\ request' = [request EXCEPT ![q].pc = "next", ![q].todo = Candidates(c)]
  /\ UNCHANGED <<lifecycleVars, active, shutdown, accepting, queue, task, abandoned, crashes>>

(* _validated_source of the next source in primary-key order; a source     *)
(* that lost its row or its activity is reported failed.                   *)
ValidateSource(q) ==
  /\ AtRequest(q, "next")
  /\ \E s \in request[q].todo :
       /\ \A other \in request[q].todo : s <= other
       /\ IF Executable(s)
            THEN request' = [request EXCEPT ![q].pc = "validated", ![q].source = s,
                                            ![q].todo = @ \ {s}]
            ELSE request' = [request EXCEPT ![q] =
                               IF @.todo = {s} THEN Idle
                               ELSE [@ EXCEPT !.todo = request[q].todo \ {s}]]
  /\ UNCHANGED <<lifecycleVars, active, shutdown, accepting, queue, task, abandoned, crashes>>

(* The RUNNING query before the lock is taken.                             *)
CheckRunning(q) ==
  /\ AtRequest(q, "validated")
  /\ IF HasRunning(request[q].source) THEN NextSource(q) ELSE Advance(q, "checked")
  /\ UNCHANGED <<lifecycleVars, active, shutdown, accepting, queue, task, abandoned, crashes>>

BlockedByFutureOnly(s) ==   \* mutant: a None entry is taken for a free source
  active[s] \in Tasks /\ task[active[s]].pc # "done"

(* First critical section: an entry blocks the source unless it is a       *)
(* future that is done.                                                    *)
Blocked(s) ==
  \/ active[s] = Reserved
  \/ active[s] \in Tasks /\ task[active[s]].pc # "done"

(* Bound: a reservation is made only while a submission is left for it.    *)
TaskLeft ==
  Cardinality({q \in Requests : request[q].pc = "reserved"})
    < Cardinality({t \in Tasks : task[t].pc = "unused"})

Reserve(q) ==
  LET s == request[q].source IN
  /\ AtRequest(q, "checked")
  /\ TaskLeft
  /\ IF shutdown \/ Blocked(s)
       THEN NextSource(q) /\ UNCHANGED active
       ELSE Advance(q, "reserved") /\ active' = [active EXCEPT ![s] = Reserved]
  /\ UNCHANGED <<lifecycleVars, shutdown, accepting, queue, task, abandoned, crashes>>

(* ThreadPoolExecutor.submit, outside the lock.  After the pool is closed  *)
(* it raises RuntimeError: the reservation is dropped and the error leaves *)
(* submit_company, whose loop catches BackgroundExecutionError only.       *)
PoolSubmit(q, t) ==
  /\ AtRequest(q, "reserved")
  /\ accepting
  /\ task[t].pc = "unused"
  /\ task' = [task EXCEPT ![t] = [Unused EXCEPT !.pc = "queued", !.source = request[q].source]]
  /\ queue' = Append(queue, t)
  /\ request' = [request EXCEPT ![q].pc = "submitted", ![q].task = t]
  /\ UNCHANGED <<lifecycleVars, active, shutdown, accepting, abandoned, crashes>>

PopNothing(s) == active   \* mutant: the exception path keeps the reservation

PopReservation(s) == IF active[s] = Reserved THEN [active EXCEPT ![s] = Free] ELSE active

PoolRefuses(q) ==
  /\ AtRequest(q, "reserved")
  /\ ~accepting
  /\ active' = PopReservation(request[q].source)
  /\ request' = [request EXCEPT ![q] = Idle]
  /\ UNCHANGED <<lifecycleVars, shutdown, accepting, queue, task, abandoned, crashes>>

(* Second critical section.                                                *)
StoreFuture(q) ==
  /\ AtRequest(q, "submitted")
  /\ active' = [active EXCEPT ![request[q].source] = request[q].task]
  /\ Advance(q, "stored")
  /\ UNCHANGED <<lifecycleVars, shutdown, accepting, queue, task, abandoned, crashes>>

ReleasedAnyway(s, t) ==   \* mutant: the identity check is missing
  [active EXCEPT ![s] = Free]

(* _release_source: pops the entry only if it still is this future.        *)
Released(s, t) == IF active[s] = t THEN [active EXCEPT ![s] = Free] ELSE active

(* add_done_callback runs the callback at once if the future is done.      *)
AddCallback(q) ==
  LET s == request[q].source
      t == request[q].task
  IN
  /\ AtRequest(q, "stored")
  /\ IF task[t].pc = "done"
       THEN active' = Released(s, t) /\ UNCHANGED task
       ELSE task' = [task EXCEPT ![t].callback = TRUE] /\ UNCHANGED active
  /\ NextSource(q)
  /\ UNCHANGED <<lifecycleVars, shutdown, accepting, queue, abandoned, crashes>>

RequestStep(q) ==
  \/ ValidateSource(q) \/ CheckRunning(q) \/ Reserve(q)
  \/ \E t \in Tasks : PoolSubmit(q, t)
  \/ PoolRefuses(q) \/ StoreFuture(q) \/ AddCallback(q)

-----------------------------------------------------------------------------
(* Worker threads: _run_source_pipeline -> run_source_pipeline.            *)

AtTask(t, pc) == task[t].pc = pc
TaskAt(t, pc) == task' = [task EXCEPT ![t].pc = pc]

(* A pool thread is busy until the callbacks of its future have run.       *)
Busy == {t \in Tasks : \/ task[t].pc \in Live \ {"queued"}
                       \/ task[t].pc = "done" /\ task[t].callback}

TakeTask(t) ==
  /\ queue # <<>> /\ t = Head(queue)
  /\ Cardinality(Busy) < MaxWorkers
  /\ queue' = Tail(queue)
  /\ TaskAt(t, "taken")
  /\ UNCHANGED <<lifecycleVars, active, shutdown, accepting, request, abandoned, crashes>>

(* _worker_source and _validated_source on the worker thread.              *)
LoadSource(t) ==
  /\ AtTask(t, "taken")
  /\ TaskAt(t, IF Executable(task[t].source) THEN "validated" ELSE "returned")
  /\ UNCHANGED <<lifecycleVars, active, shutdown, accepting, queue, request, abandoned, crashes>>

(* start_scrape_run, or its refusal, or a database error: an exception     *)
(* here leaves no run row behind.                                          *)
StartTaskRun(t) ==
  /\ AtTask(t, "validated")
  /\ StartRun(task[t].source)
  /\ task' = [task EXCEPT ![t].pc = "running", ![t].run = lastPk + 1]
  /\ UNCHANGED <<active, shutdown, accepting, queue, request, abandoned, crashes>>

StartRefused(t) ==
  /\ AtTask(t, "validated")
  /\ TaskAt(t, "returned")
  /\ UNCHANGED <<lifecycleVars, active, shutdown, accepting, queue, request, abandoned, crashes>>

(* adapter.fetch, or an error that the except branch has to deal with.     *)
UncaughtOutcome == {"fetched", "returned"}   \* mutant: the error leaves the pipeline

FetchOutcome == {"fetched", "failing"}

Fetch(t) ==
  /\ AtTask(t, "running")
  /\ \E pc \in FetchOutcome : TaskAt(t, pc)
  /\ UNCHANGED <<lifecycleVars, active, shutdown, accepting, queue, request, abandoned, crashes>>

(* The write phase is one transaction: it ends the run, or it rolls back   *)
(* and the except branch takes over.                                       *)
CommitBatch(t) ==
  /\ AtTask(t, "fetched")
  /\ \E status \in {"success", "partial"} : FinishRun(task[t].run, status)
  /\ TaskAt(t, "returned")
  /\ UNCHANGED <<active, shutdown, accepting, queue, request, abandoned, crashes>>

RollBackBatch(t) ==
  /\ AtTask(t, "fetched")
  /\ TaskAt(t, "failing")
  /\ UNCHANGED <<lifecycleVars, active, shutdown, accepting, queue, request, abandoned, crashes>>

FinishFailedRun(t) ==
  /\ AtTask(t, "failing")
  /\ FinishRun(task[t].run, "failed")
  /\ TaskAt(t, "returned")
  /\ UNCHANGED <<active, shutdown, accepting, queue, request, abandoned, crashes>>

(* _finish_failed_run after "database is locked": another attempt.         *)
OneRetryTooMany(t) == task[t].tries < Attempts   \* mutant: the last attempt is not seen

MayRetry(t) == task[t].tries + 1 < Attempts

RetryFailedRun(t) ==
  /\ AtTask(t, "failing")
  /\ MayRetry(t)
  /\ task' = [task EXCEPT ![t].tries = @ + 1]
  /\ UNCHANGED <<lifecycleVars, active, shutdown, accepting, queue, request, abandoned, crashes>>

(* Any other database error, the last lock error, or a clock that stepped  *)
(* back leaves the except branch: the run stays RUNNING.                   *)
AbandonRun(t) ==
  /\ AtTask(t, "failing")
  /\ TaskAt(t, "returned")
  /\ abandoned' = abandoned \cup {task[t].run}
  /\ UNCHANGED <<lifecycleVars, active, shutdown, accepting, queue, request, crashes>>

(* The pool sets the result or the exception, then runs the callback.      *)
CompleteFuture(t) ==
  /\ AtTask(t, "returned")
  /\ TaskAt(t, "done")
  /\ UNCHANGED <<lifecycleVars, active, shutdown, accepting, queue, request, abandoned, crashes>>

RunCallback(t) ==
  /\ AtTask(t, "done") /\ task[t].callback
  /\ active' = Released(task[t].source, t)
  /\ task' = [task EXCEPT ![t].callback = FALSE]
  /\ UNCHANGED <<lifecycleVars, shutdown, accepting, queue, request, abandoned, crashes>>

TaskStep(t) ==
  \/ TakeTask(t) \/ LoadSource(t) \/ StartTaskRun(t) \/ StartRefused(t) \/ Fetch(t)
  \/ CommitBatch(t) \/ RollBackBatch(t) \/ FinishFailedRun(t) \/ RetryFailedRun(t)
  \/ AbandonRun(t) \/ CompleteFuture(t) \/ RunCallback(t)

-----------------------------------------------------------------------------
(* shutdown(): the flag under the lock, then the pool.                     *)

Shutdown ==
  /\ ~shutdown
  /\ shutdown' = TRUE
  /\ UNCHANGED <<lifecycleVars, active, accepting, queue, task, request, abandoned, crashes>>

ClosePool ==
  /\ shutdown /\ accepting
  /\ accepting' = FALSE
  /\ UNCHANGED <<lifecycleVars, active, shutdown, queue, task, request, abandoned, crashes>>

(* The process dies and starts again.                                      *)
Crash ==
  /\ crashes < MaxCrashes
  /\ crashes' = crashes + 1
  /\ abandoned' = abandoned \cup {r \in RunIds : Running(r)}
  /\ task' = [t \in Tasks |-> IF task[t].pc = "unused" THEN Unused
                              ELSE [Unused EXCEPT !.pc = "done"]]
  /\ active' = [s \in Sources |-> Free]
  /\ shutdown' = FALSE /\ accepting' = TRUE
  /\ queue' = <<>>
  /\ request' = [q \in Requests |-> Idle]
  /\ UNCHANGED lifecycleVars

Next ==
  \/ \E q \in Requests, c \in Companies : ReceiveRequest(q, c)
  \/ \E q \in Requests : RequestStep(q)
  \/ \E t \in Tasks : TaskStep(t)
  \/ Shutdown \/ ClosePool \/ Crash
  \/ Administer /\ UNCHANGED executorVars

Spec == Init /\ [][Next]_vars

(* Threads that can run do run: web threads finish their request, pool     *)
(* threads take queued work, every fetch ends (the adapters set request    *)
(* timeouts) and every database call returns.  Users owe nothing.          *)
Fairness ==
  /\ \A q \in Requests : WF_vars(RequestStep(q))
  /\ \A t \in Tasks : WF_vars(TaskStep(t))

FairSpec == Spec /\ Fairness

-----------------------------------------------------------------------------
(* Properties.                                                             *)

(* Every task that is not over is on record in _active, as its future or   *)
(* as the reservation of the request that has just submitted it; so two    *)
(* tasks of one source never overlap, and no request can reserve a source  *)
(* that has work.                                                          *)
LiveTaskIsRegistered ==
  \A t \in Tasks : task[t].pc \in Live =>
    \/ active[task[t].source] = t
    \/ /\ active[task[t].source] = Reserved
       /\ \E q \in Requests : request[q].task = t /\ request[q].pc = "submitted"

(* A reservation has exactly one request behind it: none is leaked by a    *)
(* refused submission, none is shared by two requests.                     *)
ReservationHasOneOwner ==
  \A s \in Sources : active[s] = Reserved =>
    \E q \in Requests :
      /\ request[q].source = s /\ request[q].pc \in {"reserved", "submitted"}
      /\ \A other \in Requests :
           request[other].source = s /\ request[other].pc \in {"reserved", "submitted"}
             => other = q

(* A RUNNING row is being worked on by a live task of its source, unless   *)
(* that task gave up finalizing it or the process crashed.                 *)
RunningHasTask ==
  \A r \in RunIds : Running(r) /\ r \notin abandoned =>
    \E t \in Tasks : /\ task[t].pc \in {"running", "fetched", "failing"}
                     /\ task[t].run = r
                     /\ task[t].source = run[r].source

(* DuplicateRunningRunError is never how a healthy executor refuses work:  *)
(* a task about to start finds a RUNNING row of its source only if that    *)
(* row was abandoned.                                                      *)
DuplicateMeansAbandoned ==
  \A t \in Tasks, r \in RunIds :
    task[t].pc = "validated" /\ Running(r) /\ run[r].source = task[t].source => r \in abandoned

(* The executor is a SingleFlight, each task working for its source from   *)
(* its submission to the moment its future is done.                        *)
Flight == INSTANCE SingleFlight WITH
  holder <- [s \in Sources |->
               IF \E t \in Tasks : task[t].source = s /\ task[t].pc \in Live
               THEN CHOOSE t \in Tasks : task[t].source = s /\ task[t].pc \in Live
               ELSE NoTask],
  ended <- {t \in Tasks : task[t].pc = "done"}

IsSingleFlight == Flight!FlightSpec

(* Every claim on a source ends: whatever fails on the way, the slot of    *)
(* the source becomes free again.                                          *)
SlotIsReleased == \A s \in Sources : active[s] # Free ~> active[s] = Free

(* Every run ends.                                                         *)
RunTerminates == \A r \in RunIds : Running(r) ~> ~Running(r)
=============================================================================

----------------------------- MODULE RunManager -----------------------------
(***************************************************************************)
(* The ownership protocol of the API service's background jobs:            *)
(* RunManager (api/run_manager.py), the row store it writes to             *)
(* (api/database.py), the lifespan that closes both (api/main.py) and the  *)
(* DELETE handler (api/routers/runs.py).                                   *)
(*                                                                         *)
(* One action is one stretch of a coroutine between two awaits: that is    *)
(* the grain at which the event loop interleaves.  pc[j] names the await   *)
(* at which job j's coroutine is suspended, first in the submitting        *)
(* request and then in the job's task.  A database write is two steps: it  *)
(* commits in the connection's thread, and the coroutine resumes later.    *)
(***************************************************************************)
EXTENDS Naturals, FiniteSets

CONSTANTS
  Runs,             \* ids of single runs
  Batches,          \* ids of Monte Carlo batches
  MaxConcurrent,    \* permits of the semaphore
  Units,            \* ticks of a run, iterations of a batch
  MaxFaults,        \* bound on failing database writes and failing scheduling
  TaskCancels,      \* whether the loop may cancel each task once
  MaxRestarts,      \* bound on crashes of the process
  LifespanCancels,  \* whether the lifespan task may itself be cancelled
  NoJob             \* "the lifecycle lock is free"

Jobs == Runs \union Batches

ASSUME JobsAssumption ==
  /\ IsFiniteSet(Runs) /\ IsFiniteSet(Batches)
  /\ Runs \intersect Batches = {}
  /\ NoJob \notin Jobs
ASSUME BoundsAssumption ==
  /\ MaxConcurrent \in Nat \ {0}
  /\ Units \in Nat \ {0}
  /\ MaxFaults \in Nat
  /\ MaxRestarts \in Nat
  /\ TaskCancels \in BOOLEAN
  /\ LifespanCancels \in BOOLEAN

VARIABLES
  row,          \* durable status of each job, "absent" when it has no row
  dbOpen,       \* Database._conn is not None
  pc,           \* where each job's coroutine is suspended
  worker,       \* the executor thread of each job
  units,        \* units of work that thread has finished
  lock,         \* holder of _lifecycle_lock
  cancelSet,    \* jobs whose cancel Event is set
  events,       \* keys of _cancel_events
  tasks,        \* keys of _tasks
  closing,      \* _closing
  closed,       \* _closed
  finisher,     \* the _finish_shutdown task
  snapshot,     \* the tasks it was given
  lifespan,     \* where the lifespan coroutine is
  del,          \* where each run's DELETE handler is
  acked,        \* history: jobs whose cancellation was acknowledged
  killed,       \* history: jobs whose task the loop cancelled
  faulted,      \* history: jobs one of whose writes failed
  faults,       \* history: injected faults
  restarts,     \* history: crashes
  aborted       \* history: shutdown() was cancelled before it signalled

jobVars == <<pc, worker, units>>
registryVars == <<lock, cancelSet, events, tasks>>
shutdownVars == <<closing, closed, finisher, snapshot, lifespan, aborted>>
faultVars == <<killed, faulted, faults, restarts>>
vars == <<row, dbOpen, jobVars, registryVars, shutdownVars, del, acked, faultVars>>

-----------------------------------------------------------------------------
(* Statuses and program counters.                                          *)

Terminal == {"completed", "failed", "cancelled"}
RowStatus == {"absent", "pending", "running"} \union Terminal

\* The status a suspended write will commit, by the await it is made at.
Written ==
  [createWrite    |-> "pending",
   schedFailWrite |-> "failed",
   runningWrite   |-> "running",
   completeWrite  |-> "completed",
   cancelWrite    |-> "cancelled",
   killedWrite    |-> "cancelled",
   failWrite      |-> "failed"]

\* Where the coroutine waits for the loop once that write is durable.
AfterCommit ==
  [createWrite    |-> "createDone",
   schedFailWrite |-> "schedFailDone",
   runningWrite   |-> "permit",
   completeWrite  |-> "completeDone",
   cancelWrite    |-> "ending",
   killedWrite    |-> "endingRaise",
   failWrite      |-> "ending"]

\* submit() before and inside its critical section
SubmitPc == {"idle", "prepared", "createWrite", "createDone",
             "schedFailWrite", "schedFailDone"}
\* the task: still able to complete, or on its way out
RunningPc == {"new", "runningWrite", "permit", "worker", "relock",
              "completeWrite", "completeDone"}
EndingPc == {"draining", "cancelWrite", "killedWrite", "failWrite",
             "ending", "endingRaise"}
TaskPc == RunningPc \union EndingPc
\* "lost" is a coroutine the process crashed under
EndedPc == {"rejected", "done", "raised", "lost"}
\* pcs whose coroutine holds the lifecycle lock across an await
LockPc == {"createWrite", "createDone", "schedFailWrite", "schedFailDone",
           "completeWrite", "completeDone"}

Busy == {"check", "work", "recheck", "report"}
Stopped == {"returned", "cancelled", "errored"}

Init ==
  /\ row = [j \in Jobs |-> "absent"]
  /\ dbOpen = TRUE
  /\ pc = [j \in Jobs |-> "idle"]
  /\ worker = [j \in Jobs |-> "none"]
  /\ units = [j \in Jobs |-> 0]
  /\ lock = NoJob
  /\ cancelSet = {} /\ events = {} /\ tasks = {}
  /\ closing = FALSE /\ closed = FALSE
  /\ finisher = "none" /\ snapshot = {} /\ lifespan = "serving"
  /\ del = [j \in Runs |-> "idle"]
  /\ acked = {} /\ killed = {} /\ faulted = {}
  /\ faults = 0 /\ restarts = 0 /\ aborted = FALSE

Goto(j, from, to) == pc[j] = from /\ pc' = [pc EXCEPT ![j] = to]

\* The finally block of the task: no await, so one step to its end.
Finally(j, end) ==
  /\ pc' = [pc EXCEPT ![j] = end]
  /\ events' = events \ {j}
  /\ tasks' = tasks \ {j}

-----------------------------------------------------------------------------
(* Submission: submit, submit_config and submit_batch share this path.     *)

\* The unlocked check, then scenario preparation in worker threads.
SubmitCheck(j) ==
  /\ pc[j] = "idle"
  /\ pc' = [pc EXCEPT ![j] = IF closing \/ closed THEN "rejected" ELSE "prepared"]
  /\ UNCHANGED <<row, dbOpen, worker, units, registryVars, shutdownVars, del,
                 acked, faultVars>>

\* Mutant: the flags are not read again under the lock.
MutSubmitEnter(j) ==
  /\ Goto(j, "prepared", "createWrite")
  /\ lock = NoJob /\ lock' = j
  /\ UNCHANGED <<row, dbOpen, worker, units, cancelSet, events, tasks,
                 shutdownVars, del, acked, faultVars>>

\* The lock is taken and the flags are read again: preparation took time.
SubmitEnter(j) ==
  /\ pc[j] = "prepared"
  /\ lock = NoJob
  /\ IF closing \/ closed
       THEN /\ pc' = [pc EXCEPT ![j] = "rejected"]
            /\ UNCHANGED lock
       ELSE /\ pc' = [pc EXCEPT ![j] = "createWrite"]
            /\ lock' = j
  /\ UNCHANGED <<row, dbOpen, worker, units, cancelSet, events, tasks,
                 shutdownVars, del, acked, faultVars>>

\* Mutant: the cancel Event is left to the task to register.
MutSubmitResume(j) ==
  /\ Goto(j, "createDone", "new")
  /\ lock' = NoJob
  /\ tasks' = tasks \union {j}
  /\ UNCHANGED <<row, dbOpen, worker, units, cancelSet, events, shutdownVars,
                 del, acked, faultVars>>

\* The row is durable: register the queue, the Event and the task, release.
SubmitResume(j) ==
  /\ Goto(j, "createDone", "new")
  /\ lock' = NoJob
  /\ events' = events \union {j}
  /\ tasks' = tasks \union {j}
  /\ UNCHANGED <<row, dbOpen, worker, units, cancelSet, shutdownVars, del,
                 acked, faultVars>>

\* create_task raised: the lock is kept while the row is marked failed.
ScheduleFails(j) ==
  /\ Goto(j, "createDone", "schedFailWrite")
  /\ faults < MaxFaults
  /\ faults' = faults + 1
  /\ faulted' = faulted \union {j}
  /\ UNCHANGED <<row, dbOpen, worker, units, registryVars, shutdownVars, del,
                 acked, killed, restarts>>

ScheduleFailedResume(j) ==
  /\ Goto(j, "schedFailDone", "rejected")
  /\ lock' = NoJob
  /\ UNCHANGED <<row, dbOpen, worker, units, cancelSet, events, tasks,
                 shutdownVars, del, acked, faultVars>>

-----------------------------------------------------------------------------
(* Database writes of the coroutines.                                      *)

\* _execute_write: statement and commit, serialised by the write lock.
Commit(j) ==
  /\ pc[j] \in DOMAIN Written
  /\ dbOpen
  /\ pc[j] = "createWrite" \/ row[j] # "absent"
  /\ row' = [row EXCEPT ![j] = Written[pc[j]]]
  /\ pc' = [pc EXCEPT ![j] = AfterCommit[pc[j]]]
  /\ UNCHANGED <<dbOpen, worker, units, registryVars, shutdownVars, del,
                 acked, faultVars>>

\* Mutant: the lock is released by hand, and not when the write raises.
MutWriteRaises(j) ==
  /\ pc[j] \in DOMAIN Written
  /\ faulted' = faulted \union {j}
  /\ CASE pc[j] \in {"createWrite", "schedFailWrite"} ->
            /\ pc' = [pc EXCEPT ![j] = "rejected"]
            /\ UNCHANGED <<events, tasks>>
       [] pc[j] \in {"runningWrite", "completeWrite"} ->
            /\ pc' = [pc EXCEPT ![j] = "failWrite"]
            /\ UNCHANGED <<events, tasks>>
       [] OTHER -> Finally(j, "raised")
  /\ UNCHANGED <<row, dbOpen, worker, units, lock, cancelSet, shutdownVars, del,
                 acked, killed, restarts>>

\* What an exception out of the suspended write does to its coroutine.
WriteRaises(j) ==
  /\ pc[j] \in DOMAIN Written
  /\ faulted' = faulted \union {j}
  /\ lock' = IF pc[j] \in LockPc THEN NoJob ELSE lock
  /\ CASE pc[j] \in {"createWrite", "schedFailWrite"} ->
            /\ pc' = [pc EXCEPT ![j] = "rejected"]
            /\ UNCHANGED <<events, tasks>>
       [] pc[j] \in {"runningWrite", "completeWrite"} ->
            /\ pc' = [pc EXCEPT ![j] = "failWrite"]
            /\ UNCHANGED <<events, tasks>>
       [] OTHER -> Finally(j, "raised")
  /\ UNCHANGED <<row, dbOpen, worker, units, cancelSet, shutdownVars, del,
                 acked, killed, restarts>>

\* The connection is closed, or the row is gone (KeyError).
WriteRefused(j) ==
  /\ ~dbOpen \/ (pc[j] # "createWrite" /\ row[j] = "absent")
  /\ WriteRaises(j)
  /\ UNCHANGED faults

\* SQLite fails: disk full, locked beyond the busy timeout, i/o error.
WriteFault(j) ==
  /\ faults < MaxFaults
  /\ faults' = faults + 1
  /\ WriteRaises(j)

-----------------------------------------------------------------------------
(* The job's task: _execute_run and _execute_batch.                        *)

TaskStart(j) ==
  /\ Goto(j, "new", "runningWrite")
  /\ UNCHANGED <<row, dbOpen, worker, units, registryVars, shutdownVars, del,
                 acked, faultVars>>

\* Mutant: a task that ended by an exception never gives its permit back.
MutPermitHolders == {j \in Jobs : pc[j] \in {"worker", "draining", "raised"}}

PermitHolders == {j \in Jobs : pc[j] \in {"worker", "draining"}}

\* The semaphore admits the task, which hands _run_sync to an executor thread.
AcquirePermit(j) ==
  /\ Goto(j, "permit", "worker")
  /\ Cardinality(PermitHolders) < MaxConcurrent
  /\ worker' = [worker EXCEPT ![j] = "check"]
  /\ UNCHANGED <<row, dbOpen, units, registryVars, shutdownVars, del, acked,
                 faultVars>>

\* _await_worker returns or raises and the permit is given back.  A batch's
\* evidence is then validated, which may turn its result into a failure.
WorkerOutcome(j) ==
  /\ pc[j] = "worker"
  /\ worker[j] \in Stopped
  /\ \/ worker[j] = "returned" /\ pc' = [pc EXCEPT ![j] = "relock"]
     \/ worker[j] = "cancelled" /\ pc' = [pc EXCEPT ![j] = "cancelWrite"]
     \/ /\ worker[j] = "errored" \/ (worker[j] = "returned" /\ j \in Batches)
        /\ pc' = [pc EXCEPT ![j] = "failWrite"]
  /\ worker' = [worker EXCEPT ![j] = "none"]
  /\ UNCHANGED <<row, dbOpen, units, registryVars, shutdownVars, del, acked,
                 faultVars>>

\* Mutant: the Event is not read again under the lock.
MutCompleteEnter(j) ==
  /\ pc[j] = "relock"
  /\ lock = NoJob
  /\ \/ /\ pc' = [pc EXCEPT ![j] = "completeWrite"]
        /\ lock' = j
     \/ /\ pc' = [pc EXCEPT ![j] = "failWrite"]
        /\ UNCHANGED lock
  /\ UNCHANGED <<row, dbOpen, worker, units, cancelSet, events, tasks,
                 shutdownVars, del, acked, faultVars>>

\* The critical section of completion: the Event is read under the lock.
\* Serialising the result may raise there, which releases the lock.
CompleteEnter(j) ==
  /\ pc[j] = "relock"
  /\ lock = NoJob
  /\ \/ /\ j \in cancelSet
        /\ pc' = [pc EXCEPT ![j] = "cancelWrite"]
        /\ UNCHANGED lock
     \/ /\ j \notin cancelSet
        /\ pc' = [pc EXCEPT ![j] = "completeWrite"]
        /\ lock' = j
     \/ /\ j \notin cancelSet
        /\ pc' = [pc EXCEPT ![j] = "failWrite"]
        /\ UNCHANGED lock
  /\ UNCHANGED <<row, dbOpen, worker, units, cancelSet, events, tasks,
                 shutdownVars, del, acked, faultVars>>

\* Unregister, release the lock and run the finally block: no await between.
CompleteResume(j) ==
  /\ pc[j] = "completeDone"
  /\ Finally(j, "done")
  /\ lock' = NoJob
  /\ UNCHANGED <<row, dbOpen, worker, units, cancelSet, shutdownVars, del,
                 acked, faultVars>>

TaskEnd(j) ==
  /\ pc[j] \in {"ending", "endingRaise"}
  /\ Finally(j, IF pc[j] = "ending" THEN "done" ELSE "raised")
  /\ UNCHANGED <<row, dbOpen, worker, units, lock, cancelSet, shutdownVars,
                 del, acked, faultVars>>

\* Mutant: the cancelled await gives up the thread and the permit at once.
MutDrained(j) ==
  /\ Goto(j, "draining", "killedWrite")
  /\ UNCHANGED <<row, dbOpen, worker, units, registryVars, shutdownVars, del,
                 acked, faultVars>>

\* _await_worker under cancellation: keep the permit until the thread stops.
Drained(j) ==
  /\ Goto(j, "draining", "killedWrite")
  /\ worker[j] \in Stopped
  /\ worker' = [worker EXCEPT ![j] = "none"]
  /\ UNCHANGED <<row, dbOpen, units, registryVars, shutdownVars, del, acked,
                 faultVars>>

\* The loop cancels the task: CancelledError is raised at the await it is
\* suspended at.  A task that never ran has no finally block to run; a task
\* already in an except block leaves through the finally block.
TaskCancelled(j) ==
  /\ TaskCancels
  /\ j \notin killed
  /\ pc[j] \in TaskPc
  /\ killed' = killed \union {j}
  /\ lock' = IF pc[j] \in LockPc THEN NoJob ELSE lock
  /\ \/ /\ pc[j] = "new"
        /\ pc' = [pc EXCEPT ![j] = "raised"]
        /\ UNCHANGED <<cancelSet, events, tasks>>
     \/ /\ pc[j] \in RunningPc \ {"new"}
        /\ pc' = [pc EXCEPT ![j] = IF @ = "worker" THEN "draining" ELSE "killedWrite"]
        /\ cancelSet' = cancelSet \union {j}
        /\ UNCHANGED <<events, tasks>>
     \/ /\ pc[j] \in EndingPc
        /\ Finally(j, "raised")
        /\ UNCHANGED cancelSet
  /\ UNCHANGED <<row, dbOpen, worker, units, shutdownVars, del, acked,
                 faulted, faults, restarts>>

-----------------------------------------------------------------------------
(* The executor thread: _run_sync, or AnalysisRunner.run_variant.          *)

Advance(j, to) ==
  /\ worker' = [worker EXCEPT ![j] = to]
  /\ UNCHANGED <<row, dbOpen, pc, registryVars, shutdownVars, del, acked,
                 killed, faults, restarts>>

\* cancel_event.is_set() before the tick; the runner checks before and after.
WorkerCheck(j) ==
  /\ worker[j] \in {"check", "recheck"}
  /\ Advance(j, IF j \in cancelSet THEN "cancelled"
                ELSE IF worker[j] = "check" THEN "work" ELSE "report")
  /\ UNCHANGED <<units, faulted>>

NextUnit(j) ==
  /\ units' = [units EXCEPT ![j] = @ + 1]
  /\ Advance(j, IF units[j] + 1 = Units THEN "returned" ELSE "check")

\* A run reports its tick without waiting; the simulation itself may raise.
WorkerWork(j) ==
  /\ worker[j] = "work"
  /\ \/ j \in Runs /\ NextUnit(j)
     \/ j \in Batches /\ Advance(j, "recheck") /\ UNCHANGED units
     \/ Advance(j, "errored") /\ UNCHANGED units
  /\ UNCHANGED faulted

\* A batch blocks on _record_batch_progress, a write made by the event loop.
WorkerReport(j) ==
  /\ worker[j] = "report"
  /\ IF dbOpen /\ row[j] # "absent"
       THEN NextUnit(j) /\ UNCHANGED faulted
       ELSE /\ Advance(j, "errored")
            /\ faulted' = faulted \union {j}
            /\ UNCHANGED units

WorkerReportFault(j) ==
  /\ worker[j] = "report"
  /\ faults < MaxFaults
  /\ faults' = faults + 1
  /\ faulted' = faulted \union {j}
  /\ worker' = [worker EXCEPT ![j] = "errored"]
  /\ UNCHANGED <<row, dbOpen, pc, units, registryVars, shutdownVars, del,
                 acked, killed, restarts>>

-----------------------------------------------------------------------------
(* Cancellation and deletion.                                              *)

\* Mutant: cancel() writes the cancelled status itself.
MutCancel(j) ==
  /\ lock = NoJob
  /\ j \in events
  /\ cancelSet' = cancelSet \union {j}
  /\ acked' = acked \union {j}
  /\ row' = [row EXCEPT ![j] = "cancelled"]
  /\ UNCHANGED <<dbOpen, jobVars, lock, events, tasks, shutdownVars, del,
                 faultVars>>

\* cancel() answers True: the Event was registered and is now set.
Cancel(j) ==
  /\ lock = NoJob
  /\ j \in events
  /\ cancelSet' = cancelSet \union {j}
  /\ acked' = acked \union {j}
  /\ UNCHANGED <<row, dbOpen, jobVars, lock, events, tasks, shutdownVars, del,
                 faultVars>>

\* A client learns an id from a listed row, then asks for its deletion.
DeleteStart(r) ==
  /\ del[r] = "idle"
  /\ row[r] # "absent"
  /\ del' = [del EXCEPT ![r] = "entering"]
  /\ UNCHANGED <<row, dbOpen, jobVars, registryVars, shutdownVars, acked,
                 faultVars>>

\* Mutant: the task is signalled and not waited for.
MutDeleteSignal(r) ==
  /\ del[r] = "entering"
  /\ lock = NoJob
  /\ cancelSet' = cancelSet \union ({r} \intersect events)
  /\ acked' = acked \union ({r} \intersect events)
  /\ del' = [del EXCEPT ![r] = "deleteWrite"]
  /\ UNCHANGED <<row, dbOpen, jobVars, lock, events, tasks, shutdownVars,
                 faultVars>>

\* cancel_and_wait: signal under the lock, or find no active job.
DeleteSignal(r) ==
  /\ del[r] = "entering"
  /\ lock = NoJob
  /\ \/ /\ r \in events \intersect tasks
        /\ cancelSet' = cancelSet \union {r}
        /\ acked' = acked \union {r}
        /\ del' = [del EXCEPT ![r] = "waiting"]
     \/ /\ r \notin events \intersect tasks
        /\ del' = [del EXCEPT ![r] = "deleteWrite"]
        /\ UNCHANGED <<cancelSet, acked>>
  /\ UNCHANGED <<row, dbOpen, jobVars, lock, events, tasks, shutdownVars,
                 faultVars>>

\* Mutant: the handler polls the row for a terminal status instead.
MutDeleteWake(r) ==
  /\ del[r] = "waiting"
  /\ row[r] \in Terminal
  /\ del' = [del EXCEPT ![r] = "deleteWrite"]
  /\ UNCHANGED <<row, dbOpen, jobVars, registryVars, shutdownVars, acked,
                 faultVars>>

\* await shield(task): the task's exception reaches the handler.
DeleteWake(r) ==
  /\ del[r] = "waiting"
  /\ pc[r] \in {"done", "raised"}
  /\ del' = [del EXCEPT ![r] = IF pc[r] = "done" THEN "deleteWrite" ELSE "error"]
  /\ UNCHANGED <<row, dbOpen, jobVars, registryVars, shutdownVars, acked,
                 faultVars>>

DeleteCommit(r) ==
  /\ del[r] = "deleteWrite"
  /\ IF dbOpen
       THEN /\ row' = [row EXCEPT ![r] = "absent"]
            /\ del' = [del EXCEPT ![r] = "done"]
       ELSE /\ del' = [del EXCEPT ![r] = "error"]
            /\ UNCHANGED row
  /\ UNCHANGED <<dbOpen, jobVars, registryVars, shutdownVars, acked, faultVars>>

-----------------------------------------------------------------------------
(* Shutdown of the application.                                            *)

\* The lifespan leaves its yield and calls manager.shutdown().
LifespanExit ==
  /\ lifespan = "serving"
  /\ lifespan' = "shutdown"
  /\ UNCHANGED <<row, dbOpen, jobVars, registryVars, closing, closed, finisher,
                 snapshot, aborted, del, acked, faultVars>>

\* Under the lock: refuse new work, set every Event, hand over the tasks.
ShutdownSignal ==
  /\ lifespan = "shutdown"
  /\ lock = NoJob
  /\ closing' = TRUE
  /\ cancelSet' = cancelSet \union events
  /\ acked' = acked \union events
  /\ snapshot' = tasks
  /\ finisher' = "gather"
  /\ lifespan' = "waiting"
  /\ UNCHANGED <<row, dbOpen, jobVars, lock, events, tasks, closed, aborted,
                 del, faultVars>>

\* Mutant: the grace period is a deadline.
MutFinisherGathered ==
  /\ finisher = "gather"
  /\ finisher' = "relock"
  /\ UNCHANGED <<row, dbOpen, jobVars, registryVars, closing, closed, snapshot,
                 lifespan, aborted, del, acked, faultVars>>

\* asyncio.wait and gather: the grace period only logs, gather really waits.
FinisherGathered ==
  /\ finisher = "gather"
  /\ \A j \in snapshot : pc[j] \in {"done", "raised"}
  /\ finisher' = "relock"
  /\ UNCHANGED <<row, dbOpen, jobVars, registryVars, closing, closed, snapshot,
                 lifespan, aborted, del, acked, faultVars>>

FinisherClosed ==
  /\ finisher = "relock"
  /\ lock = NoJob
  /\ closed' = TRUE
  /\ finisher' = "done"
  /\ UNCHANGED <<row, dbOpen, jobVars, registryVars, closing, snapshot,
                 lifespan, aborted, del, acked, faultVars>>

\* shutdown() returns.  While it waits, cancelling it changes nothing: the
\* loop around the shielded await absorbs the cancellation until here.
LifespanWake ==
  /\ lifespan = "waiting"
  /\ finisher = "done"
  /\ lifespan' = "closeDb"
  /\ UNCHANGED <<row, dbOpen, jobVars, registryVars, closing, closed, finisher,
                 snapshot, aborted, del, acked, faultVars>>

\* Cancelled while it still waits for the lifecycle lock, shutdown() raises
\* before it signals anyone, and the lifespan's inner finally comes next.
LifespanCancelled ==
  /\ LifespanCancels
  /\ lifespan = "shutdown"
  /\ lock # NoJob
  /\ aborted' = TRUE
  /\ lifespan' = "closeDb"
  /\ UNCHANGED <<row, dbOpen, jobVars, registryVars, closing, closed, finisher,
                 snapshot, del, acked, faultVars>>

CloseDb ==
  /\ lifespan = "closeDb"
  /\ dbOpen' = FALSE
  /\ lifespan' = "closed"
  /\ UNCHANGED <<row, jobVars, registryVars, closing, closed, finisher,
                 snapshot, aborted, del, acked, faultVars>>

\* The process dies and starts again: rows stay, everything in memory is
\* rebuilt empty.  initialize() does not look at the rows it finds.
Restart ==
  /\ restarts < MaxRestarts
  /\ restarts' = restarts + 1
  /\ pc' = [j \in Jobs |-> IF pc[j] = "idle" \/ pc[j] \in EndedPc THEN pc[j] ELSE "lost"]
  /\ worker' = [j \in Jobs |-> "none"]
  /\ lock' = NoJob
  /\ cancelSet' = {} /\ events' = {} /\ tasks' = {}
  /\ closing' = FALSE /\ closed' = FALSE
  /\ finisher' = "none" /\ snapshot' = {} /\ lifespan' = "serving"
  /\ dbOpen' = TRUE
  /\ aborted' = FALSE
  /\ del' = [r \in Runs |-> IF del[r] \in {"idle", "done"} THEN del[r] ELSE "error"]
  /\ UNCHANGED <<row, units, acked, killed, faulted, faults>>

-----------------------------------------------------------------------------

\* What the event loop, the executor and the connection's thread carry out by
\* themselves: a job's coroutine, its thread, a DELETE handler, the shutdown.
SubmitStep(j) == SubmitEnter(j) \/ SubmitResume(j) \/ ScheduleFailedResume(j)
WriteStep(j) == Commit(j) \/ WriteRefused(j)
TaskStep(j) ==
  \/ TaskStart(j) \/ AcquirePermit(j) \/ WorkerOutcome(j) \/ Drained(j)
  \/ CompleteEnter(j) \/ CompleteResume(j) \/ TaskEnd(j)
CoroutineStep(j) == SubmitStep(j) \/ WriteStep(j) \/ TaskStep(j)
WorkerStep(j) == WorkerCheck(j) \/ WorkerWork(j) \/ WorkerReport(j)
DeleteStep(r) == DeleteSignal(r) \/ DeleteWake(r) \/ DeleteCommit(r)
ShutdownStep ==
  ShutdownSignal \/ FinisherGathered \/ FinisherClosed \/ LifespanWake \/ CloseDb

\* What clients and the environment may do.
ClientStep ==
  \/ \E j \in Jobs : SubmitCheck(j) \/ Cancel(j)
  \/ \E r \in Runs : DeleteStart(r)
FaultStep(j) ==
  ScheduleFails(j) \/ WriteFault(j) \/ WorkerReportFault(j) \/ TaskCancelled(j)

Next ==
  \/ \E j \in Jobs : CoroutineStep(j) \/ WorkerStep(j) \/ FaultStep(j)
  \/ \E r \in Runs : DeleteStep(r)
  \/ ShutdownStep
  \/ ClientStep
  \/ LifespanExit \/ LifespanCancelled \/ Restart

Spec == Init /\ [][Next]_vars

\* The loop runs every ready coroutine, the executor every thread, and the
\* connection every statement.  asyncio.Lock and asyncio.Semaphore queue
\* their waiters first come first served, so a coroutine that could go on
\* again and again does go on: strong fairness for what may wait for them.
Fairness ==
  /\ \A j \in Jobs : SF_vars(CoroutineStep(j)) /\ WF_vars(WorkerStep(j))
  /\ \A r \in Runs : SF_vars(DeleteStep(r))
  /\ SF_vars(ShutdownStep)

FairSpec == Spec /\ Fairness

-----------------------------------------------------------------------------
(* Properties.                                                             *)

\* Every variable has its type; threads never count past their last unit.
TypeOK ==
  /\ row \in [Jobs -> RowStatus]
  /\ dbOpen \in BOOLEAN
  /\ pc \in [Jobs -> SubmitPc \union TaskPc \union EndedPc]
  /\ worker \in [Jobs -> {"none"} \union Busy \union Stopped]
  /\ units \in [Jobs -> 0..Units]
  /\ lock \in Jobs \union {NoJob}
  /\ cancelSet \subseteq Jobs /\ events \subseteq Jobs /\ tasks \subseteq Jobs
  /\ closing \in BOOLEAN /\ closed \in BOOLEAN /\ aborted \in BOOLEAN
  /\ finisher \in {"none", "gather", "relock", "done"}
  /\ snapshot \subseteq Jobs
  /\ lifespan \in {"serving", "shutdown", "waiting", "closeDb", "closed"}
  /\ del \in [Runs -> {"idle", "entering", "waiting", "deleteWrite", "done", "error"}]
  /\ acked \subseteq Jobs /\ killed \subseteq Jobs /\ faulted \subseteq Jobs
  /\ faults \in Nat /\ restarts \in Nat

\* Once cancel(), DELETE or shutdown has signalled a job, its row never reads
\* "completed", however late the signal reached the finishing task: the Event
\* is set and read under one lock (run_manager.py, cancel and _execute_run).
\* Tasks cancelled by the loop itself are outside this promise.
CancelHonoured == \A j \in acked \ killed : row[j] # "completed"

\* A row that reads pending or running belongs to a job the manager can still
\* signal and await: its Event and its task are registered as soon as the
\* lifecycle lock is free, and until its terminal row is durable.
RowOwned ==
  \A j \in Jobs \ (killed \union faulted) :
    row[j] \in {"pending", "running"} /\ lock # j /\ pc[j] # "lost"
      => j \in events /\ j \in tasks

\* An executor thread only works for a task that holds a permit and a row that
\* reads running, so max_concurrent bounds threads and not merely tasks, even
\* while cancelled tasks drain (_await_worker).
WorkerOwned ==
  /\ \A j \in Jobs : worker[j] # "none" =>
       pc[j] \in {"worker", "draining"} /\ row[j] = "running"
  /\ Cardinality({j \in Jobs : worker[j] # "none"}) <= MaxConcurrent

QuietPc == {"idle", "prepared"} \union EndedPc

\* The database is closed only after every job's coroutine has left it: no
\* critical section, worker or terminal write remains (main.py, lifespan).
DbOutlivesJobs == ~dbOpen /\ ~aborted => \A j \in Jobs : pc[j] \in QuietPc

\* A DELETE that was answered is final: the job's coroutine is over and no late
\* status write brings the row back (cancel_and_wait, delete_run).
DeletedIsOver ==
  \A r \in Runs : del[r] = "done" => row[r] = "absent" /\ pc[r] \in EndedPc

\* Once shutdown has begun no submission leaves a row, however long ago it
\* passed its first check (submit, _submit_prepared).
ClosingRefuses ==
  [][\A j \in Jobs : closing /\ row[j] = "absent" => row'[j] = "absent"]_vars

\* A terminal status is written once: failing writes, late progress reports
\* and restarts never replace it, only a deletion removes it.
TerminalStable ==
  [][\A j \in Jobs \ killed' :
       row[j] \in Terminal => row'[j] \in {row[j], "absent"}]_vars

\* Every task ends, whatever fails or is cancelled on its way: nobody waits
\* forever for a permit, the lifecycle lock or a thread.
TasksEnd == \A j \in Jobs : (pc[j] \in TaskPc) ~> (pc[j] \in EndedPc)

\* shutdown() returns and the database is closed, although shutdown waits for
\* the tasks, and the tasks and submissions compete with it for the lock.
ShutdownCompletes == (lifespan = "shutdown") ~> (lifespan = "closed")

\* Every DELETE is answered, with success or with the task's error.
DeletesAnswered ==
  \A r \in Runs : (del[r] = "entering") ~> (del[r] \in {"done", "error"})

\* The rows and acknowledgements, seen as a client sees a job.
Lifecycle == INSTANCE JobLifecycle WITH status <- row, promised <- acked

\* Until a task is cancelled by the loop, a write or a scheduling fails or the
\* process dies, whatever the manager does with its rows and acknowledgements
\* is a step of the client's view of a job: one cancellation may be promised
\* while another job finishes, and no promise is broken (all of RunManager).
LifecycleStep ==
  [][killed' = {} /\ faulted' = {} /\ restarts' = 0
       => [Lifecycle!Next]_(Lifecycle!lifecycleVars)]_vars
=============================================================================

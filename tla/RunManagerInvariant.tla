------------------------- MODULE RunManagerInvariant -------------------------
(***************************************************************************)
(* An inductive invariant of RunManager.  The safety properties are not    *)
(* inductive: CancelHonoured, say, needs to know that an acknowledged job  *)
(* still carries its set Event when it comes to the completion section,    *)
(* and that nobody is inside that section while the lifecycle lock is      *)
(* free.  The conjuncts relate each program counter to the lock, the row,  *)
(* the registries, the thread, the shutdown and the DELETE handler.        *)
(***************************************************************************)
EXTENDS RunManager

\* The lock is held exactly by the coroutine inside a critical section.
LockInv == \A j \in Jobs : pc[j] \in LockPc <=> lock = j

\* What the row says at each program counter.
RowInv ==
  \A j \in Jobs :
    /\ pc[j] \in {"idle", "prepared", "createWrite"} => row[j] = "absent"
    /\ pc[j] \in {"createDone", "schedFailWrite", "new", "runningWrite"} => row[j] = "pending"
    /\ pc[j] \in {"permit", "worker", "draining", "relock", "completeWrite",
                  "cancelWrite"} => row[j] = "running"
    /\ pc[j] = "completeDone" => row[j] = "completed"
    /\ pc[j] = "failWrite" => row[j] = "running" \/ (row[j] = "pending" /\ j \in faulted)
    /\ pc[j] = "killedWrite" => row[j] \in {"pending", "running", "completed"}
    /\ pc[j] = "schedFailDone" => row[j] = "failed"
    /\ pc[j] \in {"ending", "endingRaise"} => row[j] \in {"failed", "cancelled"}
    /\ pc[j] = "done" => row[j] \in Terminal \union {"absent"}
    /\ pc[j] = "rejected" /\ j \notin faulted => row[j] = "absent"

\* Registered jobs are those with a task, but for one cancelled before its
\* first step, which leaves its entries behind.
RegistryInv ==
  \A j \in Jobs :
    /\ pc[j] \in TaskPc => j \in events /\ j \in tasks
    /\ j \in events \/ j \in tasks =>
         pc[j] \in TaskPc \/ (pc[j] = "raised" /\ j \in killed)

\* Who is responsible for the ways out that are not normal.
BlameInv ==
  \A j \in Jobs :
    /\ pc[j] \in {"draining", "killedWrite", "endingRaise"} => j \in killed
    /\ pc[j] = "raised" => j \in killed \/ j \in faulted
    /\ pc[j] \in {"schedFailWrite", "schedFailDone"} => j \in faulted

\* A thread belongs to a task at its await, and has work left while busy.
WorkerInv ==
  \A j \in Jobs :
    /\ worker[j] # "none" => pc[j] \in {"worker", "draining"}
    /\ worker[j] \in Busy => units[j] < Units
    /\ pc[j] \in SubmitPc \union {"new", "runningWrite", "permit"} => units[j] = 0

PermitInv == Cardinality(PermitHolders) <= MaxConcurrent

\* An acknowledged job has left submission, cannot be inside the completion
\* section, and carries its Event as long as it could still enter it.
AckInv ==
  \A j \in acked :
    /\ pc[j] \notin SubmitPc
    /\ j \notin killed =>
         /\ row[j] # "completed"
         /\ pc[j] \notin {"completeWrite", "completeDone"}
         /\ pc[j] \in RunningPc => j \in cancelSet

\* The stages of shutdown, and what is known of every job at each of them.
ShutdownInv ==
  /\ dbOpen <=> lifespan # "closed"
  /\ lifespan \in {"serving", "shutdown"} => finisher = "none" /\ ~aborted
  /\ lifespan \in {"closeDb", "closed"} => aborted \/ finisher = "done"
  /\ closing => finisher # "none"
  /\ finisher # "none" => closing /\ ~aborted
  /\ closed => closing
  /\ closing => \A j \in Jobs :
       /\ pc[j] \notin SubmitPc \ {"idle", "prepared"}
       /\ pc[j] \in TaskPc => j \in snapshot
  /\ finisher \in {"relock", "done"} => \A j \in Jobs : pc[j] \notin TaskPc

\* A DELETE handler goes on to the row only when the coroutine is over.
DeleteInv ==
  \A r \in Runs :
    /\ del[r] # "idle" => pc[r] \notin {"idle", "prepared", "createWrite"}
    /\ del[r] \in {"deleteWrite", "done"} => pc[r] \in EndedPc
    /\ del[r] = "done" => row[r] = "absent"

IInv ==
  /\ TypeOK
  /\ LockInv
  /\ RowInv
  /\ RegistryInv
  /\ BlameInv
  /\ WorkerInv
  /\ PermitInv
  /\ AckInv
  /\ ShutdownInv
  /\ DeleteInv
=============================================================================

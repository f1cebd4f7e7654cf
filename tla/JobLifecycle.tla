---------------------------- MODULE JobLifecycle ----------------------------
(***************************************************************************)
(* What a client of the API is promised about a background job, whoever    *)
(* carries it out: its durable status only moves forward, a job that was   *)
(* accepted ends, an ended job may be deleted, and a job whose             *)
(* cancellation was acknowledged never turns out completed.                *)
(***************************************************************************)
EXTENDS Naturals

CONSTANT Jobs

VARIABLES
  status,     \* durable status of each job, "absent" when it has no row
  promised    \* jobs whose cancellation was acknowledged

lifecycleVars == <<status, promised>>

Ended == {"completed", "failed", "cancelled"}

Init ==
  /\ status = [j \in Jobs |-> "absent"]
  /\ promised = {}

Accept(j) ==
  /\ status[j] = "absent"
  /\ status' = [status EXCEPT ![j] = "pending"]
  /\ UNCHANGED promised

Start(j) ==
  /\ status[j] = "pending"
  /\ status' = [status EXCEPT ![j] = "running"]
  /\ UNCHANGED promised

Finish(j, how) ==
  /\ status[j] = "running"
  /\ how = "completed" => j \notin promised
  /\ status' = [status EXCEPT ![j] = how]
  /\ UNCHANGED promised

\* An acknowledgement may still reach a job that has just failed or stopped,
\* never one that is already completed.
Promise(jobs) ==
  /\ \A j \in jobs : status[j] \notin {"absent", "completed"}
  /\ promised' = promised \union jobs
  /\ UNCHANGED status

Remove(j) ==
  /\ status[j] \in Ended
  /\ status' = [status EXCEPT ![j] = "absent"]
  /\ UNCHANGED promised

Progress(j) == Start(j) \/ \E how \in Ended : Finish(j, how)

Next ==
  \/ \E j \in Jobs : Accept(j) \/ Progress(j) \/ Remove(j)
  \/ \E jobs \in SUBSET Jobs : Promise(jobs)

Spec ==
  /\ Init
  /\ [][Next]_lifecycleVars
  /\ \A j \in Jobs : WF_lifecycleVars(Progress(j))
=============================================================================

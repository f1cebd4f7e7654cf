--------------------------- MODULE ProgressStream ---------------------------
(***************************************************************************)
(* The progress feed of one background job (api/run_manager.py) and the    *)
(* WebSocket handlers that read it (api/routers/runs.py).                  *)
(*                                                                         *)
(* The job's thread hands progress to the event loop; the loop puts it in  *)
(* the bounded queue of every subscriber; each subscriber's handler takes  *)
(* messages from its queue and sends them to its client.  A run posts one  *)
(* callback per queue and goes on (call_soon_threadsafe); a batch waits    *)
(* for a coroutine that writes the database and then fills the queues      *)
(* (run_coroutine_threadsafe(...).result()).  When the job's task ends it  *)
(* puts a sentinel in every queue and forgets the job.                     *)
(***************************************************************************)
EXTENDS Naturals, Sequences

CONSTANTS
  Subscribers,   \* WebSocket handlers that may subscribe, each once
  Capacity,      \* maxsize of a subscriber's queue (100 in the code)
  Ticks,         \* progress messages the thread may produce
  Kinds          \* subset of {"run", "batch"}

ASSUME FeedAssumption ==
  /\ Capacity \in Nat \ {0}
  /\ Ticks \in Nat
  /\ Kinds \subseteq {"run", "batch"}

\* Messages are tick numbers; the sentinel None sorts after all of them.
End == Ticks + 1
Message == 1..End
Nothing == 0

VARIABLES
  kind,      \* whether the job is a run or a batch
  thread,    \* the executor thread
  tick,      \* the last progress it produced
  posting,   \* queues of its list() copy it has yet to post to
  ready,     \* callbacks the thread has scheduled on the loop, in order
  task,      \* the job's task
  listed,    \* the job has an entry in _progress_queues
  subs,      \* the subscribers in that entry
  queue,     \* the subscribers' queues
  ws,        \* where each handler is
  current,   \* the message a handler has taken and not yet sent
  last       \* history: the last message each handler sent

vars == <<kind, thread, tick, posting, ready, task, listed, subs, queue, ws,
          current, last>>

Init ==
  /\ kind \in Kinds
  /\ thread = "running" /\ tick = 0 /\ posting = {} /\ ready = <<>>
  /\ task = "awaiting"
  /\ listed = TRUE /\ subs = {}
  /\ queue = [s \in Subscribers |-> <<>>]
  /\ ws = [s \in Subscribers |-> "idle"]
  /\ current = [s \in Subscribers |-> Nothing]
  /\ last = [s \in Subscribers |-> Nothing]

-----------------------------------------------------------------------------
(* The thread.                                                             *)

\* A tick or iteration that is reported.
Produce ==
  /\ thread = "running"
  /\ tick < Ticks
  /\ tick' = tick + 1
  /\ \/ /\ kind = "run"
        /\ thread' = "posting"
        /\ posting' = subs
        /\ UNCHANGED ready
     \/ /\ kind = "batch"
        /\ thread' = "waiting"
        /\ ready' = Append(ready, [what |-> "record", tick |-> tick + 1])
        /\ UNCHANGED posting
  /\ UNCHANGED <<kind, task, listed, subs, queue, ws, current, last>>

\* One call_soon_threadsafe per queue of the copied list.
Post(s) ==
  /\ thread = "posting"
  /\ s \in posting
  /\ posting' = posting \ {s}
  /\ ready' = Append(ready, [what |-> "put", tick |-> tick, to |-> s])
  /\ UNCHANGED <<kind, thread, tick, task, listed, subs, queue, ws, current, last>>

Posted ==
  /\ thread = "posting"
  /\ posting = {}
  /\ thread' = "running"
  /\ UNCHANGED <<kind, tick, posting, ready, task, listed, subs, queue, ws,
                 current, last>>

\* The thread is finished, is cancelled or raises: its future's callback is
\* queued behind everything it has scheduled.
Return ==
  /\ thread \in {"running", "raising"}
  /\ thread' = "returned"
  /\ ready' = Append(ready, [what |-> "wake", tick |-> tick])
  /\ UNCHANGED <<kind, tick, posting, task, listed, subs, queue, ws, current, last>>

-----------------------------------------------------------------------------
(* The event loop.                                                         *)

\* Mutant: the queue of a subscriber is unbounded.
MutPutProgress(q, m) == Append(q, m)

\* _put_progress: best effort, a full queue loses the new message.
PutProgress(q, m) == IF Len(q) < Capacity THEN Append(q, m) ELSE q

\* Mutant: the sentinel is put with the same best effort as progress.
MutSignalTerminal(q) == PutProgress(q, End)

\* _signal_terminal: a full queue loses its oldest message to the sentinel.
SignalTerminal(q) == Append(IF Len(q) < Capacity THEN q ELSE Tail(q), End)

NextCallback(what) == ready # <<>> /\ Head(ready).what = what /\ ready' = Tail(ready)

\* Mutant: progress waits for room in the queue of a slow client.
MutRunPut ==
  /\ NextCallback("put")
  /\ LET s == Head(ready).to IN
       /\ Len(queue[s]) < Capacity
       /\ queue' = [queue EXCEPT ![s] = Append(@, Head(ready).tick)]
  /\ UNCHANGED <<kind, thread, tick, posting, task, listed, subs, ws, current, last>>

RunPut ==
  /\ NextCallback("put")
  /\ LET s == Head(ready).to IN
       queue' = [queue EXCEPT ![s] = PutProgress(@, Head(ready).tick)]
  /\ UNCHANGED <<kind, thread, tick, posting, task, listed, subs, ws, current, last>>

\* _record_batch_progress after its write: every queue listed by then is
\* filled and the waiting thread goes on.  If the write fails the thread's
\* wait raises, and the batch with it.
RunRecord ==
  /\ NextCallback("record")
  /\ \/ /\ queue' = [s \in Subscribers |->
                       IF s \in subs THEN PutProgress(queue[s], Head(ready).tick)
                       ELSE queue[s]]
        /\ thread' = "running"
     \/ /\ thread' = "raising"
        /\ UNCHANGED queue
  /\ UNCHANGED <<kind, tick, posting, task, listed, subs, ws, current, last>>

\* Mutant: a cancelled task does not wait for its thread.
MutRunWake ==
  /\ task = "awaiting"
  /\ task' = "finishing"
  /\ UNCHANGED <<kind, thread, tick, posting, ready, listed, subs, queue, ws,
                 current, last>>

\* The task resumes behind _await_worker, cancelled or not, and writes its
\* terminal status under the lifecycle lock.
RunWake ==
  /\ NextCallback("wake")
  /\ task' = "finishing"
  /\ UNCHANGED <<kind, thread, tick, posting, listed, subs, queue, ws, current, last>>

\* The finally block: sentinels to the copied list, then the entry is popped.
Finish ==
  /\ task = "finishing"
  /\ task' = "ended"
  /\ queue' = [s \in Subscribers |->
                 IF s \in subs THEN SignalTerminal(queue[s]) ELSE queue[s]]
  /\ listed' = FALSE
  /\ subs' = {}
  /\ UNCHANGED <<kind, thread, tick, posting, ready, ws, current, last>>

-----------------------------------------------------------------------------
(* The handlers: run_progress_ws and batch_progress_ws.                    *)

\* subscribe: a fresh queue, or None when the job is not active.
Subscribe(s) ==
  /\ ws[s] = "idle"
  /\ IF listed
       THEN /\ ws' = [ws EXCEPT ![s] = "accepting"]
            /\ subs' = subs \union {s}
       ELSE /\ ws' = [ws EXCEPT ![s] = "refused"]
            /\ UNCHANGED subs
  /\ UNCHANGED <<kind, thread, tick, posting, ready, task, listed, queue, current, last>>

\* websocket.accept(): a client that is gone by then leaves its queue behind,
\* the try block that would unsubscribe it has not been entered.
Accept(s) ==
  /\ ws[s] = "accepting"
  /\ \E next \in {"reading", "gone"} : ws' = [ws EXCEPT ![s] = next]
  /\ UNCHANGED <<kind, thread, tick, posting, ready, task, listed, subs, queue,
                 current, last>>

\* await queue.get()
Get(s) ==
  /\ ws[s] = "reading"
  /\ queue[s] # <<>>
  /\ current' = [current EXCEPT ![s] = Head(queue[s])]
  /\ queue' = [queue EXCEPT ![s] = Tail(@)]
  /\ ws' = [ws EXCEPT ![s] = "sending"]
  /\ UNCHANGED <<kind, thread, tick, posting, ready, task, listed, subs, last>>

\* await send_json: the sentinel becomes "complete" and ends the loop.
Send(s) ==
  /\ ws[s] = "sending"
  /\ last' = [last EXCEPT ![s] = current[s]]
  /\ current' = [current EXCEPT ![s] = Nothing]
  /\ IF current[s] = End
       THEN /\ ws' = [ws EXCEPT ![s] = "complete"]
            /\ subs' = subs \ {s}
       ELSE /\ ws' = [ws EXCEPT ![s] = "reading"]
            /\ UNCHANGED subs
  /\ UNCHANGED <<kind, thread, tick, posting, ready, task, listed, queue>>

\* WebSocketDisconnect out of the send: the finally block unsubscribes.
Disconnect(s) ==
  /\ ws[s] = "sending"
  /\ current' = [current EXCEPT ![s] = Nothing]
  /\ ws' = [ws EXCEPT ![s] = "gone"]
  /\ subs' = subs \ {s}
  /\ UNCHANGED <<kind, thread, tick, posting, ready, task, listed, queue, last>>

-----------------------------------------------------------------------------

ThreadStep == Produce \/ (\E s \in Subscribers : Post(s)) \/ Posted \/ Return
LoopStep == RunPut \/ RunRecord \/ RunWake \/ Finish
HandlerStep(s) == Accept(s) \/ Get(s) \/ Send(s)

Next ==
  \/ ThreadStep
  \/ LoopStep
  \/ \E s \in Subscribers : Subscribe(s) \/ HandlerStep(s) \/ Disconnect(s)

Spec == Init /\ [][Next]_vars

\* The thread and the loop run.  Nothing is assumed of clients: their handlers
\* may sit in accept() or send_json() for ever.
JobFairness == WF_vars(ThreadStep) /\ WF_vars(LoopStep)
JobSpec == Spec /\ JobFairness

\* A client that takes what it is sent, or disconnects.
FairClient(s) == WF_vars(HandlerStep(s) \/ Disconnect(s))

-----------------------------------------------------------------------------
(* Properties.                                                             *)

\* Every variable has its type and no queue exceeds its maxsize.
TypeOK ==
  /\ kind \in {"run", "batch"}
  /\ thread \in {"running", "posting", "waiting", "raising", "returned"}
  /\ tick \in 0..Ticks
  /\ posting \subseteq Subscribers
  /\ \A i \in 1..Len(ready) :
       ready[i].what \in {"put", "record", "wake"} /\ ready[i].tick \in 0..Ticks
  /\ task \in {"awaiting", "finishing", "ended"}
  /\ listed \in BOOLEAN
  /\ subs \subseteq Subscribers
  /\ queue \in [Subscribers -> Seq(Message)]
  /\ \A s \in Subscribers : Len(queue[s]) <= Capacity
  /\ ws \in [Subscribers -> {"idle", "accepting", "reading", "sending", "complete",
                             "refused", "gone"}]
  /\ current \in [Subscribers -> {Nothing} \union Message]
  /\ last \in [Subscribers -> {Nothing} \union Message]

\* What a handler has sent, holds and will still find in its queue.
Feed(s) ==
  (IF last[s] = Nothing THEN <<>> ELSE <<last[s]>>)
    \o (IF current[s] = Nothing THEN <<>> ELSE <<current[s]>>) \o queue[s]

\* A client sees progress strictly advance and nothing after "complete":
\* messages may be lost to a full queue, never repeated, reordered or put
\* behind the sentinel (_put_progress, _signal_terminal, _await_worker).
FeedOrdered ==
  \A s \in Subscribers : \A i, k \in 1..Len(Feed(s)) :
    i < k => Feed(s)[i] < Feed(s)[k]

\* When the job has ended, every handler still connected has the sentinel ahead
\* of it, also one that subscribed at the last moment or whose queue was full.
SentinelDelivered ==
  task = "ended" => \A s \in Subscribers :
    ws[s] \in {"accepting", "reading", "sending"} =>
      current[s] = End \/ (queue[s] # <<>> /\ queue[s][Len(queue[s])] = End)

\* No client can hold up the job, which ends although nobody reads its progress
\* (_put_progress drops, _signal_terminal makes room), and every subscriber
\* that reads on is told so, unless it disconnects.
SubscribersAreTold ==
  /\ <>(task = "ended")
  /\ \A s \in Subscribers : FairClient(s) =>
       (ws[s] = "accepting") ~> (ws[s] \in {"complete", "gone"})
=============================================================================

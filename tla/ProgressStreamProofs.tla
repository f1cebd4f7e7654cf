------------------------ MODULE ProgressStreamProofs ------------------------
(***************************************************************************)
(* Proofs about ProgressStream, for any number of subscribers, queues of   *)
(* any size and any number of messages: what a client receives advances    *)
(* strictly and ends with the sentinel, and when the job has ended the     *)
(* sentinel lies ahead of every handler that is still connected.           *)
(***************************************************************************)
EXTENDS ProgressStream, SequenceTheorems, TLAPS

-----------------------------------------------------------------------------
(* The inductive invariant.                                                *)

Callback ==
  [what : {"put"}, tick : 1..Ticks, to : Subscribers]
    \union [what : {"record"}, tick : 1..Ticks] \union [what : {"wake"}, tick : 0..Ticks]

IsPut(i, s) == ready[i].what = "put" /\ ready[i].to = s

\* The thread, its callbacks and the task take turns: a batch waits for its
\* record, the wake-up is the last callback, and the task goes on behind it.
JobInv ==
  /\ ready \in Seq(Callback)
  /\ posting # {} => thread = "posting"
  /\ thread = "posting" => kind = "run" /\ tick >= 1
  /\ thread = "waiting" => kind = "batch"
  /\ kind = "batch" =>
       /\ Len(ready) <= 1
       /\ thread \in {"running", "raising"} => ready = <<>>
  /\ \A i \in 1..Len(ready) :
       /\ ready[i].what = "put" => kind = "run"
       /\ ready[i].what = "record" => kind = "batch"
       /\ ready[i].what = "wake" => i = Len(ready) /\ thread = "returned"
       /\ ready[i].tick <= tick
  /\ task # "awaiting" => ready = <<>> /\ thread = "returned"
  /\ listed <=> task # "ended"

\* All that handler s has sent, holds or will find comes before t.
Below(s, t) ==
  last[s] < t /\ current[s] < t /\ \A i \in 1..Len(queue[s]) : queue[s][i] < t

\* What lies in a feed is in order, and nothing in it is from the future.
OrderInv(s) ==
  /\ \A i, k \in 1..Len(queue[s]) : i < k => queue[s][i] < queue[s][k]
  /\ \A i \in 1..Len(queue[s]) : last[s] < queue[s][i] /\ current[s] < queue[s][i]
  /\ current[s] # Nothing => last[s] < current[s]
  /\ task # "ended" => Below(s, tick + 1)

\* What is still on its way to a queue is newer than all that is in it.
FlowInv(s) ==
  /\ \A i \in 1..Len(ready) :
       /\ IsPut(i, s) => Below(s, ready[i].tick) /\ (s \in posting => ready[i].tick < tick)
       /\ ready[i].what = "record" => Below(s, ready[i].tick)
  /\ \A i, k \in 1..Len(ready) :
       i < k /\ IsPut(i, s) /\ IsPut(k, s) => ready[i].tick < ready[k].tick
  /\ s \in posting => Below(s, tick)

\* A connected handler is subscribed until the job ends, and then it has the
\* sentinel ahead of it.
ConnectedInv(s) ==
  ws[s] \in {"accepting", "reading", "sending"} =>
    IF task # "ended" THEN s \in subs
    ELSE current[s] = End \/ (queue[s] # <<>> /\ queue[s][Len(queue[s])] = End)

IInv ==
  /\ TypeOK /\ JobInv
  /\ \A s \in Subscribers : OrderInv(s) /\ FlowInv(s) /\ ConnectedInv(s)

-----------------------------------------------------------------------------
(* The queues.                                                             *)

\* _put_progress: one message at most joins at the end, and none too many.
LEMMA PutFacts ==
  ASSUME NEW q \in Seq(Message), Len(q) <= Capacity, NEW m \in Message
  PROVE  /\ PutProgress(q, m) \in Seq(Message) /\ Len(PutProgress(q, m)) <= Capacity
         /\ \A i \in 1..Len(PutProgress(q, m)) :
              \/ i \in 1..Len(q) /\ PutProgress(q, m)[i] = q[i]
              \/ i = Len(q) + 1 /\ PutProgress(q, m)[i] = m
<1>1. Capacity \in Nat /\ Len(q) \in Nat
  BY FeedAssumption
<1>2. CASE Len(q) < Capacity
  <2>1. PutProgress(q, m) = Append(q, m)
    BY <1>2 DEF PutProgress
  <2>2. /\ Append(q, m) \in Seq(Message) /\ Len(Append(q, m)) = Len(q) + 1
        /\ \A i \in 1..Len(q) : Append(q, m)[i] = q[i]
        /\ Append(q, m)[Len(q) + 1] = m
    BY AppendProperties
  <2> QED
    BY <1>1, <1>2, <2>1, <2>2
<1>3. CASE ~(Len(q) < Capacity)
  BY <1>1, <1>3 DEF PutProgress
<1> QED
  BY <1>2, <1>3

\* _signal_terminal: the sentinel joins at the end, the oldest message may go.
LEMMA SignalFacts ==
  ASSUME NEW q \in Seq(Message), Len(q) <= Capacity
  PROVE  /\ SignalTerminal(q) \in Seq(Message) /\ Len(SignalTerminal(q)) <= Capacity
         /\ SignalTerminal(q) # <<>>
         /\ SignalTerminal(q)[Len(SignalTerminal(q))] = End
         /\ \E d \in 0..1 : /\ Len(SignalTerminal(q)) = Len(q) + 1 - d
                            /\ \A i \in 1..Len(SignalTerminal(q)) :
                                 \/ /\ i + d \in 1..Len(q)
                                    /\ SignalTerminal(q)[i] = q[i + d]
                                 \/ i + d = Len(q) + 1 /\ SignalTerminal(q)[i] = End
<1> DEFINE r == IF Len(q) < Capacity THEN q ELSE Tail(q)
           d == IF Len(q) < Capacity THEN 0 ELSE 1
<1>1. Capacity \in Nat /\ Capacity > 0 /\ Len(q) \in Nat /\ End \in Message
  BY FeedAssumption DEF End, Message
<1>2. /\ r \in Seq(Message) /\ Len(r) = Len(q) - d
      /\ Len(r) < Capacity /\ d \in 0..1
      /\ \A i \in 1..Len(r) : i + d \in 1..Len(q) /\ r[i] = q[i + d]
  <2>1. CASE Len(q) < Capacity
    BY <1>1, <2>1
  <2>2. CASE ~(Len(q) < Capacity)
    <3>1. q # <<>> /\ Len(q) = Capacity
      BY <1>1, <2>2
    <3>2. /\ Tail(q) \in Seq(Message) /\ Len(Tail(q)) = Len(q) - 1
          /\ \A i \in 1..Len(Tail(q)) : Tail(q)[i] = q[i + 1]
      BY <3>1, HeadTailProperties
    <3> QED
      BY <1>1, <2>2, <3>1, <3>2
  <2> QED
    BY <2>1, <2>2
<1>3. SignalTerminal(q) = Append(r, End)
  BY DEF SignalTerminal
<1> HIDE DEF r, d
<1>4. /\ Append(r, End) \in Seq(Message) /\ Len(Append(r, End)) = Len(r) + 1
      /\ \A i \in 1..Len(r) : Append(r, End)[i] = r[i]
      /\ Append(r, End)[Len(r) + 1] = End
  BY <1>1, <1>2, AppendProperties
<1>5. Append(r, End) # <<>>
  <2>1. Len(r) \in Nat
    BY <1>2
  <2> QED
    BY <1>4, <2>1
<1>6. \A i \in 1..Len(Append(r, End)) :
        \/ i + d \in 1..Len(q) /\ Append(r, End)[i] = q[i + d]
        \/ i + d = Len(q) + 1 /\ Append(r, End)[i] = End
  BY <1>1, <1>2, <1>4
<1> QED
  BY <1>1, <1>2, <1>3, <1>4, <1>5, <1>6

\* Taking the first callback.
LEMMA NextFacts ==
  ASSUME IInv, NEW what, NextCallback(what)
  PROVE  /\ Len(ready) \in Nat /\ 1 \in 1..Len(ready) /\ ready[1].what = what
         /\ Head(ready) = ready[1] /\ ready[1] \in Callback
         /\ ready' \in Seq(Callback) /\ Len(ready') = Len(ready) - 1
         /\ \A i \in 1..Len(ready') : i + 1 \in 1..Len(ready) /\ ready'[i] = ready[i + 1]
         /\ task = "awaiting"
<1>1. ready \in Seq(Callback) /\ ready # <<>> /\ ready' = Tail(ready) /\ Head(ready).what = what
  BY DEF IInv, JobInv, NextCallback
<1>2. /\ Head(ready) = ready[1] /\ Len(ready) \in Nat /\ Len(ready) >= 1
      /\ Tail(ready) \in Seq(Callback) /\ Len(Tail(ready)) = Len(ready) - 1
      /\ \A i \in 1..Len(Tail(ready)) : Tail(ready)[i] = ready[i + 1]
  BY <1>1, HeadTailProperties
<1>3. ready[1] \in Callback
  BY <1>1, <1>2
<1>4. \A i \in 1..(Len(ready) - 1) : i + 1 \in 1..Len(ready)
  BY <1>2
<1>5. task \in {"awaiting", "finishing", "ended"} /\ (task # "awaiting" => ready = <<>>)
  BY DEF IInv, JobInv, TypeOK
<1> QED
  BY <1>1, <1>2, <1>3, <1>4, <1>5

\* Scheduling one more.
LEMMA ScheduleFacts ==
  ASSUME IInv, NEW c \in Callback, ready' = Append(ready, c)
  PROVE  /\ Len(ready) \in Nat /\ ready' \in Seq(Callback) /\ Len(ready') = Len(ready) + 1
         /\ ready'[Len(ready) + 1] = c
         /\ \A i \in 1..Len(ready') : i = Len(ready) + 1 \/ i \in 1..Len(ready)
         /\ \A i \in 1..Len(ready) : ready'[i] = ready[i]
<1>1. ready \in Seq(Callback)
  BY DEF IInv, JobInv
<1> QED
  BY <1>1, AppendProperties

\* The messages of a feed are numbers.
LEMMA FeedTypes ==
  ASSUME IInv, NEW s \in Subscribers
  PROVE  /\ last[s] \in 0..End /\ current[s] \in 0..End /\ queue[s] \in Seq(Message)
         /\ Len(queue[s]) \in Nat /\ Len(queue[s]) <= Capacity
         /\ \A i \in 1..Len(queue[s]) : queue[s][i] \in 1..End
         /\ tick \in 0..Ticks /\ Ticks \in Nat /\ End = Ticks + 1 /\ End \in Message
         /\ \A i \in 1..Len(ready) : ready[i] \in Callback
<1>1. Ticks \in Nat
  BY FeedAssumption
<1> QED
  BY <1>1 DEF IInv, JobInv, TypeOK, Message, Nothing, End

-----------------------------------------------------------------------------
(* The thread and the task.                                                *)

LEMMA InitEstablishesInv == Init => IInv
<1> SUFFICES ASSUME Init PROVE IInv
  OBVIOUS
<1>0. /\ Ticks \in Nat /\ Capacity \in Nat /\ Nothing = 0 /\ Len(<<>>) = 0 /\ 1..0 = {}
      /\ <<>> \in Seq(Callback)
  BY FeedAssumption DEF Nothing
<1>1. TypeOK
  BY <1>0, FeedAssumption DEF Init, TypeOK
<1>2. JobInv
  BY <1>0 DEF Init, JobInv
<1>3. ASSUME NEW s \in Subscribers PROVE OrderInv(s) /\ FlowInv(s) /\ ConnectedInv(s)
  BY <1>0 DEF Init, OrderInv, FlowInv, ConnectedInv, Below
<1> QED
  BY <1>1, <1>2, <1>3 DEF IInv

\* A feed that stays as it is.
LEMMA SameFeed ==
  ASSUME NEW s \in Subscribers, queue'[s] = queue[s], last'[s] = last[s],
         current'[s] = current[s], NEW t
  PROVE  Below(s, t)' <=> Below(s, t)
BY DEF Below

\* Steps that schedule callbacks and touch no feed.
LEMMA FeedsKept ==
  ASSUME IInv, UNCHANGED <<subs, queue, ws, current, last>>, tick' \in Nat, tick' >= tick,
         task' = task \/ (task = "awaiting" /\ task' = "finishing")
  PROVE  \A s \in Subscribers : OrderInv(s)' /\ ConnectedInv(s)'
<1> SUFFICES ASSUME NEW s \in Subscribers PROVE OrderInv(s)' /\ ConnectedInv(s)'
  OBVIOUS
<1>1. OrderInv(s) /\ ConnectedInv(s)
  BY DEF IInv
<1>2. task' # "ended" => Below(s, tick + 1)'
  <2>1. task' # "ended" => Below(s, tick + 1)
    BY <1>1 DEF OrderInv
  <2>2. Below(s, tick + 1) => Below(s, tick' + 1)
    <3>1. /\ last[s] \in Int /\ current[s] \in Int /\ tick \in Int /\ tick' \in Int
          /\ \A i \in 1..Len(queue[s]) : queue[s][i] \in Int
      BY FeedTypes
    <3>2. ASSUME NEW n \in Int, NEW t \in Int, NEW u \in Int, t <= u, n < t + 1 PROVE n < u + 1
      BY <3>2
    <3>3. \A n \in Int : n < tick + 1 => n < tick' + 1
      BY <3>1, <3>2, Zenon
    <3> QED
      BY <3>1, <3>3, Zenon DEF Below
  <2>3. Below(s, tick + 1)' <=> Below(s, tick' + 1)
    BY DEF Below
  <2> QED
    BY <2>1, <2>2, <2>3
<1>3. OrderInv(s)'
  BY <1>1, <1>2 DEF OrderInv
<1>4. ConnectedInv(s)'
  BY <1>1 DEF ConnectedInv
<1> QED
  BY <1>3, <1>4

\* A reported tick is newer than everything on its way.
LEMMA ProduceKeepsInv ==
  ASSUME IInv, Produce
  PROVE  IInv'
<1>0. /\ thread = "running" /\ tick < Ticks /\ tick' = tick + 1 /\ tick \in Nat /\ Ticks \in Nat
      /\ UNCHANGED <<kind, task, listed, subs, queue, ws, current, last>>
  BY FeedAssumption DEF IInv, TypeOK, Produce
<1>1. /\ posting = {} /\ task = "awaiting" /\ ready \in Seq(Callback) /\ Len(ready) \in Nat
      /\ \A i \in 1..Len(ready) : ready[i] \in Callback /\ ready[i].tick \in Nat /\ ready[i].tick <= tick
  BY <1>0, FeedAssumption DEF IInv, JobInv, Callback
<1>2. \A s \in Subscribers : OrderInv(s)' /\ ConnectedInv(s)'
  BY <1>0, FeedsKept
<1>3. \A s \in Subscribers : Below(s, tick + 1)
  BY <1>1 DEF IInv, OrderInv
<1>4. CASE kind = "run" /\ thread' = "posting" /\ posting' = subs /\ UNCHANGED ready
  <2>1. TypeOK'
    BY <1>0, <1>4 DEF IInv, TypeOK
  <2>2. JobInv'
    BY <1>0, <1>1, <1>4 DEF IInv, JobInv
  <2>3. ASSUME NEW s \in Subscribers PROVE FlowInv(s)'
    <3>1. FlowInv(s) /\ \A t : Below(s, t)' <=> Below(s, t)
      BY <1>0, SameFeed DEF IInv
    <3>2. Below(s, tick)'
      BY <1>0, <1>3 DEF Below
    <3>3. \A i \in 1..Len(ready) : ready[i].tick < tick'
      BY <1>0, <1>1
    <3>4. ASSUME NEW i \in 1..Len(ready)
          PROVE  (IsPut(i, s) \/ ready[i].what = "record" => Below(s, ready[i].tick))'
      <4>1. IsPut(i, s) \/ ready[i].what = "record" => Below(s, ready[i].tick)
        BY <3>1 DEF FlowInv
      <4> QED
        BY <1>0, <1>4, <4>1 DEF IsPut, Below
    <3> QED
      BY <1>4, <3>1, <3>2, <3>3, <3>4 DEF FlowInv, IsPut
  <2> QED
    BY <1>2, <2>1, <2>2, <2>3 DEF IInv
<1>5. CASE /\ kind = "batch" /\ thread' = "waiting" /\ UNCHANGED posting
           /\ ready' = Append(ready, [what |-> "record", tick |-> tick + 1])
  <2> DEFINE c == [what |-> "record", tick |-> tick + 1]
  <2>0. ready = <<>> /\ Len(ready) = 0
    BY <1>0, <1>5 DEF IInv, JobInv
  <2>1. c \in Callback /\ c.what = "record" /\ c.tick = tick'
    BY <1>0 DEF Callback
  <2>2. Len(ready') = 1 /\ ready'[1] = c /\ ready' \in Seq(Callback)
    BY <1>5, <2>0, <2>1, ScheduleFacts
  <2>3. \A i \in 1..Len(ready') : i = 1 /\ ready'[i] = c
    BY <2>2
  <2> HIDE DEF c
  <2>4. TypeOK'
    BY <1>0, <1>5, <2>1, <2>3 DEF IInv, TypeOK
  <2>5. JobInv'
    BY <1>0, <1>1, <1>5, <2>1, <2>2, <2>3 DEF IInv, JobInv
  <2>6. ASSUME NEW s \in Subscribers PROVE FlowInv(s)'
    <3>1. Below(s, tick)'
      BY <1>0, <1>3 DEF Below
    <3>2. \A i \in 1..Len(ready') : Below(s, ready[i].tick)'
      BY <2>1, <2>3, <3>1
    <3> QED
      BY <1>1, <1>5, <2>1, <2>3, <3>2 DEF FlowInv, IsPut
  <2> QED
    BY <1>2, <2>4, <2>5, <2>6 DEF IInv
<1> QED
  BY <1>0, <1>4, <1>5 DEF Produce

\* A callback is scheduled behind the earlier ones, once for each queue.
LEMMA PostKeepsInv ==
  ASSUME IInv, NEW r \in Subscribers, Post(r)
  PROVE  IInv'
<1> DEFINE c == [what |-> "put", tick |-> tick, to |-> r]
<1>0. /\ thread = "posting" /\ r \in posting /\ posting' = posting \ {r}
      /\ ready' = Append(ready, c) /\ tick \in Nat /\ kind = "run" /\ tick >= 1
      /\ UNCHANGED <<kind, thread, tick, task, listed, subs, queue, ws, current, last>>
  BY FeedAssumption DEF IInv, JobInv, TypeOK, Post
<1>1. c \in Callback /\ c.what = "put" /\ c.tick = tick /\ c.to = r
  BY <1>0 DEF IInv, TypeOK, Callback
<1> HIDE DEF c
<1>2. /\ Len(ready) \in Nat /\ ready' \in Seq(Callback) /\ Len(ready') = Len(ready) + 1
      /\ ready'[Len(ready) + 1] = c
      /\ \A i \in 1..Len(ready') : i = Len(ready) + 1 \/ i \in 1..Len(ready)
      /\ \A i \in 1..Len(ready) : ready'[i] = ready[i]
  BY <1>0, <1>1, ScheduleFacts
<1>3. \A s \in Subscribers : OrderInv(s)' /\ ConnectedInv(s)'
  BY <1>0, FeedsKept
<1>4. task = "awaiting"
  BY <1>0 DEF IInv, JobInv, TypeOK
<1>5. TypeOK'
  <2>1. \A i \in 1..Len(ready') :
          ready'[i].what \in {"put", "record", "wake"} /\ ready'[i].tick \in 0..Ticks
    BY <1>0, <1>1, <1>2 DEF IInv, TypeOK
  <2> QED
    BY <1>0, <2>1 DEF IInv, TypeOK
<1>6. JobInv'
  <2>1. \A i \in 1..Len(ready) : ready[i].what # "wake" /\ ready[i].tick <= tick
                                  /\ ready[i].what # "record"
    BY <1>0 DEF IInv, JobInv
  <2>2. \A i \in 1..Len(ready') : ready'[i].what = "put" /\ ready'[i].tick <= tick
    <3>1. \A i \in 1..Len(ready) : ready[i].what \in {"put", "record", "wake"}
      BY DEF IInv, TypeOK
    <3> QED
      BY <1>0, <1>1, <1>2, <2>1, <3>1
  <2> QED
    BY <1>0, <1>2, <1>4, <2>2 DEF IInv, JobInv
<1>7. ASSUME NEW s \in Subscribers PROVE FlowInv(s)'
  <2>1. FlowInv(s) /\ \A t : Below(s, t)' <=> Below(s, t)
    BY <1>0, SameFeed DEF IInv
  <2>2. ASSUME NEW i \in 1..Len(ready')
        PROVE  /\ IsPut(i, s)' => Below(s, ready[i].tick)' /\ (s \in posting' => ready'[i].tick < tick)
               /\ ready'[i].what = "record" => Below(s, ready[i].tick)'
    <3>1. CASE i = Len(ready) + 1
      <4>1. IsPut(i, s)' => s = r /\ s \notin posting' /\ ready'[i].tick = tick
        BY <1>0, <1>1, <1>2, <3>1 DEF IsPut
      <4>2. s = r => Below(s, tick)'
        BY <1>0, <2>1 DEF FlowInv, Below
      <4> QED
        BY <1>0, <1>1, <1>2, <3>1, <4>1, <4>2 DEF Below
    <3>2. CASE i \in 1..Len(ready)
      <4>1. ready'[i] = ready[i] /\ (IsPut(i, s)' <=> IsPut(i, s))
        BY <1>2, <3>2 DEF IsPut
      <4>2. /\ IsPut(i, s) => Below(s, ready[i].tick) /\ (s \in posting => ready[i].tick < tick)
            /\ ready[i].what = "record" => Below(s, ready[i].tick)
        BY <2>1, <3>2 DEF FlowInv
      <4>3. Below(s, ready[i].tick) => Below(s, ready[i].tick)'
        BY <1>0, <4>1 DEF Below
      <4> QED
        BY <1>0, <4>1, <4>2, <4>3
    <3> QED
      BY <1>2, <3>1, <3>2
  <2>3. ASSUME NEW i \in 1..Len(ready'), NEW k \in 1..Len(ready'), i < k,
               IsPut(i, s)', IsPut(k, s)'
        PROVE  ready'[i].tick < ready'[k].tick
    <3>1. i \in 1..Len(ready) /\ IsPut(i, s) /\ ready'[i] = ready[i]
      BY <1>2, <2>3 DEF IsPut
    <3>2. CASE k = Len(ready) + 1
      <4>1. s = r /\ ready'[k].tick = tick
        BY <1>1, <1>2, <2>3, <3>2 DEF IsPut
      <4> QED
        BY <1>0, <2>1, <3>1, <4>1 DEF FlowInv
    <3>3. CASE k \in 1..Len(ready)
      <4>1. IsPut(k, s) /\ ready'[k] = ready[k]
        BY <1>2, <2>3, <3>3 DEF IsPut
      <4> QED
        BY <2>1, <2>3, <3>1, <3>3, <4>1 DEF FlowInv
    <3> QED
      BY <1>2, <3>2, <3>3
  <2>4. s \in posting' => Below(s, tick)'
    BY <1>0, <2>1 DEF FlowInv, Below
  <2> QED
    BY <1>0, <2>2, <2>3, <2>4 DEF FlowInv
<1> QED
  BY <1>3, <1>5, <1>6, <1>7 DEF IInv

\* While callbacks, copies and time stay, a feed may shrink.
LEMMA FlowKept ==
  ASSUME IInv, NEW s \in Subscribers, UNCHANGED <<ready, posting, tick>>,
         \A t \in Int : Below(s, t) => Below(s, t)'
  PROVE  FlowInv(s)'
<1>1. FlowInv(s)
  BY DEF IInv
<1>2. ASSUME NEW i \in 1..Len(ready)
      PROVE  /\ IsPut(i, s)' => Below(s, ready[i].tick)' /\ (s \in posting' => ready'[i].tick < tick')
             /\ ready'[i].what = "record" => Below(s, ready[i].tick)'
  <2>1. Below(s, ready[i].tick) => Below(s, ready[i].tick)'
    <3>1. PICK t \in Int : t = ready[i].tick
      BY FeedTypes DEF Callback
    <3>2. Below(s, t) => Below(s, t)'
      OBVIOUS
    <3> QED
      BY <3>1, <3>2 DEF Below
  <2>2. /\ IsPut(i, s) => Below(s, ready[i].tick) /\ (s \in posting => ready[i].tick < tick)
        /\ ready[i].what = "record" => Below(s, ready[i].tick)
    BY <1>1 DEF FlowInv
  <2>3. IsPut(i, s)' <=> IsPut(i, s)
    BY DEF IsPut
  <2> QED
    BY <2>1, <2>2, <2>3
<1>3. s \in posting' => Below(s, tick)'
  <2>1. PICK t \in Int : t = tick
    BY FeedTypes
  <2>2. Below(s, t) => Below(s, t)'
    OBVIOUS
  <2> QED
    BY <1>1, <2>1, <2>2 DEF FlowInv, Below
<1> QED
  BY <1>1, <1>2, <1>3 DEF FlowInv, IsPut

LEMMA PostedKeepsInv ==
  ASSUME IInv, Posted
  PROVE  IInv'
<1>0. /\ thread = "posting" /\ posting = {} /\ thread' = "running" /\ tick \in Nat /\ kind = "run"
      /\ UNCHANGED <<kind, tick, posting, ready, task, listed, subs, queue, ws, current, last>>
  BY FeedAssumption DEF IInv, JobInv, TypeOK, Posted
<1>1. \A s \in Subscribers : OrderInv(s)' /\ ConnectedInv(s)'
  BY <1>0, FeedsKept
<1>2. \A s \in Subscribers : FlowInv(s)'
  BY <1>0, SameFeed, FlowKept
<1>3. TypeOK'
  BY <1>0 DEF IInv, TypeOK
<1>4. JobInv'
  BY <1>0 DEF IInv, JobInv
<1> QED
  BY <1>1, <1>2, <1>3, <1>4 DEF IInv

\* The wake-up is scheduled behind everything else.
LEMMA ReturnKeepsInv ==
  ASSUME IInv, Return
  PROVE  IInv'
<1> DEFINE c == [what |-> "wake", tick |-> tick]
<1>0. /\ thread \in {"running", "raising"} /\ thread' = "returned" /\ tick \in Nat
      /\ ready' = Append(ready, c)
      /\ UNCHANGED <<kind, tick, posting, task, listed, subs, queue, ws, current, last>>
  BY FeedAssumption DEF IInv, TypeOK, Return
<1>1. c \in Callback /\ c.what = "wake" /\ c.tick = tick
  BY <1>0 DEF IInv, TypeOK, Callback
<1> HIDE DEF c
<1>2. /\ Len(ready) \in Nat /\ ready' \in Seq(Callback) /\ Len(ready') = Len(ready) + 1
      /\ ready'[Len(ready) + 1] = c
      /\ \A i \in 1..Len(ready') : i = Len(ready) + 1 \/ i \in 1..Len(ready)
      /\ \A i \in 1..Len(ready) : ready'[i] = ready[i]
  BY <1>0, <1>1, ScheduleFacts
<1>3. \A s \in Subscribers : OrderInv(s)' /\ ConnectedInv(s)'
  BY <1>0, FeedsKept
<1>4. /\ posting = {} /\ task = "awaiting" /\ (kind = "batch" => Len(ready) = 0)
      /\ \A i \in 1..Len(ready) : ready[i].what # "wake"
  BY <1>0 DEF IInv, JobInv, TypeOK
<1>5. TypeOK'
  <2>1. \A i \in 1..Len(ready') :
          ready'[i].what \in {"put", "record", "wake"} /\ ready'[i].tick \in 0..Ticks
    BY <1>0, <1>1, <1>2 DEF IInv, TypeOK
  <2> QED
    BY <1>0, <2>1 DEF IInv, TypeOK
<1>6. JobInv'
  <2>1. ASSUME NEW i \in 1..Len(ready')
        PROVE  /\ ready'[i].what = "put" => kind' = "run"
               /\ ready'[i].what = "record" => kind' = "batch"
               /\ ready'[i].what = "wake" => i = Len(ready') /\ thread' = "returned"
               /\ ready'[i].tick <= tick'
    <3>1. CASE i = Len(ready) + 1
      BY <1>0, <1>1, <1>2, <3>1
    <3>2. CASE i \in 1..Len(ready)
      BY <1>0, <1>2, <1>4, <3>2 DEF IInv, JobInv
    <3> QED
      BY <1>2, <3>1, <3>2
  <2> QED
    BY <1>0, <1>2, <1>4, <2>1 DEF IInv, JobInv
<1>7. ASSUME NEW s \in Subscribers PROVE FlowInv(s)'
  <2>1. FlowInv(s)
    BY DEF IInv
  <2>2. \A i \in 1..Len(ready') :
          ready'[i].what = "wake" \/ (i \in 1..Len(ready) /\ ready'[i] = ready[i])
    BY <1>1, <1>2
  <2> QED
    BY <1>0, <1>4, <2>1, <2>2 DEF FlowInv, IsPut, Below
<1> QED
  BY <1>3, <1>5, <1>6, <1>7 DEF IInv

\* The task resumes when nothing else is on its way.
LEMMA RunWakeKeepsInv ==
  ASSUME IInv, RunWake
  PROVE  IInv'
<1>0. /\ NextCallback("wake") /\ task' = "finishing" /\ tick \in Nat
      /\ UNCHANGED <<kind, thread, tick, posting, listed, subs, queue, ws, current, last>>
  BY FeedAssumption DEF IInv, TypeOK, RunWake
<1>1. /\ task = "awaiting" /\ ready[1].what = "wake" /\ 1 \in 1..Len(ready)
      /\ ready' \in Seq(Callback) /\ Len(ready') = Len(ready) - 1
  BY <1>0, NextFacts
<1>2. Len(ready) = 1 /\ thread = "returned" /\ posting = {}
  BY <1>1 DEF IInv, JobInv
<1>3. ready' = <<>> /\ Len(ready') = 0
  BY <1>1, <1>2
<1>4. \A s \in Subscribers : OrderInv(s)' /\ ConnectedInv(s)'
  BY <1>0, <1>1, FeedsKept
<1>5. TypeOK'
  BY <1>0, <1>3 DEF IInv, TypeOK
<1>6. JobInv'
  BY <1>0, <1>1, <1>2, <1>3 DEF IInv, JobInv
<1>7. \A s \in Subscribers : FlowInv(s)'
  BY <1>0, <1>2, <1>3 DEF FlowInv
<1> QED
  BY <1>4, <1>5, <1>6, <1>7 DEF IInv

-----------------------------------------------------------------------------
(* Filling the queues.                                                     *)

\* A message newer than all of a feed leaves it in order.
LEMMA FeedFilled ==
  ASSUME IInv, NEW s \in Subscribers, NEW m \in 1..Ticks, Below(s, m), m <= tick, tick' = tick,
         task # "ended", queue'[s] = PutProgress(queue[s], m), last'[s] = last[s],
         current'[s] = current[s]
  PROVE  /\ queue'[s] \in Seq(Message) /\ Len(queue'[s]) <= Capacity
         /\ OrderInv(s)' /\ \A t \in Int : Below(s, t) /\ m < t => Below(s, t)'
<1> DEFINE q == queue[s]
           r == PutProgress(q, m)
<1>0. /\ q \in Seq(Message) /\ Len(q) \in Nat /\ Len(q) <= Capacity /\ tick \in Nat
      /\ last[s] \in Int /\ current[s] \in Int /\ m \in Message /\ Ticks \in Nat
      /\ \A i \in 1..Len(q) : q[i] \in Int
  BY FeedTypes DEF Message, End
<1>1. /\ r \in Seq(Message) /\ Len(r) <= Capacity
      /\ \A i \in 1..Len(r) :
           \/ i \in 1..Len(q) /\ r[i] = q[i]
           \/ i = Len(q) + 1 /\ r[i] = m
  BY <1>0, PutFacts, Zenon
<1>2. /\ \A i, k \in 1..Len(q) : i < k => q[i] < q[k]
      /\ \A i \in 1..Len(q) : last[s] < q[i] /\ current[s] < q[i]
      /\ current[s] # Nothing => last[s] < current[s]
      /\ Below(s, tick + 1)
  BY DEF IInv, OrderInv
<1>3. last[s] < m /\ current[s] < m /\ \A i \in 1..Len(q) : q[i] < m
  BY DEF Below
<1>4. queue'[s] = r
  OBVIOUS
<1> HIDE DEF r, q
<1>5. ASSUME NEW i \in 1..Len(r), NEW k \in 1..Len(r), i < k PROVE r[i] < r[k]
  <2>1. CASE k \in 1..Len(q) /\ r[k] = q[k]
    <3>1. i \in 1..Len(q) /\ r[i] = q[i]
      BY <1>0, <1>1, <1>5, <2>1
    <3>2. q[i] < q[k]
      BY <1>2, <1>5, <2>1, <3>1, Zenon
    <3> QED
      BY <2>1, <3>1, <3>2
  <2>2. CASE k = Len(q) + 1 /\ r[k] = m
    <3>1. i \in 1..Len(q) /\ r[i] = q[i]
      BY <1>0, <1>1, <1>5, <2>2
    <3>2. q[i] < m
      BY <1>3, <3>1, Zenon DEF q
    <3> QED
      BY <2>2, <3>1, <3>2
  <2> QED
    BY <1>1, <2>1, <2>2, Zenon
<1>6. \A i \in 1..Len(r) : last[s] < r[i] /\ current[s] < r[i]
  BY <1>1, <1>2, <1>3
<1>7. ASSUME NEW t \in Int, Below(s, t), m < t
      PROVE  Below(s, t)'
  BY <1>1, <1>4, <1>7 DEF Below, q
<1>8. Below(s, tick + 1)'
  <2>1. PICK t \in Int : t = tick + 1 /\ m < t
    BY <1>0
  <2>2. Below(s, t)'
    BY <1>2, <1>7, <2>1
  <2> QED
    BY <2>1, <2>2 DEF Below
<1>9. OrderInv(s)'
  BY <1>2, <1>4, <1>5, <1>6, <1>8 DEF OrderInv
<1> QED
  BY <1>1, <1>4, <1>7, <1>9

\* One callback less, and the feed holds at most what it brought.
LEMMA FlowDelivered ==
  ASSUME IInv, NEW s \in Subscribers, NEW what, NextCallback(what), UNCHANGED <<posting, tick>>,
         NEW m \in 1..Ticks, \A t \in Int : Below(s, t) /\ m < t => Below(s, t)',
         s \in posting => m < tick,
         \A i \in 2..Len(ready) : IsPut(i, s) \/ ready[i].what = "record" => m < ready[i].tick
  PROVE  FlowInv(s)'
<1>0. /\ Len(ready) \in Nat /\ ready' \in Seq(Callback) /\ Len(ready') = Len(ready) - 1
      /\ \A i \in 1..Len(ready') : i + 1 \in 2..Len(ready) /\ ready'[i] = ready[i + 1]
  BY NextFacts
<1>1. FlowInv(s) /\ \A i \in 1..Len(ready) : ready[i].tick \in Int
  BY FeedTypes DEF IInv, Callback
<1>2. ASSUME NEW i \in 1..Len(ready'), IsPut(i, s)' \/ ready'[i].what = "record"
      PROVE  Below(s, ready[i].tick)'
  <2>1. PICK k \in 2..Len(ready) : k = i + 1 /\ ready'[i] = ready[k]
    BY <1>0
  <2>2. IsPut(k, s) \/ ready[k].what = "record"
    BY <1>2, <2>1 DEF IsPut
  <2>3. Below(s, ready[k].tick) /\ m < ready[k].tick /\ ready[k].tick \in Int
    BY <1>0, <1>1, <2>1, <2>2 DEF FlowInv
  <2>4. PICK t \in Int : t = ready[k].tick
    BY <2>3
  <2>5. Below(s, t)'
    BY <2>3, <2>4
  <2> QED
    BY <2>1, <2>4, <2>5 DEF Below
<1>3. s \in posting => Below(s, tick)'
  <2>1. PICK t \in Int : t = tick
    BY FeedTypes
  <2>2. s \in posting => Below(s, t) /\ m < t
    BY <1>1, <2>1 DEF FlowInv
  <2> QED
    BY <2>1, <2>2 DEF Below
<1>4. ASSUME NEW i \in 1..Len(ready'), NEW k \in 1..Len(ready'), i < k, IsPut(i, s)', IsPut(k, s)'
      PROVE  ready'[i].tick < ready'[k].tick
  <2>1. PICK j, l \in 1..Len(ready) :
          j = i + 1 /\ l = k + 1 /\ ready'[i] = ready[j] /\ ready'[k] = ready[l]
    BY <1>0
  <2> QED
    BY <1>1, <1>4, <2>1 DEF FlowInv, IsPut
<1>5. ASSUME NEW i \in 1..Len(ready'), IsPut(i, s)', s \in posting
      PROVE  ready'[i].tick < tick
  <2>1. PICK j \in 1..Len(ready) : j = i + 1 /\ ready'[i] = ready[j]
    BY <1>0
  <2> QED
    BY <1>1, <1>5, <2>1 DEF FlowInv, IsPut
<1> QED
  BY <1>2, <1>3, <1>4, <1>5 DEF FlowInv

\* The types of callbacks that remain.
LEMMA JobDelivered ==
  ASSUME IInv, NEW what \in {"put", "record"}, NextCallback(what),
         UNCHANGED <<kind, tick, posting, task, listed, subs, ws, current, last>>,
         IF what = "put" THEN UNCHANGED thread ELSE thread' \in {"running", "raising"},
         \A s \in Subscribers : queue'[s] \in Seq(Message) /\ Len(queue'[s]) <= Capacity,
         queue' = [s \in Subscribers |-> queue'[s]]
  PROVE  TypeOK' /\ JobInv'
<1>0. /\ Len(ready) \in Nat /\ 1 \in 1..Len(ready) /\ ready[1].what = what
      /\ ready' \in Seq(Callback) /\ Len(ready') = Len(ready) - 1 /\ Len(ready') \in Nat
      /\ \A i \in 1..Len(ready') : i + 1 \in 1..Len(ready) /\ ready'[i] = ready[i + 1]
      /\ task = "awaiting"
  BY NextFacts
<1>1. what = "record" => kind = "batch" /\ posting = {} /\ Len(ready) = 1
  BY <1>0 DEF IInv, JobInv
<1>2. TypeOK'
  <2>1. \A i \in 1..Len(ready') :
          ready'[i].what \in {"put", "record", "wake"} /\ ready'[i].tick \in 0..Ticks
    BY <1>0 DEF IInv, TypeOK
  <2>2. queue' \in [Subscribers -> Seq(Message)]
    OBVIOUS
  <2>3. thread' \in {"running", "posting", "waiting", "raising", "returned"}
    BY DEF IInv, TypeOK
  <2> QED
    BY <2>1, <2>2, <2>3 DEF IInv, TypeOK
<1>3. JobInv'
  <2>1. CASE what = "put"
    <3>1. kind = "run" /\ UNCHANGED thread
      BY <1>0, <2>1 DEF IInv, JobInv
    <3>2. ASSUME NEW i \in 1..Len(ready')
          PROVE  /\ ready'[i].what = "put" => kind = "run"
                 /\ ready'[i].what = "record" => kind = "batch"
                 /\ ready'[i].what = "wake" => i = Len(ready') /\ thread = "returned"
                 /\ ready'[i].tick <= tick
      BY <1>0 DEF IInv, JobInv
    <3> QED
      BY <1>0, <3>1, <3>2 DEF IInv, JobInv
  <2>2. CASE what = "record"
    <3>0. Len(ready') = 0
      <4>1. Len(ready) = 1
        BY <1>1, <2>2
      <4>2. Len(ready') = Len(ready) - 1
        BY <1>0, Zenon
      <4> QED
        BY <4>1, <4>2
    <3>1. Len(ready') = 0 /\ ready' = <<>>
      BY <1>0, <3>0, EmptySeq
    <3> QED
      BY <1>0, <1>1, <2>2, <3>1 DEF IInv, JobInv
  <2> QED
    BY <2>1, <2>2
<1> QED
  BY <1>2, <1>3

\* A run's callback fills one queue.
LEMMA RunPutKeepsInv ==
  ASSUME IInv, RunPut
  PROVE  IInv'
<1>. PICK r, m : r = Head(ready).to /\ m = Head(ready).tick
  OBVIOUS
<1>0. /\ NextCallback("put")
      /\ queue' = [queue EXCEPT ![r] = PutProgress(@, m)]
      /\ UNCHANGED <<kind, thread, tick, posting, task, listed, subs, ws, current, last>>
  BY DEF RunPut
<1>1. /\ Head(ready) = ready[1] /\ ready[1] \in Callback /\ ready[1].what = "put"
      /\ 1 \in 1..Len(ready) /\ Len(ready) \in Nat /\ task = "awaiting"
  BY <1>0, NextFacts
<1>2. /\ r \in Subscribers /\ m \in 1..Ticks /\ IsPut(1, r) /\ m <= tick
      /\ m = ready[1].tick /\ kind = "run"
  BY <1>1 DEF Callback, IsPut, IInv, JobInv
<1>3. /\ FlowInv(r) /\ Below(r, m) /\ (r \in posting => m < tick)
      /\ \A i \in 2..Len(ready) : IsPut(i, r) => m < ready[i].tick
  <2>1. FlowInv(r)
    BY <1>2 DEF IInv
  <2> QED
    BY <1>1, <1>2, <2>1 DEF FlowInv, Below
<1>4. \A i \in 1..Len(ready) : ready[i].what # "record"
  BY <1>2 DEF IInv, JobInv
<1>5. /\ queue'[r] = PutProgress(queue[r], m)
      /\ \A s \in Subscribers \ {r} : queue'[s] = queue[s]
      /\ queue' = [s \in Subscribers |-> queue'[s]]
  BY <1>0, <1>2 DEF IInv, TypeOK
<1>6. /\ queue'[r] \in Seq(Message) /\ Len(queue'[r]) <= Capacity
      /\ OrderInv(r)' /\ \A t \in Int : Below(r, t) /\ m < t => Below(r, t)'
  BY <1>0, <1>1, <1>2, <1>3, <1>5, FeedFilled
<1>7. FlowInv(r)'
  BY <1>0, <1>2, <1>3, <1>4, <1>6, FlowDelivered
<1>8. ASSUME NEW s \in Subscribers \ {r}
      PROVE  OrderInv(s)' /\ FlowInv(s)'
  <2>1. OrderInv(s) /\ FlowInv(s)
    BY DEF IInv
  <2>2. \A t : Below(s, t)' <=> Below(s, t)
    BY <1>0, <1>5 DEF Below
  <2>3. OrderInv(s)'
    BY <1>0, <1>5, <2>1 DEF OrderInv, Below
  <2>4. /\ ready' \in Seq(Callback) /\ Len(ready') = Len(ready) - 1
        /\ \A i \in 1..Len(ready') : i + 1 \in 1..Len(ready) /\ ready'[i] = ready[i + 1]
    BY <1>0, NextFacts
  <2>5. FlowInv(s)'
    <3>1. ASSUME NEW i \in 1..Len(ready')
          PROVE  /\ IsPut(i, s)' <=> IsPut(i + 1, s)
                 /\ Below(s, ready[i].tick)' <=> Below(s, ready[i + 1].tick)
      BY <1>0, <1>5, <2>4 DEF IsPut, Below
    <3>2. \A i, k \in 1..Len(ready') : i < k => i + 1 < k + 1
      BY <1>1, <2>4
    <3> QED
      BY <1>0, <2>1, <2>2, <2>4, <3>1, <3>2 DEF FlowInv
  <2> QED
    BY <2>3, <2>5
<1>9. \A s \in Subscribers : ConnectedInv(s)'
  BY <1>0, <1>1 DEF IInv, ConnectedInv
<1>10. TypeOK' /\ JobInv'
  <2>1. \A s \in Subscribers : queue'[s] \in Seq(Message) /\ Len(queue'[s]) <= Capacity
    BY <1>5, <1>6, FeedTypes
  <2> QED
    BY <1>0, <1>5, <2>1, JobDelivered
<1> QED
  BY <1>6, <1>7, <1>8, <1>9, <1>10 DEF IInv

\* A batch's record fills every listed queue, or fails and fills none.
LEMMA RunRecordKeepsInv ==
  ASSUME IInv, RunRecord
  PROVE  IInv'
<1>. PICK m : m = Head(ready).tick
  OBVIOUS
<1>0. /\ NextCallback("record")
      /\ UNCHANGED <<kind, tick, posting, task, listed, subs, ws, current, last>>
      /\ thread' \in {"running", "raising"}
      /\ \/ queue' = [s \in Subscribers |->
                        IF s \in subs THEN PutProgress(queue[s], m) ELSE queue[s]]
         \/ UNCHANGED queue
  BY DEF RunRecord
<1>1. /\ Head(ready) = ready[1] /\ ready[1] \in Callback /\ ready[1].what = "record"
      /\ 1 \in 1..Len(ready) /\ Len(ready) \in Nat /\ task = "awaiting"
      /\ Len(ready') = Len(ready) - 1
  BY <1>0, NextFacts
<1>2. /\ m \in 1..Ticks /\ m <= tick /\ m = ready[1].tick /\ kind = "batch"
      /\ Len(ready) = 1 /\ posting = {} /\ Len(ready') = 0
  BY <1>1 DEF Callback, IInv, JobInv
<1>3. \A s \in Subscribers : Below(s, m)
  BY <1>1, <1>2 DEF IInv, FlowInv
<1>4. ASSUME NEW s \in Subscribers
      PROVE  queue'[s] \in Seq(Message) /\ Len(queue'[s]) <= Capacity /\ OrderInv(s)'
  <2>1. CASE queue'[s] = PutProgress(queue[s], m)
    BY <1>0, <1>1, <1>2, <1>3, <2>1, FeedFilled
  <2>2. CASE queue'[s] = queue[s]
    <3>1. OrderInv(s)
      BY DEF IInv
    <3>2. OrderInv(s)'
      BY <1>0, <2>2, <3>1 DEF OrderInv, Below
    <3> QED
      BY <2>2, <3>2, FeedTypes
  <2> QED
    BY <1>0, <2>1, <2>2
<1>5. queue' = [s \in Subscribers |-> queue'[s]]
  BY <1>0 DEF IInv, TypeOK
<1>6. TypeOK' /\ JobInv'
  BY <1>0, <1>4, <1>5, JobDelivered
<1>7. \A s \in Subscribers : FlowInv(s)'
  BY <1>0, <1>2 DEF FlowInv
<1>8. \A s \in Subscribers : ConnectedInv(s)'
  BY <1>0, <1>1 DEF IInv, ConnectedInv
<1> QED
  BY <1>4, <1>6, <1>7, <1>8 DEF IInv

\* The sentinel goes to every listed queue behind all progress.
LEMMA FinishKeepsInv ==
  ASSUME IInv, Finish
  PROVE  IInv'
<1>0. /\ task = "finishing" /\ task' = "ended" /\ listed' = FALSE /\ subs' = {}
      /\ queue' = [s \in Subscribers |->
                     IF s \in subs THEN SignalTerminal(queue[s]) ELSE queue[s]]
      /\ UNCHANGED <<kind, thread, tick, posting, ready, ws, current, last>>
  BY DEF Finish
<1>1. ready = <<>> /\ Len(ready) = 0 /\ thread = "returned" /\ posting = {}
  BY <1>0 DEF IInv, JobInv
<1>2. ASSUME NEW s \in Subscribers
      PROVE  /\ queue'[s] \in Seq(Message) /\ Len(queue'[s]) <= Capacity
             /\ OrderInv(s)' /\ ConnectedInv(s)'
  <2>0. /\ OrderInv(s) /\ Below(s, tick + 1) /\ ConnectedInv(s)
        /\ (s \notin subs => ws[s] \notin {"accepting", "reading", "sending"})
    BY <1>0 DEF IInv, OrderInv, ConnectedInv
  <2>1. CASE s \in subs
    <3> DEFINE q == queue[s]
               r == SignalTerminal(q)
    <3>1. /\ q \in Seq(Message) /\ Len(q) \in Nat /\ Len(q) <= Capacity /\ tick < End
          /\ last[s] \in Int /\ current[s] \in Int /\ End \in Int
          /\ \A i \in 1..Len(q) : q[i] \in Int
      BY FeedTypes
    <3>2. queue'[s] = r
      BY <1>0, <2>1
    <3>3. /\ last[s] < End /\ current[s] < End /\ \A i \in 1..Len(q) : q[i] < End
      BY <2>0, <3>1, FeedTypes DEF Below
    <3>4. /\ \A i, k \in 1..Len(q) : i < k => q[i] < q[k]
          /\ \A i \in 1..Len(q) : last[s] < q[i] /\ current[s] < q[i]
          /\ current[s] # Nothing => last[s] < current[s]
      BY <2>0 DEF OrderInv
    <3>5. /\ r \in Seq(Message) /\ Len(r) <= Capacity /\ r # <<>> /\ r[Len(r)] = End
          /\ \E d \in 0..1 : /\ Len(r) = Len(q) + 1 - d
                             /\ \A i \in 1..Len(r) : \/ i + d \in 1..Len(q) /\ r[i] = q[i + d]
                                                     \/ i + d = Len(q) + 1 /\ r[i] = End
      BY <3>1, SignalFacts, Zenon
    <3> HIDE DEF q, r
    <3>6. PICK d \in 0..1 : /\ Len(r) = Len(q) + 1 - d
                            /\ \A i \in 1..Len(r) : \/ i + d \in 1..Len(q) /\ r[i] = q[i + d]
                                                    \/ i + d = Len(q) + 1 /\ r[i] = End
      BY <3>5
    <3>7. ASSUME NEW i \in 1..Len(r), NEW k \in 1..Len(r), i < k PROVE r[i] < r[k]
      <4>0. Len(r) \in Nat /\ i \in Int /\ k \in Int /\ d \in Int /\ Len(r) = Len(q) + 1 - d
        BY <3>1, <3>6
      <4>1. /\ i + d \in 1..Len(q) /\ r[i] = q[i + d]
        <5>1. i + d # Len(q) + 1
          BY <3>1, <3>7, <4>0
        <5> QED
          BY <3>6, <5>1, Zenon
      <4> QED
        BY <3>1, <3>3, <3>4, <3>6, <3>7, <4>1
    <3>8. \A i \in 1..Len(r) : last[s] < r[i] /\ current[s] < r[i]
      BY <3>3, <3>4, <3>6
    <3>9. OrderInv(s)'
      BY <1>0, <3>2, <3>4, <3>7, <3>8 DEF OrderInv
    <3>10. ConnectedInv(s)'
      BY <1>0, <3>2, <3>5 DEF ConnectedInv
    <3> QED
      BY <3>2, <3>5, <3>9, <3>10
  <2>2. CASE s \notin subs
    <3>1. queue'[s] = queue[s]
      BY <1>0, <2>2
    <3>2. OrderInv(s)'
      BY <1>0, <2>0, <3>1 DEF OrderInv
    <3>3. ConnectedInv(s)'
      BY <1>0, <2>0, <2>2 DEF ConnectedInv
    <3> QED
      BY <3>1, <3>2, <3>3, FeedTypes
  <2> QED
    BY <2>1, <2>2
<1>3. TypeOK'
  <2>1. queue' \in [Subscribers -> Seq(Message)]
    BY <1>0, <1>2
  <2> QED
    BY <1>0, <1>1, <1>2, <2>1 DEF IInv, TypeOK
<1>4. JobInv'
  BY <1>0, <1>1 DEF IInv, JobInv
<1>5. \A s \in Subscribers : FlowInv(s)'
  BY <1>0, <1>1 DEF FlowInv
<1> QED
  BY <1>2, <1>3, <1>4, <1>5 DEF IInv

-----------------------------------------------------------------------------
(* The handlers.                                                           *)

\* A handler's step leaves the job and the other feeds alone.
LEMMA HandlerKeepsInv ==
  ASSUME IInv, NEW r \in Subscribers, TypeOK',
         UNCHANGED <<kind, thread, tick, posting, ready, task, listed>>,
         \A s \in Subscribers \ {r} : /\ ws'[s] = ws[s] /\ queue'[s] = queue[s]
                                      /\ current'[s] = current[s] /\ last'[s] = last[s]
                                      /\ s \in subs => s \in subs',
         \A t \in Int : Below(r, t) => Below(r, t)', OrderInv(r)', ConnectedInv(r)'
  PROVE  IInv'
<1>1. JobInv'
  BY DEF IInv, JobInv
<1>2. FlowInv(r)'
  BY FlowKept
<1>3. ASSUME NEW s \in Subscribers \ {r}
      PROVE  OrderInv(s)' /\ FlowInv(s)' /\ ConnectedInv(s)'
  <2>1. OrderInv(s) /\ ConnectedInv(s)
    BY DEF IInv
  <2>2. \A t \in Int : Below(s, t) => Below(s, t)'
    BY SameFeed
  <2>3. FlowInv(s)'
    BY <2>2, FlowKept
  <2>4. OrderInv(s)'
    BY <2>1 DEF OrderInv, Below
  <2>5. ConnectedInv(s)'
    BY <2>1 DEF ConnectedInv
  <2> QED
    BY <2>3, <2>4, <2>5
<1> QED
  BY <1>1, <1>2, <1>3 DEF IInv

LEMMA SubscribeKeepsInv ==
  ASSUME IInv, NEW r \in Subscribers, Subscribe(r)
  PROVE  IInv'
<1>0. /\ UNCHANGED <<kind, thread, tick, posting, ready, task, listed, queue, current, last>>
      /\ \/ /\ listed /\ ws' = [ws EXCEPT ![r] = "accepting"] /\ subs' = subs \union {r}
         \/ /\ ws' = [ws EXCEPT ![r] = "refused"] /\ UNCHANGED subs
  BY DEF Subscribe
<1>1. TypeOK'
  BY <1>0 DEF IInv, TypeOK
<1>2. /\ ws'[r] \in {"accepting", "refused"}
      /\ ws'[r] = "accepting" => listed /\ r \in subs'
      /\ \A s \in Subscribers \ {r} : ws'[s] = ws[s] /\ (s \in subs => s \in subs')
  BY <1>0 DEF IInv, TypeOK
<1>3. OrderInv(r)'
  BY <1>0 DEF IInv, OrderInv, Below
<1>4. ConnectedInv(r)'
  BY <1>0, <1>2 DEF IInv, JobInv, ConnectedInv
<1>5. \A t \in Int : Below(r, t) => Below(r, t)'
  BY <1>0, SameFeed
<1> QED
  BY <1>0, <1>1, <1>2, <1>3, <1>4, <1>5, HandlerKeepsInv

LEMMA AcceptKeepsInv ==
  ASSUME IInv, NEW r \in Subscribers, Accept(r)
  PROVE  IInv'
<1>0. /\ UNCHANGED <<kind, thread, tick, posting, ready, task, listed, subs, queue, current, last>>
      /\ ws[r] = "accepting" /\ \E next \in {"reading", "gone"} : ws' = [ws EXCEPT ![r] = next]
  BY DEF Accept
<1>1. TypeOK'
  BY <1>0 DEF IInv, TypeOK
<1>2. ws'[r] \in {"reading", "gone"} /\ \A s \in Subscribers \ {r} : ws'[s] = ws[s]
  BY <1>0 DEF IInv, TypeOK
<1>3. OrderInv(r)'
  BY <1>0 DEF IInv, OrderInv, Below
<1>4. ConnectedInv(r)'
  BY <1>0, <1>2 DEF IInv, ConnectedInv
<1>5. \A t \in Int : Below(r, t) => Below(r, t)'
  BY <1>0, SameFeed
<1> QED
  BY <1>0, <1>1, <1>2, <1>3, <1>4, <1>5, HandlerKeepsInv

\* The oldest message of the queue is the next the handler holds.
LEMMA GetKeepsInv ==
  ASSUME IInv, NEW r \in Subscribers, Get(r)
  PROVE  IInv'
<1> DEFINE q == queue[r]
           h == Head(q)
           p == Tail(q)
<1>0. /\ ws[r] = "reading" /\ q # <<>>
      /\ current' = [current EXCEPT ![r] = h] /\ queue' = [queue EXCEPT ![r] = p]
      /\ ws' = [ws EXCEPT ![r] = "sending"]
      /\ UNCHANGED <<kind, thread, tick, posting, ready, task, listed, subs, last>>
  BY DEF Get
<1>1. /\ q \in Seq(Message) /\ Len(q) \in Nat /\ Len(q) <= Capacity
      /\ last[r] \in Int /\ current[r] \in Int /\ \A i \in 1..Len(q) : q[i] \in 1..End
  BY FeedTypes
<1>2. /\ h \in Message /\ h = q[1] /\ 1 \in 1..Len(q)
      /\ p \in Seq(Message) /\ Len(p) = Len(q) - 1
      /\ \A i \in 1..Len(p) : i + 1 \in 2..Len(q) /\ p[i] = q[i + 1]
  BY <1>0, <1>1, HeadTailProperties, Z3
<1>3. /\ current'[r] = h /\ queue'[r] = p /\ ws'[r] = "sending" /\ last'[r] = last[r]
      /\ \A s \in Subscribers \ {r} : /\ ws'[s] = ws[s] /\ queue'[s] = queue[s]
                                      /\ current'[s] = current[s] /\ last'[s] = last[s]
  BY <1>0 DEF IInv, TypeOK
<1>4. /\ OrderInv(r) /\ ConnectedInv(r)
      /\ \A i, k \in 1..Len(q) : i < k => q[i] < q[k]
      /\ \A i \in 1..Len(q) : last[r] < q[i] /\ current[r] < q[i]
  BY DEF IInv, OrderInv
<1>5. q # <<>> /\ q[Len(q)] = End => h = End \/ (p # <<>> /\ p[Len(p)] = End)
  <2>1. CASE Len(q) = 1
    BY <1>2, <2>1
  <2>2. CASE Len(q) > 1
    <3>0. Len(p) = Len(q) - 1 /\ \A i \in 1..Len(p) : p[i] = q[i + 1]
      BY <1>2, Zenon
    <3> HIDE DEF p, q
    <3>1. Len(p) \in 1..Len(p) /\ Len(p) + 1 = Len(q)
      BY <1>1, <2>2, <3>0
    <3>2. p[Len(p)] = q[Len(q)] /\ p # <<>>
      BY <3>0, <3>1
    <3> QED
      BY <3>2
  <2> QED
    BY <1>1, <1>2, <2>1, <2>2
<1>6. TypeOK'
  <2>1. queue' \in [Subscribers -> Seq(Message)] /\ current' \in [Subscribers -> {Nothing} \union Message]
    BY <1>0, <1>2 DEF IInv, TypeOK
  <2>2. \A s \in Subscribers : Len(queue'[s]) <= Capacity
    <3>1. Len(p) <= Capacity
      <4>1. Len(p) = Len(q) - 1
        BY <1>2, Zenon
      <4> QED
        BY <1>1, <4>1, FeedAssumption
    <3> HIDE DEF p
    <3> QED
      BY <1>3, <3>1, FeedTypes
  <2>3. ws' \in [Subscribers -> {"idle", "accepting", "reading", "sending", "complete",
                                 "refused", "gone"}]
    BY <1>0 DEF IInv, TypeOK
  <2> QED
    BY <1>0, <2>1, <2>2, <2>3 DEF IInv, TypeOK
<1>7. ConnectedInv(r)'
  <2>1. task # "ended" => r \in subs
    BY <1>0, <1>4 DEF ConnectedInv
  <2>2. task = "ended" => current[r] = End \/ (q # <<>> /\ q[Len(q)] = End)
    BY <1>0, <1>4 DEF ConnectedInv
  <2>3. current[r] # End
    <3>1. current[r] < q[1] /\ q[1] \in 1..End
      BY <1>1, <1>2, <1>4
    <3> QED
      BY <1>1, <3>1, FeedTypes
  <2>4. task = "ended" => h = End \/ (p # <<>> /\ p[Len(p)] = End)
    BY <1>5, <2>2, <2>3
  <2> HIDE DEF h, p, q
  <2> QED
    BY <1>0, <1>3, <2>1, <2>4 DEF ConnectedInv
<1> HIDE DEF h, p
<1>8. \A t \in Int : Below(r, t) => Below(r, t)'
  <2> TAKE t \in Int
  <2>1. Below(r, t) => last[r] < t /\ h < t /\ \A i \in 1..Len(p) : p[i] < t
    BY <1>2 DEF Below
  <2> QED
    BY <1>3, <2>1 DEF Below
<1>9. OrderInv(r)'
  <2>1. ASSUME NEW i \in 1..Len(p), NEW k \in 1..Len(p), i < k PROVE p[i] < p[k]
    <3> HIDE DEF q
    <3>1. /\ Len(p) = Len(q) - 1 /\ p[i] = q[i + 1] /\ p[k] = q[k + 1]
          /\ i + 1 \in 1..Len(q) /\ k + 1 \in 1..Len(q)
      BY <1>1, <1>2
    <3> QED
      BY <1>1, <1>4, <2>1, <3>1
  <2>2. \A i \in 1..Len(p) : last[r] < p[i] /\ h < p[i]
    BY <1>1, <1>2, <1>4
  <2>3. last[r] < h
    BY <1>2, <1>4
  <2>4. task # "ended" => Below(r, tick + 1)'
    <3>1. PICK t \in Int : t = tick + 1
      BY FeedTypes
    <3>2. task # "ended" => Below(r, t)
      BY <1>4, <3>1 DEF OrderInv
    <3> QED
      BY <1>0, <1>8, <3>1, <3>2 DEF Below
  <2> QED
    BY <1>0, <1>3, <2>1, <2>2, <2>3, <2>4 DEF OrderInv
<1> QED
  BY <1>0, <1>3, <1>6, <1>7, <1>8, <1>9, HandlerKeepsInv

\* What was held is sent.
LEMMA SendKeepsInv ==
  ASSUME IInv, NEW r \in Subscribers, Send(r)
  PROVE  IInv'
<1>0. /\ ws[r] = "sending" /\ last' = [last EXCEPT ![r] = current[r]]
      /\ current' = [current EXCEPT ![r] = Nothing]
      /\ \/ /\ current[r] = End /\ ws' = [ws EXCEPT ![r] = "complete"] /\ subs' = subs \ {r}
         \/ /\ current[r] # End /\ ws' = [ws EXCEPT ![r] = "reading"] /\ UNCHANGED subs
      /\ UNCHANGED <<kind, thread, tick, posting, ready, task, listed, queue>>
  BY DEF Send
<1>1. /\ last'[r] = current[r] /\ current'[r] = 0
      /\ ws'[r] = "complete" \/ (ws'[r] = "reading" /\ current[r] # End /\ subs' = subs)
      /\ \A s \in Subscribers \ {r} : /\ ws'[s] = ws[s] /\ current'[s] = current[s]
                                      /\ last'[s] = last[s] /\ (s \in subs => s \in subs')
  BY <1>0 DEF IInv, TypeOK, Nothing
<1>2. TypeOK'
  BY <1>0 DEF IInv, TypeOK
<1>3. /\ OrderInv(r) /\ ConnectedInv(r)
      /\ \A i \in 1..Len(queue[r]) : queue[r][i] \in 1..End
      /\ last[r] \in 0..End /\ current[r] \in 0..End
  BY FeedTypes DEF IInv
<1>4. \A t \in Int : Below(r, t) => Below(r, t)'
  <2> TAKE t \in Int
  <2>1. CASE current[r] = 0
    BY <1>0, <1>1, <2>1 DEF Below
  <2>2. CASE current[r] # 0
    <3>1. last[r] < current[r]
      BY <1>3, <2>2 DEF OrderInv, Nothing
    <3>2. Below(r, t) => 0 < t
      BY <1>3, <2>2 DEF Below
    <3> QED
      BY <1>0, <1>1, <3>2 DEF Below
  <2> QED
    BY <2>1, <2>2
<1>5. OrderInv(r)'
  <2>1. \A i \in 1..Len(queue[r]) : current[r] < queue[r][i] /\ 0 < queue[r][i]
    BY <1>3 DEF OrderInv
  <2>2. task # "ended" => Below(r, tick + 1)'
    <3>1. PICK t \in Int : t = tick + 1
      BY FeedTypes
    <3>2. task # "ended" => Below(r, t)
      BY <1>3, <3>1 DEF OrderInv
    <3> QED
      BY <1>0, <1>4, <3>1, <3>2 DEF Below
  <2> QED
    BY <1>0, <1>1, <1>3, <2>1, <2>2 DEF OrderInv, Nothing
<1>6. ConnectedInv(r)'
  BY <1>0, <1>1, <1>3 DEF ConnectedInv
<1> QED
  BY <1>0, <1>1, <1>2, <1>4, <1>5, <1>6, HandlerKeepsInv

LEMMA DisconnectKeepsInv ==
  ASSUME IInv, NEW r \in Subscribers, Disconnect(r)
  PROVE  IInv'
<1>0. /\ ws[r] = "sending" /\ current' = [current EXCEPT ![r] = Nothing]
      /\ ws' = [ws EXCEPT ![r] = "gone"] /\ subs' = subs \ {r}
      /\ UNCHANGED <<kind, thread, tick, posting, ready, task, listed, queue, last>>
  BY DEF Disconnect
<1>1. /\ current'[r] = 0 /\ ws'[r] = "gone"
      /\ \A s \in Subscribers \ {r} : /\ ws'[s] = ws[s] /\ current'[s] = current[s]
                                      /\ (s \in subs => s \in subs')
  BY <1>0 DEF IInv, TypeOK, Nothing
<1>2. TypeOK'
  BY <1>0 DEF IInv, TypeOK
<1>3. /\ OrderInv(r) /\ last[r] \in 0..End /\ current[r] \in 0..End
      /\ \A i \in 1..Len(queue[r]) : queue[r][i] \in 1..End
  BY FeedTypes DEF IInv
<1>4. \A t \in Int : Below(r, t) => Below(r, t)'
  BY <1>0, <1>1, <1>3 DEF Below
<1>5. OrderInv(r)'
  <2>1. task # "ended" => Below(r, tick + 1)'
    <3>1. PICK t \in Int : t = tick + 1
      BY FeedTypes
    <3>2. task # "ended" => Below(r, t)
      BY <1>3, <3>1 DEF OrderInv
    <3> QED
      BY <1>0, <1>4, <3>1, <3>2 DEF Below
  <2> QED
    BY <1>0, <1>1, <1>3, <2>1 DEF OrderInv, Nothing
<1>6. ConnectedInv(r)'
  BY <1>1 DEF ConnectedInv
<1> QED
  BY <1>0, <1>1, <1>2, <1>4, <1>5, <1>6, HandlerKeepsInv

LEMMA NextKeepsInv ==
  ASSUME IInv, [Next]_vars
  PROVE  IInv'
<1>1. CASE ThreadStep
  BY <1>1, ProduceKeepsInv, PostKeepsInv, PostedKeepsInv, ReturnKeepsInv DEF ThreadStep
<1>2. CASE LoopStep
  BY <1>2, RunPutKeepsInv, RunRecordKeepsInv, RunWakeKeepsInv, FinishKeepsInv DEF LoopStep
<1>3. ASSUME NEW s \in Subscribers, Subscribe(s) \/ HandlerStep(s) \/ Disconnect(s)
      PROVE  IInv'
  BY <1>3, SubscribeKeepsInv, AcceptKeepsInv, GetKeepsInv, SendKeepsInv, DisconnectKeepsInv
     DEF HandlerStep
<1>4. CASE UNCHANGED vars
  BY <1>4 DEF vars, IInv, TypeOK, JobInv, OrderInv, FlowInv, ConnectedInv, Below, IsPut
<1> QED
  BY <1>1, <1>2, <1>3, <1>4 DEF Next

-----------------------------------------------------------------------------
(* The theorems.                                                           *)

\* The inductive invariant holds throughout the life of every feed.
THEOREM FeedInvariant == Spec => []IInv
<1>1. Init => IInv
  BY InitEstablishesInv
<1>2. IInv /\ [Next]_vars => IInv'
  BY NextKeepsInv
<1> QED
  BY <1>1, <1>2, PTL DEF Spec

\* Every variable has its type, and no queue ever exceeds its maxsize.
THEOREM FeedTypeCorrect == Spec => []TypeOK
<1>1. IInv => TypeOK
  BY DEF IInv
<1> QED
  BY <1>1, FeedInvariant, PTL

\* What a client has been sent, its handler holds and its queue still has for it
\* advances strictly, whatever is lost to a full queue and whatever the order
\* in which the thread, the loop and the handlers run.
THEOREM FeedsAreOrdered == Spec => []FeedOrdered
<1>1. ASSUME IInv, NEW s \in Subscribers
      PROVE  \A i, k \in 1..Len(Feed(s)) : i < k => Feed(s)[i] < Feed(s)[k]
  <2> DEFINE q == queue[s]
             a == IF last[s] = Nothing THEN <<>> ELSE <<last[s]>>
             b == IF current[s] = Nothing THEN <<>> ELSE <<current[s]>>
             ab == a \o b
  <2>0. /\ q \in Seq(Int) /\ Len(q) \in Nat /\ last[s] \in Int /\ current[s] \in Int
        /\ \A i \in 1..Len(q) : q[i] \in Int
        /\ \A i, k \in 1..Len(q) : i < k => q[i] < q[k]
        /\ \A i \in 1..Len(q) : last[s] < q[i] /\ current[s] < q[i]
        /\ current[s] # Nothing => last[s] < current[s]
    BY <1>1, FeedTypes DEF IInv, OrderInv, Message, End
  <2>1. /\ a \in Seq(Int) /\ Len(a) \in 0..1 /\ \A i \in 1..Len(a) : a[i] = last[s]
        /\ b \in Seq(Int) /\ Len(b) \in 0..1 /\ \A i \in 1..Len(b) : b[i] = current[s]
        /\ Len(b) # 0 => last[s] < current[s]
    BY <2>0
  <2>2. Feed(s) = ab \o q
    BY DEF Feed
  <2> HIDE DEF q, a, b
  <2>3. /\ ab \in Seq(Int) /\ Len(ab) = Len(a) + Len(b)
        /\ \A i \in 1..Len(ab) : ab[i] = IF i <= Len(a) THEN a[i] ELSE b[i - Len(a)]
    <3>1. ab \in Seq(Int)
      BY <2>1, ConcatProperties, Zenon
    <3>2. Len(ab) = Len(a) + Len(b)
      BY <2>1, ConcatProperties, Zenon
    <3>3. \A i \in 1..(Len(a) + Len(b)) : ab[i] = IF i <= Len(a) THEN a[i] ELSE b[i - Len(a)]
      BY <2>1, ConcatProperties, Zenon
    <3> QED
      BY <3>1, <3>2, <3>3, Zenon
  <2> HIDE DEF ab
  <2>4. ASSUME NEW i \in 1..Len(ab)
        PROVE  \/ Len(a) = 1 /\ i = 1 /\ ab[i] = last[s]
               \/ Len(b) = 1 /\ i = Len(a) + 1 /\ ab[i] = current[s]
    <3>1. CASE i <= Len(a)
      <4>1. ab[i] = a[i]
        BY <2>3, <3>1
      <4>2. i = 1 /\ Len(a) = 1
        BY <2>1, <3>1
      <4> QED
        BY <2>1, <4>1, <4>2
    <3>2. CASE i > Len(a)
      <4>1. ab[i] = b[i - Len(a)]
        BY <2>1, <2>3, <3>2
      <4>2. i - Len(a) = 1 /\ Len(b) = 1
        <5>1. Len(ab) = Len(a) + Len(b) /\ Len(a) \in 0..1 /\ Len(b) \in 0..1
          BY <2>1, <2>3, Zenon
        <5>2. \A x, y \in 0..1 : \A n \in 1..(x + y) : n > x => n - x = 1 /\ y = 1
          OBVIOUS
        <5> QED
          BY <3>2, <5>1, <5>2, Zenon
      <4> QED
        BY <2>1, <4>1, <4>2
    <3> QED
      BY <2>1, <3>1, <3>2
  <2>5. /\ Len(ab) \in Nat
        /\ Len(ab \o q) = Len(ab) + Len(q)
        /\ \A i \in 1..Len(ab \o q) : (ab \o q)[i] = IF i <= Len(ab) THEN ab[i] ELSE q[i - Len(ab)]
    <3>1. Len(ab \o q) = Len(ab) + Len(q)
      BY <2>0, <2>3, ConcatProperties, Zenon
    <3>2. \A i \in 1..(Len(ab) + Len(q)) :
            (ab \o q)[i] = IF i <= Len(ab) THEN ab[i] ELSE q[i - Len(ab)]
      BY <2>0, <2>3, ConcatProperties, SMT
    <3>3. Len(ab) \in Nat
      BY <2>3
    <3> QED
      BY <3>1, <3>2, <3>3, Zenon
  <2>6. ASSUME NEW i \in 1..Len(ab), NEW k \in 1..Len(ab), i < k PROVE ab[i] < ab[k]
    <3>1. Len(a) = 1 /\ i = 1 /\ ab[i] = last[s]
      BY <2>1, <2>4, <2>6
    <3>2. Len(b) = 1 /\ ab[k] = current[s]
      BY <2>1, <2>4, <2>6, <3>1
    <3> QED
      BY <2>1, <3>1, <3>2
  <2>7. ASSUME NEW i \in 1..Len(ab), NEW k \in 1..Len(q) PROVE ab[i] < q[k]
    BY <2>0, <2>4
  <2>8. ASSUME NEW i \in 1..Len(ab \o q), NEW k \in 1..Len(ab \o q), i < k
        PROVE  (ab \o q)[i] < (ab \o q)[k]
    <3>1. CASE k <= Len(ab)
      BY <2>0, <2>5, <2>6, <2>8, <3>1
    <3>2. CASE i <= Len(ab) /\ k > Len(ab)
      <4>1. k - Len(ab) \in 1..Len(q) /\ i \in 1..Len(ab)
        BY <2>0, <2>5, <3>2
      <4> QED
        BY <2>5, <2>7, <3>2, <4>1
    <3>3. CASE i > Len(ab)
      BY <2>0, <2>5, <2>8, <3>3
    <3> QED
      BY <2>5, <3>1, <3>2, <3>3
  <2> QED
    BY <2>2, <2>8
<1>2. IInv => FeedOrdered
  BY <1>1 DEF FeedOrdered
<1> QED
  BY <1>2, FeedInvariant, PTL

\* Once the job has ended, the sentinel is in the hands or at the end of the
\* queue of every handler that is still connected.
THEOREM SentinelsAreDelivered == Spec => []SentinelDelivered
<1>1. IInv => SentinelDelivered
  BY DEF IInv, ConnectedInv, SentinelDelivered
<1> QED
  BY <1>1, FeedInvariant, PTL

=============================================================================

--------------------------- MODULE SchedulerProofs ---------------------------
(***************************************************************************)
(* Proofs about the process table and the run queues, for any number of    *)
(* processes and ticks and any time slice.  The timer interrupt may come   *)
(* between any two steps of a system call, so the inductive invariant says *)
(* for each step what the call may still believe of the process it works   *)
(* on.                                                                     *)
(***************************************************************************)
EXTENDS Scheduler, RetainProofs

\* p waits in one of the queues qs.
InQueues(qs, p) == \E q \in 0..4 : Has(qs[q], p)

\* No process is in two places of the queues.
QueuesDistinct(qs) ==
    /\ \A q \in 0..4 : Distinct(qs[q])
    /\ \A q, r \in 0..4 : \A x : Has(qs[q], x) /\ Has(qs[r], x) => q = r

\* The steps of a call at which flow.pid names a process ...
Names ==
    \/ flow.at \in {"insert", "enqueue", "remove", "dequeue", "zombie", "wait", "asleep",
                    "loop", "awake"}
    \/ flow.at \in {"schedule", "switch"} /\ flow.then \in {"wait", "loop"}

\* ... and those at which that process is asleep.
SleepsOn ==
    \/ flow.at \in {"loop", "awake"}
    \/ flow.at \in {"schedule", "switch"} /\ flow.then = "loop"

\* The places of the flow of kernel code.
Steps == {"idle", "fork", "new", "insert", "enqueue", "remove", "dequeue", "exit", "zombie",
          "wait", "sleep", "asleep", "loop", "awake", "schedule", "switch"}
Returns == {"idle", "wait", "loop"}
Flows == [at : Steps, then : Returns, pid : Pids \cup {NONE}, prio : 0..4,
          old : Pids \cup {NONE}, new : Pids \cup {NONE}, wake : Nat]

\* Every variable has its type.
Shape ==
    /\ state \in [Pids -> States]
    /\ prio \in [Pids -> 0..4]
    /\ slice \in [Pids -> 0..SLICE]
    /\ run_queues \in [0..4 -> Seq(Pids)]
    /\ next_pid \in 3..(MAXPID + 1)
    /\ current \in 0..(next_pid - 1)
    /\ enabled \in BOOLEAN /\ ticks \in Nat
    /\ cpu \in {"running", "lost", "spinning"}
    /\ flow \in Flows
    /\ Names => flow.pid \in Pids

\* What is in a queue can be scheduled, is not current, and has a slice.
QueueInv ==
    /\ QueuesDistinct(run_queues)
    /\ \A q \in 0..4 : \A p : Has(run_queues[q], p) =>
         /\ p \in 1..(next_pid - 1)
         /\ p # current
         /\ prio[p] = q
         /\ slice[p] > 0
         /\ state[p] \in {"Created", "Ready"} \/ (flow.at = "dequeue" /\ flow.pid = p)

\* The table: pids not yet given and the idle process are not in it, only the
\* current process runs, and one that is ready is queued, or will not be.
TableInv ==
    /\ state[IDLE] = "absent"
    /\ \A p \in Pids :
         /\ p >= next_pid => state[p] = "absent"
         /\ state[p] = "Running" => p = current /\ slice[p] > 0
         /\ state[p] \in {"Created", "Ready"} =>
              \/ InQueues(run_queues, p) \/ p = INIT \/ p \in slept
              \/ flow.at = "enqueue" /\ flow.pid = p
    /\ ~enabled => current = NONE
    /\ current # NONE /\ state[current] = "Zombie" =>
         flow.at = "schedule" /\ flow.then = "idle"

\* What a call may believe of the process it works on, whatever the interrupt
\* did since it looked.
FlowInv ==
    /\ flow.at \in {"insert", "enqueue"} =>
         /\ flow.pid \in 3..(next_pid - 1)
         /\ ~InQueues(run_queues, flow.pid)
         /\ flow.pid # current
         /\ state[flow.pid] = IF flow.at = "insert" THEN "absent" ELSE "Created"
    /\ flow.at = "enqueue" => slice[flow.pid] > 0
    /\ flow.at = "dequeue" => state[flow.pid] = "absent"
    /\ flow.at \in {"zombie", "asleep"} /\ cpu = "running" => ~InQueues(run_queues, flow.pid)
    /\ flow.at = "asleep" => state[flow.pid] # "Zombie"
    /\ SleepsOn => state[flow.pid] \in {"Sleeping", "absent"}

IInv == Shape /\ QueueInv /\ TableInv /\ FlowInv

-----------------------------------------------------------------------------
(* The queues                                                              *)

\* A family of queues as the code keeps them.
Family(qs) == qs \in [0..4 -> Seq(Pids)] /\ QueuesDistinct(qs)

\* The queues after a push_back of p to queue k.
Pushed(qs, k, p) == [qs EXCEPT ![k] = Append(@, p)]

\* push_back of a process that is in no queue (add_process, schedule).
LEMMA PushedFamily ==
  ASSUME NEW qs, Family(qs), NEW k \in 0..4, NEW p \in Pids, ~InQueues(qs, p)
  PROVE  /\ Family(Pushed(qs, k, p))
         /\ \A q \in 0..4 : \A x :
              Has(Pushed(qs, k, p)[q], x) <=> Has(qs[q], x) \/ (q = k /\ x = p)
<1> DEFINE ns == Pushed(qs, k, p)
<1>1. qs \in [0..4 -> Seq(Pids)] /\ ns \in [0..4 -> Seq(Pids)]
  BY DEF Family, Pushed
<1>2. /\ ns[k] = Append(qs[k], p)
      /\ \A q \in 0..4 : q # k => ns[q] = qs[q]
  BY <1>1 DEF Pushed
<1> HIDE DEF ns
<1>3. /\ \A x : Has(ns[k], x) <=> Has(qs[k], x) \/ x = p
      /\ Distinct(ns[k])
  <2>1. qs[k] \in Seq(Pids) /\ Distinct(qs[k]) /\ ~Has(qs[k], p)
    BY <1>1, SMTT(20) DEF Family, QueuesDistinct, InQueues
  <2>2. /\ \A x : Has(Append(qs[k], p), x) <=> Has(qs[k], x) \/ x = p
        /\ Distinct(Append(qs[k], p))
    BY <2>1, AppendDistinct
  <2> QED
    BY <1>2, <2>2
<1>4. \A q \in 0..4 : \A x : Has(ns[q], x) <=> Has(qs[q], x) \/ (q = k /\ x = p)
  BY <1>2, <1>3, Zenon
<1>5. QueuesDistinct(ns)
  <2>1. \A q \in 0..4 : Distinct(ns[q])
    BY <1>2, <1>3, Zenon DEF Family, QueuesDistinct
  <2>2. ASSUME NEW q \in 0..4, NEW r \in 0..4, NEW x, Has(ns[q], x), Has(ns[r], x)
        PROVE  q = r
    <3>1. x = p => q = k /\ r = k
      BY <1>4, <2>2 DEF InQueues
    <3>2. x # p => Has(qs[q], x) /\ Has(qs[r], x)
      BY <1>4, <2>2
    <3> QED
      BY <3>1, <3>2 DEF Family, QueuesDistinct
  <2> QED
    BY <2>1, <2>2 DEF QueuesDistinct
<1> QED
  BY <1>1, <1>4, <1>5 DEF Family, ns

\* select_next takes the front of the highest queue that is not empty out of
\* the queues, and nothing else; with all queues empty it is the idle process.
LEMMA PoppedFamily ==
  ASSUME NEW qs, Family(qs)
  PROVE  /\ Family(Popped(qs))
         /\ \A q \in 0..4 : \A x :
              Has(Popped(qs)[q], x) <=> Has(qs[q], x) /\ x # SelectNext(qs)
         /\ \/ /\ \A q \in 0..4 : qs[q] = <<>> /\ Popped(qs)[q] = <<>>
               /\ SelectNext(qs) = IDLE
            \/ \E t \in 0..4 : /\ Has(qs[t], SelectNext(qs))
                               /\ \A q \in 0..4 : Popped(qs)[q] # <<>> => q <= t
<1> DEFINE new == SelectNext(qs)
           ps == Popped(qs)
<1>1. qs \in [0..4 -> Seq(Pids)] /\ QueuesDistinct(qs)
  BY DEF Family
<1>2. CASE \A q \in 0..4 : qs[q] = <<>>
  <2>1. new = IDLE
    BY <1>2 DEF SelectNext, TopQueue
  <2>2. \A q \in 0..4 : ps[q] = <<>>
    BY <1>2 DEF Popped
  <2>3. ps = qs
    BY <1>1, <1>2 DEF Popped
  <2>4. \A q \in 0..4 : \A x : ~Has(qs[q], x)
    BY <1>2 DEF Has
  <2> QED
    BY <1>2, <2>1, <2>2, <2>3, <2>4
<1>3. CASE \E q \in 0..4 : qs[q] # <<>>
  <2>1. \E t \in 0..4 : qs[t] # <<>> /\ \A r \in 0..4 : qs[r] # <<>> => r <= t
    BY <1>3
  <2>2. PICK t \in 0..4 : t \in TopQueue(qs)
    BY <2>1 DEF TopQueue
  <2>3. TopQueue(qs) = {t}
    BY <2>2 DEF TopQueue
  <2>4. new = Head(qs[t])
    BY <2>3 DEF SelectNext
  <2>5. qs[t] \in Seq(Pids) /\ qs[t] # <<>>
    BY <1>1, <2>2 DEF TopQueue
  <2>6. /\ Tail(qs[t]) \in Seq(Pids) /\ Distinct(Tail(qs[t]))
        /\ Has(qs[t], new)
        /\ \A x : Has(Tail(qs[t]), x) <=> Has(qs[t], x) /\ x # new
    <3>1. Distinct(qs[t])
      BY <1>1 DEF QueuesDistinct
    <3> QED
      BY <2>4, <2>5, <3>1, TailDistinct
  <2>7. ASSUME NEW q \in 0..4, q # t PROVE ~Has(qs[q], new)
    BY <1>1, <2>6, <2>7 DEF QueuesDistinct
  <2>8. ASSUME NEW q \in 0..4, q # t PROVE ps[q] = qs[q]
    <3>1. ASSUME qs[q] # <<>> PROVE Head(qs[q]) # new
      <4>1. qs[q] \in Seq(Pids)
        BY <1>1
      <4>2. Has(qs[q], Head(qs[q]))
        BY <3>1, <4>1, TailDistinct
      <4> QED
        BY <2>7, <2>8, <4>2
    <3> QED
      BY <3>1, SMTT(20) DEF Popped
  <2>9. ps[t] = Tail(qs[t])
    BY <2>4, <2>5 DEF Popped
  <2>10. ps \in [0..4 -> Seq(Pids)]
    <3>1. \A q \in 0..4 : ps[q] \in Seq(Pids)
      BY <1>1, <2>6, <2>8, <2>9, Zenon
    <3>2. ps = [q \in 0..4 |-> ps[q]]
      BY DEF Popped
    <3> HIDE DEF ps
    <3> QED
      BY <3>1, <3>2
  <2> HIDE DEF ps, new
  <2>11. \A q \in 0..4 : \A x : Has(ps[q], x) <=> Has(qs[q], x) /\ x # new
    BY <2>6, <2>7, <2>8, <2>9
  <2>12. QueuesDistinct(ps)
    BY <1>1, <2>6, <2>8, <2>9, <2>11 DEF QueuesDistinct
  <2>13. \A q \in 0..4 : ps[q] # <<>> => q <= t
    <3>1. ASSUME NEW q \in 0..4, ps[q] # <<>>, q # t PROVE q <= t
      BY <2>2, <2>8, <3>1 DEF TopQueue
    <3> QED
      BY <3>1
  <2> QED
    BY <2>6, <2>10, <2>12, <2>11, <2>13, Zenon DEF Family, ps, new
<1> QED
  BY <1>2, <1>3

-----------------------------------------------------------------------------
(* The locked section of schedule()                                        *)

\* schedule() keeps what the queues and the table say of each other, whatever
\* step the flow is at: the process taken is in no queue any more and runs, the
\* one it is taken from is queued with a new slice.
LEMMA RescheduleKeeps ==
  ASSUME ConstantsOK, IInv, NEW sl \in [Pids -> 0..SLICE],
         \A p \in Pids : p # current => sl[p] = slice[p],
         Reschedule(sl)
  PROVE  /\ state' \in [Pids -> States] /\ slice' \in [Pids -> 0..SLICE]
         /\ Family(run_queues')
         /\ current' \in 1..(next_pid - 1)
         /\ \A q \in 0..4 : \A x : Has(run_queues'[q], x) =>
              /\ x \in 1..(next_pid - 1) /\ x # current' /\ prio[x] = q /\ slice'[x] > 0
              /\ state'[x] \in {"Created", "Ready"} \/ (flow.at = "dequeue" /\ flow.pid = x)
         /\ \A p \in Pids :
              /\ state'[p] = "Running" => p = current' /\ slice'[p] > 0
              /\ state'[p] \in {"Created", "Ready"} =>
                   \/ InQueues(run_queues', p) \/ p = INIT \/ p \in slept
                   \/ flow.at = "enqueue" /\ flow.pid = p
              /\ state[p] \in {"absent", "Zombie", "Sleeping"} => state'[p] = state[p]
              /\ state[p] \notin {"absent", "Zombie", "Sleeping"} =>
                   state'[p] \notin {"absent", "Zombie", "Sleeping"}
              /\ ~InQueues(run_queues, p) /\ p # current =>
                   /\ ~InQueues(run_queues', p) /\ (p = current' => p = IDLE)
                   /\ state'[p] = state[p] /\ slice'[p] = slice[p]
              /\ ~InQueues(run_queues, p) /\ flow.at # "dequeue" /\ InQueues(run_queues', p) =>
                   SwitchLoses(p, current', state') /\ p = current
         /\ state'[current'] # "Zombie"
         /\ \A q \in 0..4 : run_queues'[q] # <<>> /\ current' # IDLE => q <= prio[current']
<1> DEFINE qs == Requeued
           new == SelectNext(qs)
           was == Requeues
<1>1. /\ run_queues' = Popped(qs) /\ current' = new
      /\ state' = [p \in Pids |-> IF p = new /\ InTable(p) THEN "Running"
                                  ELSE IF was /\ p = current THEN "Ready" ELSE state[p]]
      /\ slice' = [p \in Pids |-> IF was /\ p = current THEN SLICE ELSE sl[p]]
  BY DEF Reschedule
<1>2. /\ state \in [Pids -> States] /\ prio \in [Pids -> 0..4] /\ Family(run_queues)
      /\ slice \in [Pids -> 0..SLICE] /\ SLICE \in Nat \ {0} /\ MAXPID \in Nat
      /\ next_pid \in 3..(MAXPID + 1) /\ current \in 0..(next_pid - 1)
  BY DEF IInv, Shape, Family, QueueInv, ConstantsOK
<1>3. was => current \in Pids /\ current \in 1..(next_pid - 1) /\ state[current] = "Running"
  BY <1>2 DEF Requeues, InTable, NONE, Pids
<1>4. was => ~InQueues(run_queues, current)
  BY DEF IInv, QueueInv, InQueues
<1>5. /\ Family(qs)
      /\ \A q \in 0..4 : \A x :
           Has(qs[q], x) <=> Has(run_queues[q], x) \/ (was /\ q = prio[current] /\ x = current)
  <2>1. CASE was
    <3>1. qs = Pushed(run_queues, prio[current], current)
      BY <2>1 DEF Requeued, Pushed
    <3>2. prio[current] \in 0..4 /\ current \in Pids
      BY <1>2, <1>3, <2>1
    <3>3. ~InQueues(run_queues, current) /\ Family(run_queues)
      BY <1>2, <1>4, <2>1
    <3> HIDE DEF qs, was
    <3>4. /\ Family(Pushed(run_queues, prio[current], current))
          /\ \A q \in 0..4 : \A x :
               Has(Pushed(run_queues, prio[current], current)[q], x)
                 <=> Has(run_queues[q], x) \/ (q = prio[current] /\ x = current)
      BY <3>2, <3>3, PushedFamily, ZenonT(60)
    <3> QED
      BY <2>1, <3>1, <3>4, Zenon
  <2>2. CASE ~was
    BY <1>2, <2>2 DEF Requeued
  <2> QED
    BY <2>1, <2>2
<1> HIDE DEF qs, was
<1>6. /\ Family(run_queues')
      /\ \A q \in 0..4 : \A x : Has(run_queues'[q], x) <=> Has(qs[q], x) /\ x # new
      /\ \/ (\A q \in 0..4 : qs[q] = <<>> /\ run_queues'[q] = <<>>) /\ new = IDLE
         \/ \E t \in 0..4 : /\ Has(qs[t], new)
                            /\ \A q \in 0..4 : run_queues'[q] # <<>> => q <= t
  <2>1. /\ Family(Popped(qs))
        /\ \A q \in 0..4 : \A x : Has(Popped(qs)[q], x) <=> Has(qs[q], x) /\ x # new
        /\ \/ (\A q \in 0..4 : qs[q] = <<>> /\ Popped(qs)[q] = <<>>) /\ new = IDLE
           \/ \E t \in 0..4 : /\ Has(qs[t], new)
                              /\ \A q \in 0..4 : Popped(qs)[q] # <<>> => q <= t
    BY <1>5, PoppedFamily, Zenon
  <2> QED
    BY <1>1, <2>1, Zenon
<1> HIDE DEF new
<1>7. ASSUME NEW q \in 0..4, NEW x, Has(qs[q], x)
      PROVE  /\ x \in 1..(next_pid - 1) /\ x \in Pids /\ prio[x] = q
             /\ \/ was /\ x = current /\ state[x] = "Running"
                \/ /\ x # current /\ Has(run_queues[q], x) /\ slice[x] > 0
                   /\ \/ state[x] \in {"Created", "Ready"}
                      \/ flow.at = "dequeue" /\ flow.pid = x /\ state[x] = "absent"
  <2>1. CASE Has(run_queues[q], x)
    <3>1. /\ x \in 1..(next_pid - 1) /\ x # current /\ prio[x] = q /\ slice[x] > 0
          /\ state[x] \in {"Created", "Ready"} \/ (flow.at = "dequeue" /\ flow.pid = x)
      BY <2>1 DEF IInv, QueueInv
    <3>2. flow.at = "dequeue" => state[flow.pid] = "absent"
      BY DEF IInv, FlowInv
    <3>3. x \in Pids
      BY <1>2, <3>1 DEF Pids
    <3> QED
      BY <2>1, <3>1, <3>2, <3>3
  <2>2. CASE was /\ q = prio[current] /\ x = current
    BY <1>3, <2>2
  <2> QED
    BY <1>5, <1>7, <2>1, <2>2
<1>8. /\ new \in 1..(next_pid - 1) /\ new \in Pids
      /\ state[new] \in {"absent", "Created", "Ready", "Running"}
  <2>1. CASE new = IDLE
    <3>1. state[IDLE] = "absent"
      BY DEF IInv, TableInv
    <3>2. 2 \in 1..(next_pid - 1) /\ 2 \in Pids
      BY <1>2 DEF Pids
    <3> QED
      BY <2>1, <3>1, <3>2 DEF IDLE
  <2>2. CASE \E t \in 0..4 : Has(qs[t], new)
    BY <1>7, <2>2
  <2> QED
    BY <1>6, <2>1, <2>2
<1>9. ASSUME NEW p \in Pids
      PROVE  /\ state'[p] = IF p = new /\ state[p] # "absent" THEN "Running"
                            ELSE IF was /\ p = current THEN "Ready" ELSE state[p]
             /\ slice'[p] = IF was /\ p = current THEN SLICE ELSE sl[p]
             /\ p # current => sl[p] = slice[p]
  BY <1>1 DEF InTable, NONE, Pids
<1>10. state' \in [Pids -> States] /\ slice' \in [Pids -> 0..SLICE]
  BY <1>1, <1>2 DEF States
<1>11. ASSUME NEW q \in 0..4, NEW x, Has(run_queues'[q], x)
       PROVE  /\ x \in 1..(next_pid - 1) /\ x # current' /\ prio[x] = q /\ slice'[x] > 0
              /\ state'[x] \in {"Created", "Ready"} \/ (flow.at = "dequeue" /\ flow.pid = x)
  <2>1. Has(qs[q], x) /\ x # new
    BY <1>6, <1>11
  <2>2. x \in Pids
    BY <1>7, <2>1
  <2> QED
    BY <1>1, <1>2, <1>7, <1>9, <2>1, <2>2
<1>12. ASSUME NEW p \in Pids, state'[p] = "Running" PROVE p = current' /\ slice'[p] > 0
  <2>1. state[p] = "Running" => p = current /\ was
    BY <1>2 DEF IInv, TableInv, was, Requeues, InTable, NONE, Pids
  <2>2. p = new /\ state[p] # "absent"
    BY <1>9, <1>12, <2>1
  <2>3. \E t \in 0..4 : Has(qs[t], new)
    BY <1>6, <2>2 DEF IInv, TableInv
  <2> QED
    BY <1>1, <1>2, <1>7, <1>9, <2>2, <2>3
<1>13. ASSUME NEW p \in Pids, state'[p] \in {"Created", "Ready"}
       PROVE  \/ InQueues(run_queues', p) \/ p = INIT \/ p \in slept
              \/ flow.at = "enqueue" /\ flow.pid = p
  <2>1. p # new
    BY <1>3, <1>8, <1>9, <1>13
  <2>2. CASE was /\ p = current
    <3>1. Has(qs[prio[current]], p) /\ prio[current] \in 0..4
      BY <1>2, <1>5, <2>2
    <3> QED
      BY <1>6, <2>1, <3>1 DEF InQueues
  <2>3. CASE ~(was /\ p = current)
    <3>1. state[p] \in {"Created", "Ready"}
      BY <1>9, <1>13, <2>1, <2>3
    <3>2. \/ InQueues(run_queues, p) \/ p = INIT \/ p \in slept
          \/ flow.at = "enqueue" /\ flow.pid = p
      BY <3>1 DEF IInv, TableInv
    <3>3. InQueues(run_queues, p) => InQueues(run_queues', p)
      BY <1>5, <1>6, <2>1 DEF InQueues
    <3> QED
      BY <3>2, <3>3
  <2> QED
    BY <2>2, <2>3
<1>14. ASSUME NEW p \in Pids
       PROVE  /\ state[p] \in {"absent", "Zombie", "Sleeping"} => state'[p] = state[p]
              /\ state[p] \notin {"absent", "Zombie", "Sleeping"} =>
                   state'[p] \notin {"absent", "Zombie", "Sleeping"}
  BY <1>3, <1>8, <1>9
<1>15. ASSUME NEW p \in Pids, ~InQueues(run_queues, p), p # current
       PROVE  /\ ~InQueues(run_queues', p) /\ (p = current' => p = IDLE)
              /\ state'[p] = state[p] /\ slice'[p] = slice[p]
  <2>1. \A t \in 0..4 : ~Has(qs[t], p)
    BY <1>5, <1>15 DEF InQueues
  <2>2. p = new => p = IDLE
    BY <1>6, <2>1
  <2>3. p = new => state[p] = "absent"
    BY <2>2 DEF IInv, TableInv
  <2> QED
    BY <1>1, <1>6, <1>9, <1>15, <2>1, <2>2, <2>3 DEF InQueues
<1>16. ASSUME NEW p \in Pids, ~InQueues(run_queues, p), flow.at # "dequeue",
              InQueues(run_queues', p)
       PROVE  SwitchLoses(p, current', state') /\ p = current
  <2>1. PICK q \in 0..4 : Has(qs[q], p) /\ p # new
    BY <1>6, <1>16 DEF InQueues
  <2>2. was /\ p = current
    BY <1>5, <1>16, <2>1 DEF InQueues
  <2>3. state'[p] = "Ready"
    BY <1>9, <2>1, <2>2
  <2>4. qs[q] # <<>>
    BY <2>1 DEF Has
  <2>5. PICK t \in 0..4 : Has(qs[t], new)
    BY <1>6, <2>4
  <2>6. state[new] # "absent"
    BY <1>7, <1>16, <2>5
  <2>7. state'[new] = "Running"
    BY <1>8, <1>9, <2>6
  <2> QED
    BY <1>1, <1>8, <2>1, <2>2, <2>3, <2>7, SMTT(20) DEF SwitchLoses, NONE, Pids
<1>17. state'[current'] # "Zombie"
  BY <1>1, <1>8, <1>9
<1>18. ASSUME NEW q \in 0..4, run_queues'[q] # <<>>, current' # IDLE
       PROVE  q <= prio[current']
  <2>1. PICK t \in 0..4 : Has(qs[t], new) /\ q <= t
    BY <1>1, <1>6, <1>18
  <2> QED
    BY <1>1, <1>7, <2>1
<1> QED
  BY <1>1, <1>6, <1>8, <1>10, <1>11, <1>12, <1>13, <1>14, <1>15, <1>16, <1>17, <1>18, Zenon

-----------------------------------------------------------------------------
(* The steps                                                               *)

\* A place has the type of a place.
LEMMA PlaceTyped ==
  ASSUME NEW a \in Steps, NEW t \in Returns, NEW p \in Pids \cup {NONE}
  PROVE  /\ Place(a, t, p) \in Flows
         /\ Place(a, t, p).at = a /\ Place(a, t, p).then = t /\ Place(a, t, p).pid = p
BY DEF Place, Flows, NONE

\* A pid that was given stays given.
LEMMA PidsGrow ==
  ASSUME NEW m \in Nat, NEW n \in Nat, m <= n, NEW p \in 1..(m - 1)
  PROVE  p \in 1..(n - 1)
OBVIOUS

\* A step that leaves the tables alone keeps what they say of each other, if it
\* is not the one that takes a process in or out, or leaves a zombie current.
LEMMA TablesAlone ==
  ASSUME ConstantsOK, IInv, UNCHANGED <<procs, sched, slept>>,
         next_pid' \in {next_pid, next_pid + 1},
         enabled => enabled',
         flow.at \in {"dequeue", "enqueue"} => flow' = flow,
         flow.at = "schedule" => flow' = flow \/ current = NONE
  PROVE  QueueInv' /\ TableInv'
<1>1. /\ state' = state /\ prio' = prio /\ slice' = slice /\ slept' = slept
      /\ run_queues' = run_queues /\ current' = current
  BY DEF procs, sched
<1>2. next_pid \in Nat /\ next_pid' \in Nat /\ next_pid <= next_pid'
  BY DEF IInv, Shape, ConstantsOK
<1>3. QueueInv'
  <2>1. QueuesDistinct(run_queues')
    BY <1>1 DEF IInv, QueueInv
  <2>2. ASSUME NEW q \in 0..4, NEW p, Has(run_queues'[q], p)
        PROVE  /\ p \in 1..(next_pid' - 1) /\ p # current' /\ prio'[p] = q /\ slice'[p] > 0
               /\ state'[p] \in {"Created", "Ready"} \/ (flow'.at = "dequeue" /\ flow'.pid = p)
    <3>1. /\ p \in 1..(next_pid - 1) /\ p # current /\ prio[p] = q /\ slice[p] > 0
          /\ state[p] \in {"Created", "Ready"} \/ (flow.at = "dequeue" /\ flow.pid = p)
      BY <1>1, <2>2 DEF IInv, QueueInv
    <3>2. p \in 1..(next_pid' - 1)
      <4>1. p \in 1..(next_pid - 1)
        BY <3>1
      <4> QED
        BY <1>2, <4>1, PidsGrow, Zenon
    <3>3. flow.at = "dequeue" => flow' = flow
      OBVIOUS
    <3> QED
      BY <1>1, <3>1, <3>2, <3>3
  <2> QED
    BY <2>1, <2>2 DEF QueueInv
<1>4. TableInv'
  <2>1. ASSUME NEW p \in Pids
        PROVE  /\ p >= next_pid' => state'[p] = "absent"
               /\ state'[p] = "Running" => p = current' /\ slice'[p] > 0
               /\ state'[p] \in {"Created", "Ready"} =>
                    \/ InQueues(run_queues', p) \/ p = INIT \/ p \in slept'
                    \/ flow'.at = "enqueue" /\ flow'.pid = p
    <3>1. /\ p >= next_pid => state[p] = "absent"
          /\ state[p] = "Running" => p = current /\ slice[p] > 0
          /\ state[p] \in {"Created", "Ready"} =>
               \/ InQueues(run_queues, p) \/ p = INIT \/ p \in slept
               \/ flow.at = "enqueue" /\ flow.pid = p
      BY DEF IInv, TableInv
    <3>2. p >= next_pid' => p >= next_pid
      BY <1>2 DEF Pids
    <3> QED
      BY <1>1, <3>1, <3>2
  <2>2. /\ state'[IDLE] = "absent"
        /\ ~enabled' => current' = NONE
        /\ current' # NONE /\ state'[current'] = "Zombie" =>
             flow'.at = "schedule" /\ flow'.then = "idle"
    BY <1>1 DEF IInv, TableInv
  <2> QED
    BY <2>1, <2>2 DEF TableInv
<1> QED
  BY <1>3, <1>4

\* The same for a step that ends the locked section of schedule().
LEMMA TablesRescheduled ==
  ASSUME ConstantsOK, IInv, NEW sl \in [Pids -> 0..SLICE],
         \A p \in Pids : p # current => sl[p] = slice[p],
         Reschedule(sl), enabled, UNCHANGED <<prio, next_pid, enabled, slept>>,
         flow.at \in {"dequeue", "enqueue"} => flow' = flow
  PROVE  QueueInv' /\ TableInv'
<1>1. prio' = prio /\ next_pid' = next_pid /\ enabled' = enabled /\ slept' = slept
  OBVIOUS
<1>2. QueueInv'
  <2>1. QueuesDistinct(run_queues')
    BY RescheduleKeeps DEF Family
  <2>2. ASSUME NEW q \in 0..4, NEW p, Has(run_queues'[q], p)
        PROVE  /\ p \in 1..(next_pid' - 1) /\ p # current' /\ prio'[p] = q /\ slice'[p] > 0
               /\ state'[p] \in {"Created", "Ready"} \/ (flow'.at = "dequeue" /\ flow'.pid = p)
    <3>1. /\ p \in 1..(next_pid - 1) /\ p # current' /\ prio[p] = q /\ slice'[p] > 0
          /\ state'[p] \in {"Created", "Ready"} \/ (flow.at = "dequeue" /\ flow.pid = p)
      BY <2>2, RescheduleKeeps
    <3> QED
      BY <1>1, <3>1
  <2> QED
    BY <2>1, <2>2 DEF QueueInv
<1>3. TableInv'
  <2>1. ASSUME NEW p \in Pids
        PROVE  /\ p >= next_pid' => state'[p] = "absent"
               /\ state'[p] = "Running" => p = current' /\ slice'[p] > 0
               /\ state'[p] \in {"Created", "Ready"} =>
                    \/ InQueues(run_queues', p) \/ p = INIT \/ p \in slept'
                    \/ flow'.at = "enqueue" /\ flow'.pid = p
    <3>1. /\ state'[p] = "Running" => p = current' /\ slice'[p] > 0
          /\ state'[p] \in {"Created", "Ready"} =>
               \/ InQueues(run_queues', p) \/ p = INIT \/ p \in slept
               \/ flow.at = "enqueue" /\ flow.pid = p
          /\ state[p] \in {"absent", "Zombie", "Sleeping"} => state'[p] = state[p]
      BY RescheduleKeeps
    <3>2. p >= next_pid => state[p] = "absent"
      BY DEF IInv, TableInv
    <3> QED
      BY <1>1, <3>1, <3>2
  <2>2. state'[IDLE] = "absent"
    <3>1. IDLE \in Pids /\ state[IDLE] = "absent"
      BY DEF IInv, TableInv, ConstantsOK, IDLE, Pids
    <3> QED
      BY <3>1, RescheduleKeeps
  <2>3. enabled' /\ state'[current'] # "Zombie"
    BY <1>1, RescheduleKeeps
  <2> QED
    BY <2>1, <2>2, <2>3 DEF TableInv
<1> QED
  BY <1>2, <1>3

\* The timer interrupt keeps the invariant, wherever it finds the flow.
LEMMA TickKeeps ==
  ASSUME ConstantsOK, IInv, Tick
  PROVE  IInv'
<1> DEFINE sl == [slice EXCEPT ![current] = IF @ > 0 THEN @ - 1 ELSE 0]
<1>1. /\ cpu = "running" /\ ticks' \in Nat
      /\ next_pid' = next_pid /\ enabled' = enabled /\ flow' = flow /\ slept' = slept
  BY DEF Tick, IInv, Shape
<1>2. /\ slice \in [Pids -> 0..SLICE] /\ SLICE \in Nat
      /\ next_pid \in 3..(MAXPID + 1) /\ MAXPID \in Nat /\ current \in 0..(next_pid - 1)
  BY DEF IInv, Shape, ConstantsOK
<1>3. CASE ~enabled
  <2>1. UNCHANGED <<procs, sched, cpu>>
    BY <1>3 DEF Tick
  <2>2. QueueInv' /\ TableInv'
    BY <1>1, <1>3, <2>1, TablesAlone
  <2>3. Shape' /\ FlowInv'
    BY <1>1, <2>1 DEF IInv, Shape, FlowInv, procs, sched, Names, SleepsOn
  <2> QED
    BY <2>2, <2>3 DEF IInv
<1>4. ASSUME enabled, InTable(current), sl[current] # 0 PROVE IInv'
  <2>1. /\ slice' = sl /\ state' = state /\ prio' = prio /\ run_queues' = run_queues
        /\ current' = current /\ cpu' = cpu
    BY <1>4 DEF Tick, sched
  <2>2. current \in Pids
    BY <1>2, <1>4 DEF InTable, NONE, Pids
  <2>3. /\ slice' \in [Pids -> 0..SLICE] /\ slice'[current] > 0
        /\ \A p \in Pids : p # current => slice'[p] = slice[p]
    BY <1>2, <1>4, <2>1, <2>2
  <2> HIDE DEF sl
  <2>4. Shape'
    BY <1>1, <2>1, <2>3, SMTT(20) DEF IInv, Shape, Names
  <2>5. QueueInv'
    <3>1. ASSUME NEW q \in 0..4, NEW p, Has(run_queues'[q], p)
          PROVE  /\ p \in 1..(next_pid' - 1) /\ p # current' /\ prio'[p] = q /\ slice'[p] > 0
                 /\ state'[p] \in {"Created", "Ready"} \/ (flow'.at = "dequeue" /\ flow'.pid = p)
      <4>1. /\ p \in 1..(next_pid - 1) /\ p # current /\ prio[p] = q /\ slice[p] > 0
            /\ state[p] \in {"Created", "Ready"} \/ (flow.at = "dequeue" /\ flow.pid = p)
        BY <2>1, <3>1 DEF IInv, QueueInv
      <4>2. p \in Pids
        BY <1>2, <4>1 DEF Pids
      <4> QED
        BY <1>1, <2>1, <2>3, <4>1, <4>2
    <3> QED
      BY <2>1, <3>1 DEF IInv, QueueInv
  <2>6. TableInv'
    <3>1. \A p \in Pids : state'[p] = "Running" => p = current' /\ slice'[p] > 0
      BY <2>1, <2>3 DEF IInv, TableInv
    <3> QED
      BY <1>1, <2>1, <3>1 DEF IInv, TableInv
  <2>7. FlowInv'
    <3>1. flow.at = "enqueue" => flow.pid # current /\ flow.pid \in Pids /\ slice[flow.pid] > 0
      BY DEF IInv, FlowInv, Shape, Names
    <3>2. flow.at = "enqueue" => slice'[flow.pid] > 0
      BY <2>3, <3>1
    <3> QED
      BY <1>1, <2>1, <3>2 DEF IInv, FlowInv, SleepsOn
  <2> QED
    BY <2>4, <2>5, <2>6, <2>7 DEF IInv
<1>5. ASSUME enabled, ~(InTable(current) /\ sl[current] # 0) PROVE IInv'
  <2> DEFINE s2 == IF InTable(current) THEN sl ELSE slice
  <2>1. /\ Reschedule(s2) /\ prio' = prio
        /\ cpu' = IF SwitchLoses(current, current', state') THEN "lost" ELSE cpu
    BY <1>5 DEF Tick
  <2>2. s2 \in [Pids -> 0..SLICE] /\ \A p \in Pids : p # current => s2[p] = slice[p]
    <3>1. CASE InTable(current)
      <4>1. current \in Pids
        BY <1>2, <3>1 DEF InTable, NONE, Pids
      <4>2. sl[current] \in 0..SLICE /\ \A p \in Pids : p # current => sl[p] = slice[p]
        BY <1>2, <4>1
      <4>3. sl \in [Pids -> 0..SLICE]
        BY <1>2, <4>1
      <4> QED
        BY <3>1, <4>2, <4>3
    <3>2. CASE ~InTable(current)
      BY <1>2, <3>2
    <3> QED
      BY <3>1, <3>2
  <2> HIDE DEF s2
  <2>3. QueueInv' /\ TableInv'
    BY <1>1, <1>5, <2>1, <2>2, TablesRescheduled
  <2>4. Shape'
    <3>1. /\ state' \in [Pids -> States] /\ slice' \in [Pids -> 0..SLICE]
          /\ run_queues' \in [0..4 -> Seq(Pids)] /\ current' \in 1..(next_pid - 1)
      BY <2>1, <2>2, RescheduleKeeps DEF Family
    <3>2. current' \in 0..(next_pid' - 1) /\ cpu' \in {"running", "lost", "spinning"}
      BY <1>1, <1>2, <2>1, <3>1
    <3> QED
      BY <1>1, <2>1, <3>1, <3>2, Zenon DEF IInv, Shape, Names
  <2>5. FlowInv'
    <3> DEFINE p == flow.pid
    <3>1. Names => p \in Pids
      BY DEF IInv, Shape
    <3>2. ASSUME flow.at \in {"insert", "enqueue"}
          PROVE  /\ p \in 3..(next_pid' - 1) /\ ~InQueues(run_queues', p) /\ p # current'
                 /\ state'[p] = (IF flow.at = "insert" THEN "absent" ELSE "Created")
                 /\ slice'[p] = slice[p]
      <4>1. /\ p \in Pids /\ p \in 3..(next_pid - 1) /\ ~InQueues(run_queues, p) /\ p # current
            /\ state[p] = IF flow.at = "insert" THEN "absent" ELSE "Created"
        BY <3>1, <3>2 DEF IInv, FlowInv, Names
      <4>2. /\ ~InQueues(run_queues', p) /\ (p = current' => p = IDLE)
            /\ state'[p] = state[p] /\ slice'[p] = slice[p]
        BY <2>1, <2>2, <4>1, RescheduleKeeps
      <4>3. p # current'
        BY <1>2, <4>1, <4>2 DEF IDLE
      <4> QED
        BY <1>1, <4>1, <4>2, <4>3
    <3>3. flow.at = "enqueue" => slice'[p] > 0
      BY <3>2 DEF IInv, FlowInv
    <3>4. ASSUME NEW w \in Pids
          PROVE  /\ state[w] \in {"absent", "Zombie", "Sleeping"} => state'[w] = state[w]
                 /\ state[w] # "Zombie" => state'[w] # "Zombie"
      BY <2>1, <2>2, RescheduleKeeps
    <3>5. flow.at = "dequeue" => state'[p] = "absent"
      BY <3>1, <3>4 DEF IInv, FlowInv, Names
    <3>6. flow.at = "asleep" => state'[p] # "Zombie"
      BY <3>1, <3>4 DEF IInv, FlowInv, Names
    <3>7. SleepsOn => state'[p] \in {"Sleeping", "absent"}
      BY <3>1, <3>4 DEF IInv, FlowInv, Names, SleepsOn
    <3>8. ASSUME flow.at \in {"zombie", "asleep"}, cpu' = "running"
          PROVE  ~InQueues(run_queues', p)
      <4>1. p \in Pids /\ ~InQueues(run_queues, p) /\ flow.at # "dequeue"
        BY <1>1, <3>1, <3>8 DEF IInv, FlowInv, Names
      <4>2. ~SwitchLoses(current, current', state')
        BY <2>1, <3>8
      <4> QED
        BY <2>1, <2>2, <4>1, <4>2, RescheduleKeeps
    <3> QED
      BY <1>1, <3>2, <3>3, <3>5, <3>6, <3>7, <3>8 DEF FlowInv, SleepsOn
  <2> QED
    BY <2>3, <2>4, <2>5 DEF IInv
<1> QED
  BY <1>3, <1>4, <1>5

\* The types, for a step that leaves the tables alone.
LEMMA ShapeAlone ==
  ASSUME ConstantsOK, Shape, UNCHANGED <<procs, sched>>,
         next_pid' \in 3..(MAXPID + 1), next_pid <= next_pid',
         enabled' \in BOOLEAN, ticks' \in Nat, cpu' \in {"running", "lost", "spinning"},
         flow' \in Flows, Names' => flow'.pid \in Pids
  PROVE  Shape'
<1>1. current' \in 0..(next_pid' - 1)
  <2>1. /\ current \in 0..(next_pid - 1) /\ current' = current
        /\ next_pid \in Int /\ next_pid' \in Int /\ next_pid <= next_pid'
    BY DEF Shape, sched, ConstantsOK
  <2>2. ASSUME NEW m \in Int, NEW n \in Int, m <= n, NEW c \in 0..(m - 1) PROVE c \in 0..(n - 1)
    BY <2>2
  <2> QED
    BY <2>1, <2>2, Zenon
<1> QED
  BY <1>1, Zenon DEF Shape, procs, sched

\* Where the flow holds no pid it has looked up, there is nothing to keep.
LEMMA FlowFree ==
  ASSUME \/ flow'.at \in {"idle", "fork", "new", "exit", "sleep", "remove", "wait"}
         \/ flow'.at \in {"schedule", "switch"} /\ flow'.then # "loop"
  PROVE  FlowInv'
BY DEF FlowInv, SleepsOn

\* A step that marks one process, in no queue or on its way out of them.
LEMMA OneMarked ==
  ASSUME ConstantsOK, IInv, NEW w \in Pids, NEW s \in States \ {"Running"},
         state' = [state EXCEPT ![w] = s],
         UNCHANGED <<prio, slice, sched, next_pid, enabled>>,
         slept \subseteq slept',
         flow.at \notin {"dequeue", "enqueue", "schedule"},
         InQueues(run_queues, w) => s = "absent" /\ flow'.at = "dequeue" /\ flow'.pid = w,
         s \in {"Created", "Ready"} => w \in slept',
         s = "Zombie" => flow'.at = "schedule" /\ flow'.then = "idle",
         s # "absent" => state[w] # "absent"
  PROVE  QueueInv' /\ TableInv'
<1>1. /\ prio' = prio /\ slice' = slice /\ run_queues' = run_queues /\ current' = current
      /\ next_pid' = next_pid /\ enabled' = enabled
  BY DEF sched
<1>2. /\ state \in [Pids -> States] /\ MAXPID \in Nat
      /\ next_pid \in 3..(MAXPID + 1) /\ current \in 0..(next_pid - 1)
  BY DEF IInv, Shape, ConstantsOK
<1>3. state'[w] = s /\ \A p \in Pids : p # w => state'[p] = state[p]
  BY <1>2
<1>4. ASSUME NEW q \in 0..4, NEW p, Has(run_queues'[q], p)
      PROVE  /\ p \in 1..(next_pid' - 1) /\ p # current' /\ prio'[p] = q /\ slice'[p] > 0
             /\ state'[p] \in {"Created", "Ready"} \/ (flow'.at = "dequeue" /\ flow'.pid = p)
  <2>1. /\ p \in 1..(next_pid - 1) /\ p # current /\ prio[p] = q /\ slice[p] > 0
        /\ state[p] \in {"Created", "Ready"}
    BY <1>1, <1>4 DEF IInv, QueueInv
  <2>2. p \in Pids
    BY <1>2, <2>1 DEF Pids
  <2>3. p = w => flow'.at = "dequeue" /\ flow'.pid = p
    BY <1>1, <1>4 DEF InQueues
  <2> QED
    BY <1>1, <1>3, <2>1, <2>2, <2>3
<1>5. ASSUME NEW p \in Pids
      PROVE  /\ p >= next_pid' => state'[p] = "absent"
             /\ state'[p] = "Running" => p = current' /\ slice'[p] > 0
             /\ state'[p] \in {"Created", "Ready"} =>
                  \/ InQueues(run_queues', p) \/ p = INIT \/ p \in slept'
                  \/ flow'.at = "enqueue" /\ flow'.pid = p
  <2>1. /\ p >= next_pid => state[p] = "absent"
        /\ state[p] = "Running" => p = current /\ slice[p] > 0
        /\ state[p] \in {"Created", "Ready"} =>
             InQueues(run_queues, p) \/ p = INIT \/ p \in slept
    BY DEF IInv, TableInv
  <2> QED
    BY <1>1, <1>3, <2>1
<1>6. state'[IDLE] = "absent"
  <2>1. IDLE \in Pids /\ state[IDLE] = "absent"
    BY DEF IInv, TableInv, ConstantsOK, IDLE, Pids
  <2> QED
    BY <1>3, <2>1
<1>7. ~enabled' => current' = NONE
  BY <1>1 DEF IInv, TableInv
<1>8. ASSUME current' # NONE, state'[current'] = "Zombie"
      PROVE  flow'.at = "schedule" /\ flow'.then = "idle"
  <2>1. current \in Pids /\ state[current] # "Zombie"
    BY <1>1, <1>2, <1>8 DEF IInv, TableInv, NONE, Pids
  <2> QED
    BY <1>1, <1>3, <1>8, <2>1
<1>9. QueuesDistinct(run_queues')
  BY <1>1 DEF IInv, QueueInv
<1> QED
  BY <1>4, <1>5, <1>6, <1>7, <1>8, <1>9 DEF QueueInv, TableInv

\* ... and its types.
LEMMA OneMarkedShape ==
  ASSUME ConstantsOK, Shape, NEW w \in Pids, NEW s \in States,
         state' = [state EXCEPT ![w] = s],
         UNCHANGED <<prio, slice, sched, next_pid, enabled, ticks, cpu>>,
         flow' \in Flows, Names' => flow'.pid \in Pids
  PROVE  Shape'
BY DEF Shape, sched

\* A step of the flow that only looks, or takes a pid, keeps the invariant.
LEMMA LookKeeps ==
  ASSUME ConstantsOK, IInv,
         TickInside \/ Start \/ Call \/ Fork \/ NewProcess \/ Exit \/ Sleep \/ SleepLoop
  PROVE  IInv'
<1>1. /\ Shape /\ next_pid \in 3..(MAXPID + 1) /\ MAXPID \in Nat /\ MAXPID >= 2
      /\ current \in 0..(next_pid - 1) /\ flow \in Flows /\ enabled \in BOOLEAN /\ ticks \in Nat
      /\ prio \in [Pids -> 0..4]
      /\ NONE \in Pids \cup {NONE} /\ next_pid <= next_pid
  BY DEF IInv, Shape, ConstantsOK
<1>2. /\ Idle \in Flows /\ Idle.at = "idle"
  BY <1>1, PlaceTyped DEF Idle, Steps, Returns
<1>3. ASSUME NEW p \in 1..(next_pid - 1) PROVE p \in Pids
  BY <1>1 DEF Pids
<1>4. current # NONE => current \in Pids /\ ~InQueues(run_queues, current)
  <2>1. current # NONE => current \in Pids
    BY <1>1 DEF NONE, Pids
  <2> QED
    BY <2>1 DEF IInv, QueueInv, InQueues
<1>5. CASE TickInside
  <2>1. /\ UNCHANGED <<procs, sched, slept>> /\ next_pid' = next_pid /\ enabled' = enabled
        /\ flow' = flow /\ cpu' = "spinning" /\ ticks' \in Nat
    BY <1>1, <1>5 DEF TickInside
  <2>2. QueueInv' /\ TableInv'
    BY <2>1, TablesAlone
  <2>3. Shape'
    BY <2>1 DEF IInv, Shape, procs, sched, Names
  <2>4. FlowInv'
    BY <2>1 DEF IInv, FlowInv, SleepsOn, procs, sched
  <2> QED
    BY <2>2, <2>3, <2>4 DEF IInv
<1>6. CASE Start
  <2>1. /\ UNCHANGED <<procs, sched, slept>> /\ next_pid' = next_pid /\ enabled' = TRUE
        /\ flow' = flow /\ flow.at = "idle" /\ cpu' = cpu /\ ticks' = ticks
    BY <1>6 DEF Start, At
  <2>2. QueueInv' /\ TableInv'
    BY <2>1, TablesAlone
  <2>3. Shape'
    BY <2>1 DEF IInv, Shape, procs, sched, Names
  <2>4. FlowInv'
    BY <2>1, FlowFree
  <2> QED
    BY <2>2, <2>3, <2>4 DEF IInv
<1>7. ASSUME UNCHANGED <<procs, sched, enabled, ticks, cpu, slept>>,
             next_pid' \in 3..(MAXPID + 1), next_pid' \in {next_pid, next_pid + 1},
             flow.at \notin {"dequeue", "enqueue", "schedule"},
             flow' \in Flows, Names' => flow'.pid \in Pids
      PROVE  Shape' /\ QueueInv' /\ TableInv'
  <2>1. QueueInv' /\ TableInv'
    BY <1>7, TablesAlone
  <2>2. next_pid <= next_pid'
    BY <1>1, <1>7
  <2>3. Shape'
    <3>1. cpu' \in {"running", "lost", "spinning"} /\ enabled' \in BOOLEAN /\ ticks' \in Nat
      BY <1>1, <1>7 DEF Shape
    <3> QED
      BY <1>1, <1>7, <2>2, <3>1, ShapeAlone
  <2> QED
    BY <2>1, <2>3
<1>8. CASE Call
  <2>1. /\ UNCHANGED <<procs, sched, next_pid, enabled, ticks, cpu, slept>> /\ flow.at = "idle"
    BY <1>8 DEF Call, At
  <2>2. PICK p \in 1..(next_pid - 1) :
          flow' \in {SysExit, SysFork, SysWait(p), SysYield, Place("remove", "idle", p)}
                    \cup {[Place("new", "idle", NONE) EXCEPT !.prio = q] : q \in Prios}
                    \cup {SysSleep(ms) : ms \in 0..1}
    BY <1>8 DEF Call
  <2>3. p \in Pids
    BY <1>3
  <2>4. /\ flow' \in Flows
        /\ \/ flow'.at \in {"exit", "fork", "new", "sleep"}
           \/ flow'.at \in {"wait", "remove"} /\ flow'.pid = p
           \/ flow'.at = "schedule" /\ flow'.then = "idle"
    <3>1. CASE flow' \in {SysExit, SysFork, SysWait(p), SysYield, Place("remove", "idle", p)}
      <4>1. /\ SysExit \in Flows /\ SysExit.at = "exit"
            /\ SysFork \in Flows /\ SysFork.at = "fork"
        BY <1>1, PlaceTyped DEF SysExit, SysFork, Steps, Returns
      <4>2. SysYield \in Flows /\ SysYield.at = "schedule" /\ SysYield.then = "idle"
        BY <1>1, PlaceTyped DEF SysYield, Steps, Returns
      <4>3. SysWait(p) \in Flows /\ SysWait(p).at = "wait" /\ SysWait(p).pid = p
        BY <2>3, PlaceTyped DEF SysWait, Steps, Returns
      <4>4. /\ Place("remove", "idle", p) \in Flows /\ Place("remove", "idle", p).at = "remove"
            /\ Place("remove", "idle", p).pid = p
        BY <2>3, PlaceTyped DEF Steps, Returns
      <4> QED
        BY <3>1, <4>1, <4>2, <4>3, <4>4
    <3>2. CASE flow' \in {[Place("new", "idle", NONE) EXCEPT !.prio = q] : q \in Prios}
      <4>1. PICK q \in Prios : flow' = [Place("new", "idle", NONE) EXCEPT !.prio = q]
        BY <3>2
      <4>2. q \in 0..4
        BY DEF ConstantsOK
      <4> QED
        BY <4>1, <4>2 DEF Place, Flows, Steps, Returns, NONE
    <3>3. CASE flow' \in {SysSleep(ms) : ms \in 0..1}
      <4>1. PICK ms \in 0..1 : flow' = [Place("sleep", "loop", NONE) EXCEPT !.wake = ticks + ms]
        BY <3>3 DEF SysSleep
      <4>2. ticks + ms \in Nat
        BY <1>1
      <4> QED
        BY <4>1, <4>2 DEF Place, Flows, Steps, Returns, NONE
    <3> QED
      BY <2>2, <3>1, <3>2, <3>3
  <2>5. Names' => flow'.pid \in Pids
    BY <2>3, <2>4 DEF Names
  <2>6. FlowInv'
    BY <2>4, FlowFree
  <2> QED
    BY <1>1, <1>7, <2>1, <2>4, <2>5, <2>6 DEF IInv
<1>9. CASE Fork
  <2>1. UNCHANGED <<procs, sched, next_pid, enabled, ticks, cpu, slept>> /\ flow.at = "fork"
    BY <1>9 DEF Fork, At
  <2>2. flow' \in Flows /\ flow'.at \in {"idle", "new"}
    <3>1. CASE InTable(current)
      <4>1. flow' = [Place("new", "idle", NONE) EXCEPT !.prio = prio[current]]
        BY <1>9, <3>1 DEF Fork
      <4>2. prio[current] \in 0..4
        BY <1>1, <1>4, <3>1 DEF InTable
      <4> QED
        BY <4>1, <4>2 DEF Place, Flows, Steps, Returns, NONE
    <3>2. CASE ~InTable(current)
      BY <1>2, <1>9, <3>2 DEF Fork
    <3> QED
      BY <3>1, <3>2
  <2>3. ~Names'
    BY <2>2 DEF Names
  <2>4. FlowInv'
    BY <2>2, FlowFree
  <2> QED
    BY <1>1, <1>7, <2>1, <2>2, <2>3, <2>4 DEF IInv
<1>10. CASE NewProcess
  <2>1. /\ UNCHANGED <<procs, sched, enabled, ticks, cpu, slept>> /\ flow.at = "new"
        /\ next_pid <= MAXPID /\ next_pid' = next_pid + 1
    BY <1>10 DEF NewProcess, At
  <2>2. next_pid \in Pids /\ next_pid + 1 \in 3..(MAXPID + 1) /\ next_pid \in 3..(next_pid + 1 - 1)
    BY <1>1, <2>1 DEF Pids
  <2>3. \/ flow' = Idle
        \/ flow' = [Place("insert", "idle", next_pid) EXCEPT !.prio = flow.prio]
    BY <1>10 DEF NewProcess
  <2>4. /\ flow' \in Flows
        /\ flow'.at = "idle" \/ (flow'.at = "insert" /\ flow'.pid = next_pid)
    <3>1. flow.prio \in 0..4
      BY <1>1 DEF Flows
    <3> QED
      BY <1>2, <2>2, <2>3, <3>1 DEF Place, Flows, Steps, Returns, NONE
  <2>5. Names' => flow'.pid \in Pids
    BY <2>2, <2>4 DEF Names
  <2>6. FlowInv'
    <3>1. CASE flow'.at = "idle"
      BY <3>1, FlowFree
    <3>2. CASE flow'.at = "insert" /\ flow'.pid = next_pid
      <4>1. state[next_pid] = "absent" /\ ~InQueues(run_queues, next_pid)
        <5>1. \A q \in 0..4 : \A p : Has(run_queues[q], p) => p \in 1..(next_pid - 1)
          BY DEF IInv, QueueInv
        <5>2. next_pid \notin 1..(next_pid - 1)
          BY <1>1
        <5> QED
          BY <1>1, <2>2, <5>1, <5>2 DEF IInv, TableInv, InQueues
      <4>2. next_pid # current
        BY <1>1
      <4> QED
        BY <2>1, <2>2, <3>2, <4>1, <4>2 DEF FlowInv, SleepsOn, procs, sched
    <3> QED
      BY <2>4, <3>1, <3>2
  <2> QED
    BY <1>1, <1>7, <2>1, <2>2, <2>4, <2>5, <2>6 DEF IInv
<1>11. CASE Exit
  <2>1. UNCHANGED <<procs, sched, next_pid, enabled, ticks, cpu, slept>> /\ flow.at = "exit"
    BY <1>11 DEF Exit, At
  <2>2. CASE current = NONE
    <3>1. flow' = Place("schedule", "idle", NONE)
      BY <1>11, <2>2 DEF Exit
    <3>2. flow' \in Flows /\ flow'.at = "schedule" /\ flow'.then = "idle"
      BY <1>1, <3>1, PlaceTyped DEF Steps, Returns
    <3>3. ~Names'
      BY <3>2 DEF Names
    <3>4. FlowInv'
      BY <3>2, FlowFree
    <3> QED
      BY <1>1, <1>7, <2>1, <3>2, <3>3, <3>4 DEF IInv
  <2>3. CASE current # NONE
    <3>1. flow' = Place("zombie", "idle", current)
      BY <1>11, <2>3 DEF Exit
    <3>2. flow' \in Flows /\ flow'.at = "zombie" /\ flow'.pid = current /\ current \in Pids
      BY <1>4, <2>3, <3>1, PlaceTyped DEF Steps, Returns
    <3>3. FlowInv'
      BY <1>4, <2>1, <2>3, <3>2 DEF FlowInv, SleepsOn, sched
    <3> QED
      BY <1>1, <1>7, <2>1, <3>2, <3>3 DEF IInv
  <2> QED
    BY <2>2, <2>3
<1>12. CASE Sleep
  <2>1. UNCHANGED <<procs, sched, next_pid, enabled, ticks, cpu, slept>> /\ flow.at = "sleep"
    BY <1>12 DEF Sleep, At
  <2>2. CASE current = NONE
    <3>1. flow' = Idle
      BY <1>12, <2>2 DEF Sleep
    <3>2. ~Names'
      BY <1>2, <3>1 DEF Names
    <3>3. FlowInv'
      BY <1>2, <3>1, FlowFree
    <3> QED
      BY <1>1, <1>2, <1>7, <2>1, <3>1, <3>2, <3>3 DEF IInv
  <2>3. CASE current # NONE
    <3>1. flow' = [flow EXCEPT !.at = "asleep", !.pid = current]
      BY <1>12, <2>3 DEF Sleep
    <3>2. flow' \in Flows /\ flow'.at = "asleep" /\ flow'.pid = current /\ current \in Pids
      BY <1>1, <1>4, <2>3, <3>1, Zenon DEF Flows, Steps
    <3>3. state[current] # "Zombie"
      BY <2>1, <2>3 DEF IInv, TableInv
    <3>4. FlowInv'
      BY <1>4, <2>1, <2>3, <3>2, <3>3 DEF FlowInv, SleepsOn, sched, procs
    <3> QED
      BY <1>1, <1>7, <2>1, <3>2, <3>4 DEF IInv
  <2> QED
    BY <2>2, <2>3
<1>13. CASE SleepLoop
  <2>1. UNCHANGED <<procs, sched, next_pid, enabled, ticks, cpu, slept>> /\ flow.at = "loop"
    BY <1>13 DEF SleepLoop, At
  <2>2. \E a \in {"schedule", "awake"} : flow' = [flow EXCEPT !.at = a]
    BY <1>13 DEF SleepLoop
  <2>3. /\ flow' \in Flows /\ flow'.at \in {"schedule", "awake"} /\ flow'.pid = flow.pid
        /\ flow'.then = flow.then
    BY <1>1, <2>2 DEF Flows, Steps
  <2>4. flow.pid \in Pids /\ state[flow.pid] \in {"Sleeping", "absent"}
    BY <2>1 DEF IInv, Shape, FlowInv, Names, SleepsOn
  <2>5. FlowInv'
    BY <2>1, <2>3, <2>4 DEF FlowInv, SleepsOn, procs
  <2> QED
    BY <1>1, <1>7, <2>1, <2>3, <2>4, <2>5 DEF IInv
<1> QED
  BY <1>5, <1>6, <1>8, <1>9, <1>10, <1>11, <1>12, <1>13

\* A step that marks the process the flow works on keeps the invariant.
LEMMA MarkKeeps ==
  ASSUME ConstantsOK, IInv, RemoveProcess \/ BecomeZombie \/ Wait \/ FallAsleep \/ WakeUp
  PROVE  IInv'
<1> DEFINE w == flow.pid
<1>1. /\ Shape /\ flow \in Flows /\ state \in [Pids -> States]
      /\ NONE \in Pids \cup {NONE} /\ cpu = "running"
      /\ UNCHANGED <<prio, slice, sched, next_pid, enabled, ticks, cpu>>
      /\ flow.at \in {"remove", "zombie", "wait", "asleep", "awake"}
  BY SMTT(20) DEF IInv, Shape, RemoveProcess, BecomeZombie, Wait, FallAsleep, WakeUp, At
<1>2. w \in Pids
  BY <1>1 DEF Shape, Names
<1>3. ASSUME InQueues(run_queues, w) PROVE state[w] \in {"Created", "Ready"}
  BY <1>1, <1>3 DEF IInv, QueueInv, InQueues
<1>4. InTable(w) <=> state[w] # "absent"
  BY <1>2 DEF InTable, NONE, Pids
<1>5. ASSUME NEW s \in States \ {"Running"}, state' = [state EXCEPT ![w] = s],
             slept \subseteq slept', flow' \in Flows, Names' => flow'.pid \in Pids,
             InQueues(run_queues, w) => s = "absent" /\ flow'.at = "dequeue" /\ flow'.pid = w,
             s \in {"Created", "Ready"} => w \in slept',
             s = "Zombie" => flow'.at = "schedule" /\ flow'.then = "idle",
             s # "absent" => state[w] # "absent",
             FlowInv'
      PROVE  IInv'
  <2>1. flow.at \notin {"dequeue", "enqueue", "schedule"}
    BY <1>1
  <2>2. UNCHANGED <<prio, slice, sched, next_pid, enabled>>
    BY <1>1
  <2> HIDE DEF w
  <2>3. QueueInv' /\ TableInv'
    BY <1>2, <1>5, <2>1, <2>2, OneMarked, Zenon
  <2>4. Shape'
    BY <1>1, <1>2, <1>5, OneMarkedShape, Zenon
  <2> QED
    BY <1>5, <2>3, <2>4 DEF IInv
<1>6. ASSUME state' = state PROVE state' = [state EXCEPT ![w] = state[w]] /\ state[w] \in States
  BY <1>1, <1>2, <1>6
<1>7. CASE RemoveProcess
  <2>1. /\ state' = [state EXCEPT ![w] = "absent"] /\ slept' = slept
        /\ flow' = Place("dequeue", "idle", w)
    BY <1>7 DEF RemoveProcess
  <2>2. flow' \in Flows /\ flow'.at = "dequeue" /\ flow'.pid = w
    BY <1>2, <2>1, PlaceTyped DEF Steps, Returns
  <2>3. state'[w] = "absent"
    BY <1>1, <1>2, <2>1
  <2>4. FlowInv'
    BY <2>2, <2>3 DEF FlowInv, SleepsOn
  <2> QED
    BY <1>2, <1>5, <2>1, <2>2, <2>4, Zenon DEF States
<1>8. CASE BecomeZombie
  <2>1. /\ state' = IF InTable(w) THEN [state EXCEPT ![w] = "Zombie"] ELSE state
        /\ slept' = slept /\ flow' = Place("schedule", "idle", NONE) /\ flow.at = "zombie"
    BY <1>8 DEF BecomeZombie, At
  <2>2. flow' \in Flows /\ flow'.at = "schedule" /\ flow'.then = "idle"
    BY <1>1, <2>1, PlaceTyped DEF Steps, Returns
  <2>3. ~Names' /\ FlowInv'
    BY <2>2, FlowFree DEF Names
  <2>4. ~InQueues(run_queues, w)
    BY <1>1, <2>1 DEF IInv, FlowInv
  <2>5. CASE InTable(w)
    BY <1>4, <1>5, <2>1, <2>2, <2>3, <2>4, <2>5, Zenon DEF States
  <2>6. CASE ~InTable(w)
    <3>1. state[w] = "absent" /\ state' = [state EXCEPT ![w] = "absent"]
      BY <1>4, <1>6, <2>1, <2>6
    <3> QED
      BY <1>5, <2>1, <2>2, <2>3, <2>4, <3>1, Zenon DEF States
  <2> QED
    BY <2>5, <2>6
<1>9. CASE Wait
  <2>1. /\ state' = IF state[w] = "Zombie" THEN [state EXCEPT ![w] = "absent"] ELSE state
        /\ flow' = IF state[w] \in {"Zombie", "absent"} THEN Idle
                   ELSE Place("schedule", "wait", w)
        /\ slept' = slept /\ flow.at = "wait"
    BY <1>9 DEF Wait, At
  <2>2. /\ flow' \in Flows
        /\ flow'.at = "idle" \/ (flow'.at = "schedule" /\ flow'.then = "wait" /\ flow'.pid = w)
    <3>1. Idle \in Flows /\ Idle.at = "idle"
      BY <1>1, PlaceTyped DEF Idle, Steps, Returns
    <3>2. /\ Place("schedule", "wait", w) \in Flows /\ Place("schedule", "wait", w).pid = w
          /\ Place("schedule", "wait", w).at = "schedule"
          /\ Place("schedule", "wait", w).then = "wait"
      BY <1>2, PlaceTyped DEF Steps, Returns
    <3> QED
      BY <2>1, <3>1, <3>2
  <2>3. (Names' => flow'.pid \in Pids) /\ FlowInv'
    BY <1>2, <2>2, FlowFree DEF Names
  <2>4. CASE state[w] = "Zombie"
    BY <1>3, <1>5, <2>1, <2>2, <2>3, <2>4, Zenon DEF States
  <2>5. CASE state[w] # "Zombie"
    <3>1. state' = state /\ UNCHANGED <<procs, sched, slept>>
      BY <1>1, <2>1, <2>5 DEF procs
    <3>2. QueueInv' /\ TableInv'
      BY <1>1, <2>1, <3>1, TablesAlone
    <3>3. Shape'
      BY <1>1, <1>2, <1>6, <2>2, <2>3, <3>1, OneMarkedShape
    <3> QED
      BY <2>3, <3>2, <3>3 DEF IInv
  <2> QED
    BY <2>4, <2>5
<1>10. CASE FallAsleep
  <2>1. /\ state' = IF InTable(w) THEN [state EXCEPT ![w] = "Sleeping"] ELSE state
        /\ flow' = [flow EXCEPT !.at = "loop"] /\ slept' = slept /\ flow.at = "asleep"
    BY <1>10 DEF FallAsleep, At
  <2>2. flow' \in Flows /\ flow'.at = "loop" /\ flow'.pid = w
    BY <1>1, <2>1 DEF Flows, Steps
  <2>3. ~InQueues(run_queues, w)
    BY <1>1, <2>1 DEF IInv, FlowInv
  <2>4. PICK s \in {"Sleeping", "absent"} :
          /\ state' = [state EXCEPT ![w] = s] /\ (s # "absent" => state[w] # "absent")
    <3>1. CASE InTable(w)
      BY <1>4, <2>1, <3>1
    <3>2. CASE ~InTable(w)
      BY <1>4, <1>6, <2>1, <3>2
    <3> QED
      BY <3>1, <3>2
  <2>5. state'[w] = s
    BY <1>1, <1>2, <2>4
  <2>6. FlowInv'
    BY <2>2, <2>5 DEF FlowInv
  <2> QED
    BY <1>2, <1>5, <2>1, <2>2, <2>3, <2>4, <2>6, Zenon DEF States
<1>11. CASE WakeUp
  <2>1. /\ state' = IF InTable(w) THEN [state EXCEPT ![w] = "Ready"] ELSE state
        /\ flow' = Idle /\ slept' = slept \cup {w} /\ flow.at = "awake"
    BY <1>11 DEF WakeUp, At
  <2>2. flow' \in Flows /\ flow'.at = "idle"
    BY <1>1, <2>1, PlaceTyped DEF Idle, Steps, Returns
  <2>3. ~Names' /\ FlowInv'
    BY <2>2, FlowFree DEF Names
  <2>4. ~InQueues(run_queues, w)
    BY <1>3, <2>1 DEF IInv, FlowInv, SleepsOn
  <2>5. PICK s \in {"Ready", "absent"} :
          /\ state' = [state EXCEPT ![w] = s] /\ (s # "absent" => state[w] # "absent")
    <3>1. CASE InTable(w)
      BY <1>4, <2>1, <3>1
    <3>2. CASE ~InTable(w)
      BY <1>4, <1>6, <2>1, <3>2
    <3> QED
      BY <3>1, <3>2
  <2> QED
    BY <1>5, <2>1, <2>2, <2>3, <2>4, <2>5, Zenon DEF States
<1> QED
  BY <1>7, <1>8, <1>9, <1>10, <1>11

\* proc::add_process, its first half: the process is in the table and in no
\* queue yet.
LEMMA InsertKeeps ==
  ASSUME ConstantsOK, IInv, Insert
  PROVE  IInv'
<1> DEFINE w == flow.pid
<1>1. /\ state' = [state EXCEPT ![w] = "Created"] /\ prio' = [prio EXCEPT ![w] = flow.prio]
      /\ slice' = [slice EXCEPT ![w] = SLICE] /\ flow' = Place("enqueue", "idle", w)
      /\ run_queues' = run_queues /\ current' = current /\ next_pid' = next_pid
      /\ enabled' = enabled /\ ticks' = ticks /\ cpu' = cpu /\ slept' = slept
      /\ flow.at = "insert"
  BY DEF Insert, At, sched
<1>2. /\ w \in Pids /\ w \in 3..(next_pid - 1) /\ ~InQueues(run_queues, w) /\ w # current
      /\ state[w] = "absent"
  BY <1>1 DEF IInv, Shape, FlowInv, Names
<1>3. /\ state \in [Pids -> States] /\ prio \in [Pids -> 0..4] /\ slice \in [Pids -> 0..SLICE]
      /\ SLICE \in Nat \ {0} /\ flow.prio \in 0..4 /\ MAXPID \in Nat
      /\ next_pid \in 3..(MAXPID + 1) /\ current \in 0..(next_pid - 1)
  BY SMTT(20) DEF IInv, Shape, ConstantsOK, Flows
<1>4. flow' \in Flows /\ flow'.at = "enqueue" /\ flow'.pid = w
  BY <1>1, <1>2, PlaceTyped DEF Steps, Returns
<1>5. /\ state'[w] = "Created" /\ slice'[w] = SLICE
      /\ \A p \in Pids : p # w =>
           state'[p] = state[p] /\ prio'[p] = prio[p] /\ slice'[p] = slice[p]
  BY <1>1, <1>2, <1>3
<1>6. Shape'
  <2>1. state' \in [Pids -> States] /\ prio' \in [Pids -> 0..4] /\ slice' \in [Pids -> 0..SLICE]
    BY <1>1, <1>2, <1>3 DEF States
  <2> QED
    BY <1>1, <1>2, <1>4, <2>1, SMTT(20) DEF IInv, Shape
<1> HIDE DEF w
<1>7. QueueInv'
  <2>1. ASSUME NEW q \in 0..4, NEW p, Has(run_queues'[q], p)
        PROVE  /\ p \in 1..(next_pid' - 1) /\ p # current' /\ prio'[p] = q /\ slice'[p] > 0
               /\ state'[p] \in {"Created", "Ready"} \/ (flow'.at = "dequeue" /\ flow'.pid = p)
    <3>1. /\ p \in 1..(next_pid - 1) /\ p # current /\ prio[p] = q /\ slice[p] > 0
          /\ state[p] \in {"Created", "Ready"}
      BY <1>1, <2>1 DEF IInv, QueueInv
    <3>2. p \in Pids /\ p # w
      BY <1>1, <1>2, <1>3, <2>1, <3>1 DEF Pids, InQueues
    <3> QED
      BY <1>1, <1>5, <3>1, <3>2
  <2> QED
    BY <1>1, <2>1 DEF IInv, QueueInv
<1>8. TableInv'
  <2>1. ASSUME NEW p \in Pids
        PROVE  /\ p >= next_pid' => state'[p] = "absent"
               /\ state'[p] = "Running" => p = current' /\ slice'[p] > 0
               /\ state'[p] \in {"Created", "Ready"} =>
                    \/ InQueues(run_queues', p) \/ p = INIT \/ p \in slept'
                    \/ flow'.at = "enqueue" /\ flow'.pid = p
    <3>1. CASE p = w
      <4>1. ~(w >= next_pid)
        BY <1>2, <1>3
      <4> QED
        BY <1>1, <1>4, <1>5, <3>1, <4>1
    <3>2. CASE p # w
      <4>1. /\ p >= next_pid => state[p] = "absent"
            /\ state[p] = "Running" => p = current /\ slice[p] > 0
            /\ state[p] \in {"Created", "Ready"} =>
                 InQueues(run_queues, p) \/ p = INIT \/ p \in slept
        BY <1>1 DEF IInv, TableInv
      <4> QED
        BY <1>1, <1>5, <3>2, <4>1
    <3> QED
      BY <3>1, <3>2
  <2>2. state'[IDLE] = "absent"
    <3>1. IDLE \in Pids /\ state[IDLE] = "absent" /\ IDLE # w
      BY <1>2, <1>3 DEF IInv, TableInv, ConstantsOK, IDLE, Pids
    <3> QED
      BY <1>5, <3>1
  <2>3. ~enabled' => current' = NONE
    BY <1>1 DEF IInv, TableInv
  <2>4. ~(current' # NONE /\ state'[current'] = "Zombie")
    <3>1. current # NONE => current \in Pids /\ state[current] # "Zombie"
      BY <1>1, <1>3 DEF IInv, TableInv, NONE, Pids
    <3> QED
      BY <1>1, <1>2, <1>5, <3>1
  <2> QED
    BY <2>1, <2>2, <2>3, <2>4 DEF TableInv
<1>9. FlowInv'
  <2>1. SLICE > 0
    BY <1>3, SMTT(20)
  <2> QED
    BY <1>1, <1>2, <1>4, <1>5, <2>1 DEF FlowInv, SleepsOn
<1> QED
  BY <1>6, <1>7, <1>8, <1>9 DEF IInv

\* scheduler::add_process: the process gets into the queue of its priority.
LEMMA EnqueueKeeps ==
  ASSUME ConstantsOK, IInv, Enqueue
  PROVE  IInv'
<1> DEFINE w == flow.pid
           k == prio[w]
<1>1. /\ run_queues' = IF InTable(w) THEN Pushed(run_queues, k, w) ELSE run_queues
      /\ flow' = Idle /\ flow.at = "enqueue"
      /\ state' = state /\ prio' = prio /\ slice' = slice /\ current' = current
      /\ next_pid' = next_pid /\ enabled' = enabled /\ ticks' = ticks /\ cpu' = cpu
      /\ slept' = slept
  BY DEF Enqueue, At, procs, Pushed
<1>2. /\ w \in Pids /\ w \in 3..(next_pid - 1) /\ ~InQueues(run_queues, w) /\ w # current
      /\ state[w] = "Created" /\ slice[w] > 0 /\ k \in 0..4
  BY <1>1 DEF IInv, Shape, FlowInv, Names
<1>3. next_pid \in Nat /\ MAXPID \in Nat
  BY DEF IInv, Shape, ConstantsOK
<1>4. flow' \in Flows /\ flow'.at = "idle"
  BY <1>1, PlaceTyped DEF Idle, Steps, Returns
<1>5. InTable(w)
  BY <1>2 DEF InTable, NONE, Pids
<1> HIDE DEF w, k
<1>6. /\ Family(run_queues')
      /\ \A q \in 0..4 : \A x :
           Has(run_queues'[q], x) <=> Has(run_queues[q], x) \/ (q = k /\ x = w)
  <2>1. Family(run_queues)
    BY DEF IInv, Shape, QueueInv, Family
  <2>2. /\ Family(Pushed(run_queues, k, w))
        /\ \A q \in 0..4 : \A x : Has(Pushed(run_queues, k, w)[q], x)
             <=> Has(run_queues[q], x) \/ (q = k /\ x = w)
    BY <1>2, <2>1, PushedFamily, Zenon
  <2>3. run_queues' = Pushed(run_queues, k, w)
    BY <1>1, <1>5
  <2> QED
    BY <2>2, <2>3, Zenon
<1>7. Shape'
  BY <1>1, <1>4, <1>6, SMTT(20) DEF IInv, Shape, Names, Family
<1>8. QueueInv'
  <2>1. ASSUME NEW q \in 0..4, NEW p, Has(run_queues'[q], p)
        PROVE  /\ p \in 1..(next_pid' - 1) /\ p # current' /\ prio'[p] = q /\ slice'[p] > 0
               /\ state'[p] \in {"Created", "Ready"} \/ (flow'.at = "dequeue" /\ flow'.pid = p)
    <3>1. CASE Has(run_queues[q], p)
      BY <1>1, <3>1 DEF IInv, QueueInv
    <3>2. CASE q = k /\ p = w
      <4>1. w \in 1..(next_pid - 1)
        BY <1>2, <1>3
      <4> QED
        BY <1>1, <1>2, <3>2, <4>1 DEF k
    <3> QED
      BY <1>6, <2>1, <3>1, <3>2
  <2> QED
    BY <1>6, <2>1 DEF QueueInv, Family
<1>9. TableInv'
  <2>1. ASSUME NEW p \in Pids, state'[p] \in {"Created", "Ready"}
        PROVE  InQueues(run_queues', p) \/ p = INIT \/ p \in slept'
    <3>1. InQueues(run_queues, p) \/ p = INIT \/ p \in slept \/ p = w
      BY <1>1, <2>1, SMTT(20) DEF IInv, TableInv, w
    <3>2. InQueues(run_queues, p) \/ p = w => InQueues(run_queues', p)
      BY <1>2, <1>6 DEF InQueues
    <3> QED
      BY <1>1, <3>1, <3>2
  <2> QED
    BY <1>1, <2>1 DEF IInv, TableInv
<1>10. FlowInv'
  BY <1>4, FlowFree
<1> QED
  BY <1>7, <1>8, <1>9, <1>10 DEF IInv

\* scheduler::remove_process: the process leaves the queues, and is not current.
LEMMA DequeueKeeps ==
  ASSUME ConstantsOK, IInv, Dequeue
  PROVE  IInv'
<1> DEFINE w == flow.pid
<1>1. /\ run_queues' = [q \in 0..4 |-> Retain(run_queues[q], w)]
      /\ current' = IF current = w THEN NONE ELSE current
      /\ flow' = Idle /\ flow.at = "dequeue"
      /\ state' = state /\ prio' = prio /\ slice' = slice
      /\ next_pid' = next_pid /\ enabled' = enabled /\ ticks' = ticks /\ cpu' = cpu
      /\ slept' = slept
  BY DEF Dequeue, At, procs
<1>2. w \in Pids /\ state[w] = "absent"
  BY <1>1, SMTT(20) DEF IInv, Shape, FlowInv, Names
<1>3. flow' \in Flows /\ flow'.at = "idle"
  BY <1>1, PlaceTyped DEF Idle, Steps, Returns
<1>4. next_pid \in 3..(MAXPID + 1) /\ MAXPID \in Nat /\ current \in 0..(next_pid - 1)
  BY DEF IInv, Shape, ConstantsOK
<1> HIDE DEF w
<1>5. ASSUME NEW q \in 0..4
      PROVE  /\ run_queues'[q] \in Seq(Pids) /\ Distinct(run_queues'[q])
             /\ \A x : Has(run_queues'[q], x) <=> Has(run_queues[q], x) /\ x # w
  <2>1. run_queues'[q] = Retain(run_queues[q], w)
    BY <1>1
  <2>2. run_queues[q] \in Seq(Pids) /\ Distinct(run_queues[q])
    BY DEF IInv, Shape, QueueInv, QueuesDistinct
  <2>3. /\ Retain(run_queues[q], w) \in Seq(Pids) /\ Distinct(Retain(run_queues[q], w))
        /\ \A x : Has(Retain(run_queues[q], w), x) <=> Has(run_queues[q], x) /\ x # w
    BY <2>2, RetainDistinct, Zenon
  <2> QED
    BY <2>1, <2>3, Zenon
<1>6. run_queues' \in [0..4 -> Seq(Pids)] /\ QueuesDistinct(run_queues')
  <2>1. run_queues' \in [0..4 -> Seq(Pids)]
    BY <1>1, <1>5
  <2>2. \A q, r \in 0..4 : \A x : Has(run_queues[q], x) /\ Has(run_queues[r], x) => q = r
    BY DEF IInv, QueueInv, QueuesDistinct
  <2> QED
    BY <1>5, <2>1, <2>2 DEF QueuesDistinct
<1>7. Shape'
  <2>1. current' \in 0..(next_pid - 1)
    BY <1>1, <1>4 DEF NONE
  <2> QED
    BY <1>1, <1>3, <1>6, <2>1, SMTT(20) DEF IInv, Shape, Names
<1>8. QueueInv'
  <2>1. ASSUME NEW q \in 0..4, NEW p, Has(run_queues'[q], p)
        PROVE  /\ p \in 1..(next_pid' - 1) /\ p # current' /\ prio'[p] = q /\ slice'[p] > 0
               /\ state'[p] \in {"Created", "Ready"}
    <3>1. Has(run_queues[q], p) /\ p # w
      BY <1>5, <2>1
    <3>2. /\ p \in 1..(next_pid - 1) /\ p # current /\ prio[p] = q /\ slice[p] > 0
          /\ state[p] \in {"Created", "Ready"}
      BY <3>1 DEF IInv, QueueInv, w
    <3>3. p # NONE
      BY <1>4, <3>2 DEF NONE
    <3> QED
      BY <1>1, <3>2, <3>3
  <2> QED
    BY <1>6, <2>1 DEF QueueInv
<1>9. TableInv'
  <2>1. ASSUME NEW p \in Pids
        PROVE  /\ p >= next_pid' => state'[p] = "absent"
               /\ state'[p] = "Running" => p = current' /\ slice'[p] > 0
               /\ state'[p] \in {"Created", "Ready"} =>
                    InQueues(run_queues', p) \/ p = INIT \/ p \in slept'
    <3>1. /\ p >= next_pid => state[p] = "absent"
          /\ state[p] = "Running" => p = current /\ slice[p] > 0
          /\ state[p] \in {"Created", "Ready"} =>
               InQueues(run_queues, p) \/ p = INIT \/ p \in slept
      BY <1>1 DEF IInv, TableInv
    <3>2. p # w /\ InQueues(run_queues, p) => InQueues(run_queues', p)
      BY <1>5 DEF InQueues
    <3> QED
      BY <1>1, <1>2, <3>1, <3>2
  <2>2. state'[IDLE] = "absent" /\ (~enabled' => current' = NONE)
    BY <1>1 DEF IInv, TableInv
  <2>3. ~(current' # NONE /\ state'[current'] = "Zombie")
    BY <1>1 DEF IInv, TableInv
  <2> QED
    BY <2>1, <2>2, <2>3 DEF TableInv
<1>10. FlowInv'
  BY <1>3, FlowFree
<1> QED
  BY <1>7, <1>8, <1>9, <1>10 DEF IInv

\* schedule(), called by the flow, and the context switch after it.
LEMMA ScheduleKeeps ==
  ASSUME ConstantsOK, IInv, Schedule \/ ContextSwitch
  PROVE  IInv'
<1>1. /\ flow \in Flows /\ slice \in [Pids -> 0..SLICE] /\ Shape
      /\ next_pid \in 3..(MAXPID + 1) /\ MAXPID \in Nat /\ NONE \in Pids \cup {NONE}
      /\ current \in Pids \cup {NONE} /\ next_pid <= next_pid
  BY SMTT(20) DEF IInv, Shape, ConstantsOK, Pids, NONE
<1>2. /\ flow.at \in {"schedule", "switch"} /\ prio' = prio /\ next_pid' = next_pid
      /\ enabled' = enabled /\ ticks' = ticks /\ slept' = slept
  BY DEF Schedule, ContextSwitch, At, procs
<1>3. /\ flow.then \in {"wait", "loop"} => flow.pid \in Pids
      /\ flow.then = "loop" => state[flow.pid] \in {"Sleeping", "absent"}
      /\ flow.then \in Returns
  BY <1>1, <1>2 DEF IInv, Shape, FlowInv, Names, SleepsOn, Flows
<1>4. ASSUME Schedule, enabled PROVE IInv'
  <2>1. /\ Reschedule(slice) /\ cpu' = cpu
        /\ flow' = [flow EXCEPT !.at = "switch", !.old = current, !.new = current']
        /\ flow.at = "schedule"
    BY <1>4 DEF Schedule, At
  <2>2. \A p \in Pids : p # current => slice[p] = slice[p]
    OBVIOUS
  <2>3. QueueInv' /\ TableInv'
    BY <1>1, <1>2, <1>4, <2>1, <2>2, TablesRescheduled
  <2>4. /\ state' \in [Pids -> States] /\ slice' \in [Pids -> 0..SLICE]
        /\ run_queues' \in [0..4 -> Seq(Pids)] /\ current' \in 1..(next_pid - 1)
        /\ \A p \in Pids :
             state[p] \in {"absent", "Zombie", "Sleeping"} => state'[p] = state[p]
    BY <1>1, <2>1, <2>2, RescheduleKeeps, SMTT(20) DEF Family
  <2>5. current' \in 0..(next_pid' - 1) /\ current' \in Pids
    BY <1>1, <1>2, <2>4 DEF Pids
  <2>6. /\ flow' \in Flows /\ flow'.at = "switch" /\ flow'.then = flow.then
        /\ flow'.pid = flow.pid
    BY <1>1, <2>1, <2>5, Zenon DEF Flows, Steps
  <2>7. Shape'
    BY <1>2, <1>3, <2>1, <2>4, <2>5, <2>6, Zenon DEF IInv, Shape, Names
  <2>8. FlowInv'
    BY <1>3, <2>4, <2>6 DEF FlowInv, SleepsOn
  <2> QED
    BY <2>3, <2>7, <2>8 DEF IInv
<1>5. ASSUME UNCHANGED <<procs, sched>>, flow' \in Flows, flow'.at = flow.then,
             flow'.then = flow.then, flow'.pid = flow.pid, cpu' \in {cpu, "lost"},
             flow.at = "schedule" => current = NONE
      PROVE  IInv'
  <2>1. QueueInv' /\ TableInv'
    BY <1>2, <1>5, TablesAlone
  <2>2. cpu' \in {"running", "lost", "spinning"} /\ enabled' \in BOOLEAN /\ ticks' \in Nat
    BY <1>1, <1>2, <1>5 DEF Shape
  <2>3. Names' => flow'.pid \in Pids
    BY <1>3, <1>5 DEF Names, Returns
  <2>4. Shape'
    BY <1>1, <1>2, <1>5, <2>2, <2>3, ShapeAlone
  <2>5. FlowInv'
    BY <1>3, <1>5 DEF FlowInv, SleepsOn, Returns, procs
  <2> QED
    BY <2>1, <2>4, <2>5 DEF IInv
<1>6. ASSUME Schedule, ~enabled PROVE IInv'
  <2>1. UNCHANGED <<procs, sched>> /\ cpu' = cpu /\ flow' = [flow EXCEPT !.at = flow.then]
    BY <1>6 DEF Schedule, procs
  <2>2. current = NONE
    BY <1>6 DEF IInv, TableInv
  <2>3. /\ flow' \in Flows /\ flow'.at = flow.then /\ flow'.then = flow.then
        /\ flow'.pid = flow.pid
    BY <1>1, <1>3, <2>1 DEF Flows, Steps, Returns
  <2> QED
    BY <1>5, <2>1, <2>2, <2>3
<1>7. ASSUME ContextSwitch PROVE IInv'
  <2>1. /\ UNCHANGED <<procs, sched>> /\ cpu' \in {cpu, "lost"} /\ flow.at = "switch"
        /\ flow' = [flow EXCEPT !.at = flow.then, !.old = NONE, !.new = NONE]
    BY <1>7 DEF ContextSwitch, At
  <2>2. /\ flow' \in Flows /\ flow'.at = flow.then /\ flow'.then = flow.then
        /\ flow'.pid = flow.pid
    BY <1>1, <1>3, <2>1, Zenon DEF Flows, Steps, Returns
  <2> QED
    BY <1>5, <2>1, <2>2
<1> QED
  BY <1>1, <1>4, <1>6, <1>7 DEF Shape

-----------------------------------------------------------------------------
(* The theorems                                                            *)

\* After proc::init and scheduler::init the invariant holds.
LEMMA InitKeeps ==
  ASSUME ConstantsOK, Init
  PROVE  IInv
<1>1. Idle \in Flows /\ Idle.at = "idle"
  BY PlaceTyped DEF Idle, Steps, Returns
<1>2. INIT \in Pids /\ IDLE \in Pids /\ INIT # IDLE /\ 2 \in 0..4
  BY DEF ConstantsOK, INIT, IDLE, Pids
<1>3. Shape
  <2>1. /\ state \in [Pids -> States] /\ prio \in [Pids -> 0..4] /\ slice \in [Pids -> 0..SLICE]
        /\ run_queues \in [0..4 -> Seq(Pids)]
    BY <1>2 DEF Init, States, ConstantsOK
  <2>2. next_pid \in 3..(MAXPID + 1) /\ current \in 0..(next_pid - 1)
    BY DEF Init, ConstantsOK, NONE
  <2> QED
    BY <1>1, <2>1, <2>2, SMTT(20) DEF Init, Shape, Names
<1>4. \A q \in 0..4 : Len(run_queues[q]) = 0
  BY DEF Init
<1>5. \A q \in 0..4 : Distinct(run_queues[q]) /\ \A x : ~Has(run_queues[q], x)
  BY <1>4 DEF Distinct, Has
<1>6. QueueInv
  BY <1>5 DEF QueueInv, QueuesDistinct
<1>7. TableInv
  <2>1. ASSUME NEW p \in Pids PROVE state[p] = IF p = INIT THEN "Created" ELSE "absent"
    BY DEF Init
  <2>2. ~(INIT >= next_pid) /\ current = NONE
    BY DEF Init, INIT
  <2> QED
    BY <1>2, <2>1, <2>2 DEF TableInv
<1>8. FlowInv
  BY <1>1 DEF FlowInv, SleepsOn, Init
<1> QED
  BY <1>3, <1>6, <1>7, <1>8 DEF IInv

\* Every step keeps the invariant.
LEMMA StepKeeps ==
  ASSUME ConstantsOK, IInv, [Next]_vars
  PROVE  IInv'
<1>1. CASE Tick
  BY <1>1, TickKeeps
<1>2. CASE TickInside \/ Start \/ Call \/ Fork \/ NewProcess \/ Exit \/ Sleep \/ SleepLoop
  BY <1>2, LookKeeps
<1>3. CASE RemoveProcess \/ BecomeZombie \/ Wait \/ FallAsleep \/ WakeUp
  BY <1>3, MarkKeeps
<1>4. CASE Insert
  BY <1>4, InsertKeeps
<1>5. CASE Enqueue
  BY <1>5, EnqueueKeeps
<1>6. CASE Dequeue
  BY <1>6, DequeueKeeps
<1>7. CASE Schedule \/ ContextSwitch
  BY <1>7, ScheduleKeeps, SMTT(20)
<1>8. CASE UNCHANGED vars
  BY <1>8, SMTT(20) DEF vars, procs, sched, IInv, Shape, QueueInv, TableInv, FlowInv, Names,
     SleepsOn
<1> QED
  BY <1>1, <1>2, <1>3, <1>4, <1>5, <1>6, <1>7, <1>8 DEF Next

\* The invariant of the process table, the run queues and the flow holds in
\* every reachable state.
THEOREM SchedulerInvariant == Spec => []IInv
<1>1. Init => IInv
  BY ConstantsOK, InitKeeps
<1>2. IInv /\ [Next]_vars => IInv'
  BY ConstantsOK, StepKeeps
<1> QED
  BY <1>1, <1>2, PTL DEF Spec

\* The types of the process table and the scheduler.
THEOREM TypeCorrect == Spec => []TypeOK
<1>1. IInv => TypeOK
  <2>1. ASSUME IInv PROVE current \in Pids \cup {NONE}
    BY <2>1, ConstantsOK DEF IInv, Shape, ConstantsOK, Pids, NONE
  <2> QED
    BY <2>1 DEF IInv, Shape, TypeOK
<1> QED
  BY <1>1, SchedulerInvariant, PTL

\* The queues hold each process at most once, at its priority, and only
\* processes that can run; only the current process is marked as running.
THEOREM QueuesCorrect == Spec => []QueuesExact
<1>1. ASSUME IInv PROVE QueuesExact
  <2>1. run_queues \in [0..4 -> Seq(Pids)] /\ QueuesDistinct(run_queues)
    BY <1>1 DEF IInv, Shape, QueueInv
  <2>2. ASSUME NEW q \in 0..4
        PROVE  /\ DOMAIN run_queues[q] = 1..Len(run_queues[q])
               /\ \A p : p \in QueueOf(q) <=> Has(run_queues[q], p)
    <3>1. run_queues[q] \in Seq(Pids)
      BY <2>1
    <3> QED
      BY <3>1 DEF QueueOf, Has
  <2>3. ASSUME NEW q \in 0..4, NEW r \in 0..4, NEW i \in DOMAIN run_queues[q],
               NEW j \in DOMAIN run_queues[r], run_queues[q][i] = run_queues[r][j]
        PROVE  q = r /\ i = j
    <3>1. Has(run_queues[q], run_queues[q][i]) /\ Has(run_queues[r], run_queues[q][i])
      BY <2>2, <2>3, Zenon DEF Has
    <3>2. q = r
      BY <2>1, <3>1 DEF QueuesDistinct
    <3>3. /\ i \in 1..Len(run_queues[q]) /\ j \in 1..Len(run_queues[q])
          /\ run_queues[q][i] = run_queues[q][j]
      BY <2>2, <2>3, <3>2, SMTT(20)
    <3>4. Distinct(run_queues[q])
      BY <2>1 DEF QueuesDistinct
    <3> QED
      BY <3>2, <3>3, <3>4, Zenon DEF Distinct
  <2>4. ASSUME NEW q \in 0..4, NEW p \in QueueOf(q)
        PROVE  /\ p # current /\ prio[p] = q /\ slice[p] > 0
               /\ state[p] \in {"Created", "Ready"} \/ (flow.at = "dequeue" /\ flow.pid = p)
    BY <1>1, <2>2 DEF IInv, QueueInv
  <2>5. ASSUME NEW p \in Pids
        PROVE  /\ state[p] = "Running" => p = current
               /\ state[p] = "Running" \/ p \in Queued => slice[p] > 0
    <3>1. p \in Queued => \E q \in 0..4 : p \in QueueOf(q)
      BY DEF Queued
    <3> QED
      BY <1>1, <2>4, <3>1 DEF IInv, TableInv
  <2> QED
    BY <2>3, <2>4, <2>5 DEF QueuesExact
<1> QED
  BY <1>1, SchedulerInvariant, PTL

\* A process that could run is current or queued, but for the three exceptions
\* the property names.
THEOREM NoneStrandedCorrect == Spec => []NoneStranded
<1>1. ASSUME IInv PROVE NoneStranded
  <2>1. ASSUME NEW p \in Pids, InQueues(run_queues, p) PROVE p \in Queued
    <3>1. PICK q \in 0..4 : Has(run_queues[q], p)
      BY <2>1 DEF InQueues
    <3>2. run_queues[q] \in Seq(Pids)
      BY <1>1 DEF IInv, Shape
    <3>3. p \in QueueOf(q)
      BY <3>1, <3>2 DEF QueueOf, Has
    <3> QED
      BY <3>3 DEF Queued
  <2> QED
    BY <1>1, <2>1 DEF NoneStranded, IInv, TableInv
<1> QED
  BY <1>1, SchedulerInvariant, PTL

\* A zombie stays one until wait or remove_process takes it out of the table:
\* neither the interrupt nor a wake-up nor schedule() revives it.
THEOREM ExitCorrect == Spec => ExitIsFinal
<1>1. ASSUME IInv, [Next]_vars, NEW p \in Pids, state[p] = "Zombie"
      PROVE  state'[p] \in {"Zombie", "absent"}
  <2>1. state \in [Pids -> States] /\ slice \in [Pids -> 0..SLICE]
    BY <1>1 DEF IInv, Shape
  <2>2. CASE UNCHANGED state
    BY <1>1, <2>2
  <2>3. ASSUME NEW s, state' = [state EXCEPT ![flow.pid] = s],
               flow.pid \in Pids, s \in {"Zombie", "absent"} \/ state[flow.pid] # "Zombie"
        PROVE  state'[p] \in {"Zombie", "absent"}
    BY <1>1, <2>1, <2>3
  <2>4. ASSUME NEW sl \in [Pids -> 0..SLICE], Reschedule(sl),
               \A x \in Pids : x # current => sl[x] = slice[x]
        PROVE  state'[p] \in {"Zombie", "absent"}
    BY <1>1, <2>4, ConstantsOK, RescheduleKeeps, Zenon
  <2>5. CASE Tick
    <3> DEFINE sl == [slice EXCEPT ![current] = IF @ > 0 THEN @ - 1 ELSE 0]
    <3>1. CASE UNCHANGED state
      BY <2>2, <3>1
    <3>2. CASE Reschedule(IF InTable(current) THEN sl ELSE slice)
      <4>1. InTable(current) => current \in Pids
        BY <1>1, ConstantsOK DEF IInv, Shape, ConstantsOK, InTable, NONE, Pids
      <4>2. InTable(current) => sl \in [Pids -> 0..SLICE]
        BY <2>1, <4>1, ConstantsOK DEF ConstantsOK
      <4>3. \A x \in Pids : x # current => sl[x] = slice[x]
        BY <2>1
      <4> QED
        BY <2>1, <2>4, <3>2, <4>2, <4>3, Zenon
    <3> QED
      BY <2>5, <3>1, <3>2 DEF Tick, procs
  <2>6. CASE Schedule
    BY <2>1, <2>2, <2>4, <2>6 DEF Schedule
  <2>7. CASE Insert
    <3>1. flow.pid \in Pids /\ state[flow.pid] # "Zombie"
      BY <1>1, <2>7 DEF Insert, At, IInv, Shape, FlowInv, Names
    <3> QED
      BY <2>3, <2>7, <3>1, Zenon DEF Insert
  <2>8. CASE RemoveProcess
    <3>1. flow.pid \in Pids
      BY <1>1, <2>8 DEF RemoveProcess, At, IInv, Shape, Names
    <3> QED
      BY <2>3, <2>8, <3>1, Zenon DEF RemoveProcess
  <2>9. CASE BecomeZombie
    <3>1. flow.pid \in Pids
      BY <1>1, <2>9 DEF BecomeZombie, At, IInv, Shape, Names
    <3> QED
      BY <2>2, <2>3, <2>9, <3>1 DEF BecomeZombie
  <2>10. CASE Wait
    <3>1. flow.pid \in Pids
      BY <1>1, <2>10 DEF Wait, At, IInv, Shape, Names
    <3> QED
      BY <2>2, <2>3, <2>10, <3>1 DEF Wait
  <2>11. CASE FallAsleep
    <3>1. flow.pid \in Pids /\ state[flow.pid] # "Zombie"
      BY <1>1, <2>11 DEF FallAsleep, At, IInv, Shape, FlowInv, Names
    <3> QED
      BY <2>2, <2>3, <2>11, <3>1 DEF FallAsleep
  <2>12. CASE WakeUp
    <3>1. flow.pid \in Pids /\ state[flow.pid] # "Zombie"
      BY <1>1, <2>12 DEF WakeUp, At, IInv, Shape, FlowInv, Names, SleepsOn
    <3> QED
      BY <2>2, <2>3, <2>12, <3>1 DEF WakeUp
  <2>13. CASE \/ TickInside \/ Start \/ Call \/ Fork \/ NewProcess \/ Enqueue \/ Dequeue
              \/ Exit \/ Sleep \/ SleepLoop \/ ContextSwitch \/ UNCHANGED vars
    BY <2>2, <2>13 DEF TickInside, Start, Call, Fork, NewProcess, Enqueue, Dequeue, Exit, Sleep,
       SleepLoop, ContextSwitch, vars, procs
  <2> QED
    BY <1>1, <2>5, <2>6, <2>7, <2>8, <2>9, <2>10, <2>11, <2>12, <2>13, SMTT(20) DEF Next
<1>2. IInv /\ [Next]_vars =>
        [\A p \in Pids : state[p] = "Zombie" => state'[p] \in {"Zombie", "absent"}]_vars
  BY <1>1
<1> QED
  BY <1>2, SchedulerInvariant, PTL DEF ExitIsFinal, Spec

\* The process schedule() takes has the highest priority of those queued.
THEOREM HighestCorrect == Spec => HighestFirst
<1>1. ASSUME IInv, IInv', [Next]_vars, NEW p \in Pids, state'[p] = "Running", current' = p,
             current # p, NEW q \in 0..4, run_queues'[q] # <<>>
      PROVE  q <= prio[p]
  <2>1. slice \in [Pids -> 0..SLICE]
    BY <1>1 DEF IInv, Shape
  <2>2. p # IDLE
    BY <1>1, SMTT(20) DEF IInv, TableInv
  <2>3. ASSUME NEW sl \in [Pids -> 0..SLICE], Reschedule(sl),
               \A x \in Pids : x # current => sl[x] = slice[x]
        PROVE  q <= prio[p]
    BY <1>1, <2>2, <2>3, ConstantsOK, RescheduleKeeps
  <2>4. CASE Tick
    <3> DEFINE sl == [slice EXCEPT ![current] = IF @ > 0 THEN @ - 1 ELSE 0]
    <3>1. Reschedule(IF InTable(current) THEN sl ELSE slice)
      BY <1>1, <2>4 DEF Tick, sched
    <3>2. InTable(current) => current \in Pids
      BY <1>1, ConstantsOK DEF IInv, Shape, ConstantsOK, InTable, NONE, Pids
    <3>3. InTable(current) => sl \in [Pids -> 0..SLICE]
      BY <2>1, <3>2, ConstantsOK DEF ConstantsOK
    <3>4. \A x \in Pids : x # current => sl[x] = slice[x]
      BY <2>1
    <3> QED
      BY <2>1, <2>3, <3>1, <3>3, <3>4, ZenonT(40)
  <2>5. CASE Schedule
    BY <1>1, <2>1, <2>3, <2>5 DEF Schedule, sched
  <2>6. CASE Dequeue
    BY <1>1, <2>6 DEF Dequeue, NONE, Pids
  <2>7. CASE \/ TickInside \/ Start \/ Call \/ Fork \/ NewProcess \/ Insert \/ Enqueue
             \/ RemoveProcess \/ Exit \/ BecomeZombie \/ Wait \/ Sleep \/ FallAsleep
             \/ SleepLoop \/ WakeUp \/ ContextSwitch \/ UNCHANGED vars
    BY <1>1, <2>7 DEF TickInside, Start, Call, Fork, NewProcess, Insert, Enqueue, RemoveProcess,
       Exit, BecomeZombie, Wait, Sleep, FallAsleep, SleepLoop, WakeUp, ContextSwitch, vars, sched
  <2> QED
    BY <1>1, <2>4, <2>5, <2>6, <2>7 DEF Next
<1>2. IInv /\ IInv' /\ [Next]_vars =>
        [\A p \in Pids :
           state'[p] = "Running" /\ current' = p /\ current # p =>
             \A q \in 0..4 : run_queues'[q] # <<>> => q <= prio[p]]_vars
  BY <1>1
<1> QED
  BY <1>2, SchedulerInvariant, PTL DEF HighestFirst, Spec
=============================================================================

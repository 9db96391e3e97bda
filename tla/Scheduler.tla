------------------------------ MODULE Scheduler ------------------------------
(***************************************************************************)
(* The process table and the scheduler (proc/mod.rs, proc/process.rs,      *)
(* proc/scheduler.rs) with the system calls on processes                   *)
(* (syscall/handlers.rs).  One flow of kernel code makes the calls; the    *)
(* timer interrupt comes between any two of its steps.  A step of the flow *)
(* is one section under the SCHEDULER or PROCESSES spin lock.              *)
(*                                                                         *)
(* do_context_switch saves nothing and loads only rsp.  When it runs, the  *)
(* CPU returns through a stack nobody prepared: cpu becomes "lost" and     *)
(* nothing is said about what follows.  An interrupt inside a locked       *)
(* section spins on that lock forever: cpu becomes "spinning".             *)
(***************************************************************************)
EXTENDS Integers, Sequences, Retain

CONSTANTS
    MAXPID,     \* bound on process ids
    Prios,      \* priorities a new process may have, a subset of 0..4
    SLICE,      \* time slice in ticks (10 in the code)
    MAXTICKS    \* bound on timer ticks

ASSUME ConstantsOK ==
    /\ MAXPID \in Nat /\ MAXPID >= 2
    /\ Prios \subseteq 0..4
    /\ SLICE \in Nat \ {0} /\ MAXTICKS \in Nat

INIT == 1           \* pid of the init process: in the table, never queued
IDLE == 2           \* pid of the idle process: never in the table
NONE == 0           \* current when there is none
Pids == 1..MAXPID
States == {"absent", "Created", "Ready", "Running", "Sleeping", "Zombie"}

VARIABLES
    state,      \* [Pids -> States]; "absent": not in PROCESSES
    prio,       \* priority per pid
    slice,      \* time_slice per pid
    run_queues, \* one queue of pids per priority
    current,    \* pid the scheduler says runs, or NONE
    next_pid,
    enabled,    \* SCHEDULER_ENABLED
    ticks,      \* TICK_COUNT
    flow,       \* the kernel code's place: see Place
    cpu,        \* "running", or stopped: "lost" or "spinning"
    slept       \* ghost: pids that returned from sleep_ms

sched == <<run_queues, current>>
procs == <<state, prio, slice>>
vars == <<procs, sched, next_pid, enabled, ticks, flow, cpu, slept>>

\* at: the next step; then: where schedule() returns to; pid, prio: arguments;
\* old, new: the pids schedule() hands to context_switch; wake: end of a sleep.
Place(at, then, pid) ==
    [at |-> at, then |-> then, pid |-> pid, prio |-> 0, old |-> NONE, new |-> NONE,
     wake |-> 0]

Idle == Place("idle", "idle", NONE)

\* proc::init and scheduler::init have run; start() has not.
Init ==
    /\ state = [p \in Pids |-> IF p = INIT THEN "Created" ELSE "absent"]
    /\ prio = [p \in Pids |-> 2]
    /\ slice = [p \in Pids |-> SLICE]
    /\ run_queues = [q \in 0..4 |-> <<>>]
    /\ current = NONE
    /\ next_pid = 3
    /\ enabled = FALSE
    /\ ticks = 0
    /\ flow = Idle
    /\ cpu = "running"
    /\ slept = {}

InTable(p) == p # NONE /\ state[p] # "absent"
QueueOf(q) == {run_queues[q][i] : i \in DOMAIN run_queues[q]}
Queued == UNION {QueueOf(q) : q \in 0..4}

-----------------------------------------------------------------------------
(* schedule()                                                              *)

\* Requeue the current process if it still runs.
Requeues == InTable(current) /\ state[current] = "Running"

\* A schedule() that forgets the process it takes the CPU from.
RequeuedNot == run_queues

Requeued ==
    IF Requeues THEN [run_queues EXCEPT ![prio[current]] = Append(@, current)]
    ELSE run_queues

\* select_next: the front of the highest queue that is not empty.
TopQueue(qs) == {q \in 0..4 : qs[q] # <<>> /\ \A r \in 0..4 : qs[r] # <<>> => r <= q}

SelectNext(qs) ==
    IF TopQueue(qs) = {} THEN IDLE ELSE Head(qs[CHOOSE q \in TopQueue(qs) : TRUE])

Popped(qs) ==
    [q \in 0..4 |-> IF qs[q] # <<>> /\ Head(qs[q]) = SelectNext(qs) THEN Tail(qs[q]) ELSE qs[q]]

\* A schedule() that requeues whatever was current.
RescheduleAny(sl) ==
    LET qs == IF InTable(current)
              THEN [run_queues EXCEPT ![prio[current]] = Append(@, current)] ELSE run_queues
        new == SelectNext(qs) IN
    /\ run_queues' = Popped(qs)
    /\ current' = new
    /\ state' = [p \in Pids |->
          IF p = new /\ InTable(p) THEN "Running"
          ELSE IF p = current /\ InTable(p) THEN "Ready" ELSE state[p]]
    /\ slice' = [p \in Pids |-> IF p = current THEN SLICE ELSE sl[p]]

\* The section under SCHEDULER: requeue, select, mark as running.  sl are the
\* time slices after the tick that led here.
Reschedule(sl) ==
    LET new == SelectNext(Requeued) IN
    /\ run_queues' = Popped(Requeued)
    /\ current' = new
    /\ state' = [p \in Pids |->
          IF p = new /\ InTable(p) THEN "Running"
          ELSE IF Requeues /\ p = current THEN "Ready" ELSE state[p]]
    /\ slice' = [p \in Pids |-> IF Requeues /\ p = current THEN SLICE ELSE sl[p]]

\* context_switch and do_context_switch: nothing happens unless both processes
\* are in the table; if they are, only rsp is loaded.
SwitchLoses(old, new, st) ==
    /\ old # new /\ old # NONE /\ new # NONE
    /\ st[old] # "absent" /\ st[new] # "absent"

-----------------------------------------------------------------------------
(* The timer interrupt                                                     *)

\* timer_tick: schedule when the slice is used up or current is not in the
\* table.
Tick ==
    LET sl == [slice EXCEPT ![current] = IF @ > 0 THEN @ - 1 ELSE 0]
        old == current
    IN
    /\ cpu = "running" /\ ticks < MAXTICKS
    /\ ticks' = ticks + 1
    /\ IF ~enabled THEN UNCHANGED <<procs, sched, cpu>>
       ELSE IF InTable(current) /\ sl[current] # 0
       THEN slice' = sl /\ UNCHANGED <<state, prio, sched, cpu>>
       ELSE /\ Reschedule(IF InTable(current) THEN sl ELSE slice)
            /\ cpu' = IF SwitchLoses(old, current', state') THEN "lost" ELSE cpu
            /\ UNCHANGED prio
    /\ UNCHANGED <<next_pid, enabled, flow, slept>>

\* The interrupt comes while the flow holds one of the two locks.
TickInside ==
    /\ cpu = "running" /\ enabled /\ flow.at # "idle" /\ ticks < MAXTICKS
    /\ ticks' = ticks + 1
    /\ cpu' = "spinning"
    /\ UNCHANGED <<procs, sched, next_pid, enabled, flow, slept>>

-----------------------------------------------------------------------------
(* The flow of kernel code                                                 *)

At(p) == cpu = "running" /\ flow.at = p

\* start(): the shell runs on as the flow.
Start ==
    /\ At("idle") /\ ~enabled
    /\ enabled' = TRUE
    /\ UNCHANGED <<procs, sched, next_pid, ticks, flow, cpu, slept>>

\* Where a system call enters the kernel's functions.
SysExit == Place("exit", "idle", NONE)
SysFork == Place("fork", "idle", NONE)
SysWait(p) == Place("wait", "wait", p)
SysYield == Place("schedule", "idle", NONE)
SysSleep(ms) == [Place("sleep", "loop", NONE) EXCEPT !.wake = ticks + ms]

\* A call begins: one of these, or the kernel's own new process and
\* remove_process.
Call ==
    /\ At("idle")
    /\ \E p \in 1..(next_pid - 1) :
          flow' \in {SysExit, SysFork, SysWait(p), SysYield, Place("remove", "idle", p)}
                    \cup {[Place("new", "idle", NONE) EXCEPT !.prio = q] : q \in Prios}
                    \cup {SysSleep(ms) : ms \in 0..1}
    /\ UNCHANGED <<procs, sched, next_pid, enabled, ticks, cpu, slept>>

\* fork(): the child takes the current process's priority; without a current
\* process in the table there is nothing to fork.
Fork ==
    /\ At("fork")
    /\ flow' = IF InTable(current) THEN [Place("new", "idle", NONE) EXCEPT !.prio = prio[current]]
               ELSE Idle
    /\ UNCHANGED <<procs, sched, next_pid, enabled, ticks, cpu, slept>>

\* Process::new_kernel and new_user: the pid is taken first and lost when there
\* are no frames for the stacks.
NewProcess ==
    /\ At("new") /\ next_pid <= MAXPID
    /\ next_pid' = next_pid + 1
    /\ flow' \in {Idle, [Place("insert", "idle", next_pid) EXCEPT !.prio = flow.prio]}
    /\ UNCHANGED <<procs, sched, enabled, ticks, cpu, slept>>

\* proc::add_process: into the table, ...
Insert ==
    /\ At("insert")
    /\ state' = [state EXCEPT ![flow.pid] = "Created"]
    /\ prio' = [prio EXCEPT ![flow.pid] = flow.prio]
    /\ slice' = [slice EXCEPT ![flow.pid] = SLICE]
    /\ flow' = Place("enqueue", "idle", flow.pid)
    /\ UNCHANGED <<sched, next_pid, enabled, ticks, cpu, slept>>

\* ... then scheduler::add_process.
Enqueue ==
    /\ At("enqueue")
    /\ run_queues' = IF InTable(flow.pid)
                     THEN [run_queues EXCEPT ![prio[flow.pid]] = Append(@, flow.pid)]
                     ELSE run_queues
    /\ flow' = Idle
    /\ UNCHANGED <<procs, current, next_pid, enabled, ticks, cpu, slept>>

\* proc::remove_process: out of the table, ...
RemoveProcess ==
    /\ At("remove")
    /\ state' = [state EXCEPT ![flow.pid] = "absent"]
    /\ flow' = Place("dequeue", "idle", flow.pid)
    /\ UNCHANGED <<prio, slice, sched, next_pid, enabled, ticks, cpu, slept>>

\* A scheduler::remove_process that leaves the queues alone.
DequeueCurrentOnly ==
    /\ At("dequeue")
    /\ current' = IF current = flow.pid THEN NONE ELSE current
    /\ flow' = Idle
    /\ UNCHANGED <<procs, run_queues, next_pid, enabled, ticks, cpu, slept>>

\* ... then out of the queues, and current is cleared.
Dequeue ==
    /\ At("dequeue")
    /\ run_queues' = [q \in 0..4 |-> Retain(run_queues[q], flow.pid)]
    /\ current' = IF current = flow.pid THEN NONE ELSE current
    /\ flow' = Idle
    /\ UNCHANGED <<procs, next_pid, enabled, ticks, cpu, slept>>

\* exit(): read the current pid, ...
Exit ==
    /\ At("exit")
    /\ flow' = IF current = NONE THEN Place("schedule", "idle", NONE)
               ELSE Place("zombie", "idle", current)
    /\ UNCHANGED <<procs, sched, next_pid, enabled, ticks, cpu, slept>>

\* ... turn it into a zombie, then schedule.
BecomeZombie ==
    /\ At("zombie")
    /\ state' = IF InTable(flow.pid) THEN [state EXCEPT ![flow.pid] = "Zombie"] ELSE state
    /\ flow' = Place("schedule", "idle", NONE)
    /\ UNCHANGED <<prio, slice, sched, next_pid, enabled, ticks, cpu, slept>>

\* wait(pid): reap a zombie, give up on a pid that is not there, else schedule
\* and look again.
Wait ==
    /\ At("wait")
    /\ state' = IF state[flow.pid] = "Zombie" THEN [state EXCEPT ![flow.pid] = "absent"]
                ELSE state
    /\ flow' = IF state[flow.pid] \in {"Zombie", "absent"} THEN Idle
               ELSE Place("schedule", "wait", flow.pid)
    /\ UNCHANGED <<prio, slice, sched, next_pid, enabled, ticks, cpu, slept>>

\* sleep_ms: read the current pid, ...
Sleep ==
    /\ At("sleep")
    /\ flow' = IF current = NONE THEN Idle
               ELSE [flow EXCEPT !.at = "asleep", !.pid = current]
    /\ UNCHANGED <<procs, sched, next_pid, enabled, ticks, cpu, slept>>

\* ... mark it as sleeping, ...
FallAsleep ==
    /\ At("asleep")
    /\ state' = IF InTable(flow.pid) THEN [state EXCEPT ![flow.pid] = "Sleeping"] ELSE state
    /\ flow' = [flow EXCEPT !.at = "loop"]
    /\ UNCHANGED <<prio, slice, sched, next_pid, enabled, ticks, cpu, slept>>

\* ... schedule until the time has come, ...
SleepLoop ==
    /\ At("loop")
    /\ flow' = [flow EXCEPT !.at = IF ticks < flow.wake THEN "schedule" ELSE "awake"]
    /\ UNCHANGED <<procs, sched, next_pid, enabled, ticks, cpu, slept>>

\* ... and mark it as ready, without queueing it.
WakeUp ==
    /\ At("awake")
    /\ state' = IF InTable(flow.pid) THEN [state EXCEPT ![flow.pid] = "Ready"] ELSE state
    /\ slept' = slept \cup {flow.pid}
    /\ flow' = Idle
    /\ UNCHANGED <<prio, slice, sched, next_pid, enabled, ticks, cpu>>

\* schedule() and yield_now(), called by the flow: the locked section, ...
Schedule ==
    /\ At("schedule")
    /\ IF enabled
       THEN /\ Reschedule(slice)
            /\ flow' = [flow EXCEPT !.at = "switch", !.old = current, !.new = current']
       ELSE /\ flow' = [flow EXCEPT !.at = flow.then]
            /\ UNCHANGED <<state, slice, sched>>
    /\ UNCHANGED <<prio, next_pid, enabled, ticks, cpu, slept>>

\* ... then context_switch, with what the section returned.
ContextSwitch ==
    /\ At("switch")
    /\ cpu' = IF SwitchLoses(flow.old, flow.new, state) THEN "lost" ELSE cpu
    /\ flow' = [flow EXCEPT !.at = flow.then, !.old = NONE, !.new = NONE]
    /\ UNCHANGED <<procs, sched, next_pid, enabled, ticks, slept>>

Next ==
    \/ Tick \/ TickInside
    \/ Start \/ Call
    \/ Fork \/ NewProcess \/ Insert \/ Enqueue
    \/ RemoveProcess \/ Dequeue
    \/ Exit \/ BecomeZombie \/ Wait
    \/ Sleep \/ FallAsleep \/ SleepLoop \/ WakeUp
    \/ Schedule \/ ContextSwitch

Spec == Init /\ [][Next]_vars

-----------------------------------------------------------------------------
(* Properties                                                              *)

\* Type correctness of the process table and the scheduler.
TypeOK ==
    /\ state \in [Pids -> States]
    /\ prio \in [Pids -> 0..4]
    /\ slice \in [Pids -> 0..SLICE]
    /\ \A q \in 0..4 : run_queues[q] \in Seq(Pids)
    /\ current \in Pids \cup {NONE}
    /\ next_pid \in 3..(MAXPID + 1)
    /\ enabled \in BOOLEAN /\ ticks \in Nat
    /\ cpu \in {"running", "lost", "spinning"}

\* The run queues hold each process at most once, in the queue of its priority,
\* and only processes that can run and do not (add_process, schedule,
\* remove_process): whatever the interrupt finds half done, nobody is queued
\* twice, while current, asleep or a zombie.  Only the current process is marked
\* as running, and one that runs or is queued has time left.
QueuesExact ==
    /\ \A q, r \in 0..4 : \A i \in DOMAIN run_queues[q], j \in DOMAIN run_queues[r] :
          run_queues[q][i] = run_queues[r][j] => q = r /\ i = j
    /\ \A q \in 0..4 : \A p \in QueueOf(q) :
          /\ p # current
          /\ prio[p] = q
          /\ \/ state[p] \in {"Created", "Ready"}
             \/ flow.at = "dequeue" /\ flow.pid = p
    /\ \A p \in Pids :
          /\ state[p] = "Running" => p = current
          /\ state[p] = "Running" \/ p \in Queued => slice[p] > 0

\* A process that could run is current or queued.  The exceptions are the init
\* process, which nothing queues, one that is being added, and one that slept:
\* sleep_ms takes it off the queues and does not put it back.
NoneStranded ==
    \A p \in Pids :
        state[p] \in {"Created", "Ready"} =>
            \/ p = current \/ p \in Queued
            \/ p = INIT \/ p \in slept
            \/ flow.at = "enqueue" /\ flow.pid = p

\* A process that exited stays a zombie until wait or remove_process takes it
\* out of the table: no schedule(), wake-up or interrupt revives it.
ExitIsFinal ==
    [][\A p \in Pids : state[p] = "Zombie" => state'[p] \in {"Zombie", "absent"}]_vars

\* schedule() never leaves a process of higher priority behind in the queues.
HighestFirst ==
    [][\A p \in Pids :
        state'[p] = "Running" /\ current' = p /\ current # p =>
            \A q \in 0..4 : run_queues'[q] # <<>> => q <= prio[p]]_vars

\* context_switch does what its comment says, "Save old context and load new":
\* the code that runs after it has the context it had before.
ContextKept == cpu # "lost"
=============================================================================

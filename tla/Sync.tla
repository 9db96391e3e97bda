-------------------------------- MODULE Sync --------------------------------
(***************************************************************************)
(* The synchronisation primitives of kernel/src/sync: Mutex,               *)
(* RecursiveMutex, RwLock, Semaphore, BinarySemaphore, CondVar, Barrier    *)
(* and Once.  Threads use one primitive, which the initial state picks.    *)
(* Every atomic load, store and compare-exchange, and every section under  *)
(* a spin lock, is one step, so threads interleave between any two of      *)
(* them.  The kernel runs one core: memory is sequentially consistent.     *)
(***************************************************************************)
EXTENDS Naturals, Sequences, FiniteSets

CONSTANTS
    Threads,        \* callers, named by the pid current_pid() returns
    NOPID,          \* the owner field's 0: no owner
    PERMITS,        \* initial count of the semaphore
    MAXDEPTH,       \* bound on nested guards of a recursive mutex
    MAXWAITERS,     \* bound on the queue of waiters
    MAXROUNDS,      \* bound on the uses of the barrier by a thread
    MAXPOSTS        \* bound on signals by threads that hold no permit

ASSUME ConstantsOK ==
    /\ IsFiniteSet(Threads) /\ Threads # {}
    /\ NOPID \notin Threads
    /\ PERMITS \in Nat /\ MAXDEPTH \in Nat /\ MAXWAITERS \in Nat
    /\ MAXROUNDS \in Nat /\ MAXPOSTS \in Nat

VARIABLES
    prim,       \* the primitive under use
    pc,         \* per thread: what it does next
    obj,        \* the primitive's fields (see New)
    seen,       \* per thread: the count or generation it loaded
    depth,      \* ghost, per thread: guards of the recursive mutex it holds
    rounds,     \* ghost, per thread: barrier rounds entered and left
    posted,     \* ghost: signals by threads that hold no permit
    ran         \* ghost: times Once ran its closure

ghosts == <<depth, rounds, posted, ran>>
vars == <<prim, pc, obj, seen, ghosts>>

Prims == {"mutex", "condvar", "recursive", "rwlock", "semaphore", "binary",
          "barrier", "once"}

\* A fresh primitive.  flag is Mutex.locked, RecursiveMutex.locked,
\* RwLock.writer and Once.done; count is RecursiveMutex.count, RwLock.readers,
\* Semaphore.count and Barrier.current; running is Once.running, and for a
\* barrier that its leader holds the lock on current; cond is CondVar.waiters.
New(p) ==
    [flag |-> FALSE, owner |-> NOPID, waiters |-> <<>>, cond |-> <<>>,
     gen |-> 0, running |-> FALSE,
     count |-> CASE p = "semaphore" -> PERMITS [] p = "binary" -> 1 [] OTHER -> 0]

Init ==
    /\ prim \in Prims
    /\ pc = [t \in Threads |-> "idle"]
    /\ obj = New(prim)
    /\ seen = [t \in Threads |-> 0]
    /\ depth = [t \in Threads |-> 0]
    /\ rounds = [t \in Threads |-> [in |-> 0, out |-> 0]]
    /\ posted = 0 /\ ran = 0

\* A panic halts the only core.
Alive == \A t \in Threads : pc[t] # "panicked"

Go(t, from, to) == Alive /\ pc[t] \in from /\ pc' = [pc EXCEPT ![t] = to]

\* A step that changes at most the primitive.
Do(t, from, to, new) ==
    Go(t, from, to) /\ obj' = new /\ UNCHANGED <<prim, seen, ghosts>>

\* Queue the caller, then yield and try again.
PushWaiter(t) ==
    /\ Len(obj.waiters) < MAXWAITERS
    /\ Do(t, {"push"}, "spin", [obj EXCEPT !.waiters = Append(@, t)])

PopFront(q) == IF q = <<>> THEN q ELSE Tail(q)

\* pop_front of a waiter, which nothing then wakes.
PopWaiter(t) == Do(t, {"wake"}, "idle", [obj EXCEPT !.waiters = PopFront(@)])

-----------------------------------------------------------------------------
(* Mutex (also the mutex a CondVar is used with)                           *)

\* try_lock's compare-exchange; lock() queues the caller when it fails.
TryLock(t) ==
    Do(t, {"idle", "spin"}, IF obj.flag THEN "push" ELSE "own", [obj EXCEPT !.flag = TRUE])

StoreOwner(t, to) == Do(t, {"own"}, to, [obj EXCEPT !.owner = t])

ClearOwner(t, from, to) == Do(t, {from}, to, [obj EXCEPT !.owner = NOPID])

ClearFlag(t, from, to) == Do(t, {from}, to, [obj EXCEPT !.flag = FALSE])

MutexStep(t) ==
    \/ TryLock(t) \/ StoreOwner(t, "in") \/ PushWaiter(t)
    \/ ClearOwner(t, "in", "unlock") \/ ClearFlag(t, "unlock", "wake") \/ PopWaiter(t)

\* CondVar::wait queues the caller, ...
CondWait(t) ==
    /\ Len(obj.cond) < MAXWAITERS
    /\ Do(t, {"in"}, "drop", [obj EXCEPT !.cond = Append(@, t)])

\* ... drops its guard, yields, and reaches todo!().
CondBlock(t) ==
    \/ ClearOwner(t, "drop", "dropped")
    \/ ClearFlag(t, "dropped", "popping")
    \/ Do(t, {"popping"}, "blocked", [obj EXCEPT !.waiters = PopFront(@)])
    \/ Do(t, {"blocked"}, "panicked", obj)

\* notify_one and notify_all remove waiters and wake none of them.
CondNotify(t) ==
    \E q \in {PopFront(obj.cond), <<>>} :
        Do(t, {"idle"}, "idle", [obj EXCEPT !.cond = q])

CondVarStep(t) == MutexStep(t) \/ CondWait(t) \/ CondBlock(t) \/ CondNotify(t)

-----------------------------------------------------------------------------
(* RecursiveMutex                                                          *)

\* lock(), from outside or nested: is it locked, ...
RecLoad(t) ==
    /\ depth[t] < MAXDEPTH
    /\ Do(t, {"idle", "spin", "in"}, IF obj.flag THEN "check" ELSE "cas", obj)

\* ... and by this process?
RecCheckOwner(t) == Do(t, {"check"}, IF obj.owner = t THEN "nest" ELSE "cas", obj)

RecNest(t) ==
    /\ Go(t, {"nest"}, "in")
    /\ obj' = [obj EXCEPT !.count = @ + 1]
    /\ depth' = [depth EXCEPT ![t] = @ + 1]
    /\ UNCHANGED <<prim, seen, rounds, posted, ran>>

RecCas(t) ==
    Do(t, {"cas"}, IF obj.flag THEN "spin" ELSE "own", [obj EXCEPT !.flag = TRUE])

RecStoreCount(t) ==
    /\ Go(t, {"first"}, "in")
    /\ obj' = [obj EXCEPT !.count = 1]
    /\ depth' = [depth EXCEPT ![t] = 1]
    /\ UNCHANGED <<prim, seen, rounds, posted, ran>>

\* unlock() of one guard; the last one goes on to release the mutex.
RecUnlock(t) ==
    /\ Go(t, {"in"}, IF obj.count = 1 THEN "clear" ELSE "in")
    /\ obj' = [obj EXCEPT !.count = @ - 1]
    /\ depth' = [depth EXCEPT ![t] = @ - 1]
    /\ UNCHANGED <<prim, seen, rounds, posted, ran>>

RecursiveStep(t) ==
    \/ RecLoad(t) \/ RecCheckOwner(t) \/ RecNest(t) \/ RecCas(t)
    \/ StoreOwner(t, "first") \/ RecStoreCount(t)
    \/ RecUnlock(t) \/ ClearOwner(t, "clear", "unlock") \/ ClearFlag(t, "unlock", "idle")

-----------------------------------------------------------------------------
(* RwLock                                                                  *)

\* read(): wait for no writer, ...
ReadWait(t) == ~obj.flag /\ Do(t, {"idle", "rwait"}, "rinc", obj)

\* ... increment the readers, ...
ReadInc(t) == Do(t, {"rinc"}, "rcheck", [obj EXCEPT !.count = @ + 1])

\* A read() that does not look again.
ReadCheckMissing(t) == Do(t, {"rcheck"}, "reading", obj)

\* ... and look again whether a writer snuck in.
ReadCheck(t) == Do(t, {"rcheck"}, IF obj.flag THEN "rback" ELSE "reading", obj)

\* Back out and retry, or drop the read guard.
ReadDec(t) ==
    \E step \in {<<"rback", "rwait">>, <<"reading", "idle">>} :
        Do(t, {step[1]}, step[2], [obj EXCEPT !.count = @ - 1])

\* write(): become the writer, ...
WriteCas(t) == ~obj.flag /\ Do(t, {"idle"}, "drain", [obj EXCEPT !.flag = TRUE])

\* ... then wait for the readers to drain.
WriteDrain(t) == obj.count = 0 /\ Do(t, {"drain"}, "writing", obj)

WriteDrop(t) == ClearFlag(t, "writing", "idle")

RwLockStep(t) ==
    \/ ReadWait(t) \/ ReadInc(t) \/ ReadCheck(t) \/ ReadDec(t)
    \/ WriteCas(t) \/ WriteDrain(t) \/ WriteDrop(t)

-----------------------------------------------------------------------------
(* Semaphore and BinarySemaphore                                           *)

\* wait() loads the count, and queues the caller when there is no permit; ...
SemLoad(t) ==
    /\ Go(t, {"idle", "spin"}, IF obj.count > 0 THEN "take" ELSE "push")
    /\ seen' = [seen EXCEPT ![t] = obj.count]
    /\ UNCHANGED <<prim, obj, ghosts>>

\* ... try_wait() returns.
SemTryLoad(t) ==
    /\ Go(t, {"idle", "try"}, IF obj.count > 0 THEN "trytake" ELSE "idle")
    /\ seen' = [seen EXCEPT ![t] = obj.count]
    /\ UNCHANGED <<prim, obj, ghosts>>

\* A wait() that stores the decremented copy instead of exchanging it.
SemTakeStore(t) == Do(t, {"take", "trytake"}, "in", [obj EXCEPT !.count = seen[t] - 1])

\* The compare-exchange of the count that was loaded, or another turn.
SemTake(t) ==
    IF obj.count = seen[t]
    THEN Do(t, {"take", "trytake"}, "in", [obj EXCEPT !.count = @ - 1])
    ELSE \E step \in {<<"take", "spin">>, <<"trytake", "try">>} : Do(t, {step[1]}, step[2], obj)

\* signal() by the holder of a permit.
SemSignal(t, from) == Do(t, {from}, "wake", [obj EXCEPT !.count = @ + 1])

\* signal() by a thread that adds a permit.
SemPost(t) ==
    /\ posted < MAXPOSTS
    /\ Go(t, {"idle"}, "wake")
    /\ obj' = [obj EXCEPT !.count = @ + 1]
    /\ posted' = posted + 1
    /\ UNCHANGED <<prim, seen, depth, rounds, ran>>

SemaphoreStep(t) ==
    \/ SemLoad(t) \/ SemTryLoad(t) \/ SemTake(t) \/ PushWaiter(t)
    \/ SemSignal(t, "in") \/ SemPost(t) \/ PopWaiter(t)

\* release() by the holder signals only if it saw a count below 1.
BinRelease(t) == Do(t, {"in"}, IF obj.count < 1 THEN "signal" ELSE "idle", obj)

BinaryStep(t) ==
    \/ SemLoad(t) \/ SemTryLoad(t) \/ SemTake(t) \/ PushWaiter(t)
    \/ BinRelease(t) \/ SemSignal(t, "signal") \/ PopWaiter(t)

-----------------------------------------------------------------------------
(* Barrier, made for as many threads as use it                             *)

N == Cardinality(Threads)

BarrierLoadGen(t) ==
    /\ rounds[t].in < MAXROUNDS
    /\ Go(t, {"idle"}, "arrive")
    /\ seen' = [seen EXCEPT ![t] = obj.gen]
    /\ UNCHANGED <<prim, obj, ghosts>>

\* Under the lock on current: count the caller; the last one resets the count
\* and keeps the lock until it has released the others.
BarrierArrive(t) ==
    LET last == obj.count + 1 = N IN
    /\ ~obj.running
    /\ Go(t, {"arrive"}, IF last THEN "release" ELSE "push")
    /\ obj' = [obj EXCEPT !.count = IF last THEN 0 ELSE @ + 1, !.running = last]
    /\ rounds' = [rounds EXCEPT ![t].in = @ + 1]
    /\ UNCHANGED <<prim, seen, depth, posted, ran>>

BarrierRelease(t) == Do(t, {"release"}, "lead", [obj EXCEPT !.gen = @ + 1])

\* A follower that does not wait for the generation to change.
BarrierReturnEarly(t) ==
    /\ \/ /\ Go(t, {"lead"}, "idle")
          /\ obj' = [obj EXCEPT !.waiters = <<>>, !.running = FALSE]
       \/ Go(t, {"spin"}, "idle") /\ UNCHANGED obj
    /\ rounds' = [rounds EXCEPT ![t].out = @ + 1]
    /\ UNCHANGED <<prim, seen, depth, posted, ran>>

\* The leader empties the queue and returns, or a follower sees the new
\* generation and returns.
BarrierReturn(t) ==
    /\ \/ /\ Go(t, {"lead"}, "idle")
          /\ obj' = [obj EXCEPT !.waiters = <<>>, !.running = FALSE]
       \/ /\ obj.gen # seen[t]
          /\ Go(t, {"spin"}, "idle")
          /\ UNCHANGED obj
    /\ rounds' = [rounds EXCEPT ![t].out = @ + 1]
    /\ UNCHANGED <<prim, seen, depth, posted, ran>>

BarrierStep(t) ==
    \/ BarrierLoadGen(t) \/ BarrierArrive(t) \/ BarrierRelease(t)
    \/ PushWaiter(t) \/ BarrierReturn(t)

-----------------------------------------------------------------------------
(* Once                                                                    *)

OnceFast(t) == Do(t, {"idle", "ret"}, IF obj.flag THEN "ret" ELSE "lock", obj)

\* A call_once that does not look at running.
OnceClaimAlways(t) ==
    Do(t, {"lock"}, IF obj.flag THEN "ret" ELSE "run", [obj EXCEPT !.running = @ \/ ~obj.flag])

\* Under the lock on running: done is loaded again, then running is looked at.
\* Only the runner stores done, and it stores it once.
OnceClaim(t) ==
    Do(t, {"lock"},
       IF obj.flag THEN "ret" ELSE IF obj.running THEN "wait" ELSE "run",
       [obj EXCEPT !.running = @ \/ ~obj.flag])

OnceRun(t) ==
    /\ Go(t, {"run"}, "store")
    /\ ran' = ran + 1
    /\ UNCHANGED <<prim, obj, seen, depth, rounds, posted>>

OnceStoreDone(t) == Do(t, {"store"}, "ret", [obj EXCEPT !.flag = TRUE])

OnceWait(t) == obj.flag /\ Do(t, {"wait"}, "ret", obj)

OnceStep(t) ==
    OnceFast(t) \/ OnceClaim(t) \/ OnceRun(t) \/ OnceStoreDone(t) \/ OnceWait(t)

-----------------------------------------------------------------------------
Next ==
    \E t \in Threads :
        \/ prim = "mutex" /\ MutexStep(t)
        \/ prim = "condvar" /\ CondVarStep(t)
        \/ prim = "recursive" /\ RecursiveStep(t)
        \/ prim = "rwlock" /\ RwLockStep(t)
        \/ prim = "semaphore" /\ SemaphoreStep(t)
        \/ prim = "binary" /\ BinaryStep(t)
        \/ prim = "barrier" /\ BarrierStep(t)
        \/ prim = "once" /\ OnceStep(t)

Spec == Init /\ [][Next]_vars

-----------------------------------------------------------------------------
(* Properties                                                              *)

Places(ps) == {t \in Threads : pc[t] \in ps}

\* Type correctness of the primitive and its callers.
TypeOK ==
    /\ prim \in Prims
    /\ obj.flag \in BOOLEAN /\ obj.running \in BOOLEAN
    /\ obj.owner \in Threads \cup {NOPID}
    /\ obj.count \in Nat /\ obj.gen \in Nat
    /\ obj.waiters \in Seq(Threads) /\ obj.cond \in Seq(Threads)
    /\ seen \in [Threads -> Nat] /\ depth \in [Threads -> Nat]
    /\ rounds \in [Threads -> [in : Nat, out : Nat]]
    /\ posted \in Nat /\ ran \in Nat

\* Mutual exclusion (MutexGuard, RecursiveMutexGuard, RwLockReadGuard,
\* RwLockWriteGuard and the binary semaphore): two threads never hold guards
\* that give access to the data at once, except read guards.
Exclusion ==
    /\ prim \in {"mutex", "condvar", "binary"} => Cardinality(Places({"in"})) <= 1
    /\ prim = "recursive" => Cardinality({t \in Threads : depth[t] > 0}) <= 1
    /\ Cardinality(Places({"writing"})) <= 1
    /\ Places({"writing"}) # {} => Places({"reading"}) = {}

\* Nothing is lost or made up: a lock that is marked taken is in the hands of
\* exactly one thread, the readers are those that announced themselves, the
\* permits of a semaphore are the free ones and the held ones, and a recursive
\* mutex counts exactly its owner's guards.
NothingLost ==
    /\ prim \in {"mutex", "condvar", "recursive", "rwlock"} =>
         Cardinality(Places({"own", "first", "in", "unlock", "drop", "dropped", "clear",
                             "nest", "drain", "writing"})
                     \cup {t \in Threads : depth[t] > 0})
           = IF obj.flag THEN 1 ELSE 0
    /\ prim = "rwlock" => obj.count = Cardinality(Places({"rcheck", "rback", "reading"}))
    /\ prim = "semaphore" => obj.count + Cardinality(Places({"in"})) = PERMITS + posted
    /\ prim = "binary" => obj.count + Cardinality(Places({"in", "signal"})) = 1
    /\ prim = "recursive" =>
         \A t \in Threads : depth[t] > 0 => depth[t] = obj.count /\ obj.owner = t

\* Barrier::wait: no thread returns from a round that some thread has not
\* entered, and the count is that of the threads waiting in this round.
BarrierMeets ==
    prim = "barrier" =>
        /\ \A t, u \in Threads : rounds[t].out <= rounds[u].in
        /\ obj.count = Cardinality({t \in Places({"push", "spin"}) : seen[t] = obj.gen
                                    /\ ~obj.running})

\* Once::call_once: the closure runs once, and no caller returns before it ran.
OnceOnly ==
    prim = "once" => ran <= 1 /\ (Places({"ret"}) # {} => ran = 1 /\ obj.flag)
=============================================================================

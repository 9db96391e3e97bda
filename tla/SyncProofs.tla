----------------------------- MODULE SyncProofs -----------------------------
(***************************************************************************)
(* Proofs about the primitives of kernel/src/sync, for any set of threads  *)
(* and any bounds.  A primitive is fixed by the initial state, so the      *)
(* inductive invariant has one clause per primitive, saying for every      *)
(* place a thread can be at what it then holds and what the primitive's    *)
(* fields show of it.                                                      *)
(***************************************************************************)
EXTENDS Sync, FiniteSetTheorems, TLAPS

Fields ==
    [flag : BOOLEAN, owner : Threads \cup {NOPID}, waiters : Seq(Threads),
     cond : Seq(Threads), gen : Nat, running : BOOLEAN, count : Nat]

\* The primitive's fields and every thread's registers have their types.
Shape ==
    /\ prim \in Prims
    /\ pc = [t \in Threads |-> pc[t]]
    /\ obj \in Fields
    /\ seen \in [Threads -> Nat]
    /\ depth \in [Threads -> Nat]
    /\ rounds \in [Threads -> [in : Nat, out : Nat]]
    /\ posted \in Nat /\ ran \in Nat

\* The threads in S, at most one, are those that made the flag true.
HeldBy(S, flag) ==
    /\ \A t, u \in S : t = u
    /\ flag <=> S # {}

\* Where a thread of a mutex has won the flag and not yet cleared it.
MutexHeld == {"own", "in", "unlock", "drop", "dropped"}

MutexPlaces ==
    MutexHeld \cup {"idle", "spin", "push", "wake", "popping", "blocked", "panicked"}

MutexInv ==
    /\ \A t \in Threads : pc[t] \in MutexPlaces /\ depth[t] = 0
    /\ HeldBy(Places(MutexHeld), obj.flag)

\* Threads of a recursive mutex between winning and clearing the flag.
RecursiveHolders ==
    {t \in Threads : pc[t] \in {"own", "first", "clear", "unlock"} \/ depth[t] > 0}

\* A thread holds guards exactly where the code may use or nest them, the count
\* is that of the owner's guards, and a stored owner is the holder.
RecursiveInv ==
    /\ \A t \in Threads :
         /\ pc[t] \in {"idle", "spin", "check", "cas", "own", "first", "in", "nest", "clear",
                       "unlock"}
         /\ pc[t] \in {"in", "nest"} => depth[t] > 0
         /\ pc[t] \notin {"in", "nest", "check"} => depth[t] = 0
         /\ depth[t] > 0 => depth[t] = obj.count /\ obj.owner = t
         /\ pc[t] \in {"first", "clear"} => obj.owner = t
         /\ obj.owner = t => pc[t] \in {"first", "clear"} \/ depth[t] > 0
    /\ HeldBy(RecursiveHolders, obj.flag)

\* Where a thread is the writer, and where it has announced itself as a reader.
WriterHeld == {"drain", "writing"}
ReaderCounted == {"rcheck", "rback", "reading"}
RwLockPlaces == WriterHeld \cup ReaderCounted \cup {"idle", "rwait", "rinc"}

RwLockInv ==
    /\ \A t \in Threads : pc[t] \in RwLockPlaces /\ depth[t] = 0
    /\ HeldBy(Places(WriterHeld), obj.flag)
    /\ obj.count = Cardinality(Places(ReaderCounted))
    /\ Places({"writing"}) # {} => Places({"reading"}) = {}

\* A thread that goes on to take a permit has seen one.
SemaphorePlaces ==
    \A t \in Threads :
        /\ pc[t] \in {"idle", "spin", "push", "take", "try", "trytake", "in", "signal", "wake"}
        /\ pc[t] \in {"take", "trytake"} => seen[t] > 0

SemaphoreInv ==
    /\ SemaphorePlaces
    /\ obj.count + Cardinality(Places({"in"})) = PERMITS + posted

BinaryInv ==
    /\ SemaphorePlaces
    /\ obj.count + Cardinality(Places({"in", "signal"})) = 1

\* The threads that wait for the generation they loaded to pass.
Waiting == {t \in Places({"push", "spin"}) : seen[t] = obj.gen}

\* The leader: the last to arrive, which holds the lock on current.
Leaders == Places({"release", "lead"})

\* A thread outside has left as many rounds as have been released; one inside
\* entered the round of the generation it loaded, which is the current one or
\* the one released last.
BarrierThreads ==
    \A t \in Threads :
        /\ pc[t] \in {"idle", "arrive", "push", "spin", "release", "lead"}
        /\ pc[t] \in {"idle", "arrive"} => rounds[t].in = obj.gen /\ rounds[t].out = obj.gen
        /\ pc[t] \in {"arrive", "release"} => seen[t] = obj.gen
        /\ pc[t] \in {"push", "spin"} => seen[t] = obj.gen \/ seen[t] + 1 = obj.gen
        /\ pc[t] = "lead" => seen[t] + 1 = obj.gen
        /\ pc[t] \notin {"idle", "arrive"} =>
             rounds[t].in = seen[t] + 1 /\ rounds[t].out = seen[t]

\* While a leader has not released the others they all wait in this round; once
\* it has, nobody does.
BarrierInv ==
    /\ BarrierThreads
    /\ HeldBy(Leaders, obj.running)
    /\ \A t \in Threads : pc[t] = "release" => Threads \ {t} \subseteq Waiting
    /\ \A t \in Threads : pc[t] = "lead" => Waiting = {}
    /\ obj.count = IF obj.running THEN 0 ELSE Cardinality(Waiting)

\* The thread that claimed the closure, until it has stored done.
OnceRunners == Places({"run", "store"})

OnceInv ==
    /\ \A t \in Threads :
         /\ pc[t] \in {"idle", "lock", "wait", "run", "store", "ret"}
         /\ pc[t] = "run" => ran = 0
         /\ pc[t] = "store" => ran = 1
         /\ pc[t] = "ret" => obj.flag
         /\ pc[t] \in {"run", "store"} => ~obj.flag /\ obj.running
    /\ \A t, u \in OnceRunners : t = u
    /\ obj.flag => ran = 1 /\ obj.running
    /\ ~obj.running => ran = 0
    /\ ran <= 1

IInv ==
    /\ Shape
    /\ prim \in {"mutex", "condvar"} => MutexInv
    /\ prim = "recursive" => RecursiveInv
    /\ prim = "rwlock" => RwLockInv
    /\ prim = "semaphore" => SemaphoreInv
    /\ prim = "binary" => BinaryInv
    /\ prim = "barrier" => BarrierInv
    /\ prim = "once" => OnceInv

-----------------------------------------------------------------------------
(* Counting threads                                                        *)

\* The threads at some places are a finite set.
LEMMA PlacesFinite ==
  ASSUME NEW ps
  PROVE  IsFiniteSet(Places(ps)) /\ Cardinality(Places(ps)) \in Nat
<1>1. Places(ps) \in SUBSET Threads
  BY DEF Places
<1> QED
  BY <1>1, ConstantsOK, FS_Subset, FS_CardinalityType

\* A step of one thread moves only that thread: the threads at some places
\* change by at most that one, and so does their number.
LEMMA PlacesAfterMove ==
  ASSUME Shape, NEW t \in Threads, NEW to, pc' = [pc EXCEPT ![t] = to], NEW ps
  PROVE  /\ Places(ps)' = IF to \in ps THEN Places(ps) \cup {t} ELSE Places(ps) \ {t}
         /\ Cardinality(Places(ps)') =
              Cardinality(Places(ps)) + (IF to \in ps THEN 1 ELSE 0)
                                      - (IF pc[t] \in ps THEN 1 ELSE 0)
<1>1. Places(ps)' = IF to \in ps THEN Places(ps) \cup {t} ELSE Places(ps) \ {t}
  BY DEF Places, Shape
<1>2. t \in Places(ps) <=> pc[t] \in ps
  BY DEF Places
<1>3. IsFiniteSet(Places(ps)) /\ Cardinality(Places(ps)) \in Nat
  BY PlacesFinite
<1>4. Cardinality(Places(ps) \cup {t}) =
        IF t \in Places(ps) THEN Cardinality(Places(ps)) ELSE Cardinality(Places(ps)) + 1
  BY <1>3, FS_AddElement, Zenon
<1>5. Cardinality(Places(ps) \ {t}) =
        IF t \in Places(ps) THEN Cardinality(Places(ps)) - 1 ELSE Cardinality(Places(ps))
  BY <1>3, FS_RemoveElement, Zenon
<1>6. CASE to \in ps
  BY <1>1, <1>2, <1>3, <1>4, <1>6
<1>7. CASE to \notin ps
  BY <1>1, <1>2, <1>3, <1>5, <1>7
<1> QED
  BY <1>6, <1>7

\* A flag that stands for the threads of a set is set when there is one of them.
LEMMA HeldByCount ==
  ASSUME NEW S \in SUBSET Threads, NEW flag \in BOOLEAN, HeldBy(S, flag)
  PROVE  Cardinality(S) = IF flag THEN 1 ELSE 0
<1>1. CASE flag
  <2>1. PICK x \in S : S = {x}
    BY <1>1 DEF HeldBy
  <2> QED
    BY <1>1, <2>1, FS_Singleton
<1>2. CASE ~flag
  BY <1>2, FS_EmptySet DEF HeldBy
<1> QED
  BY <1>1, <1>2

\* A thread that wins a clear flag is its holder, ...
LEMMA HeldByEnter ==
  ASSUME NEW S, NEW t, HeldBy(S, FALSE)
  PROVE  HeldBy(S \cup {t}, TRUE)
BY DEF HeldBy

\* ... and when the holder clears the flag there is none.
LEMMA HeldByLeave ==
  ASSUME NEW S, NEW t \in S, NEW flag, HeldBy(S, flag)
  PROVE  HeldBy(S \ {t}, FALSE)
BY DEF HeldBy

-----------------------------------------------------------------------------
(* Steps that change at most the primitive                                 *)

\* A step of the code's text that leaves a well-formed object keeps the shape
\* of the state.
LEMMA DoKeepsShape ==
  ASSUME Shape, NEW t \in Threads, NEW from, NEW to, NEW new \in Fields,
         Do(t, from, to, new)
  PROVE  Shape' /\ prim' = prim
BY Zenon DEF Do, Go, Shape, ghosts

\* Changing one field of a primitive leaves a primitive.
LEMMA FieldChange ==
  ASSUME NEW o \in Fields
  PROVE  /\ \A b \in BOOLEAN : [o EXCEPT !.flag = b] \in Fields
         /\ \A p \in Threads \cup {NOPID} : [o EXCEPT !.owner = p] \in Fields
         /\ \A n \in Nat : [o EXCEPT !.count = n] \in Fields
         /\ \A n \in Nat : [o EXCEPT !.gen = n] \in Fields
         /\ \A b \in BOOLEAN : [o EXCEPT !.running = b] \in Fields
         /\ \A q \in Seq(Threads) : [o EXCEPT !.waiters = q] \in Fields
         /\ \A q \in Seq(Threads) : [o EXCEPT !.cond = q] \in Fields
BY Zenon DEF Fields

\* Queueing a thread and taking one off the queue leave a queue of threads.
LEMMA QueueChange ==
  ASSUME NEW q \in Seq(Threads), NEW t \in Threads
  PROVE  Append(q, t) \in Seq(Threads) /\ PopFront(q) \in Seq(Threads)
BY DEF PopFront

-----------------------------------------------------------------------------
(* Mutex and CondVar                                                       *)

\* A step of a thread that takes a clear flag, gives up a flag it holds, or
\* leaves the flag as it is and stays on the same side of it.
LEMMA MutexMove ==
  ASSUME Shape, MutexInv, NEW t \in Threads, NEW from, NEW to \in MutexPlaces,
         NEW new \in Fields, Do(t, from, to, new),
         \/ to \in MutexHeld /\ ~obj.flag /\ new.flag
         \/ to \notin MutexHeld /\ pc[t] \in MutexHeld /\ ~new.flag
         \/ (to \in MutexHeld <=> pc[t] \in MutexHeld) /\ new.flag = obj.flag
  PROVE  Shape' /\ MutexInv' /\ prim' = prim
<1>1. Shape' /\ prim' = prim
  BY DoKeepsShape
<1>2. \A u \in Threads : (pc[u] \in MutexPlaces /\ depth[u] = 0)'
  BY DEF Do, Go, MutexInv, Shape, ghosts
<1>3. obj' = new /\ pc' = [pc EXCEPT ![t] = to]
  BY DEF Do, Go
<1>4. Places(MutexHeld)' = IF to \in MutexHeld THEN Places(MutexHeld) \cup {t}
                                               ELSE Places(MutexHeld) \ {t}
  BY <1>3, PlacesAfterMove, Zenon
<1>5. t \in Places(MutexHeld) <=> pc[t] \in MutexHeld
  BY DEF Places
<1>6. obj.flag \in BOOLEAN /\ new.flag \in BOOLEAN
  BY DEF Shape, Fields
<1>7. CASE to \in MutexHeld /\ ~obj.flag /\ new.flag
  <2>1. HeldBy(Places(MutexHeld), FALSE)
    BY <1>6, <1>7, Zenon DEF MutexInv
  <2>2. HeldBy(Places(MutexHeld) \cup {t}, TRUE)
    BY <2>1, HeldByEnter, Zenon
  <2> QED
    BY <1>1, <1>2, <1>3, <1>4, <1>6, <1>7, <2>2, Zenon DEF MutexInv
<1>8. CASE to \notin MutexHeld /\ pc[t] \in MutexHeld /\ ~new.flag
  BY <1>2, <1>3, <1>4, <1>5, <1>1, <1>6, <1>8, HeldByLeave, Zenon DEF MutexInv
<1>9. CASE (to \in MutexHeld <=> pc[t] \in MutexHeld) /\ new.flag = obj.flag
  <2>1. Places(MutexHeld)' = Places(MutexHeld)
    BY <1>4, <1>5, <1>9
  <2> QED
    BY <1>1, <1>2, <1>3, <1>9, <2>1 DEF MutexInv
<1> QED
  BY <1>7, <1>8, <1>9

\* A mutex has one holder from the compare-exchange that wins the flag to the
\* store that clears it, whether the guard is dropped or CondVar::wait drops it.
LEMMA MutexPreserves ==
  ASSUME Shape, MutexInv, NEW t \in Threads, CondVarStep(t)
  PROVE  Shape' /\ MutexInv' /\ prim' = prim
<1> USE DEF MutexPlaces, MutexHeld
<1>o. obj \in Fields /\ obj.waiters \in Seq(Threads) /\ obj.cond \in Seq(Threads)
      /\ obj.flag \in BOOLEAN
  BY DEF Shape, Fields
<1>q. /\ Append(obj.waiters, t) \in Seq(Threads) /\ PopFront(obj.waiters) \in Seq(Threads)
      /\ Append(obj.cond, t) \in Seq(Threads) /\ PopFront(obj.cond) \in Seq(Threads)
      /\ <<>> \in Seq(Threads)
  BY <1>o, QueueChange
<1>1. CASE TryLock(t)
  <2> DEFINE to == IF obj.flag THEN "push" ELSE "own"
             new == [obj EXCEPT !.flag = TRUE]
  <2>1. new \in Fields /\ new.flag
    BY <1>o, FieldChange, Zenon DEF Fields
  <2>2. Do(t, {"idle", "spin"}, to, new) /\ pc[t] \in {"idle", "spin"}
    BY <1>1 DEF TryLock, Do, Go
  <2> QED
    BY <1>o, <2>1, <2>2, MutexMove, Zenon
<1>2. CASE StoreOwner(t, "in")
  <2> DEFINE new == [obj EXCEPT !.owner = t]
  <2>1. new \in Fields /\ new.flag = obj.flag
    BY <1>o, <1>q, ConstantsOK, FieldChange DEF Fields
  <2>2. Do(t, {"own"}, "in", new) /\ pc[t] \in {"own"}
    BY <1>2 DEF StoreOwner, Do, Go
  <2> QED
    BY <2>1, <2>2, MutexMove, Zenon
<1>3. CASE PushWaiter(t)
  <2> DEFINE new == [obj EXCEPT !.waiters = Append(@, t)]
  <2>1. new \in Fields /\ new.flag = obj.flag
    BY <1>o, <1>q, ConstantsOK, FieldChange, Zenon DEF Fields
  <2>2. Do(t, {"push"}, "spin", new) /\ pc[t] \in {"push"}
    BY <1>3 DEF PushWaiter, Do, Go
  <2> QED
    BY <2>1, <2>2, MutexMove, Zenon
<1>4. CASE ClearOwner(t, "in", "unlock")
  <2> DEFINE new == [obj EXCEPT !.owner = NOPID]
  <2>1. new \in Fields /\ new.flag = obj.flag
    BY <1>o, <1>q, ConstantsOK, FieldChange DEF Fields
  <2>2. Do(t, {"in"}, "unlock", new) /\ pc[t] \in {"in"}
    BY <1>4 DEF ClearOwner, Do, Go
  <2> QED
    BY <2>1, <2>2, MutexMove, Zenon
<1>5. CASE ClearFlag(t, "unlock", "wake")
  <2> DEFINE new == [obj EXCEPT !.flag = FALSE]
  <2>1. new \in Fields /\ new.flag = FALSE
    BY <1>o, <1>q, ConstantsOK, FieldChange, Zenon DEF Fields
  <2>2. Do(t, {"unlock"}, "wake", new) /\ pc[t] \in {"unlock"}
    BY <1>5 DEF ClearFlag, Do, Go
  <2> QED
    BY <2>1, <2>2, MutexMove, Zenon
<1>6. CASE PopWaiter(t)
  <2> DEFINE new == [obj EXCEPT !.waiters = PopFront(@)]
  <2>1. new \in Fields /\ new.flag = obj.flag
    BY <1>o, <1>q, ConstantsOK, FieldChange DEF Fields
  <2>2. Do(t, {"wake"}, "idle", new) /\ pc[t] \in {"wake"}
    BY <1>6 DEF PopWaiter, Do, Go
  <2> QED
    BY <2>1, <2>2, MutexMove, Zenon
<1>7. CASE CondWait(t)
  <2> DEFINE new == [obj EXCEPT !.cond = Append(@, t)]
  <2>1. new \in Fields /\ new.flag = obj.flag
    BY <1>o, <1>q, ConstantsOK, FieldChange, Zenon DEF Fields
  <2>2. Do(t, {"in"}, "drop", new) /\ pc[t] \in {"in"}
    BY <1>7 DEF CondWait, Do, Go
  <2> QED
    BY <2>1, <2>2, MutexMove, Zenon
<1>8. CASE CondBlock(t)
  <2>1. CASE ClearOwner(t, "drop", "dropped")
    <3> DEFINE new == [obj EXCEPT !.owner = NOPID]
    <3>1. new \in Fields /\ new.flag = obj.flag
      BY <1>o, <1>q, ConstantsOK, FieldChange DEF Fields
    <3>2. Do(t, {"drop"}, "dropped", new) /\ pc[t] \in {"drop"}
      BY <2>1 DEF ClearOwner, Do, Go
    <3> QED
      BY <3>1, <3>2, MutexMove, Zenon
  <2>2. CASE ClearFlag(t, "dropped", "popping")
    <3> DEFINE new == [obj EXCEPT !.flag = FALSE]
    <3>1. new \in Fields /\ new.flag = FALSE
      BY <1>o, <1>q, ConstantsOK, FieldChange, Zenon DEF Fields
    <3>2. Do(t, {"dropped"}, "popping", new) /\ pc[t] \in {"dropped"}
      BY <2>2 DEF ClearFlag, Do, Go
    <3> QED
      BY <3>1, <3>2, MutexMove, Zenon
  <2>3. CASE Do(t, {"popping"}, "blocked", [obj EXCEPT !.waiters = PopFront(@)])
    <3> DEFINE new == [obj EXCEPT !.waiters = PopFront(@)]
    <3>1. new \in Fields /\ new.flag = obj.flag
      BY <1>o, <1>q, ConstantsOK, FieldChange DEF Fields
    <3>2. Do(t, {"popping"}, "blocked", new) /\ pc[t] \in {"popping"}
      BY <2>3 DEF Do, Go
    <3> QED
      BY <3>1, <3>2, MutexMove, Zenon
  <2>4. CASE Do(t, {"blocked"}, "panicked", obj)
    <3>1. pc[t] = "blocked"
      BY <2>4 DEF Do, Go
    <3> QED
      BY <1>o, <2>4, <3>1, MutexMove
  <2> QED
    BY <1>8, <2>1, <2>2, <2>3, <2>4 DEF CondBlock
<1>9. CASE CondNotify(t)
  <2>1. PICK q \in {PopFront(obj.cond), <<>>} : Do(t, {"idle"}, "idle", [obj EXCEPT !.cond = q])
    BY <1>9 DEF CondNotify
  <2> DEFINE new == [obj EXCEPT !.cond = q]
  <2>2. new \in Fields /\ new.flag = obj.flag
    <3>1. q \in Seq(Threads)
      BY <1>q, Zenon
    <3> QED
      BY <1>o, <3>1, FieldChange DEF Fields
  <2>3. pc[t] = "idle"
    BY <2>1 DEF Do, Go
  <2> QED
    BY <2>1, <2>2, <2>3, MutexMove, Zenon
<1> QED
  BY <1>1, <1>2, <1>3, <1>4, <1>5, <1>6, <1>7, <1>8, <1>9 DEF CondVarStep, MutexStep

-----------------------------------------------------------------------------
(* RecursiveMutex                                                          *)

\* The recursive mutex has one holder from winning the flag to clearing it, it
\* nests only under its own guards, and its count is that of those guards.
LEMMA RecursivePreserves ==
  ASSUME Shape, RecursiveInv, NEW t \in Threads, RecursiveStep(t)
  PROVE  Shape' /\ RecursiveInv' /\ prim' = prim
<1>o. obj \in Fields /\ obj.flag \in BOOLEAN /\ obj.count \in Nat
      /\ obj.owner \in Threads \cup {NOPID} /\ NOPID \notin Threads
  BY ConstantsOK DEF Shape, Fields
<1>d. depth \in [Threads -> Nat]
  BY DEF Shape
<1>h. t \in RecursiveHolders => \A u \in Threads \ {t} : u \notin RecursiveHolders
  BY DEF RecursiveInv, HeldBy
<1>1. CASE RecLoad(t)
  <2>1. Do(t, {"idle", "spin", "in"}, IF obj.flag THEN "check" ELSE "cas", obj)
    BY <1>1 DEF RecLoad
  <2>2. Shape' /\ prim' = prim
    BY <1>o, <2>1, DoKeepsShape
  <2>3. /\ pc[t] \in {"idle", "spin", "in"} /\ obj' = obj /\ depth' = depth
        /\ pc' = [pc EXCEPT ![t] = IF obj.flag THEN "check" ELSE "cas"]
    BY <2>1 DEF Do, Go, ghosts
  <2>4. RecursiveHolders' = RecursiveHolders
    BY <1>d, <2>3 DEF RecursiveHolders, RecursiveInv, Shape
  <2>5. pc[t] = "in" => obj.flag
    BY DEF RecursiveInv, RecursiveHolders, HeldBy
  <2> QED
    BY <1>d, <1>o, <2>2, <2>3, <2>4, <2>5 DEF RecursiveInv, Shape
<1>2. CASE RecCheckOwner(t)
  <2>1. Do(t, {"check"}, IF obj.owner = t THEN "nest" ELSE "cas", obj)
    BY <1>2 DEF RecCheckOwner
  <2>2. Shape' /\ prim' = prim
    BY <1>o, <2>1, DoKeepsShape
  <2>3. /\ pc[t] = "check" /\ obj' = obj /\ depth' = depth
        /\ pc' = [pc EXCEPT ![t] = IF obj.owner = t THEN "nest" ELSE "cas"]
    BY <2>1 DEF Do, Go, ghosts
  <2>4. RecursiveHolders' = RecursiveHolders
    BY <1>d, <2>3 DEF RecursiveHolders, RecursiveInv, Shape
  <2> QED
    BY <1>d, <1>o, <2>2, <2>3, <2>4 DEF RecursiveInv, Shape
<1>3. CASE RecNest(t)
  <2>1. /\ pc[t] = "nest" /\ pc' = [pc EXCEPT ![t] = "in"]
        /\ obj' = [obj EXCEPT !.count = obj.count + 1]
        /\ depth' = [depth EXCEPT ![t] = depth[t] + 1]
        /\ prim' = prim /\ seen' = seen /\ rounds' = rounds /\ posted' = posted /\ ran' = ran
    BY <1>3 DEF RecNest, Go
  <2>2. Shape'
    <3>1. obj.count + 1 \in Nat /\ [obj EXCEPT !.count = obj.count + 1] \in Fields
      BY <1>o, FieldChange
    <3>2. depth[t] + 1 \in Nat /\ depth' \in [Threads -> Nat]
      BY <1>d, <2>1
    <3> QED
      BY <2>1, <3>1, <3>2, Zenon DEF Shape
  <2>3. obj'.flag = obj.flag /\ obj'.owner = obj.owner /\ obj'.count = obj.count + 1
    BY <1>o, <2>1 DEF Fields
  <2>4. depth[t] > 0 /\ t \in RecursiveHolders
    BY <2>1 DEF RecursiveInv, RecursiveHolders
  <2>5. RecursiveHolders' = RecursiveHolders
    BY <1>d, <2>1, <2>4 DEF RecursiveHolders, Shape
  <2>6. \A u \in Threads \ {t} : depth[u] = 0
    BY <1>d, <1>h, <2>4 DEF RecursiveHolders
  <2> QED
    BY <1>d, <1>o, <2>1, <2>2, <2>3, <2>4, <2>5, <2>6 DEF RecursiveInv, Shape
<1>4. CASE RecCas(t)
  <2> DEFINE to == IF obj.flag THEN "spin" ELSE "own"
             new == [obj EXCEPT !.flag = TRUE]
  <2>1. Do(t, {"cas"}, to, new)
    BY <1>4 DEF RecCas
  <2>2. new \in Fields /\ new.flag = TRUE /\ new.owner = obj.owner /\ new.count = obj.count
    BY <1>o, FieldChange, Zenon DEF Fields
  <2>3. Shape' /\ prim' = prim
    BY <2>1, <2>2, DoKeepsShape
  <2>4. pc[t] = "cas" /\ obj' = new /\ depth' = depth /\ pc' = [pc EXCEPT ![t] = to]
    BY <2>1 DEF Do, Go, ghosts
  <2>5. RecursiveHolders' = IF obj.flag THEN RecursiveHolders ELSE RecursiveHolders \cup {t}
    BY <1>d, <1>o, <2>4 DEF RecursiveHolders, RecursiveInv, Shape
  <2>6. HeldBy(RecursiveHolders, obj.flag)
    BY DEF RecursiveInv
  <2>7. HeldBy(RecursiveHolders', TRUE)
    BY <1>o, <2>5, <2>6, HeldByEnter, Zenon
  <2>8. HeldBy(RecursiveHolders, obj.flag)'
    BY <2>2, <2>4, <2>7, Zenon
  <2>9. ~obj.flag => \A u \in Threads : u \notin RecursiveHolders
    BY <2>6 DEF HeldBy
  <2> HIDE DEF new
  <2> QED
    BY <1>d, <1>o, <2>2, <2>3, <2>4, <2>8, <2>9 DEF RecursiveInv, RecursiveHolders, Shape
<1>5. CASE StoreOwner(t, "first")
  <2> DEFINE new == [obj EXCEPT !.owner = t]
  <2>1. Do(t, {"own"}, "first", new)
    BY <1>5 DEF StoreOwner
  <2>2. new \in Fields /\ new.flag = obj.flag /\ new.owner = t /\ new.count = obj.count
    BY <1>o, FieldChange DEF Fields
  <2>3. Shape' /\ prim' = prim
    BY <2>1, <2>2, DoKeepsShape
  <2>4. pc[t] = "own" /\ obj' = new /\ depth' = depth /\ pc' = [pc EXCEPT ![t] = "first"]
    BY <2>1 DEF Do, Go, ghosts
  <2>5. t \in RecursiveHolders
    BY <2>4 DEF RecursiveHolders
  <2>6. RecursiveHolders' = RecursiveHolders
    BY <1>d, <2>4, <2>5 DEF RecursiveHolders, Shape
  <2>7. \A u \in Threads \ {t} : depth[u] = 0 /\ pc[u] \notin {"first", "clear"}
    BY <1>d, <1>h, <2>5 DEF RecursiveHolders
  <2> HIDE DEF new
  <2> QED
    BY <1>d, <1>o, <2>2, <2>3, <2>4, <2>6, <2>7 DEF RecursiveInv, Shape
<1>6. CASE RecStoreCount(t)
  <2>1. /\ pc[t] = "first" /\ pc' = [pc EXCEPT ![t] = "in"]
        /\ obj' = [obj EXCEPT !.count = 1]
        /\ depth' = [depth EXCEPT ![t] = 1]
        /\ prim' = prim /\ seen' = seen /\ rounds' = rounds /\ posted' = posted /\ ran' = ran
    BY <1>6 DEF RecStoreCount, Go
  <2>2. Shape'
    <3>1. [obj EXCEPT !.count = 1] \in Fields
      BY <1>o, FieldChange
    <3> QED
      BY <1>d, <2>1, <3>1, Zenon DEF Shape
  <2>3. obj'.flag = obj.flag /\ obj'.owner = obj.owner /\ obj'.count = 1
    BY <1>o, <2>1 DEF Fields
  <2>4. t \in RecursiveHolders /\ obj.owner = t
    BY <2>1 DEF RecursiveHolders, RecursiveInv
  <2>5. RecursiveHolders' = RecursiveHolders
    BY <1>d, <2>1, <2>4 DEF RecursiveHolders, Shape
  <2>6. \A u \in Threads \ {t} : depth[u] = 0
    BY <1>d, <1>h, <2>4 DEF RecursiveHolders
  <2> QED
    BY <1>d, <1>o, <2>1, <2>2, <2>3, <2>4, <2>5, <2>6 DEF RecursiveInv, Shape
<1>7. CASE RecUnlock(t)
  <2> DEFINE to == IF obj.count = 1 THEN "clear" ELSE "in"
  <2>1. /\ pc[t] = "in" /\ pc' = [pc EXCEPT ![t] = to]
        /\ obj' = [obj EXCEPT !.count = obj.count - 1]
        /\ depth' = [depth EXCEPT ![t] = depth[t] - 1]
        /\ prim' = prim /\ seen' = seen /\ rounds' = rounds /\ posted' = posted /\ ran' = ran
    BY <1>7 DEF RecUnlock, Go
  <2>2. depth[t] > 0 /\ depth[t] = obj.count /\ obj.owner = t /\ t \in RecursiveHolders
    BY <2>1 DEF RecursiveInv, RecursiveHolders
  <2>3. Shape'
    <3>1. obj.count - 1 \in Nat /\ [obj EXCEPT !.count = obj.count - 1] \in Fields
      BY <1>o, <2>2, FieldChange
    <3> QED
      BY <1>d, <2>1, <2>2, <3>1, Zenon DEF Shape
  <2>4. obj'.flag = obj.flag /\ obj'.owner = obj.owner /\ obj'.count = obj.count - 1
    BY <1>o, <2>1 DEF Fields
  <2>5. RecursiveHolders' = RecursiveHolders
    BY <1>d, <1>o, <2>1, <2>2 DEF RecursiveHolders, Shape
  <2>6. \A u \in Threads \ {t} : depth[u] = 0
    BY <1>d, <1>h, <2>2 DEF RecursiveHolders
  <2> QED
    BY <1>d, <1>o, <2>1, <2>2, <2>3, <2>4, <2>5, <2>6 DEF RecursiveInv, Shape
<1>8. CASE ClearOwner(t, "clear", "unlock")
  <2> DEFINE new == [obj EXCEPT !.owner = NOPID]
  <2>1. Do(t, {"clear"}, "unlock", new)
    BY <1>8 DEF ClearOwner
  <2>2. new \in Fields /\ new.flag = obj.flag /\ new.owner = NOPID /\ new.count = obj.count
    BY <1>o, FieldChange DEF Fields
  <2>3. Shape' /\ prim' = prim
    BY <2>1, <2>2, DoKeepsShape
  <2>4. pc[t] = "clear" /\ obj' = new /\ depth' = depth /\ pc' = [pc EXCEPT ![t] = "unlock"]
    BY <2>1 DEF Do, Go, ghosts
  <2>5. t \in RecursiveHolders
    BY <2>4 DEF RecursiveHolders
  <2>6. RecursiveHolders' = RecursiveHolders
    BY <1>d, <2>4, <2>5 DEF RecursiveHolders, Shape
  <2>7. \A u \in Threads \ {t} : depth[u] = 0 /\ pc[u] \notin {"first", "clear"}
    BY <1>d, <1>h, <2>5 DEF RecursiveHolders
  <2> HIDE DEF new
  <2> QED
    BY <1>d, <1>o, <2>2, <2>3, <2>4, <2>6, <2>7 DEF RecursiveInv, Shape
<1>9. CASE ClearFlag(t, "unlock", "idle")
  <2> DEFINE new == [obj EXCEPT !.flag = FALSE]
  <2>1. Do(t, {"unlock"}, "idle", new)
    BY <1>9 DEF ClearFlag
  <2>2. new \in Fields /\ new.flag = FALSE /\ new.owner = obj.owner /\ new.count = obj.count
    BY <1>o, FieldChange, Zenon DEF Fields
  <2>3. Shape' /\ prim' = prim
    BY <2>1, <2>2, DoKeepsShape
  <2>4. pc[t] = "unlock" /\ obj' = new /\ depth' = depth /\ pc' = [pc EXCEPT ![t] = "idle"]
    BY <2>1 DEF Do, Go, ghosts
  <2>5. t \in RecursiveHolders /\ depth[t] = 0
    BY <2>4 DEF RecursiveHolders, RecursiveInv
  <2>6. RecursiveHolders' = RecursiveHolders \ {t}
    BY <1>d, <2>4, <2>5 DEF RecursiveHolders, Shape
  <2>7. HeldBy(RecursiveHolders, obj.flag)'
    <3>1. HeldBy(RecursiveHolders \ {t}, FALSE)
      BY <2>5, HeldByLeave, Zenon DEF RecursiveInv
    <3> QED
      BY <2>2, <2>4, <2>6, <3>1, Zenon
  <2> HIDE DEF new
  <2> QED
    BY <1>d, <1>o, <2>2, <2>3, <2>4, <2>7 DEF RecursiveInv, Shape
<1> QED
  BY <1>1, <1>2, <1>3, <1>4, <1>5, <1>6, <1>7, <1>8, <1>9 DEF RecursiveStep

-----------------------------------------------------------------------------
(* RwLock                                                                  *)

\* A step of a thread that takes or gives up the writer flag as it goes in or
\* out of the writer's places, counts itself as it goes in or out of the
\* readers', starts to write only with no reader counted, and starts to read
\* only with no writer.
LEMMA RwLockMove ==
  ASSUME Shape, RwLockInv, NEW t \in Threads, NEW from, NEW to \in RwLockPlaces,
         NEW new \in Fields, Do(t, from, to, new),
         \/ to \in WriterHeld /\ ~obj.flag /\ new.flag
         \/ to \notin WriterHeld /\ pc[t] \in WriterHeld /\ ~new.flag
         \/ (to \in WriterHeld <=> pc[t] \in WriterHeld) /\ new.flag = obj.flag,
         new.count = obj.count + (IF to \in ReaderCounted THEN 1 ELSE 0)
                               - (IF pc[t] \in ReaderCounted THEN 1 ELSE 0),
         to = "writing" => obj.count = 0,
         to = "reading" => ~obj.flag
  PROVE  Shape' /\ RwLockInv' /\ prim' = prim
<1>1. Shape' /\ prim' = prim
  BY DoKeepsShape
<1>2. \A u \in Threads : (pc[u] \in RwLockPlaces /\ depth[u] = 0)'
  BY DEF Do, Go, RwLockInv, Shape, ghosts
<1>3. obj' = new /\ pc' = [pc EXCEPT ![t] = to]
  BY DEF Do, Go
<1>4. Places(WriterHeld)' = IF to \in WriterHeld THEN Places(WriterHeld) \cup {t}
                                                 ELSE Places(WriterHeld) \ {t}
  BY <1>3, PlacesAfterMove, Zenon
<1>5. t \in Places(WriterHeld) <=> pc[t] \in WriterHeld
  BY DEF Places
<1>6. obj.flag \in BOOLEAN /\ new.flag \in BOOLEAN
  BY DEF Shape, Fields
<1>7. HeldBy(Places(WriterHeld), obj.flag)'
  <2>1. CASE to \in WriterHeld /\ ~obj.flag /\ new.flag
    <3>1. HeldBy(Places(WriterHeld), FALSE)
      BY <1>6, <2>1, Zenon DEF RwLockInv
    <3>2. HeldBy(Places(WriterHeld) \cup {t}, TRUE)
      BY <3>1, HeldByEnter, Zenon
    <3> QED
      BY <1>3, <1>4, <1>6, <2>1, <3>2, Zenon
  <2>2. CASE to \notin WriterHeld /\ pc[t] \in WriterHeld /\ ~new.flag
    <3>1. HeldBy(Places(WriterHeld) \ {t}, FALSE)
      BY <1>5, <2>2, HeldByLeave, Zenon DEF RwLockInv
    <3> QED
      BY <1>3, <1>4, <1>6, <2>2, <3>1, Zenon
  <2>3. CASE (to \in WriterHeld <=> pc[t] \in WriterHeld) /\ new.flag = obj.flag
    <3>1. Places(WriterHeld)' = Places(WriterHeld)
      BY <1>4, <1>5, <2>3
    <3> QED
      BY <1>3, <2>3, <3>1 DEF RwLockInv
  <2> QED
    BY <2>1, <2>2, <2>3
<1>8. obj'.count = Cardinality(Places(ReaderCounted)')
  <2>1. Cardinality(Places(ReaderCounted)') =
          Cardinality(Places(ReaderCounted)) + (IF to \in ReaderCounted THEN 1 ELSE 0)
                                             - (IF pc[t] \in ReaderCounted THEN 1 ELSE 0)
    BY <1>3, PlacesAfterMove, Zenon
  <2> QED
    BY <1>3, <2>1 DEF RwLockInv
<1>9. Places({"writing"})' # {} => Places({"reading"})' = {}
  <2>1. /\ Places({"writing"})' = IF to \in {"writing"} THEN Places({"writing"}) \cup {t}
                                                        ELSE Places({"writing"}) \ {t}
        /\ Places({"reading"})' = IF to \in {"reading"} THEN Places({"reading"}) \cup {t}
                                                        ELSE Places({"reading"}) \ {t}
    BY <1>3, PlacesAfterMove, Zenon
  <2>2. CASE to = "writing"
    <3>1. Places(ReaderCounted) = {}
      BY <2>2, PlacesFinite, FS_EmptySet DEF RwLockInv
    <3>2. Places({"reading"}) = {}
      BY <3>1 DEF Places, ReaderCounted
    <3> QED
      BY <2>1, <2>2, <3>2
  <2>3. CASE to = "reading"
    <3>1. Places(WriterHeld) = {}
      BY <2>3 DEF RwLockInv, HeldBy
    <3>2. Places({"writing"}) = {}
      BY <3>1 DEF Places, WriterHeld
    <3> QED
      BY <2>1, <2>3, <3>2
  <2>4. CASE to \notin {"reading", "writing"}
    BY <2>1, <2>4 DEF RwLockInv
  <2> QED
    BY <2>2, <2>3, <2>4
<1> QED
  BY <1>1, <1>2, <1>7, <1>8, <1>9 DEF RwLockInv

\* A writer has the flag and no reader, and the readers are counted, through
\* every interleaving of read, write and the drops of their guards.
LEMMA RwLockPreserves ==
  ASSUME Shape, RwLockInv, NEW t \in Threads, RwLockStep(t)
  PROVE  Shape' /\ RwLockInv' /\ prim' = prim
<1> USE DEF RwLockPlaces, WriterHeld, ReaderCounted
<1>o. obj \in Fields /\ obj.flag \in BOOLEAN /\ obj.count \in Nat
  BY DEF Shape, Fields
<1>c. \A n \in Nat : LET new == [obj EXCEPT !.count = n]
                     IN  new \in Fields /\ new.flag = obj.flag /\ new.count = n
  BY <1>o, FieldChange DEF Fields
<1>f. \A b \in BOOLEAN : LET new == [obj EXCEPT !.flag = b]
                         IN  new \in Fields /\ new.flag = b /\ new.count = obj.count
  BY <1>o, FieldChange DEF Fields
<1>1. CASE ReadWait(t)
  <2>1. Do(t, {"idle", "rwait"}, "rinc", obj) /\ pc[t] \in {"idle", "rwait"}
    BY <1>1 DEF ReadWait, Do, Go
  <2> QED
    BY <1>o, <2>1, RwLockMove
<1>2. CASE ReadInc(t)
  <2> DEFINE new == [obj EXCEPT !.count = obj.count + 1]
  <2>1. Do(t, {"rinc"}, "rcheck", new) /\ pc[t] = "rinc"
    BY <1>2 DEF ReadInc, Do, Go
  <2>2. new \in Fields /\ new.flag = obj.flag /\ new.count = obj.count + 1
    BY <1>o, <1>c
  <2> HIDE DEF new
  <2> QED
    BY <1>o, <2>1, <2>2, RwLockMove
<1>3. CASE ReadCheck(t)
  <2>1. Do(t, {"rcheck"}, IF obj.flag THEN "rback" ELSE "reading", obj) /\ pc[t] = "rcheck"
    BY <1>3 DEF ReadCheck, Do, Go
  <2>2. CASE obj.flag
    <3>1. Do(t, {"rcheck"}, "rback", obj)
      BY <2>1, <2>2
    <3> QED
      BY <1>o, <2>1, <3>1, RwLockMove
  <2>3. CASE ~obj.flag
    <3>1. Do(t, {"rcheck"}, "reading", obj)
      BY <2>1, <2>3
    <3> QED
      BY <1>o, <2>1, <2>3, <3>1, RwLockMove
  <2> QED
    BY <2>2, <2>3
<1>4. CASE ReadDec(t)
  <2> DEFINE new == [obj EXCEPT !.count = obj.count - 1]
  <2>1. PICK step \in {<<"rback", "rwait">>, <<"reading", "idle">>} :
             Do(t, {step[1]}, step[2], new)
    BY <1>4 DEF ReadDec
  <2>2. pc[t] \in ReaderCounted /\ step[2] \in {"rwait", "idle"}
    BY <2>1 DEF Do, Go
  <2>3. obj.count - 1 \in Nat
    <3>1. Places(ReaderCounted) # {}
      BY <2>2 DEF Places
    <3> QED
      BY <1>o, <3>1, PlacesFinite, FS_EmptySet DEF RwLockInv
  <2>4. new \in Fields /\ new.flag = obj.flag /\ new.count = obj.count - 1
    BY <1>o, <1>c, <2>3
  <2> HIDE DEF new
  <2> QED
    BY <1>o, <2>1, <2>2, <2>4, RwLockMove
<1>5. CASE WriteCas(t)
  <2> DEFINE new == [obj EXCEPT !.flag = TRUE]
  <2>1. Do(t, {"idle"}, "drain", new) /\ pc[t] = "idle" /\ ~obj.flag
    BY <1>5 DEF WriteCas, Do, Go
  <2>2. new \in Fields /\ new.flag = TRUE /\ new.count = obj.count
    BY <1>o, <1>f, Zenon
  <2> HIDE DEF new
  <2> QED
    BY <1>o, <2>1, <2>2, RwLockMove
<1>6. CASE WriteDrain(t)
  <2>1. Do(t, {"drain"}, "writing", obj) /\ pc[t] = "drain" /\ obj.count = 0
    BY <1>6 DEF WriteDrain, Do, Go
  <2> QED
    BY <1>o, <2>1, RwLockMove
<1>7. CASE WriteDrop(t)
  <2> DEFINE new == [obj EXCEPT !.flag = FALSE]
  <2>1. Do(t, {"writing"}, "idle", new) /\ pc[t] = "writing"
    BY <1>7 DEF WriteDrop, ClearFlag, Do, Go
  <2>2. new \in Fields /\ new.flag = FALSE /\ new.count = obj.count
    BY <1>o, <1>f, Zenon
  <2> HIDE DEF new
  <2> QED
    BY <1>o, <2>1, <2>2, RwLockMove
<1> QED
  BY <1>1, <1>2, <1>3, <1>4, <1>5, <1>6, <1>7 DEF RwLockStep

-----------------------------------------------------------------------------
(* Semaphore and BinarySemaphore                                           *)

\* Where a thread of a binary semaphore holds the permit.
BinaryHeld == {"in", "signal"}

\* A step of a thread keeps the places of a semaphore.
LEMMA SemaphorePlacesMove ==
  ASSUME Shape, SemaphorePlaces, NEW t \in Threads, NEW to,
         to \in {"idle", "spin", "push", "take", "try", "trytake", "in", "signal", "wake"},
         pc' = [pc EXCEPT ![t] = to],
         \/ seen' = seen /\ to \notin {"take", "trytake"}
         \/ /\ seen' = [seen EXCEPT ![t] = obj.count]
            /\ to \in {"take", "trytake"} => obj.count > 0
  PROVE  SemaphorePlaces'
BY DEF SemaphorePlaces, Shape

\* A load of the count that goes on to take a permit, to queue or to return.
LEMMA SemaphoreLoads ==
  ASSUME Shape, SemaphorePlaces, NEW t \in Threads, NEW ps, ps \subseteq BinaryHeld,
         SemLoad(t) \/ SemTryLoad(t)
  PROVE  /\ Shape' /\ SemaphorePlaces' /\ prim' = prim
         /\ obj' = obj /\ posted' = posted
         /\ Cardinality(Places(ps)') = Cardinality(Places(ps))
<1>1. obj.count \in Nat
  BY DEF Shape, Fields
<1>2. PICK to \in {"take", "trytake", "push", "idle"} :
        /\ pc[t] \in {"idle", "spin", "try"} /\ pc' = [pc EXCEPT ![t] = to]
        /\ to \in {"take", "trytake"} => obj.count > 0
  BY <1>1 DEF SemLoad, SemTryLoad, Go
<1>3. /\ seen' = [seen EXCEPT ![t] = obj.count]
      /\ prim' = prim /\ obj' = obj /\ depth' = depth /\ rounds' = rounds
      /\ posted' = posted /\ ran' = ran
  BY DEF SemLoad, SemTryLoad, ghosts
<1>4. Shape'
  BY <1>1, <1>2, <1>3, Zenon DEF Shape
<1>5. SemaphorePlaces'
  BY <1>1, <1>2, <1>3, SemaphorePlacesMove, Zenon
<1>6. to \notin ps /\ pc[t] \notin ps
  BY <1>2 DEF BinaryHeld
<1>7. Cardinality(Places(ps)') = Cardinality(Places(ps))
  <2>1. Cardinality(Places(ps)') = Cardinality(Places(ps)) + (IF to \in ps THEN 1 ELSE 0)
                                                           - (IF pc[t] \in ps THEN 1 ELSE 0)
    BY <1>2, PlacesAfterMove, Zenon
  <2> QED
    BY <1>6, <2>1, PlacesFinite
<1> QED
  BY <1>3, <1>4, <1>5, <1>7

\* A step that changes at most the count, and by as much as the number of
\* holders changes.
LEMMA SemaphoreMove ==
  ASSUME Shape, SemaphorePlaces, NEW t \in Threads, NEW from, NEW new \in Fields, NEW to,
         to \in {"idle", "spin", "push", "try", "in", "signal", "wake"},
         Do(t, from, to, new), NEW ps,
         new.count + (IF to \in ps THEN 1 ELSE 0) = obj.count + (IF pc[t] \in ps THEN 1 ELSE 0)
  PROVE  /\ Shape' /\ SemaphorePlaces' /\ prim' = prim /\ posted' = posted
         /\ obj'.count + Cardinality(Places(ps)') = obj.count + Cardinality(Places(ps))
<1>1. Shape' /\ prim' = prim
  BY DoKeepsShape
<1>2. obj' = new /\ pc' = [pc EXCEPT ![t] = to] /\ seen' = seen /\ posted' = posted
  BY DEF Do, Go, ghosts
<1>3. SemaphorePlaces'
  BY <1>2, SemaphorePlacesMove, Zenon
<1>4. Cardinality(Places(ps)') = Cardinality(Places(ps)) + (IF to \in ps THEN 1 ELSE 0)
                                                         - (IF pc[t] \in ps THEN 1 ELSE 0)
  BY <1>2, PlacesAfterMove, Zenon
<1>5. new.count \in Nat /\ obj.count \in Nat /\ Cardinality(Places(ps)) \in Nat
  BY PlacesFinite, Zenon DEF Shape, Fields
<1> QED
  BY <1>1, <1>2, <1>3, <1>4, <1>5

\* What wait, try_wait and the queue of waiters do keeps the permits that are
\* free and those in the hands of threads together the same.
LEMMA SemaphoreCommon ==
  ASSUME Shape, SemaphorePlaces, NEW t \in Threads, NEW ps, ps \subseteq BinaryHeld,
         "in" \in ps,
         \/ SemLoad(t) \/ SemTryLoad(t) \/ SemTake(t) \/ PushWaiter(t) \/ PopWaiter(t)
  PROVE  /\ Shape' /\ SemaphorePlaces' /\ prim' = prim /\ posted' = posted
         /\ obj'.count + Cardinality(Places(ps)') = obj.count + Cardinality(Places(ps))
<1>o. obj \in Fields /\ obj.count \in Nat /\ obj.waiters \in Seq(Threads)
  BY DEF Shape, Fields
<1>1. CASE SemLoad(t) \/ SemTryLoad(t)
  BY <1>1, SemaphoreLoads
<1>2. CASE SemTake(t) /\ obj.count = seen[t]
  <2> DEFINE new == [obj EXCEPT !.count = obj.count - 1]
  <2>1. Do(t, {"take", "trytake"}, "in", new) /\ pc[t] \in {"take", "trytake"}
    BY <1>2 DEF SemTake, Do, Go
  <2>2. obj.count > 0
    BY <1>2, <2>1 DEF SemaphorePlaces
  <2>3. new \in Fields /\ new.count = obj.count - 1
    <3>1. obj.count - 1 \in Nat
      BY <1>o, <2>2
    <3> QED
      BY <1>o, <3>1, FieldChange DEF Fields
  <2>4. pc[t] \notin ps
    BY <2>1 DEF BinaryHeld
  <2> HIDE DEF new
  <2> QED
    BY <1>o, <2>1, <2>3, <2>4, SemaphoreMove
<1>3. CASE SemTake(t) /\ obj.count # seen[t]
  <2>1. PICK step \in {<<"take", "spin">>, <<"trytake", "try">>} :
             Do(t, {step[1]}, step[2], obj)
    BY <1>3 DEF SemTake
  <2>2. pc[t] \in {"take", "trytake"} /\ step[2] \in {"spin", "try"}
    BY <2>1 DEF Do, Go
  <2>3. step[2] \notin ps /\ pc[t] \notin ps
    BY <2>2 DEF BinaryHeld
  <2> QED
    BY <1>o, <2>1, <2>2, <2>3, SemaphoreMove
<1>4. CASE PushWaiter(t)
  <2> DEFINE new == [obj EXCEPT !.waiters = Append(obj.waiters, t)]
  <2>1. Do(t, {"push"}, "spin", new) /\ pc[t] = "push"
    BY <1>4 DEF PushWaiter, Do, Go
  <2>2. new \in Fields /\ new.count = obj.count
    BY <1>o, QueueChange, FieldChange, Zenon DEF Fields
  <2>3. "spin" \notin ps /\ pc[t] \notin ps
    BY <2>1 DEF BinaryHeld
  <2> HIDE DEF new
  <2> QED
    BY <1>o, <2>1, <2>2, <2>3, SemaphoreMove
<1>5. CASE PopWaiter(t)
  <2> DEFINE new == [obj EXCEPT !.waiters = PopFront(obj.waiters)]
  <2>1. Do(t, {"wake"}, "idle", new) /\ pc[t] = "wake"
    BY <1>5 DEF PopWaiter, Do, Go
  <2>2. new \in Fields /\ new.count = obj.count
    BY <1>o, QueueChange, FieldChange DEF Fields
  <2>3. "idle" \notin ps /\ pc[t] \notin ps
    BY <2>1 DEF BinaryHeld
  <2> HIDE DEF new
  <2> QED
    BY <1>o, <2>1, <2>2, <2>3, SemaphoreMove
<1> QED
  BY <1>1, <1>2, <1>3, <1>4, <1>5

\* signal() puts back the permit its caller holds.
LEMMA SemaphoreSignals ==
  ASSUME Shape, SemaphorePlaces, NEW t \in Threads, NEW ps, NEW from \in ps,
         ps \subseteq BinaryHeld, SemSignal(t, from)
  PROVE  /\ Shape' /\ SemaphorePlaces' /\ prim' = prim /\ posted' = posted
         /\ obj'.count + Cardinality(Places(ps)') = obj.count + Cardinality(Places(ps))
<1> DEFINE new == [obj EXCEPT !.count = obj.count + 1]
<1>o. obj \in Fields /\ obj.count \in Nat /\ obj.count + 1 \in Nat
  BY DEF Shape, Fields
<1>1. Do(t, {from}, "wake", new) /\ pc[t] = from
  BY DEF SemSignal, Do, Go
<1>2. new \in Fields /\ new.count = obj.count + 1
  BY <1>o, FieldChange DEF Fields
<1>3. "wake" \notin ps
  BY DEF BinaryHeld
<1> HIDE DEF new
<1> QED
  BY <1>o, <1>1, <1>2, <1>3, SemaphoreMove

\* The free and the held permits of a semaphore are those it started with and
\* those signals without a permit have added.
LEMMA SemaphorePreserves ==
  ASSUME Shape, SemaphoreInv, NEW t \in Threads, SemaphoreStep(t)
  PROVE  Shape' /\ SemaphoreInv' /\ prim' = prim
<1>1. CASE \/ SemLoad(t) \/ SemTryLoad(t) \/ SemTake(t) \/ PushWaiter(t) \/ PopWaiter(t)
  <2>1. {"in"} \subseteq BinaryHeld
    BY DEF BinaryHeld
  <2> QED
    BY <1>1, <2>1, SemaphoreCommon DEF SemaphoreInv
<1>2. CASE SemSignal(t, "in")
  <2>1. {"in"} \subseteq BinaryHeld
    BY DEF BinaryHeld
  <2> QED
    BY <1>2, <2>1, SemaphoreSignals DEF SemaphoreInv
<1>3. CASE SemPost(t)
  <2>o. /\ obj \in Fields /\ obj.count \in Nat /\ obj.count + 1 \in Nat
        /\ posted \in Nat /\ posted + 1 \in Nat
    BY SMTT(20) DEF Shape, Fields
  <2>1. /\ pc[t] = "idle" /\ pc' = [pc EXCEPT ![t] = "wake"]
        /\ obj' = [obj EXCEPT !.count = obj.count + 1] /\ posted' = posted + 1
        /\ prim' = prim /\ seen' = seen /\ depth' = depth /\ rounds' = rounds /\ ran' = ran
    BY <1>3 DEF SemPost, Go
  <2>2. obj' \in Fields /\ obj'.count = obj.count + 1
    <3>1. [obj EXCEPT !.count = obj.count + 1] \in Fields
      BY <2>o, FieldChange
    <3> QED
      BY <2>o, <2>1, <3>1 DEF Fields
  <2>3. Shape'
    BY <2>o, <2>1, <2>2, Zenon DEF Shape
  <2>4. SemaphorePlaces'
    BY <2>1, SemaphorePlacesMove, Zenon DEF SemaphoreInv
  <2>5. Cardinality(Places({"in"})') = Cardinality(Places({"in"}))
                + (IF "wake" \in {"in"} THEN 1 ELSE 0) - (IF pc[t] \in {"in"} THEN 1 ELSE 0)
    BY <2>1, PlacesAfterMove, Zenon
  <2>6. Cardinality(Places({"in"})) \in Nat
    BY PlacesFinite
  <2> QED
    BY <2>o, <2>1, <2>2, <2>3, <2>4, <2>5, <2>6, ConstantsOK DEF SemaphoreInv
<1> QED
  BY <1>1, <1>2, <1>3 DEF SemaphoreStep

\* The one permit of a binary semaphore is free or with one thread: a holder
\* that releases sees no permit, so it always signals.
LEMMA BinaryPreserves ==
  ASSUME Shape, BinaryInv, NEW t \in Threads, BinaryStep(t)
  PROVE  Shape' /\ BinaryInv' /\ prim' = prim
<1>o. obj \in Fields /\ obj.count \in Nat
  BY DEF Shape, Fields
<1>b. BinaryHeld = {"in", "signal"} /\ "in" \in BinaryHeld /\ "signal" \in BinaryHeld
  BY DEF BinaryHeld
<1>i. SemaphorePlaces /\ obj.count + Cardinality(Places(BinaryHeld)) = 1
  BY <1>b DEF BinaryInv
<1>g. ASSUME Shape', SemaphorePlaces', prim' = prim,
             obj'.count + Cardinality(Places(BinaryHeld)') = obj.count + Cardinality(Places(BinaryHeld))
      PROVE  Shape' /\ BinaryInv' /\ prim' = prim
  BY <1>b, <1>i, <1>g DEF BinaryInv
<1>1. CASE \/ SemLoad(t) \/ SemTryLoad(t) \/ SemTake(t) \/ PushWaiter(t) \/ PopWaiter(t)
  BY <1>1, <1>b, <1>i, <1>g, SemaphoreCommon
<1>2. CASE SemSignal(t, "signal")
  BY <1>2, <1>b, <1>i, <1>g, SemaphoreSignals
<1>3. CASE BinRelease(t)
  <2>1. pc[t] = "in" /\ t \in Places(BinaryHeld)
    BY <1>3, <1>b DEF BinRelease, Do, Go, Places
  <2>2. obj.count < 1
    BY <1>o, <1>i, <2>1, PlacesFinite, FS_EmptySet
  <2>3. Do(t, {"in"}, "signal", obj)
    BY <1>3, <2>2 DEF BinRelease
  <2> QED
    BY <1>o, <1>b, <1>i, <1>g, <2>1, <2>3, SemaphoreMove
<1> QED
  BY <1>1, <1>2, <1>3 DEF BinaryStep

-----------------------------------------------------------------------------
(* Barrier                                                                 *)

\* The threads that wait in this round are finitely many; when all but one of
\* the threads wait, the missing one is any thread that does not.
LEMMA WaitingCount ==
  /\ IsFiniteSet(Waiting) /\ Cardinality(Waiting) \in Nat /\ N \in Nat
  /\ \A t \in Threads \ Waiting :
       /\ Cardinality(Waiting \cup {t}) = Cardinality(Waiting) + 1
       /\ Cardinality(Waiting) + 1 = N => Threads \ {t} \subseteq Waiting
<1>1. Waiting \in SUBSET Threads
  BY DEF Waiting, Places
<1>2. IsFiniteSet(Waiting) /\ Cardinality(Waiting) \in Nat /\ N \in Nat
  BY <1>1, ConstantsOK, FS_Subset, FS_CardinalityType DEF N
<1>3. ASSUME NEW t \in Threads \ Waiting
      PROVE  /\ Cardinality(Waiting \cup {t}) = Cardinality(Waiting) + 1
             /\ Cardinality(Waiting) + 1 = N => Threads \ {t} \subseteq Waiting
  <2>1. Cardinality(Waiting \cup {t}) = Cardinality(Waiting) + 1
    BY <1>2, <1>3, FS_AddElement
  <2>2. ASSUME Cardinality(Waiting) + 1 = N
        PROVE  Threads \ {t} \subseteq Waiting
    <3>1. Waiting \cup {t} \in SUBSET Threads
      BY <1>1
    <3>2. Threads = Waiting \cup {t}
      BY <2>1, <2>2, <3>1, ConstantsOK, FS_Subset DEF N
    <3> QED
      BY <3>2
  <2> QED
    BY <2>1, <2>2
<1> QED
  BY <1>2, <1>3, Zenon

\* Threads meet in rounds: the last to arrive finds all others waiting in its
\* round, releases them by the generation and lets go of the lock after that.
LEMMA BarrierPreserves ==
  ASSUME Shape, BarrierInv, NEW t \in Threads, BarrierStep(t)
  PROVE  Shape' /\ BarrierInv' /\ prim' = prim
<1>o. obj \in Fields /\ obj.count \in Nat /\ obj.gen \in Nat /\ obj.running \in BOOLEAN
      /\ obj.waiters \in Seq(Threads)
  BY DEF Shape, Fields
<1>s. seen \in [Threads -> Nat] /\ rounds \in [Threads -> [in : Nat, out : Nat]]
  BY DEF Shape
<1>1. CASE BarrierLoadGen(t)
  <2>1. /\ pc[t] = "idle" /\ pc' = [pc EXCEPT ![t] = "arrive"]
        /\ seen' = [seen EXCEPT ![t] = obj.gen] /\ obj' = obj
        /\ prim' = prim /\ depth' = depth /\ rounds' = rounds /\ posted' = posted /\ ran' = ran
    BY <1>1 DEF BarrierLoadGen, Go, ghosts
  <2>2. Shape'
    BY <1>o, <2>1, Zenon DEF Shape
  <2>3. Waiting' = Waiting /\ Leaders' = Leaders
    BY <1>s, <2>1 DEF Waiting, Leaders, Places, Shape
  <2>4. BarrierThreads'
    BY <1>s, <2>1 DEF BarrierInv, BarrierThreads, Shape
  <2>5. \A u \in Threads : pc'[u] \in {"release", "lead"} => pc[u] = pc'[u]
    BY <2>1 DEF Shape
  <2> QED
    BY <2>1, <2>2, <2>3, <2>4, <2>5 DEF BarrierInv
<1>2. CASE BarrierArrive(t) /\ obj.count + 1 # N
  <2>1. /\ pc[t] = "arrive" /\ pc' = [pc EXCEPT ![t] = "push"] /\ ~obj.running
        /\ obj' = [obj EXCEPT !.count = obj.count + 1, !.running = FALSE]
        /\ rounds' = [rounds EXCEPT ![t].in = rounds[t].in + 1]
        /\ prim' = prim /\ depth' = depth /\ seen' = seen /\ posted' = posted /\ ran' = ran
    BY <1>2, Zenon DEF BarrierArrive, Go
  <2>2. /\ obj' \in Fields /\ obj'.gen = obj.gen /\ obj'.running = FALSE
        /\ obj'.count = obj.count + 1
    <3>1. obj.count + 1 \in Nat
      BY <1>o
    <3> QED
      BY <1>o, <2>1, <3>1, Zenon DEF Fields
  <2>3. rounds'[t].in = rounds[t].in + 1 /\ rounds'[t].out = rounds[t].out
        /\ rounds' \in [Threads -> [in : Nat, out : Nat]]
        /\ \A u \in Threads \ {t} : rounds'[u] = rounds[u]
    BY <1>s, <2>1
  <2>4. Shape'
    BY <2>1, <2>2, <2>3, Zenon DEF Shape
  <2>5. t \notin Waiting /\ seen[t] = obj.gen
    BY <2>1 DEF Waiting, Places, BarrierInv, BarrierThreads
  <2>6. Waiting' = Waiting \cup {t} /\ Leaders' = Leaders
    BY <1>s, <2>1, <2>2, <2>5 DEF Waiting, Leaders, Places, Shape
  <2>7. BarrierThreads'
    BY <1>s, <1>o, <2>1, <2>2, <2>3, SMTT(20) DEF BarrierInv, BarrierThreads, Shape
  <2>8. Leaders = {}
    BY <1>o, <2>1 DEF BarrierInv, HeldBy
  <2>9. \A u \in Threads : pc'[u] \notin {"release", "lead"}
    BY <2>6, <2>8 DEF Leaders, Places
  <2>10. obj'.count = Cardinality(Waiting')
    BY <1>o, <2>1, <2>2, <2>5, <2>6, WaitingCount DEF BarrierInv
  <2> QED
    BY <2>1, <2>2, <2>4, <2>6, <2>7, <2>8, <2>9, <2>10 DEF BarrierInv, HeldBy
<1>3. CASE BarrierArrive(t) /\ obj.count + 1 = N
  <2>1. /\ pc[t] = "arrive" /\ pc' = [pc EXCEPT ![t] = "release"] /\ ~obj.running
        /\ obj' = [obj EXCEPT !.count = 0, !.running = TRUE]
        /\ rounds' = [rounds EXCEPT ![t].in = rounds[t].in + 1]
        /\ prim' = prim /\ depth' = depth /\ seen' = seen /\ posted' = posted /\ ran' = ran
    BY <1>3, Zenon DEF BarrierArrive, Go
  <2>2. /\ obj' \in Fields /\ obj'.gen = obj.gen /\ obj'.running = TRUE
        /\ obj'.count = 0
    BY <1>o, <2>1, Zenon DEF Fields
  <2>3. rounds'[t].in = rounds[t].in + 1 /\ rounds'[t].out = rounds[t].out
        /\ rounds' \in [Threads -> [in : Nat, out : Nat]]
        /\ \A u \in Threads \ {t} : rounds'[u] = rounds[u]
    BY <1>s, <2>1
  <2>4. Shape'
    BY <2>1, <2>2, <2>3, Zenon DEF Shape
  <2>5. t \notin Waiting /\ seen[t] = obj.gen
    BY <2>1 DEF Waiting, Places, BarrierInv, BarrierThreads
  <2>6. Leaders = {}
    BY <1>o, <2>1 DEF BarrierInv, HeldBy
  <2>7. Waiting' = Waiting /\ Leaders' = {t}
    BY <1>s, <2>1, <2>2, <2>5, <2>6, Zenon DEF Waiting, Leaders, Places, Shape
  <2>8. BarrierThreads'
    BY <1>s, <1>o, <2>1, <2>2, <2>3, SMTT(20) DEF BarrierInv, BarrierThreads, Shape
  <2>9. \A u \in Threads : /\ pc'[u] # "lead"
                           /\ pc'[u] = "release" => u = t
    BY <2>1, <2>7 DEF Leaders, Places, Shape
  <2>10. Threads \ {t} \subseteq Waiting
    BY <1>3, <1>o, <2>1, <2>5, WaitingCount, Zenon DEF BarrierInv
  <2> QED
    BY <2>1, <2>2, <2>4, <2>7, <2>8, <2>9, <2>10 DEF BarrierInv, HeldBy
<1>4. CASE BarrierRelease(t)
  <2> DEFINE new == [obj EXCEPT !.gen = obj.gen + 1]
  <2>1. Do(t, {"release"}, "lead", new)
    BY <1>4 DEF BarrierRelease
  <2>2. /\ new \in Fields /\ new.gen = obj.gen + 1 /\ new.running = obj.running
        /\ new.count = obj.count
    BY <1>o DEF Fields
  <2>3. Shape' /\ prim' = prim
    BY <2>1, <2>2, DoKeepsShape
  <2>4. /\ pc[t] = "release" /\ pc' = [pc EXCEPT ![t] = "lead"] /\ obj' = new
        /\ seen' = seen /\ rounds' = rounds
    BY <2>1 DEF Do, Go, ghosts
  <2> HIDE DEF new
  <2>5. \A u \in Threads \ {t} : pc[u] \in {"push", "spin"} /\ seen[u] = obj.gen
    BY <2>4 DEF BarrierInv, Waiting, Places
  <2>6. Waiting' = {}
    BY <1>s, <1>o, <2>2, <2>4, <2>5 DEF Waiting, Places, Shape
  <2>7. Leaders' = Leaders
    BY <2>4 DEF Leaders, Places, Shape
  <2>8. BarrierThreads'
    BY <1>s, <1>o, <2>2, <2>4, <2>5, Zenon DEF BarrierInv, BarrierThreads, Shape
  <2>9. \A u \in Threads : pc'[u] # "release"
    BY <2>4, <2>5 DEF Shape
  <2>10. obj.running
    BY <2>4 DEF BarrierInv, HeldBy, Leaders, Places
  <2> QED
    BY <2>2, <2>3, <2>4, <2>6, <2>7, <2>8, <2>9, <2>10, Zenon DEF BarrierInv
<1>5. CASE PushWaiter(t)
  <2> DEFINE new == [obj EXCEPT !.waiters = Append(obj.waiters, t)]
  <2>1. Do(t, {"push"}, "spin", new)
    BY <1>5 DEF PushWaiter
  <2>2. /\ new \in Fields /\ new.gen = obj.gen /\ new.running = obj.running
        /\ new.count = obj.count
    BY <1>o, QueueChange, FieldChange, Zenon DEF Fields
  <2>3. Shape' /\ prim' = prim
    BY <2>1, <2>2, DoKeepsShape
  <2>4. /\ pc[t] = "push" /\ pc' = [pc EXCEPT ![t] = "spin"] /\ obj' = new
        /\ seen' = seen /\ rounds' = rounds
    BY <2>1 DEF Do, Go, ghosts
  <2> HIDE DEF new
  <2>5. Waiting' = Waiting /\ Leaders' = Leaders
    BY <2>2, <2>4 DEF Waiting, Leaders, Places, Shape
  <2>6. BarrierThreads'
    BY <1>s, <1>o, <2>2, <2>4, SMTT(20) DEF BarrierInv, BarrierThreads, Shape
  <2>7. \A u \in Threads : pc'[u] \in {"release", "lead"} => pc[u] = pc'[u]
    BY <2>4 DEF Shape
  <2> QED
    BY <2>2, <2>3, <2>4, <2>5, <2>6, <2>7 DEF BarrierInv
<1>6. CASE BarrierReturn(t) /\ pc[t] = "lead"
  <2>1. /\ pc' = [pc EXCEPT ![t] = "idle"]
        /\ obj' = [obj EXCEPT !.waiters = <<>>, !.running = FALSE]
        /\ rounds' = [rounds EXCEPT ![t].out = rounds[t].out + 1]
        /\ prim' = prim /\ depth' = depth /\ seen' = seen /\ posted' = posted /\ ran' = ran
    BY <1>6 DEF BarrierReturn, Go
  <2>2. /\ obj' \in Fields /\ obj'.gen = obj.gen /\ obj'.running = FALSE
        /\ obj'.count = obj.count
    <3>1. <<>> \in Seq(Threads)
      OBVIOUS
    <3> QED
      BY <1>o, <2>1, <3>1, Zenon DEF Fields
  <2>3. rounds'[t].out = rounds[t].out + 1 /\ rounds'[t].in = rounds[t].in
        /\ rounds' \in [Threads -> [in : Nat, out : Nat]]
        /\ \A u \in Threads \ {t} : rounds'[u] = rounds[u]
    BY <1>s, <2>1
  <2>4. Shape'
    BY <2>1, <2>2, <2>3, Zenon DEF Shape
  <2>5. t \in Leaders /\ obj.running /\ Waiting = {} /\ seen[t] + 1 = obj.gen
    BY <1>6 DEF BarrierInv, BarrierThreads, HeldBy, Leaders, Places
  <2>6. \A u \in Threads \ {t} : pc[u] \notin {"release", "lead"}
    BY <2>5 DEF BarrierInv, HeldBy, Leaders, Places
  <2>7. Leaders' = {}
    BY <2>1, <2>6 DEF Leaders, Places, Shape
  <2>8. Waiting' = {}
    BY <2>1, <2>2, <2>5, Zenon DEF Waiting, Places, Shape
  <2>9. BarrierThreads'
    BY <1>6, <1>s, <1>o, <2>1, <2>2, <2>3, <2>5, SMTT(20) DEF BarrierInv, BarrierThreads, Shape
  <2>10. \A u \in Threads : pc'[u] \notin {"release", "lead"}
    BY <2>7 DEF Leaders, Places
  <2>11. obj'.count = Cardinality(Waiting')
    BY <2>2, <2>5, <2>8, FS_EmptySet DEF BarrierInv
  <2> QED
    BY <2>1, <2>2, <2>4, <2>7, <2>9, <2>10, <2>11 DEF BarrierInv, HeldBy
<1>7. CASE BarrierReturn(t) /\ pc[t] # "lead"
  <2>1. /\ pc[t] = "spin" /\ obj.gen # seen[t] /\ pc' = [pc EXCEPT ![t] = "idle"]
        /\ obj' = obj
        /\ rounds' = [rounds EXCEPT ![t].out = rounds[t].out + 1]
        /\ prim' = prim /\ depth' = depth /\ seen' = seen /\ posted' = posted /\ ran' = ran
    BY <1>7 DEF BarrierReturn, Go
  <2>2. rounds'[t].out = rounds[t].out + 1 /\ rounds'[t].in = rounds[t].in
        /\ rounds' \in [Threads -> [in : Nat, out : Nat]]
        /\ \A u \in Threads \ {t} : rounds'[u] = rounds[u]
    BY <1>s, <2>1
  <2>3. Shape'
    BY <2>1, <2>2, Zenon DEF Shape
  <2>4. Waiting' = Waiting /\ Leaders' = Leaders
    BY <2>1 DEF Waiting, Leaders, Places, Shape
  <2>5. BarrierThreads'
    BY <1>s, <1>o, <2>1, <2>2, SMTT(20) DEF BarrierInv, BarrierThreads, Shape
  <2>6. \A u \in Threads : pc'[u] \in {"release", "lead"} => pc[u] = pc'[u]
    BY <2>1 DEF Shape
  <2> QED
    BY <2>1, <2>3, <2>4, <2>5, <2>6 DEF BarrierInv
<1> QED
  BY <1>1, <1>2, <1>3, <1>4, <1>5, <1>6, <1>7 DEF BarrierStep

-----------------------------------------------------------------------------
(* Once                                                                    *)

\* One thread claims the closure; done is stored after it has run.
LEMMA OncePreserves ==
  ASSUME Shape, OnceInv, NEW t \in Threads, OnceStep(t)
  PROVE  Shape' /\ OnceInv' /\ prim' = prim
<1>o. obj \in Fields /\ obj.flag \in BOOLEAN /\ obj.running \in BOOLEAN /\ ran \in Nat
  BY DEF Shape, Fields
<1> USE DEF OnceRunners, Places
<1>1. CASE OnceFast(t)
  <2>1. Do(t, {"idle", "ret"}, IF obj.flag THEN "ret" ELSE "lock", obj)
    BY <1>1 DEF OnceFast
  <2>2. Shape' /\ prim' = prim
    BY <1>o, <2>1, DoKeepsShape
  <2> QED
    BY <1>o, <2>1, <2>2 DEF Do, Go, ghosts, OnceInv, Shape
<1>2. CASE OnceClaim(t)
  <2> DEFINE to == IF obj.flag THEN "ret" ELSE IF obj.running THEN "wait" ELSE "run"
             new == [obj EXCEPT !.running = obj.running \/ ~obj.flag]
  <2>1. Do(t, {"lock"}, to, new)
    BY <1>2 DEF OnceClaim
  <2>2. new \in Fields /\ new.flag = obj.flag /\ new.running = (obj.running \/ ~obj.flag)
    BY <1>o, FieldChange, ZenonT(40) DEF Fields
  <2>3. Shape' /\ prim' = prim
    BY <2>1, <2>2, DoKeepsShape
  <2>4. pc[t] = "lock" /\ pc' = [pc EXCEPT ![t] = to] /\ obj' = new /\ ran' = ran
    BY <2>1 DEF Do, Go, ghosts
  <2> HIDE DEF new
  <2> QED
    BY <1>o, <2>2, <2>3, <2>4, ZenonT(40) DEF OnceInv, Shape
<1>3. CASE OnceRun(t)
  <2>1. /\ pc[t] = "run" /\ pc' = [pc EXCEPT ![t] = "store"] /\ ran' = ran + 1 /\ obj' = obj
        /\ prim' = prim /\ seen' = seen /\ depth' = depth /\ rounds' = rounds
        /\ posted' = posted
    BY <1>3 DEF OnceRun, Go
  <2>2. ran = 0 /\ ran + 1 \in Nat
    BY <2>1 DEF OnceInv
  <2>3. Shape'
    BY <2>1, <2>2, Zenon DEF Shape
  <2> QED
    BY <1>o, <2>1, <2>2, <2>3 DEF OnceInv, Shape
<1>4. CASE OnceStoreDone(t)
  <2> DEFINE new == [obj EXCEPT !.flag = TRUE]
  <2>1. Do(t, {"store"}, "ret", new)
    BY <1>4 DEF OnceStoreDone
  <2>2. new \in Fields /\ new.flag = TRUE /\ new.running = obj.running
    BY <1>o, FieldChange, Zenon DEF Fields
  <2>3. Shape' /\ prim' = prim
    BY <2>1, <2>2, DoKeepsShape
  <2>4. pc[t] = "store" /\ pc' = [pc EXCEPT ![t] = "ret"] /\ obj' = new /\ ran' = ran
    BY <2>1 DEF Do, Go, ghosts
  <2> HIDE DEF new
  <2> QED
    BY <1>o, <2>2, <2>3, <2>4 DEF OnceInv, Shape
<1>5. CASE OnceWait(t)
  <2>1. Do(t, {"wait"}, "ret", obj) /\ obj.flag
    BY <1>5 DEF OnceWait
  <2>2. Shape' /\ prim' = prim
    BY <1>o, <2>1, DoKeepsShape
  <2> QED
    BY <1>o, <2>1, <2>2 DEF Do, Go, ghosts, OnceInv, Shape
<1> QED
  BY <1>1, <1>2, <1>3, <1>4, <1>5 DEF OnceStep

-----------------------------------------------------------------------------
(* The theorems                                                            *)

\* A new object, with every thread outside it, satisfies the invariant.
LEMMA InitEstablishes == Init => IInv
<1> SUFFICES ASSUME Init PROVE IInv
  OBVIOUS
<1>o. /\ obj = New(prim) /\ prim \in Prims /\ PERMITS \in Nat
      /\ pc = [t \in Threads |-> "idle"] /\ depth = [t \in Threads |-> 0]
      /\ seen = [t \in Threads |-> 0] /\ rounds = [t \in Threads |-> [in |-> 0, out |-> 0]]
      /\ posted = 0 /\ ran = 0
  BY ConstantsOK DEF Init
<1>1. obj \in Fields /\ obj.flag = FALSE /\ obj.running = FALSE /\ obj.gen = 0
      /\ obj.owner = NOPID
      /\ obj.count = CASE prim = "semaphore" -> PERMITS [] prim = "binary" -> 1 [] OTHER -> 0
  <2>1. <<>> \in Seq(Threads)
    OBVIOUS
  <2>2. (CASE prim = "semaphore" -> PERMITS [] prim = "binary" -> 1 [] OTHER -> 0) \in Nat
    BY <1>o
  <2> QED
    BY <1>o, <2>1, <2>2 DEF New, Fields
<1>2. Shape
  BY <1>o, <1>1 DEF Shape
<1>3. \A ps : "idle" \notin ps => Places(ps) = {}
  BY <1>o DEF Places
<1>4. Cardinality({}) = 0
  BY FS_EmptySet
<1>5. MutexInv
  BY <1>o, <1>1, <1>3 DEF MutexInv, MutexPlaces, MutexHeld, HeldBy
<1>6. RecursiveInv
  BY <1>o, <1>1, ConstantsOK DEF RecursiveInv, RecursiveHolders, HeldBy
<1>7. prim = "rwlock" => RwLockInv
  BY <1>o, <1>1, <1>3, <1>4 DEF RwLockInv, RwLockPlaces, WriterHeld, ReaderCounted, HeldBy
<1>8. SemaphorePlaces
  BY <1>o DEF SemaphorePlaces
<1>9. prim = "semaphore" => SemaphoreInv
  BY <1>o, <1>1, <1>3, <1>4, <1>8, Zenon DEF SemaphoreInv
<1>10. prim = "binary" => BinaryInv
  <2>1. Places({"in", "signal"}) = {}
    BY <1>3
  <2> QED
    BY <1>o, <1>1, <1>4, <1>8, <2>1 DEF BinaryInv
<1>11. prim = "barrier" => BarrierInv
  <2>1. Waiting = {} /\ Leaders = {}
    BY <1>3 DEF Waiting, Leaders
  <2>2. BarrierThreads
    BY <1>o, <1>1 DEF BarrierThreads
  <2> QED
    BY <1>o, <1>1, <1>4, <2>1, <2>2 DEF BarrierInv, HeldBy
<1>12. OnceInv
  BY <1>o, <1>1, <1>3 DEF OnceInv, OnceRunners
<1> QED
  BY <1>2, <1>5, <1>6, <1>7, <1>9, <1>10, <1>11, <1>12 DEF IInv

\* Every step of every thread, on each of the kinds of object, keeps it.
LEMMA StepPreserves == IInv /\ [Next]_vars => IInv'
<1> SUFFICES ASSUME IInv, [Next]_vars PROVE IInv'
  OBVIOUS
<1>1. CASE UNCHANGED vars
  <2>1. /\ prim' = prim /\ pc' = pc /\ obj' = obj /\ seen' = seen /\ depth' = depth
        /\ rounds' = rounds /\ posted' = posted /\ ran' = ran
    BY <1>1 DEF vars, ghosts
  <2>2. Shape'
    BY <2>1 DEF IInv, Shape
  <2>3. \A ps : Places(ps)' = Places(ps)
    BY <2>1 DEF Places
  <2>4. prim \in {"mutex", "condvar"} => MutexInv'
    BY <2>1, <2>3 DEF IInv, MutexInv
  <2>5. prim = "recursive" => RecursiveInv'
    BY <2>1 DEF IInv, RecursiveInv, RecursiveHolders
  <2>6. prim = "rwlock" => RwLockInv'
    BY <2>1, <2>3 DEF IInv, RwLockInv
  <2>7. /\ prim = "semaphore" => SemaphoreInv'
        /\ prim = "binary" => BinaryInv'
    BY <2>1, <2>3 DEF IInv, SemaphoreInv, BinaryInv, SemaphorePlaces
  <2>8. prim = "barrier" => BarrierInv'
    <3>1. Waiting' = Waiting /\ Leaders' = Leaders
      BY <2>1, <2>3 DEF Waiting, Leaders
    <3>2. BarrierThreads => BarrierThreads'
      BY <2>1 DEF BarrierThreads
    <3> QED
      BY <2>1, <3>1, <3>2 DEF IInv, BarrierInv
  <2>9. prim = "once" => OnceInv'
    BY <2>1, <2>3 DEF IInv, OnceInv, OnceRunners
  <2> QED
    BY <2>1, <2>2, <2>4, <2>5, <2>6, <2>7, <2>8, <2>9 DEF IInv
<1>2. CASE Next
  <2>1. PICK t \in Threads :
          \/ prim = "mutex" /\ MutexStep(t)
          \/ prim = "condvar" /\ CondVarStep(t)
          \/ prim = "recursive" /\ RecursiveStep(t)
          \/ prim = "rwlock" /\ RwLockStep(t)
          \/ prim = "semaphore" /\ SemaphoreStep(t)
          \/ prim = "binary" /\ BinaryStep(t)
          \/ prim = "barrier" /\ BarrierStep(t)
          \/ prim = "once" /\ OnceStep(t)
    BY <1>2 DEF Next
  <2>2. CASE prim \in {"mutex", "condvar"} /\ CondVarStep(t)
    BY <2>2, MutexPreserves DEF IInv
  <2>3. CASE prim = "recursive" /\ RecursiveStep(t)
    BY <2>3, RecursivePreserves DEF IInv
  <2>4. CASE prim = "rwlock" /\ RwLockStep(t)
    BY <2>4, RwLockPreserves DEF IInv
  <2>5. CASE prim = "semaphore" /\ SemaphoreStep(t)
    BY <2>5, SemaphorePreserves DEF IInv
  <2>6. CASE prim = "binary" /\ BinaryStep(t)
    BY <2>6, BinaryPreserves DEF IInv
  <2>7. CASE prim = "barrier" /\ BarrierStep(t)
    BY <2>7, BarrierPreserves DEF IInv
  <2>8. CASE prim = "once" /\ OnceStep(t)
    BY <2>8, OncePreserves DEF IInv
  <2>9. MutexStep(t) => CondVarStep(t)
    BY DEF CondVarStep
  <2> QED
    BY <2>1, <2>2, <2>3, <2>4, <2>5, <2>6, <2>7, <2>8, <2>9
<1> QED
  BY <1>1, <1>2

\* The inductive invariant holds of every behaviour of the primitives.
THEOREM PrimitivesInvariant == Spec => []IInv
BY InitEstablishes, StepPreserves, PTL DEF Spec

\* Every field of a primitive, and every count a caller loads, keeps its type:
\* no count goes below zero, so the usize subtractions of the code cannot wrap.
THEOREM TypeCorrect == Spec => []TypeOK
<1>1. IInv => TypeOK
  BY DEF IInv, Shape, Fields, TypeOK
<1> QED
  BY <1>1, PrimitivesInvariant, PTL

\* Mutual exclusion, for any number of threads: at most one thread holds a
\* guard of a mutex, of a recursive mutex or of a writer, or the permit of a
\* binary semaphore, and nobody reads while one writes.
THEOREM ExclusionCorrect == Spec => []Exclusion
<1>1. ASSUME IInv PROVE Exclusion
  <2> USE <1>1
  <2>0. Shape /\ prim \in Prims /\ obj.flag \in BOOLEAN
    BY DEF IInv, Shape, Fields
  <2>1. \A S \in SUBSET Threads : (\A t, u \in S : t = u) => Cardinality(S) <= 1
    <3> SUFFICES ASSUME NEW S \in SUBSET Threads, \A t, u \in S : t = u
                 PROVE  Cardinality(S) <= 1
      OBVIOUS
    <3>1. S = {} \/ \E x : S = {x}
      OBVIOUS
    <3>2. CASE S = {}
      <4>1. Cardinality(S) = 0
        BY <3>2, FS_EmptySet
      <4> QED
        BY <4>1
    <3>3. CASE \E x : S = {x}
      <4>1. Cardinality(S) = 1
        BY <3>3, FS_Singleton, Zenon
      <4> QED
        BY <4>1
    <3> QED
      BY <3>1, <3>2, <3>3
  <2>2. prim \in {"mutex", "condvar"} => Cardinality(Places({"in"})) <= 1
    <3>1. MutexInv => \A t, u \in Places({"in"}) : t = u
      BY DEF MutexInv, MutexHeld, HeldBy, Places
    <3>2. Places({"in"}) \in SUBSET Threads
      BY DEF Places
    <3> QED
      BY <2>1, <3>1, <3>2 DEF IInv
  <2>3. prim = "binary" => Cardinality(Places({"in"})) <= 1
    <3>1. Places({"in", "signal"}) \in SUBSET Threads /\ Places({"in"}) \in SUBSET Places({"in", "signal"})
      BY DEF Places
    <3>2. /\ IsFiniteSet(Places({"in", "signal"})) /\ Cardinality(Places({"in", "signal"})) \in Nat
          /\ Cardinality(Places({"in"})) \in Nat
      BY PlacesFinite
    <3>3. Cardinality(Places({"in"})) <= Cardinality(Places({"in", "signal"}))
      BY <3>1, <3>2, FS_Subset
    <3>4. obj.count \in Nat
      BY <2>0 DEF Shape, Fields
    <3> QED
      BY <3>2, <3>3, <3>4 DEF IInv, BinaryInv
  <2>4. prim = "recursive" => Cardinality({t \in Threads : depth[t] > 0}) <= 1
    <3>1. RecursiveInv => \A t, u \in {v \in Threads : depth[v] > 0} : t = u
      BY DEF RecursiveInv, RecursiveHolders, HeldBy
    <3>2. {v \in Threads : depth[v] > 0} \in SUBSET Threads
      OBVIOUS
    <3> QED
      BY <2>1, <3>1, <3>2 DEF IInv
  <2>5. prim = "rwlock" => \A t, u \in Places({"writing"}) : t = u
    BY SMTT(20) DEF IInv, RwLockInv, WriterHeld, HeldBy, Places
  <2>6. prim # "rwlock" => Places({"writing"}) = {}
    BY <2>0 DEF Prims, IInv, MutexInv, MutexPlaces, MutexHeld, RecursiveInv, SemaphoreInv,
       BinaryInv, SemaphorePlaces, BarrierInv, BarrierThreads, OnceInv, Places
  <2>7. Cardinality(Places({"writing"})) <= 1
    <3>1. Places({"writing"}) \in SUBSET Threads
      BY DEF Places
    <3> QED
      BY <2>1, <2>5, <2>6, <3>1
  <2>8. Places({"writing"}) # {} => Places({"reading"}) = {}
    BY <2>6 DEF IInv, RwLockInv
  <2> QED
    BY <2>2, <2>3, <2>4, <2>7, <2>8 DEF Exclusion
<1> QED
  BY <1>1, PrimitivesInvariant, PTL

\* Nothing is lost or made up, for any number of threads and permits: a taken
\* flag is in the hands of one thread, the readers counted are those that
\* announced themselves, free and held permits add up, and a recursive mutex
\* counts its owner's guards.
THEOREM NothingLostCorrect == Spec => []NothingLost
<1>1. ASSUME IInv PROVE NothingLost
  <2> USE <1>1
  <2> DEFINE Held == {"own", "first", "in", "unlock", "drop", "dropped", "clear", "nest",
                      "drain", "writing"}
             Nested == {t \in Threads : depth[t] > 0}
  <2>0. Shape /\ prim \in Prims /\ obj.flag \in BOOLEAN /\ depth \in [Threads -> Nat]
    BY DEF IInv, Shape, Fields
  <2>1. prim \in {"mutex", "condvar"} => Places(Held) \cup Nested = Places(MutexHeld)
    BY <2>0 DEF IInv, MutexInv, MutexPlaces, MutexHeld, Places
  <2>2. prim = "recursive" => Places(Held) \cup Nested = RecursiveHolders
    BY <2>0 DEF IInv, RecursiveInv, RecursiveHolders, Places
  <2>3. prim = "rwlock" => Places(Held) \cup Nested = Places(WriterHeld)
    BY <2>0 DEF IInv, RwLockInv, RwLockPlaces, ReaderCounted, WriterHeld, Places
  <2>4. prim \in {"mutex", "condvar", "recursive", "rwlock"} =>
          HeldBy(Places(Held) \cup Nested, obj.flag)
    BY <2>1, <2>2, <2>3 DEF IInv, MutexInv, RecursiveInv, RwLockInv
  <2>5. Places(Held) \cup Nested \in SUBSET Threads
    BY DEF Places
  <2>6. prim \in {"mutex", "condvar", "recursive", "rwlock"} =>
          Cardinality(Places(Held) \cup Nested) = IF obj.flag THEN 1 ELSE 0
    BY <2>0, <2>4, <2>5, HeldByCount
  <2> QED
    BY <2>6 DEF NothingLost, IInv, RwLockInv, ReaderCounted, SemaphoreInv, BinaryInv,
       RecursiveInv
<1> QED
  BY <1>1, PrimitivesInvariant, PTL

\* Barrier::wait returns to nobody before everybody has entered the round, for
\* any number of threads and of rounds.
THEOREM BarrierCorrect == Spec => []BarrierMeets
<1>1. ASSUME IInv, prim = "barrier" PROVE BarrierMeets
  <2> USE <1>1
  <2>0. Shape /\ obj.running \in BOOLEAN /\ obj.gen \in Nat /\ BarrierInv
        /\ seen \in [Threads -> Nat]
    BY DEF IInv, Shape, Fields
  <2>1. \A t \in Threads : rounds[t].out <= obj.gen /\ obj.gen <= rounds[t].in
    BY <2>0 DEF BarrierInv, BarrierThreads
  <2>2. \A t, u \in Threads : rounds[t].out <= rounds[u].in
    <3>1. \A t \in Threads : rounds[t].out \in Nat /\ rounds[t].in \in Nat
      BY <2>0 DEF Shape
    <3> QED
      BY <2>0, <2>1, <3>1
  <2>3. {t \in Places({"push", "spin"}) : seen[t] = obj.gen /\ ~obj.running}
          = IF obj.running THEN {} ELSE Waiting
    BY DEF Waiting
  <2>4. obj.count = Cardinality({t \in Places({"push", "spin"}) : seen[t] = obj.gen
                                 /\ ~obj.running})
    BY <2>0, <2>3, FS_EmptySet DEF BarrierInv
  <2> QED
    BY <2>2, <2>4 DEF BarrierMeets
<1>2. IInv => BarrierMeets
  BY <1>1 DEF BarrierMeets
<1> QED
  BY <1>2, PrimitivesInvariant, PTL

\* Once::call_once runs its closure once, and nobody returns before it ran.
THEOREM OnceCorrect == Spec => []OnceOnly
<1>1. IInv => OnceOnly
  BY DEF IInv, OnceInv, OnceOnly, Places
<1> QED
  BY <1>1, PrimitivesInvariant, PTL
=============================================================================

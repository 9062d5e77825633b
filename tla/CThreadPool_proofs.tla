------------------------- MODULE CThreadPool_proofs -------------------------
(***************************************************************************)
(* Proofs about CThreadPool, for every number of threads, clients, tasks   *)
(* and slots, every content of uninitialised memory, and with spurious     *)
(* wakeups: its invariants, of which PoolInv below is the inductive core,  *)
(* and that it implements TaskPool, a bounded FIFO queue whose tasks are   *)
(* run once, by one worker, and not after the shutdown.                    *)
(***************************************************************************)
EXTENDS CThreadPool, SequenceTheorems, FiniteSetTheorems, TLAPS

-----------------------------------------------------------------------------
(* Queues: sequences whose elements are all different *)

Elements(s) == {s[i] : i \in 1 .. Len(s)}

Injective(s) == \A i, j \in 1 .. Len(s) : s[i] = s[j] => i = j

\* Appending a new element to a sequence without repetitions.
LEMMA AppendNew ==
  ASSUME NEW S, NEW s \in Seq(S), NEW e \in S,
         Injective(s), e \notin Elements(s)
  PROVE  /\ Append(s, e) \in Seq(S)
         /\ Len(Append(s, e)) = Len(s) + 1
         /\ Elements(Append(s, e)) = Elements(s) \cup {e}
         /\ Injective(Append(s, e))
<1> DEFINE t == Append(s, e)
<1>1. /\ t \in Seq(S)
      /\ Len(t) = Len(s) + 1
      /\ \A i \in 1 .. Len(s) : t[i] = s[i]
      /\ t[Len(s) + 1] = e
  OBVIOUS
<1>2. Len(s) \in Nat
  OBVIOUS
<1> HIDE DEF t
<1>3. Elements(t) \subseteq Elements(s) \cup {e}
  BY <1>1, <1>2 DEF Elements
<1>4. Elements(s) \subseteq Elements(t)
  <2> SUFFICES ASSUME NEW i \in 1 .. Len(s) PROVE s[i] \in Elements(t)
    BY DEF Elements
  <2> QED  BY <1>1, <1>2 DEF Elements
<1>5. e \in Elements(t)
  BY <1>1, <1>2 DEF Elements
<1>6. Injective(t)
  BY <1>1, <1>2 DEF Injective, Elements
<1> QED  BY <1>1, <1>3, <1>4, <1>5, <1>6 DEF t

\* Taking the first element off a sequence without repetitions.
LEMMA TailRest ==
  ASSUME NEW S, NEW s \in Seq(S), s # <<>>, Injective(s)
  PROVE  /\ Tail(s) \in Seq(S)
         /\ Len(Tail(s)) = Len(s) - 1
         /\ Head(s) \in Elements(s)
         /\ Elements(Tail(s)) = Elements(s) \ {Head(s)}
         /\ Injective(Tail(s))
<1> DEFINE t == Tail(s)
<1>1. /\ t \in Seq(S)
      /\ Len(t) = Len(s) - 1
      /\ \A i \in 1 .. Len(s) - 1 : t[i] = s[i + 1]
      /\ Head(s) = s[1]
  OBVIOUS
<1>2. Len(s) \in Nat \ {0}
  OBVIOUS
<1> HIDE DEF t
<1>3. Head(s) \in Elements(s)
  BY <1>1, <1>2 DEF Elements
<1>4. Elements(t) \subseteq Elements(s) \ {Head(s)}
  BY <1>1, <1>2 DEF Elements, Injective
<1>5. Elements(s) \ {Head(s)} \subseteq Elements(t)
  <2> SUFFICES ASSUME NEW i \in 1 .. Len(s), s[i] # Head(s)
               PROVE  s[i] \in Elements(t)
    BY DEF Elements
  <2>1. i # 1
    BY <1>1
  <2>2. i - 1 \in 1 .. Len(t) /\ t[i - 1] = s[i]
    BY <1>1, <1>2, <2>1
  <2> QED  BY <2>2 DEF Elements
<1>6. Injective(t)
  BY <1>1, <1>2 DEF Injective
<1> QED  BY <1>1, <1>3, <1>4, <1>5, <1>6 DEF t

\* The rest of a queue, as a function.
LEMMA TailIs ==
  ASSUME NEW S, NEW s \in Seq(S), s # <<>>
  PROVE  Tail(s) = [i \in 1 .. Len(s) - 1 |-> s[i + 1]]
<1> DEFINE t == Tail(s)
<1>1. /\ t \in Seq(S)
      /\ Len(t) = Len(s) - 1
      /\ \A i \in 1 .. Len(s) - 1 : t[i] = s[i + 1]
  OBVIOUS
<1> HIDE DEF t
<1>2. t \in [1 .. Len(s) - 1 -> S]
  <2>1. t \in [1 .. Len(t) -> S]
    BY <1>1, LenProperties
  <2> QED  BY <1>1, <2>1
<1>3. t = [i \in 1 .. Len(s) - 1 |-> s[i + 1]]
  BY <1>1, <1>2
<1> QED  BY <1>3 DEF t

-----------------------------------------------------------------------------
(* Arithmetic of ring indices *)

\* Stepping an index from the front or from the rear of a stretch of the ring
\* is the same.
LEMMA ModStep ==
  ASSUME NEW m \in Nat \ {0}, NEW f \in 0 .. m - 1, NEW k \in 0 .. m - 1
  PROVE  /\ (f + k) % m \in 0 .. m - 1
         /\ (((f + k) % m) + 1) % m = (f + (k + 1)) % m
         /\ (((f + 1) % m) + k) % m = (f + (k + 1)) % m
  <1>1. (f + k) % m \in 0 .. m - 1
    OBVIOUS
  <1>2. (((f + k) % m) + 1) % m = (f + (k + 1)) % m
    OBVIOUS
  <1>3. (((f + 1) % m) + k) % m = (f + (k + 1)) % m
    OBVIOUS
  <1> QED  BY <1>1, <1>2, <1>3

\* A set of numbers below n has at most n elements.
LEMMA FewBelow ==
  ASSUME NEW n \in Nat, NEW S \in SUBSET (0 .. n - 1)
  PROVE  Cardinality(S) <= n
  <1>1. IsFiniteSet(0 .. n - 1) /\ Cardinality(0 .. n - 1) = n
    BY FS_Interval
  <1> QED  BY <1>1, FS_Subset

-----------------------------------------------------------------------------
USE SizesAssumption, NamesAssumption, EnvironmentAssumption

(* What the two wakeups do to the threads' places *)

\* A signal moves at most a blocked worker, and only to "woken".
LEMMA SignalledMoves ==
  ASSUME NEW pc \in [Slots -> WorkerPC], NEW new \in Signalled(pc)
  PROVE  /\ new \in [Slots -> WorkerPC]
         /\ \A w \in Slots : \/ new[w] = pc[w]
                             \/ pc[w] = "blocked" /\ new[w] = "woken"
  BY DEF Signalled, WorkerPC

\* A broadcast moves every blocked thread to "woken", and no other.
LEMMA WokenWorkers ==
  ASSUME NEW pc \in [Slots -> WorkerPC]
  PROVE  /\ WokenAll(pc) \in [Slots -> WorkerPC]
         /\ \A w \in Slots : WokenAll(pc)[w] =
                               IF pc[w] = "blocked" THEN "woken" ELSE pc[w]
  BY DEF WokenAll, WorkerPC

LEMMA WokenClients ==
  ASSUME NEW pc \in [Clients -> ClientPC]
  PROVE  /\ WokenAll(pc) \in [Clients -> ClientPC]
         /\ \A c \in Clients : WokenAll(pc)[c] =
                                 IF pc[c] = "blocked" THEN "woken" ELSE pc[c]
  BY DEF WokenAll, ClientPC

-----------------------------------------------------------------------------
(* The inductive invariant *)

\* The lock is held across a step only on the way into pthread_cond_wait, and
\* at the end by the thread that freed the pool.  When a client unlocks a
\* second time, after the shutdown, nobody is on that way any more.
OwnerInv ==
  /\ \A w \in Slots : wpc[w] = "waiting" <=> lock = w
  /\ \A c \in Clients : cpc[c] = "full" <=> lock = c
  /\ lock = Destroyer => dpc = "freed"
  /\ \A c \in Clients : cpc[c] \in {"late", "later"} => lock \in {NoOne, Destroyer}

\* Who carries a task; what each phase of the manager and of the shutdown says.
PhaseInv ==
  /\ \A c \in Clients : cpc[c] # "idle" => ctask[c] \in Tasks
  /\ \A w \in Slots : wpc[w] \in {"fetched", "running"} => wtask[w] \in Tasks
  /\ mpc = "signal" => sig # 0
  /\ shutdown <=> dpc # "idle"
  /\ \A c \in Clients : cpc[c] \in {"late", "later"} => shutdown

\* While the pool is open, the slots from front up to rear, size of them, hold
\* tasks.  Without it nothing says that a worker takes a task from the ring.
RingInv ==
  ~shutdown =>
    /\ size <= QUEUE_MAX
    /\ rear = (front + size) % QUEUE_MAX
    /\ \A k \in 0 .. size - 1 : ring[(front + k) % QUEUE_MAX] \in Tasks

LiveInv == MIN_THR <= live /\ live <= MAX_THR

\* A client that sleeps, or is about to, does so because the queue is full.
SleepInv ==
  ~shutdown => \A c \in Clients : cpc[c] \in {"full", "blocked"} => size = QUEUE_MAX

PoolInv == TypeOK /\ OwnerInv /\ PhaseInv /\ RingInv /\ LiveInv /\ SleepInv

LEMMA InitInv == Init => PoolInv
  <1> SUFFICES ASSUME Init PROVE PoolInv
    OBVIOUS
  <1> USE DEF Init
  <1>1. TypeOK
    <2>1. front \in Ring /\ rear \in Ring /\ ring \in [Ring -> Tasks \cup {NULL, Junk}]
      BY DEF Ring
    <2>2. /\ wpc \in [Slots -> WorkerPC] /\ wtask \in [Slots -> Tasks \cup {NULL}]
          /\ cpc \in [Clients -> ClientPC] /\ ctask \in [Clients -> Tasks \cup {NULL}]
      BY DEF WorkerPC, ClientPC
    <2>3. waitExit \in Int /\ live \in Nat /\ size \in Nat /\ busy \in Int
      OBVIOUS
    <2>4. /\ snap \in [size : Nat, live : Nat, busy : Int]
          /\ sig \in 0 .. DEFAULT_THREAD_VARY /\ di \in 0 .. MAX_THR
      BY DEF NoSnap
    <2>5. mpc \in ManagerPC /\ dpc \in DestroyPC
      BY DEF ManagerPC, DestroyPC
    <2> QED  BY <2>1, <2>2, <2>3, <2>4, <2>5 DEF TypeOK
  <1>2. OwnerInv
    BY DEF OwnerInv
  <1>3. PhaseInv
    BY DEF PhaseInv
  <1>4. RingInv
    <2>1. 0 % QUEUE_MAX = 0
      OBVIOUS
    <2> QED  BY <2>1 DEF RingInv
  <1>5. LiveInv /\ SleepInv
    BY DEF LiveInv, SleepInv
  <1> QED  BY <1>1, <1>2, <1>3, <1>4, <1>5 DEF PoolInv

-----------------------------------------------------------------------------
(* Every step keeps the invariant: first the two that move the ring *)

\* A client that stores a task keeps the ring in order ...
LEMMA AddPushRing ==
  ASSUME NEW c \in Clients, PoolInv, AddPush(c) PROVE RingInv'
  <1> USE DEF PoolInv, AddPush, AddLocks, HasRoom, FillSlot, AddReturn
  <1>1. /\ ~shutdown /\ ~shutdown' /\ front' = front
        /\ size \in 0 .. QUEUE_MAX - 1 /\ size' = size + 1
        /\ front \in 0 .. QUEUE_MAX - 1
        /\ rear = (front + size) % QUEUE_MAX /\ rear' = (rear + 1) % QUEUE_MAX
    BY DEF TypeOK, RingInv, Ring, Succ
  <1>2. rear' = (front' + size') % QUEUE_MAX
    BY <1>1, ModStep
  <1>3. ASSUME NEW k \in 0 .. size' - 1
        PROVE  ring'[(front' + k) % QUEUE_MAX] \in Tasks
    <2>1. ctask[c] \in Tasks /\ ring' = [ring EXCEPT ![rear] = ctask[c]]
      BY DEF PhaseInv
    <2>2. (front + k) % QUEUE_MAX \in Ring
      BY <1>1, ModStep DEF Ring
    <2>3. CASE k = size
      BY <1>1, <2>1, <2>2, <2>3 DEF TypeOK
    <2>4. CASE k < size
      <3>1. ring[(front + k) % QUEUE_MAX] \in Tasks
        <4>1. k \in 0 .. size - 1 /\ \A j \in 0 .. size - 1 : ring[(front + j) % QUEUE_MAX] \in Tasks
          BY <1>1, <2>4 DEF RingInv
        <4> QED  BY <4>1
      <3> QED  BY <1>1, <2>1, <2>2, <3>1 DEF TypeOK
    <2> QED  BY <1>1, <2>3, <2>4
  <1> QED  BY <1>1, <1>2, <1>3 DEF RingInv

\* ... and so does a worker that takes one.
LEMMA WorkerTakeRing ==
  ASSUME NEW w \in Slots, PoolInv, WorkerTake(w) PROVE RingInv'
  <1> USE DEF PoolInv, WorkerTake, MayTake
  <1>1. /\ ~shutdown /\ ~shutdown' /\ rear' = rear /\ ring' = ring
        /\ size \in 1 .. QUEUE_MAX /\ size' = size - 1
        /\ front \in 0 .. QUEUE_MAX - 1 /\ front' = (front + 1) % QUEUE_MAX
        /\ rear = (front + size) % QUEUE_MAX
    BY DEF TypeOK, RingInv, Ring, Succ
  <1>2. \A k \in 0 .. size - 1 : (front' + k) % QUEUE_MAX = (front + (k + 1)) % QUEUE_MAX
    BY <1>1, ModStep
  <1>3. rear' = (front' + size') % QUEUE_MAX
    BY <1>1, <1>2
  <1>4. ASSUME NEW k \in 0 .. size' - 1
        PROVE  ring'[(front' + k) % QUEUE_MAX] \in Tasks
    <2>1. \A j \in 0 .. size - 1 : ring[(front + j) % QUEUE_MAX] \in Tasks
      BY <1>1 DEF RingInv
    <2>2. k \in 0 .. size - 1 /\ k + 1 \in 0 .. size - 1
      BY <1>1
    <2>3. (front' + k) % QUEUE_MAX = (front + (k + 1)) % QUEUE_MAX
      BY <1>2, <2>2
    <2> QED  BY <1>1, <2>1, <2>2, <2>3
  <1> QED  BY <1>1, <1>3, <1>4 DEF RingInv

\* The slot at front holds a task when a worker takes from it.
LEMMA TakenIsTask == ASSUME PoolInv, size # 0, ~shutdown PROVE ring[front] \in Tasks
  <1>1. front \in 0 .. QUEUE_MAX - 1 /\ 0 \in 0 .. size - 1
    BY DEF PoolInv, TypeOK, Ring
  <1>2. (front + 0) % QUEUE_MAX = front
    BY <1>1
  <1> QED  BY <1>1, <1>2 DEF PoolInv, RingInv

\* What a round of growing does: new workers enter, within the bound.
LEMMA GrowMoves ==
  ASSUME PoolInv, ManagerGrow
  PROVE  /\ wpc' \in [Slots -> WorkerPC]
         /\ \A w \in Slots : \/ wpc'[w] = wpc[w]
                             \/ wpc[w] \in {"none", "exited"} /\ wpc'[w] = "enter"
         /\ live' \in Nat /\ LiveInv'
  <1> USE DEF PoolInv, ManagerGrow
  <1>1. CASE ~GrowWanted /\ UNCHANGED <<wpc, live>>
    BY <1>1 DEF TypeOK, LiveInv
  <1>2. CASE \E dead \in DeadSets :
               \E new \in Refills({i \in Slots : wpc[i] = "none"} \cup dead) :
                 /\ wpc' = [w \in Slots |-> IF w \in new THEN "enter" ELSE wpc[w]]
                 /\ live' = live + Cardinality(new)
    <2>1. PICK dead \in DeadSets :
               \E new \in Refills({i \in Slots : wpc[i] = "none"} \cup dead) :
                 /\ wpc' = [w \in Slots |-> IF w \in new THEN "enter" ELSE wpc[w]]
                 /\ live' = live + Cardinality(new)
      BY <1>2
    <2>2. PICK new \in Refills({i \in Slots : wpc[i] = "none"} \cup dead) :
                  /\ wpc' = [w \in Slots |-> IF w \in new THEN "enter" ELSE wpc[w]]
                  /\ live' = live + Cardinality(new)
      BY <2>1
    <2>3. /\ \A w \in new : w \in Slots /\ wpc[w] \in {"none", "exited"}
          /\ live + Cardinality(new) <= MAX_THR
      BY DEF Refills, DeadSets, Exited
    <2>4. Cardinality(new) \in Nat
      <3>1. IsFiniteSet(Slots)
        BY FS_Interval DEF Slots
      <3> QED  BY <2>3, <3>1, FS_Subset, FS_CardinalityType
    <2>5. live' \in Nat /\ LiveInv'
      BY <2>2, <2>3, <2>4 DEF TypeOK, LiveInv
    <2> QED  BY <2>2, <2>3, <2>5 DEF TypeOK, WorkerPC
  <1> QED  BY <1>1, <1>2

\* A step of a client.
LEMMA ClientInv ==
  ASSUME NEW c \in Clients, PoolInv,
         Add(c) \/ \E t \in Tasks : AddCall(c, t)
  PROVE  PoolInv'
  <1> USE DEF PoolInv, queueVars, workerVars, clientVars, managerVars, destroyVars,
             historyVars
  <1>1. ASSUME NEW t \in Tasks, AddCall(c, t) PROVE PoolInv'
    <2> USE <1>1 DEF AddCall
    <2>1. TypeOK'
      BY DEF TypeOK, WorkerPC, ClientPC, ManagerPC, DestroyPC
    <2>2. OwnerInv' /\ PhaseInv'
      BY DEF TypeOK, OwnerInv, PhaseInv
    <2>3. RingInv' /\ LiveInv' /\ SleepInv'
      BY DEF TypeOK, RingInv, LiveInv, SleepInv, OwnerInv, PhaseInv
    <2> QED  BY <2>1, <2>2, <2>3
  <1>2. CASE AddFull(c)
    <2> USE <1>2 DEF AddFull, AddLocks, HasRoom
    <2>1. TypeOK'
      BY DEF TypeOK, WorkerPC, ClientPC, ManagerPC, DestroyPC
    <2>2. OwnerInv' /\ PhaseInv'
      BY DEF TypeOK, OwnerInv, PhaseInv
    <2>3. RingInv' /\ LiveInv' /\ SleepInv'
      BY DEF TypeOK, RingInv, LiveInv, SleepInv, OwnerInv, PhaseInv
    <2> QED  BY <2>1, <2>2, <2>3
  <1>3. CASE AddSleep(c)
    <2> USE <1>3 DEF AddSleep
    <2>1. TypeOK'
      BY DEF TypeOK, WorkerPC, ClientPC, ManagerPC, DestroyPC
    <2>2. OwnerInv' /\ PhaseInv'
      BY DEF TypeOK, OwnerInv, PhaseInv
    <2>3. RingInv' /\ LiveInv' /\ SleepInv'
      BY DEF TypeOK, RingInv, LiveInv, SleepInv, OwnerInv, PhaseInv
    <2> QED  BY <2>1, <2>2, <2>3
  <1>4. CASE AddPush(c)
    <2> USE <1>4 DEF AddPush, AddLocks, HasRoom, FillSlot, AddReturn, Succ, TaskSignal
    <2>a. /\ wpc' \in [Slots -> WorkerPC]
          /\ \A p \in Slots : \/ wpc'[p] = wpc[p]
                              \/ wpc[p] = "blocked" /\ wpc'[p] = "woken"
      BY SignalledMoves DEF TypeOK
    <2>1. TypeOK'
      BY <2>a DEF TypeOK, WorkerPC, ClientPC, ManagerPC, DestroyPC, Ring, PhaseInv
    <2>2. OwnerInv'
      BY <2>a DEF TypeOK, OwnerInv, PhaseInv
    <2>3. PhaseInv'
      BY <2>a DEF TypeOK, PhaseInv
    <2>4. RingInv'
      BY AddPushRing
    <2>5. LiveInv'
      BY DEF LiveInv
    <2>6. SleepInv'
      BY <2>a DEF TypeOK, SleepInv, OwnerInv, PhaseInv
    <2> QED  BY <2>1, <2>2, <2>3, <2>4, <2>5, <2>6
  <1>5. CASE AddShutdown(c)
    <2> USE <1>5 DEF AddShutdown, AddLocks
    <2>1. TypeOK'
      BY DEF TypeOK, WorkerPC, ClientPC, ManagerPC, DestroyPC
    <2>2. OwnerInv' /\ PhaseInv'
      BY DEF TypeOK, OwnerInv, PhaseInv
    <2>3. RingInv' /\ LiveInv' /\ SleepInv'
      BY DEF TypeOK, RingInv, LiveInv, SleepInv, OwnerInv, PhaseInv
    <2> QED  BY <2>1, <2>2, <2>3
  <1>6. CASE LateStore(c)
    <2> USE <1>6 DEF LateStore, FillSlot
    <2>1. TypeOK'
      BY DEF TypeOK, WorkerPC, ClientPC, ManagerPC, DestroyPC, Ring, PhaseInv
    <2>2. OwnerInv' /\ PhaseInv'
      BY DEF TypeOK, OwnerInv, PhaseInv
    <2>3. RingInv' /\ LiveInv' /\ SleepInv'
      BY DEF TypeOK, RingInv, LiveInv, SleepInv, OwnerInv, PhaseInv
    <2> QED  BY <2>1, <2>2, <2>3
  <1>7. CASE LateAdvance(c)
    <2> USE <1>7 DEF LateAdvance, AddReturn, Succ, TaskSignal
    <2>a. /\ wpc' \in [Slots -> WorkerPC]
          /\ \A p \in Slots : \/ wpc'[p] = wpc[p]
                              \/ wpc[p] = "blocked" /\ wpc'[p] = "woken"
      BY SignalledMoves DEF TypeOK
    <2>1. TypeOK'
      BY <2>a DEF TypeOK, WorkerPC, ClientPC, ManagerPC, DestroyPC, Ring, PhaseInv
    <2>2. OwnerInv' /\ PhaseInv'
      BY <2>a DEF TypeOK, OwnerInv, PhaseInv
    <2>3. RingInv' /\ LiveInv' /\ SleepInv'
      BY <2>a DEF TypeOK, RingInv, LiveInv, SleepInv, OwnerInv, PhaseInv
    <2> QED  BY <2>1, <2>2, <2>3
  <1> QED  BY <1>1, <1>2, <1>3, <1>4, <1>5, <1>6, <1>7 DEF Add

\* A step of a worker.
LEMMA WorkerInv ==
  ASSUME NEW w \in Slots, PoolInv,
         Worker(w)
  PROVE  PoolInv'
  <1> USE DEF PoolInv, queueVars, workerVars, clientVars, managerVars, destroyVars,
             historyVars
  <1>1. CASE WorkerRetire(w)
    <2> USE <1>1 DEF WorkerRetire, MustRetire
    <2>1. TypeOK'
      BY DEF TypeOK, WorkerPC, ClientPC, ManagerPC, DestroyPC, LiveInv
    <2>2. OwnerInv' /\ PhaseInv'
      BY DEF TypeOK, OwnerInv, PhaseInv
    <2>3. RingInv' /\ LiveInv' /\ SleepInv'
      BY DEF TypeOK, RingInv, LiveInv, SleepInv, OwnerInv, PhaseInv
    <2> QED  BY <2>1, <2>2, <2>3
  <1>2. CASE WorkerEmpty(w)
    <2> USE <1>2 DEF WorkerEmpty, WorkerLocks
    <2>1. TypeOK'
      BY DEF TypeOK, WorkerPC, ClientPC, ManagerPC, DestroyPC
    <2>2. OwnerInv' /\ PhaseInv'
      BY DEF TypeOK, OwnerInv, PhaseInv
    <2>3. RingInv' /\ LiveInv' /\ SleepInv'
      BY DEF TypeOK, RingInv, LiveInv, SleepInv, OwnerInv, PhaseInv
    <2> QED  BY <2>1, <2>2, <2>3
  <1>3. CASE WorkerSleep(w)
    <2> USE <1>3 DEF WorkerSleep
    <2>1. TypeOK'
      BY DEF TypeOK, WorkerPC, ClientPC, ManagerPC, DestroyPC
    <2>2. OwnerInv' /\ PhaseInv'
      BY DEF TypeOK, OwnerInv, PhaseInv
    <2>3. RingInv' /\ LiveInv' /\ SleepInv'
      BY DEF TypeOK, RingInv, LiveInv, SleepInv, OwnerInv, PhaseInv
    <2> QED  BY <2>1, <2>2, <2>3
  <1>4. CASE WorkerStop(w)
    <2> USE <1>4 DEF WorkerStop, WorkerLocks
    <2>1. TypeOK'
      BY DEF TypeOK, WorkerPC, ClientPC, ManagerPC, DestroyPC
    <2>2. OwnerInv' /\ PhaseInv'
      BY DEF TypeOK, OwnerInv, PhaseInv
    <2>3. RingInv' /\ LiveInv' /\ SleepInv'
      BY DEF TypeOK, RingInv, LiveInv, SleepInv, OwnerInv, PhaseInv
    <2> QED  BY <2>1, <2>2, <2>3
  <1>5. CASE WorkerTake(w)
    <2> USE <1>5 DEF WorkerTake, WorkerLocks, MayTake, Succ, RoomBroadcast
    <2>a. /\ cpc' \in [Clients -> ClientPC]
          /\ \A c \in Clients : cpc'[c] = IF cpc[c] = "blocked" THEN "woken" ELSE cpc[c]
      BY WokenClients DEF TypeOK
    <2>b. ring[front] \in Tasks
      BY TakenIsTask
    <2>1. TypeOK'
      BY <2>a, <2>b DEF TypeOK, WorkerPC, ClientPC, ManagerPC, DestroyPC, Ring
    <2>2. OwnerInv'
      BY <2>a, <2>b DEF TypeOK, OwnerInv, PhaseInv
    <2>3. PhaseInv'
      BY <2>a, <2>b DEF TypeOK, PhaseInv
    <2>4. RingInv'
      BY WorkerTakeRing
    <2>5. LiveInv'
      BY DEF LiveInv
    <2>6. SleepInv'
      BY <2>a, <2>b DEF TypeOK, SleepInv, OwnerInv, PhaseInv
    <2> QED  BY <2>1, <2>2, <2>3, <2>4, <2>5, <2>6
  <1>6. CASE WorkerBusy(w)
    <2> USE <1>6 DEF WorkerBusy
    <2>1. TypeOK'
      BY DEF TypeOK, WorkerPC, ClientPC, ManagerPC, DestroyPC
    <2>2. OwnerInv' /\ PhaseInv'
      BY DEF TypeOK, OwnerInv, PhaseInv
    <2>3. RingInv' /\ LiveInv' /\ SleepInv'
      BY DEF TypeOK, RingInv, LiveInv, SleepInv, OwnerInv, PhaseInv
    <2> QED  BY <2>1, <2>2, <2>3
  <1>7. CASE WorkerRun(w)
    <2> USE <1>7 DEF WorkerRun
    <2>1. TypeOK'
      BY DEF TypeOK, WorkerPC, ClientPC, ManagerPC, DestroyPC, PhaseInv
    <2>2. OwnerInv' /\ PhaseInv'
      BY DEF TypeOK, OwnerInv, PhaseInv
    <2>3. RingInv' /\ LiveInv' /\ SleepInv'
      BY DEF TypeOK, RingInv, LiveInv, SleepInv, OwnerInv, PhaseInv
    <2> QED  BY <2>1, <2>2, <2>3
  <1>8. CASE WorkerIdle(w)
    <2> USE <1>8 DEF WorkerIdle
    <2>1. TypeOK'
      BY DEF TypeOK, WorkerPC, ClientPC, ManagerPC, DestroyPC
    <2>2. OwnerInv' /\ PhaseInv'
      BY DEF TypeOK, OwnerInv, PhaseInv
    <2>3. RingInv' /\ LiveInv' /\ SleepInv'
      BY DEF TypeOK, RingInv, LiveInv, SleepInv, OwnerInv, PhaseInv
    <2> QED  BY <2>1, <2>2, <2>3
  <1> QED  BY <1>1, <1>2, <1>3, <1>4, <1>5, <1>6, <1>7, <1>8 DEF Worker

\* A step of the manager.
LEMMA ManagerInv ==
  ASSUME PoolInv,
         Manager
  PROVE  PoolInv'
  <1> USE DEF PoolInv, queueVars, workerVars, clientVars, managerVars, destroyVars,
             historyVars
  <1>1. CASE ManagerTest
    <2> USE <1>1 DEF ManagerTest
    <2>1. TypeOK'
      BY DEF TypeOK, WorkerPC, ClientPC, ManagerPC, DestroyPC
    <2>2. OwnerInv' /\ PhaseInv'
      BY DEF TypeOK, OwnerInv, PhaseInv
    <2>3. RingInv' /\ LiveInv' /\ SleepInv'
      BY DEF TypeOK, RingInv, LiveInv, SleepInv, OwnerInv, PhaseInv
    <2> QED  BY <2>1, <2>2, <2>3
  <1>2. CASE ManagerSample
    <2> USE <1>2 DEF ManagerSample
    <2>1. TypeOK'
      BY DEF TypeOK, WorkerPC, ClientPC, ManagerPC, DestroyPC
    <2>2. OwnerInv' /\ PhaseInv'
      BY DEF TypeOK, OwnerInv, PhaseInv
    <2>3. RingInv' /\ LiveInv' /\ SleepInv'
      BY DEF TypeOK, RingInv, LiveInv, SleepInv, OwnerInv, PhaseInv
    <2> QED  BY <2>1, <2>2, <2>3
  <1>3. CASE ManagerSampleBusy
    <2> USE <1>3 DEF ManagerSampleBusy
    <2>1. TypeOK'
      BY DEF TypeOK, WorkerPC, ClientPC, ManagerPC, DestroyPC
    <2>2. OwnerInv' /\ PhaseInv'
      BY DEF TypeOK, OwnerInv, PhaseInv
    <2>3. RingInv' /\ LiveInv' /\ SleepInv'
      BY DEF TypeOK, RingInv, LiveInv, SleepInv, OwnerInv, PhaseInv
    <2> QED  BY <2>1, <2>2, <2>3
  <1>4. CASE ManagerGrow
    <2> USE <1>4 DEF ManagerGrow
    <2>a. /\ wpc' \in [Slots -> WorkerPC]
          /\ \A w \in Slots : \/ wpc'[w] = wpc[w]
                              \/ wpc[w] \in {"none", "exited"} /\ wpc'[w] = "enter"
          /\ live' \in Nat /\ LiveInv'
      BY GrowMoves
    <2>1. TypeOK'
      BY <2>a DEF TypeOK, WorkerPC, ClientPC, ManagerPC, DestroyPC
    <2>2. OwnerInv'
      BY <2>a DEF TypeOK, OwnerInv, PhaseInv
    <2>3. PhaseInv'
      BY <2>a DEF TypeOK, PhaseInv
    <2>4. RingInv'
      BY DEF RingInv
    <2>5. LiveInv'
      BY <2>a
    <2>6. SleepInv'
      BY <2>a DEF TypeOK, SleepInv, OwnerInv, PhaseInv
    <2> QED  BY <2>1, <2>2, <2>3, <2>4, <2>5, <2>6
  <1>5. CASE ManagerShrink
    <2> USE <1>5 DEF ManagerShrink, NoSnap
    <2>1. TypeOK'
      BY DEF TypeOK, WorkerPC, ClientPC, ManagerPC, DestroyPC
    <2>2. OwnerInv' /\ PhaseInv'
      BY DEF TypeOK, OwnerInv, PhaseInv
    <2>3. RingInv' /\ LiveInv' /\ SleepInv'
      BY DEF TypeOK, RingInv, LiveInv, SleepInv, OwnerInv, PhaseInv
    <2> QED  BY <2>1, <2>2, <2>3
  <1>6. CASE ManagerSignal
    <2> USE <1>6 DEF ManagerSignal
    <2>a. /\ wpc' \in [Slots -> WorkerPC]
          /\ \A p \in Slots : \/ wpc'[p] = wpc[p]
                              \/ wpc[p] = "blocked" /\ wpc'[p] = "woken"
      BY SignalledMoves DEF TypeOK
    <2>1. TypeOK'
      BY <2>a DEF TypeOK, WorkerPC, ClientPC, ManagerPC, DestroyPC, PhaseInv
    <2>2. OwnerInv' /\ PhaseInv'
      BY <2>a DEF TypeOK, OwnerInv, PhaseInv
    <2>3. RingInv' /\ LiveInv' /\ SleepInv'
      BY <2>a DEF TypeOK, RingInv, LiveInv, SleepInv, OwnerInv, PhaseInv
    <2> QED  BY <2>1, <2>2, <2>3
  <1> QED  BY <1>1, <1>2, <1>3, <1>4, <1>5, <1>6 DEF Manager

\* A step of threadpool_destroy, or a spurious wakeup.
LEMMA DestroyInv ==
  ASSUME PoolInv,
         DestroyCall \/ Destroy \/ SpuriousWakeup
  PROVE  PoolInv'
  <1> USE DEF PoolInv, queueVars, workerVars, clientVars, managerVars, destroyVars,
             historyVars
  <1>1. CASE DestroyCall
    <2> USE <1>1 DEF DestroyCall
    <2>1. TypeOK'
      BY DEF TypeOK, WorkerPC, ClientPC, ManagerPC, DestroyPC, LiveInv
    <2>2. OwnerInv' /\ PhaseInv'
      BY DEF TypeOK, OwnerInv, PhaseInv
    <2>3. RingInv' /\ LiveInv' /\ SleepInv'
      BY DEF TypeOK, RingInv, LiveInv, SleepInv, OwnerInv, PhaseInv
    <2> QED  BY <2>1, <2>2, <2>3
  <1>2. CASE DestroyJoinManager
    <2> USE <1>2 DEF DestroyJoinManager, ManagerGone
    <2>1. TypeOK'
      BY DEF TypeOK, WorkerPC, ClientPC, ManagerPC, DestroyPC, LiveInv
    <2>2. OwnerInv' /\ PhaseInv'
      BY DEF TypeOK, OwnerInv, PhaseInv
    <2>3. RingInv' /\ LiveInv' /\ SleepInv'
      BY DEF TypeOK, RingInv, LiveInv, SleepInv, OwnerInv, PhaseInv
    <2> QED  BY <2>1, <2>2, <2>3
  <1>3. CASE DestroyBroadcast
    <2> USE <1>3 DEF DestroyBroadcast
    <2>a. /\ wpc' \in [Slots -> WorkerPC]
          /\ \A p \in Slots : \/ wpc'[p] = wpc[p]
                              \/ wpc[p] = "blocked" /\ wpc'[p] = "woken"
      BY WokenWorkers DEF TypeOK
    <2>1. TypeOK'
      BY <2>a DEF TypeOK, WorkerPC, ClientPC, ManagerPC, DestroyPC, LiveInv
    <2>2. OwnerInv' /\ PhaseInv'
      BY <2>a DEF TypeOK, OwnerInv, PhaseInv
    <2>3. RingInv' /\ LiveInv' /\ SleepInv'
      BY <2>a DEF TypeOK, RingInv, LiveInv, SleepInv, OwnerInv, PhaseInv
    <2> QED  BY <2>1, <2>2, <2>3
  <1>4. CASE DestroyJoin
    <2> USE <1>4 DEF DestroyJoin, LeftToJoin
    <2>1. TypeOK'
      BY DEF TypeOK, WorkerPC, ClientPC, ManagerPC, DestroyPC, LiveInv
    <2>2. OwnerInv' /\ PhaseInv'
      BY DEF TypeOK, OwnerInv, PhaseInv
    <2>3. RingInv' /\ LiveInv' /\ SleepInv'
      BY DEF TypeOK, RingInv, LiveInv, SleepInv, OwnerInv, PhaseInv
    <2> QED  BY <2>1, <2>2, <2>3
  <1>5. CASE DestroyFree
    <2> USE <1>5 DEF DestroyFree
    <2>1. TypeOK'
      BY DEF TypeOK, WorkerPC, ClientPC, ManagerPC, DestroyPC
    <2>2. OwnerInv' /\ PhaseInv'
      BY DEF TypeOK, OwnerInv, PhaseInv
    <2>3. RingInv' /\ LiveInv' /\ SleepInv'
      BY DEF TypeOK, RingInv, LiveInv, SleepInv, OwnerInv, PhaseInv
    <2> QED  BY <2>1, <2>2, <2>3
  <1>6. CASE SpuriousWakeup
    <2> USE <1>6 DEF SpuriousWakeup, Blocked
    <2>1. TypeOK'
      BY DEF TypeOK, WorkerPC, ClientPC, ManagerPC, DestroyPC
    <2>2. OwnerInv' /\ PhaseInv'
      BY DEF TypeOK, OwnerInv, PhaseInv
    <2>3. RingInv' /\ LiveInv' /\ SleepInv'
      BY DEF TypeOK, RingInv, LiveInv, SleepInv, OwnerInv, PhaseInv
    <2> QED  BY <2>1, <2>2, <2>3
  <1> QED  BY <1>1, <1>2, <1>3, <1>4, <1>5, <1>6 DEF Destroy

LEMMA NextInv == PoolInv /\ [Next]_vars => PoolInv'
  <1> SUFFICES ASSUME PoolInv, [Next]_vars PROVE PoolInv'
    OBVIOUS
  <1>1. CASE \E c \in Clients : Add(c) \/ \E t \in Tasks : AddCall(c, t)
    BY <1>1, ClientInv
  <1>2. CASE \E w \in Slots : Worker(w)
    BY <1>2, WorkerInv
  <1>3. CASE Manager
    BY <1>3, ManagerInv
  <1>4. CASE DestroyCall \/ Destroy \/ SpuriousWakeup
    BY <1>4, DestroyInv
  <1>5. CASE UNCHANGED vars
    BY <1>5 DEF PoolInv, TypeOK, OwnerInv, PhaseInv, RingInv, LiveInv, SleepInv,
                vars, queueVars, workerVars, clientVars, managerVars, destroyVars,
                historyVars
  <1> QED  BY <1>1, <1>2, <1>3, <1>4, <1>5 DEF Next

\* The invariant holds of every reachable state.
THEOREM PoolInvariant == Spec => []PoolInv
  <1> QED  BY InitInv, NextInv, PTL DEF Spec

\* Every variable keeps its type; in particular queue_front and queue_rear stay
\* inside task_queue, and a worker only ever takes a task from it, never what
\* malloc left there.
THEOREM TypeCorrect == Spec => []TypeOK
  <1>1. PoolInv => TypeOK
    BY DEF PoolInv
  <1> QED  BY <1>1, PoolInvariant, PTL

\* A client sleeps in threadpool_add only while the queue is full, for any
\* number of clients and workers.
THEOREM ClientsNotLeftAsleep == Spec => []ClientsSleepOnlyWhenFull
  <1>1. PoolInv => ClientsSleepOnlyWhenFull
    BY DEF PoolInv, SleepInv, ClientsSleepOnlyWhenFull
  <1> QED  BY <1>1, PoolInvariant, PTL

\* While the pool is open the ring never holds more than queue_max_size tasks.
THEOREM RingNeverOverflows == Spec => []SizeWithinCapacity
  <1>1. PoolInv => SizeWithinCapacity
    BY DEF PoolInv, RingInv, SizeWithinCapacity
  <1> QED  BY <1>1, PoolInvariant, PTL

-----------------------------------------------------------------------------
(* Wakeups: no signal for a new task is lost until a worker retires.  (Then *)
(* a woken worker may leave instead of taking the task.)                    *)

\* The workers on their way to the test of the queue.
Ready == {w \in Slots : wpc[w] \in {"enter", "woken"}}

\* A worker between that test and pthread_cond_wait has seen an empty queue,
\* and keeps it empty by holding the lock; those that sleep do so only if
\* enough others are on their way.
WakeInv ==
  ~shutdown /\ ~shrunk =>
    /\ \A w \in Slots : wpc[w] = "waiting" => size = 0
    /\ Blocked # {} => size <= Cardinality(Ready)

LEMMA ReadyFinite ==
  /\ IsFiniteSet(Ready) /\ Cardinality(Ready) \in Nat
  /\ IsFiniteSet(Ready') /\ Cardinality(Ready') \in Nat
<1>1. IsFiniteSet(Slots)
  BY FS_Interval DEF Slots
<1>2. Ready \in SUBSET Slots /\ Ready' \in SUBSET Slots
  BY DEF Ready
<1> QED  BY <1>1, <1>2, FS_Subset, FS_CardinalityType

LEMMA WakeInit == Init => WakeInv
BY DEF Init, WakeInv, Blocked

\* A step that neither takes a worker off its way to the queue, nor brings one
\* to sleep, nor touches the queue.
Calm ==
  /\ size' = size /\ shrunk' = shrunk /\ (shutdown => shutdown')
  /\ \A w \in Slots : /\ wpc[w] \in {"enter", "woken"} => wpc'[w] \in {"enter", "woken"}
                      /\ wpc'[w] = "blocked" => wpc[w] = "blocked"
                      /\ wpc'[w] = "waiting" => wpc[w] = "waiting"

\* After the step nothing is to be shown.
Void == shutdown' \/ shrunk' \/ size' = 0

LEMMA CalmKeeps ==
  ASSUME PoolInv, WakeInv, Calm
  PROVE  WakeInv'
<1>1. Ready \subseteq Ready' /\ Blocked' \subseteq Blocked
  BY DEF Calm, Ready, Blocked
<1>2. Cardinality(Ready) <= Cardinality(Ready')
  BY <1>1, ReadyFinite, FS_Subset
<1> QED  BY <1>1, <1>2, ReadyFinite DEF WakeInv, Calm, PoolInv, TypeOK

LEMMA VoidKeeps == ASSUME Void PROVE WakeInv'
BY ReadyFinite DEF Void, WakeInv

\* A client that stores a task wakes a sleeping worker, if there is one.
LEMMA PushWakes ==
  ASSUME PoolInv, WakeInv, NEW c \in Clients, AddPush(c)
  PROVE  WakeInv'
<1>1. /\ size \in Nat /\ size' = size + 1 /\ ~shutdown /\ wpc' \in Signalled(wpc)
      /\ \A w \in Slots : wpc[w] # "waiting"
      /\ wpc \in [Slots -> WorkerPC] /\ shrunk' = shrunk
  BY DEF AddPush, AddLocks, TaskSignal, PoolInv, TypeOK, OwnerInv
<1>2. CASE Blocked = {}
  <2>1. wpc' = wpc
    BY <1>1, <1>2 DEF Signalled, Blocked
  <2> QED  BY <1>1, <1>2, <2>1 DEF WakeInv, Blocked
<1>3. CASE Blocked # {}
  <2>1. PICK w \in Blocked : wpc' = [wpc EXCEPT ![w] = "woken"]
    BY <1>1, <1>3 DEF Signalled, Blocked
  <2>2. Ready' = Ready \cup {w} /\ w \notin Ready
    BY <1>1, <2>1 DEF Ready, Blocked
  <2>3. Cardinality(Ready') = Cardinality(Ready) + 1
    BY <2>2, ReadyFinite, FS_AddElement
  <2>4. \A v \in Slots : wpc'[v] # "waiting"
    BY <1>1, <2>1
  <2>5. shrunk \/ size <= Cardinality(Ready)
    BY <1>1, <1>3 DEF WakeInv
  <2> QED  BY <1>1, <2>3, <2>4, <2>5, ReadyFinite DEF WakeInv
<1> QED  BY <1>2, <1>3

\* A worker that takes a task was one of those on their way.
LEMMA TakeWakes ==
  ASSUME PoolInv, WakeInv, NEW w \in Slots, WorkerTake(w)
  PROVE  WakeInv'
<1>1. /\ size \in Nat /\ size' = size - 1 /\ ~shutdown
      /\ wpc[w] \in {"enter", "woken"} /\ wpc' = [wpc EXCEPT ![w] = "fetched"]
      /\ \A v \in Slots : wpc[v] # "waiting"
      /\ wpc \in [Slots -> WorkerPC] /\ shrunk' = shrunk
  BY DEF WorkerTake, WorkerLocks, MayTake, PoolInv, TypeOK, OwnerInv, historyVars
<1>2. /\ Blocked' = Blocked /\ \A v \in Slots : wpc'[v] # "waiting"
      /\ Ready' = Ready \ {w} /\ w \in Ready
  BY <1>1 DEF Blocked, Ready
<1>3. Cardinality(Ready') = Cardinality(Ready) - 1
  BY <1>2, ReadyFinite, FS_RemoveElement
<1> QED  BY <1>1, <1>2, <1>3, ReadyFinite DEF WakeInv

LEMMA ClientSteps ==
  ASSUME PoolInv, NEW c \in Clients, Add(c) \/ \E t \in Tasks : AddCall(c, t)
  PROVE  Calm \/ Void \/ AddPush(c)
<1> USE DEF queueVars, workerVars, historyVars
<1>1. CASE LateStore(c) \/ LateAdvance(c)
  BY <1>1 DEF LateStore, LateAdvance, PoolInv, PhaseInv, Void
<1>2. CASE AddFull(c) \/ AddSleep(c) \/ AddShutdown(c) \/ \E t \in Tasks : AddCall(c, t)
  BY <1>2 DEF AddFull, AddSleep, AddShutdown, AddCall, Calm
<1> QED  BY <1>1, <1>2 DEF Add

LEMMA WorkerSteps ==
  ASSUME PoolInv, WakeInv, NEW w \in Slots, Worker(w)
  PROVE  Calm \/ Void \/ WorkerTake(w)
<1> USE DEF queueVars, historyVars, PoolInv, TypeOK
<1>1. CASE WorkerRetire(w)
  BY <1>1 DEF WorkerRetire, Void
<1>2. CASE WorkerEmpty(w) \/ WorkerSleep(w) \/ WorkerStop(w)
  BY <1>2 DEF WorkerEmpty, WorkerSleep, WorkerStop, WakeInv, Void
<1>3. CASE WorkerBusy(w) \/ WorkerRun(w) \/ WorkerIdle(w)
  BY <1>3 DEF WorkerBusy, WorkerRun, WorkerIdle, Calm
<1> QED  BY <1>1, <1>2, <1>3 DEF Worker

LEMMA OtherSteps ==
  ASSUME PoolInv, Manager \/ Destroy \/ DestroyCall \/ SpuriousWakeup \/ UNCHANGED vars
  PROVE  Calm \/ Void
<1> USE DEF vars, queueVars, workerVars, historyVars
<1>1. size' = size /\ shrunk' = shrunk /\ (shutdown => shutdown')
  BY DEF Manager, ManagerTest, ManagerSample, ManagerSampleBusy, ManagerGrow,
     ManagerShrink, ManagerSignal, Destroy, DestroyJoinManager, DestroyBroadcast,
     DestroyJoin, DestroyFree, DestroyCall, SpuriousWakeup
<1>2. CASE UNCHANGED wpc
  BY <1>1, <1>2 DEF Calm
<1>3. CASE ManagerGrow
  BY <1>1, <1>3, GrowMoves DEF Calm
<1>4. CASE ManagerSignal
  BY <1>1, <1>4, SignalledMoves DEF ManagerSignal, PoolInv, TypeOK, Calm
<1>5. CASE DestroyBroadcast \/ SpuriousWakeup
  BY <1>1, <1>5, WokenWorkers
     DEF DestroyBroadcast, SpuriousWakeup, Blocked, PoolInv, TypeOK, Calm
<1> QED
  BY <1>2, <1>3, <1>4, <1>5 DEF Manager, ManagerTest, ManagerSample,
     ManagerSampleBusy, ManagerShrink, Destroy, DestroyJoinManager, DestroyJoin,
     DestroyFree, DestroyCall

LEMMA WakeNext ==
  ASSUME PoolInv, WakeInv, [Next]_vars
  PROVE  WakeInv'
<1>1. CASE \E c \in Clients : Add(c) \/ \E t \in Tasks : AddCall(c, t)
  BY <1>1, ClientSteps, CalmKeeps, VoidKeeps, PushWakes
<1>2. CASE \E w \in Slots : Worker(w)
  BY <1>2, WorkerSteps, CalmKeeps, VoidKeeps, TakeWakes
<1>3. CASE Manager \/ Destroy \/ DestroyCall \/ SpuriousWakeup \/ UNCHANGED vars
  BY <1>3, OtherSteps, CalmKeeps, VoidKeeps
<1> QED  BY <1>1, <1>2, <1>3 DEF Next

\* Until a worker retires, while a worker sleeps there is, for every queued task,
\* another one on its way to take it: no signal of threadpool_add is lost,
\* whatever else wakes workers, in whatever order they get the lock, and
\* however many threads the manager adds.
THEOREM NoSignalLost == Spec => []NoIdleWhileQueued
<1>1. PoolInv /\ WakeInv /\ [Next]_vars => WakeInv'
  BY WakeNext
<1>2. WakeInv => NoIdleWhileQueued
  BY DEF WakeInv, NoIdleWhileQueued, Ready
<1> QED  BY <1>1, <1>2, WakeInit, PoolInvariant, PTL DEF Spec

-----------------------------------------------------------------------------
(* Counters: they count what is there, and what follows for                *)
(* threadpool_destroy.  A step is reduced to what it does to the kinds of  *)
(* the threads (Moves below); the rest is about cardinalities.             *)

Running == {w \in Slots : wpc[w] \in {"running", "ran"}}

\* What the counters tell apart.
Kind(p) ==
  IF p \in {"none", "exited"} THEN p
  ELSE IF p \in {"running", "ran"} THEN "busy" ELSE "idle"

\* busy_thr_num and live_thr_num count the threads of a kind, and slots that
\* have never had a thread are above all that have had one.
CountInv ==
  /\ busy = Cardinality(Running)
  /\ IF shutdown THEN Cardinality(Alive) <= live ELSE Cardinality(Alive) = live
  /\ \A i, j \in Slots : i < j /\ wpc[i] = "none" => wpc[j] = "none"

\* Until a worker retires, the slots that have had a thread are among the first
\* live_thr_num, also when the manager has refilled slots of stopped workers.
PrefixInv == ~shrunk => \A i \in Slots : i >= live => wpc[i] = "none"

\* What threadpool_destroy may rely on, and what it has reached.
JoinInv ==
  /\ dpc \in {"broadcast", "join", "free", "freed"} => mpc = "exited"
  /\ dpc = "join" => \A i \in Slots : i < di => wpc[i] = "exited"
  /\ dpc \in {"free", "freed"} => \A i \in Slots : i < live => wpc[i] = "exited"

-----------------------------------------------------------------------------
(* What a step does to the kinds of the threads *)

Others(W) == \A v \in Slots \ W : Kind(wpc'[v]) = Kind(wpc[v])

Still == Others({}) /\ live' = live /\ busy' = busy

Starts(w) ==
  /\ Kind(wpc[w]) = "idle" /\ Kind(wpc'[w]) = "busy" /\ Others({w})
  /\ live' = live /\ busy' = busy + 1

Stops(w) ==
  /\ Kind(wpc[w]) = "busy" /\ Kind(wpc'[w]) = "idle" /\ Others({w})
  /\ live' = live /\ busy' = busy - 1

Leaves(w) ==
  /\ Kind(wpc[w]) = "idle" /\ Kind(wpc'[w]) = "exited" /\ Others({w})
  /\ (live' = live - 1 /\ shrunk') \/ (shutdown /\ live' = live)
  /\ busy' = busy

\* The manager refills the slots in new.
Grows(new) ==
  /\ new \subseteq Slots
  /\ \A w \in new : Kind(wpc[w]) \in {"none", "exited"} /\ Kind(wpc'[w]) = "idle"
  /\ \A i, j \in Slots : i < j /\ j \in new /\ wpc[i] = "none" => i \in new
  /\ Others(new)
  /\ live' = live + Cardinality(new) /\ busy' = busy
  /\ mpc = "grow"

Moves ==
  \/ Still
  \/ \E w \in Slots : Starts(w) \/ Stops(w) \/ Leaves(w)
  \/ \E new \in SUBSET Slots : Grows(new)

USE SizesAssumption DEF Kind, Others

\* A client only ever signals a worker.
LEMMA ClientStill ==
  ASSUME PoolInv, NEW c \in Clients, Add(c) \/ \E t \in Tasks : AddCall(c, t)
  PROVE  Still
<1> USE DEF PoolInv, workerVars
<1>1. CASE wpc' = wpc /\ live' = live /\ busy' = busy
  BY <1>1 DEF Still
<1>2. CASE wpc' \in Signalled(wpc) /\ live' = live /\ busy' = busy
  <2>1. \A w \in Slots : wpc'[w] = wpc[w] \/ (wpc[w] = "blocked" /\ wpc'[w] = "woken")
    BY <1>2, SignalledMoves DEF TypeOK
  <2> QED  BY <1>2, <2>1 DEF Still
<1> QED
  BY <1>1, <1>2 DEF Add, AddCall, AddFull, AddSleep, AddPush, AddShutdown,
       LateStore, LateAdvance, TaskSignal

LEMMA WorkerMoves ==
  ASSUME PoolInv, NEW w \in Slots, Worker(w)
  PROVE  Still \/ Starts(w) \/ Stops(w) \/ Leaves(w)
<1> USE DEF PoolInv, TypeOK
<1>1. CASE WorkerRetire(w)
  BY <1>1 DEF WorkerRetire, Leaves
<1>2. CASE WorkerEmpty(w)
  BY <1>2 DEF WorkerEmpty, WorkerLocks, Still
<1>3. CASE WorkerSleep(w)
  BY <1>3 DEF WorkerSleep, Still
<1>4. CASE WorkerStop(w)
  BY <1>4 DEF WorkerStop, WorkerLocks, Leaves
<1>5. CASE WorkerTake(w)
  BY <1>5 DEF WorkerTake, WorkerLocks, Still
<1>6. CASE WorkerBusy(w)
  BY <1>6 DEF WorkerBusy, Starts
<1>7. CASE WorkerRun(w)
  BY <1>7 DEF WorkerRun, Still
<1>8. CASE WorkerIdle(w)
  BY <1>8 DEF WorkerIdle, Stops
<1> QED  BY <1>1, <1>2, <1>3, <1>4, <1>5, <1>6, <1>7, <1>8 DEF Worker

\* The manager refills the lowest slots it finds without a thread.
LEMMA GrowStep ==
  ASSUME PoolInv, ManagerGrow
  PROVE  Still \/ \E new \in SUBSET Slots : Grows(new)
<1> USE DEF PoolInv, ManagerGrow
<1>1. CASE UNCHANGED <<wpc, live>>
  BY <1>1 DEF Still
<1>2. CASE \E dead \in DeadSets :
             \E new \in Refills({i \in Slots : wpc[i] = "none"} \cup dead) :
               /\ wpc' = [w \in Slots |-> IF w \in new THEN "enter" ELSE wpc[w]]
               /\ live' = live + Cardinality(new)
  <2>1. PICK dead \in DeadSets :
             \E new \in Refills({i \in Slots : wpc[i] = "none"} \cup dead) :
               /\ wpc' = [w \in Slots |-> IF w \in new THEN "enter" ELSE wpc[w]]
               /\ live' = live + Cardinality(new)
    BY <1>2
  <2>2. PICK new \in Refills({i \in Slots : wpc[i] = "none"} \cup dead) :
               /\ wpc' = [w \in Slots |-> IF w \in new THEN "enter" ELSE wpc[w]]
               /\ live' = live + Cardinality(new)
    BY <2>1
  <2>3. /\ new \subseteq Slots /\ \A w \in new : wpc[w] \in {"none", "exited"}
        /\ \A i, j \in Slots : i < j /\ j \in new /\ wpc[i] = "none" => i \in new
    BY DEF Refills, DeadSets, Exited
  <2>4. Grows(new)
    BY <2>2, <2>3 DEF Grows
  <2> QED  BY <2>3, <2>4
<1> QED  BY <1>1, <1>2

LEMMA StepMoves ==
  ASSUME PoolInv, [Next]_vars
  PROVE  Moves
<1>1. CASE \E c \in Clients : Add(c) \/ \E t \in Tasks : AddCall(c, t)
  BY <1>1, ClientStill DEF Moves
<1>2. CASE \E w \in Slots : Worker(w)
  BY <1>2, WorkerMoves DEF Moves
<1>3. CASE Manager
  <2>1. CASE ManagerGrow
    BY <2>1, GrowStep DEF Moves
  <2>2. CASE ManagerSignal
    <3>1. \A w \in Slots : wpc'[w] = wpc[w] \/ (wpc[w] = "blocked" /\ wpc'[w] = "woken")
      BY <2>2, SignalledMoves DEF ManagerSignal, PoolInv, TypeOK
    <3> QED  BY <2>2, <3>1 DEF ManagerSignal, Still, Moves
  <2> QED  BY <1>3, <2>1, <2>2 DEF Manager, ManagerTest, ManagerSample,
             ManagerSampleBusy, ManagerShrink, workerVars, Still, Moves
<1>4. CASE DestroyCall \/ Destroy
  <2>1. CASE wpc' = wpc
    BY <1>4, <2>1 DEF DestroyCall, Destroy, DestroyJoinManager, DestroyBroadcast,
         DestroyJoin, DestroyFree, Still, Moves
  <2>2. CASE DestroyBroadcast /\ wpc' = WokenAll(wpc)
    BY <2>2, WokenWorkers DEF DestroyBroadcast, PoolInv, TypeOK, Still, Moves
  <2> QED  BY <1>4, <2>1, <2>2 DEF DestroyCall, Destroy, DestroyJoinManager,
             DestroyBroadcast, DestroyJoin, DestroyFree, workerVars
<1>5. CASE SpuriousWakeup
  BY <1>5 DEF SpuriousWakeup, Blocked, PoolInv, TypeOK, Still, Moves
<1>6. CASE UNCHANGED vars
  BY <1>6 DEF vars, workerVars, Still, Moves
<1> QED  BY <1>1, <1>2, <1>3, <1>4, <1>5, <1>6 DEF Next

\* Nobody opens the pool again.
LEMMA ShutdownStays ==
  ASSUME PoolInv, [Next]_vars, shutdown
  PROVE  shutdown'
BY DEF Next, vars, Add, AddCall, AddFull, AddSleep, AddPush, AddShutdown, LateStore,
       LateAdvance, Worker, WorkerRetire, WorkerEmpty, WorkerSleep, WorkerStop,
       WorkerTake, WorkerBusy, WorkerRun, WorkerIdle, Manager, ManagerTest,
       ManagerSample, ManagerSampleBusy, ManagerGrow, ManagerShrink, ManagerSignal,
       DestroyCall, Destroy, DestroyJoinManager, DestroyBroadcast, DestroyJoin,
       DestroyFree, SpuriousWakeup

-----------------------------------------------------------------------------
(* The counters *)

LEMMA Finite ==
  /\ IsFiniteSet(Slots) /\ IsFiniteSet(Alive) /\ IsFiniteSet(Running)
  /\ Cardinality(Alive) \in Nat /\ Cardinality(Running) \in Nat
<1>1. IsFiniteSet(Slots)
  BY FS_Interval DEF Slots
<1>2. Alive \in SUBSET Slots /\ Running \in SUBSET Slots
  BY DEF Alive, Running
<1> QED  BY <1>1, <1>2, FS_Subset, FS_CardinalityType

\* The two sets by kind.
LEMMA ByKind ==
  /\ Alive = {w \in Slots : Kind(wpc[w]) \in {"idle", "busy"}}
  /\ Alive' = {w \in Slots : Kind(wpc'[w]) \in {"idle", "busy"}}
  /\ Running = {w \in Slots : Kind(wpc[w]) = "busy"}
  /\ Running' = {w \in Slots : Kind(wpc'[w]) = "busy"}
  /\ \A w \in Slots : wpc[w] = "none" <=> Kind(wpc[w]) = "none"
  /\ \A w \in Slots : wpc'[w] = "none" <=> Kind(wpc'[w]) = "none"
BY DEF Alive, Running

\* At first slots 0 .. MIN_THR-1 have a thread.
LEMMA CountInit == Init => CountInv
<1> SUFFICES ASSUME Init PROVE CountInv
  OBVIOUS
<1>1. Alive = 0 .. MIN_THR - 1 /\ Running = {}
  BY DEF Init, Alive, Running, Slots
<1>2. Cardinality(Alive) = MIN_THR /\ Cardinality(Running) = 0
  BY <1>1, FS_Interval, FS_EmptySet
<1> QED  BY <1>2 DEF Init, CountInv, Slots

LEMMA CountNext == PoolInv /\ CountInv /\ [Next]_vars => CountInv'
<1> SUFFICES ASSUME PoolInv, CountInv, [Next]_vars PROVE CountInv'
  OBVIOUS
<1>1. live \in Nat /\ shutdown \in BOOLEAN /\ (shutdown => shutdown')
  BY ShutdownStays DEF PoolInv, TypeOK
<1>2. Cardinality(Alive) \in Nat /\ Cardinality(Running) \in Nat
  BY Finite
<1> USE DEF CountInv
<1> HIDE DEF Kind
<1>3. CASE Still
  <2>1. Alive' = Alive /\ Running' = Running
    BY <1>3, ByKind DEF Still
  <2>2. \A i, j \in Slots : i < j /\ wpc'[i] = "none" => wpc'[j] = "none"
    BY <1>3, ByKind DEF Still
  <2> QED  BY <1>1, <1>2, <1>3, <2>1, <2>2 DEF Still
<1>4. ASSUME NEW w \in Slots, Starts(w) PROVE CountInv'
  <2>1. Alive' = Alive /\ Running' = Running \cup {w} /\ w \notin Running
    BY <1>4, ByKind DEF Starts
  <2>2. Cardinality(Running') = Cardinality(Running) + 1
    BY <2>1, Finite, FS_AddElement
  <2>3. \A i, j \in Slots : i < j /\ wpc'[i] = "none" => wpc'[j] = "none"
    BY <1>4, ByKind DEF Starts
  <2> QED  BY <1>1, <1>2, <1>4, <2>1, <2>2, <2>3 DEF Starts
<1>5. ASSUME NEW w \in Slots, Stops(w) PROVE CountInv'
  <2>1. Alive' = Alive /\ Running' = Running \ {w} /\ w \in Running
    BY <1>5, ByKind DEF Stops
  <2>2. Cardinality(Running') = Cardinality(Running) - 1
    BY <2>1, Finite, FS_RemoveElement
  <2>3. \A i, j \in Slots : i < j /\ wpc'[i] = "none" => wpc'[j] = "none"
    BY <1>5, ByKind DEF Stops
  <2> QED  BY <1>1, <1>2, <1>5, <2>1, <2>2, <2>3 DEF Stops
<1>6. ASSUME NEW w \in Slots, Leaves(w) PROVE CountInv'
  <2>1. Alive' = Alive \ {w} /\ w \in Alive /\ Running' = Running
    BY <1>6, ByKind DEF Leaves
  <2>2. Cardinality(Alive') = Cardinality(Alive) - 1
    BY <2>1, Finite, FS_RemoveElement
  <2>3. \A i, j \in Slots : i < j /\ wpc'[i] = "none" => wpc'[j] = "none"
    BY <1>6, ByKind DEF Leaves
  <2> QED  BY <1>1, <1>2, <1>6, <2>1, <2>2, <2>3 DEF Leaves
<1>7. ASSUME NEW new \in SUBSET Slots, Grows(new) PROVE CountInv'
  <2>1. Alive' = Alive \cup new /\ Alive \cap new = {} /\ Running' = Running
    BY <1>7, ByKind DEF Grows
  <2>2. IsFiniteSet(new) /\ Cardinality(new) \in Nat
    BY Finite, FS_Subset, FS_CardinalityType
  <2>3. Cardinality(Alive') = Cardinality(Alive) + Cardinality(new)
    <3>1. Cardinality(Alive \cap new) = 0
      BY <2>1, FS_EmptySet
    <3>2. Cardinality(Alive \cup new) =
            Cardinality(Alive) + Cardinality(new) - Cardinality(Alive \cap new)
      BY <2>2, Finite, FS_Union
    <3> QED  BY <1>2, <2>1, <2>2, <3>1, <3>2
  <2>4. \A i, j \in Slots : i < j /\ wpc'[i] = "none" => wpc'[j] = "none"
    <3> SUFFICES ASSUME NEW i \in Slots, NEW j \in Slots, i < j, wpc'[i] = "none"
                 PROVE  wpc'[j] = "none"
      OBVIOUS
    <3>1. i \notin new /\ wpc[i] = "none"
      BY <1>7, ByKind DEF Grows
    <3>2. j \notin new /\ wpc[j] = "none"
      BY <1>7, <3>1 DEF Grows
    <3> QED  BY <1>7, <3>2, ByKind DEF Grows
  <2> QED  BY <1>1, <1>2, <1>7, <2>1, <2>2, <2>3, <2>4 DEF Grows
<1> QED  BY StepMoves, <1>3, <1>4, <1>5, <1>6, <1>7 DEF Moves

\* A worker that has retired stays on record.
LEMMA ShrunkStays ==
  ASSUME PoolInv, [Next]_vars, shrunk
  PROVE  shrunk'
BY DEF Next, vars, historyVars, Add, AddCall, AddFull, AddSleep, AddPush, AddShutdown,
       LateStore, LateAdvance, Worker, WorkerRetire, WorkerEmpty, WorkerSleep,
       WorkerStop, WorkerTake, WorkerBusy, WorkerRun, WorkerIdle, Manager,
       ManagerTest, ManagerSample, ManagerSampleBusy, ManagerGrow, ManagerShrink,
       ManagerSignal, DestroyCall, Destroy, DestroyJoinManager, DestroyBroadcast,
       DestroyJoin, DestroyFree, SpuriousWakeup

LEMMA PrefixInit == Init => PrefixInv
BY DEF Init, PrefixInv, Slots

\* The manager refills the lowest slots: were one at or above the new
\* live_thr_num among them, so would be all from the old one up to it, which
\* are more than it adds.
LEMMA GrowsPrefix ==
  ASSUME PoolInv, PrefixInv, ~shrunk, NEW new \in SUBSET Slots, Grows(new),
         NEW i \in Slots, i >= live'
  PROVE  wpc'[i] = "none"
<1> HIDE DEF Kind
<1>1. /\ IsFiniteSet(new) /\ Cardinality(new) \in Nat
      /\ live \in Nat /\ i \in Nat /\ live' = live + Cardinality(new)
  <2>1. IsFiniteSet(new) /\ Cardinality(new) \in Nat
    BY Finite, FS_Subset, FS_CardinalityType
  <2>2. live \in Nat /\ i \in Nat
    BY DEF PoolInv, TypeOK, Slots
  <2> QED  BY <2>1, <2>2 DEF Grows
<1>2. i \notin new
  <2> SUFFICES ASSUME i \in new PROVE FALSE
    OBVIOUS
  <2>1. live .. i \in SUBSET new
    <3> SUFFICES ASSUME NEW j \in live .. i PROVE j \in new
      OBVIOUS
    <3>1. j \in Slots /\ wpc[j] = "none"
      BY <1>1 DEF PrefixInv, Slots
    <3> QED  BY <1>1, <3>1 DEF Grows
  <2>2. Cardinality(live .. i) = i - live + 1
    BY <1>1, FS_Interval
  <2>3. Cardinality(live .. i) <= Cardinality(new)
    BY <1>1, <2>1, FS_Subset
  <2> QED  BY <1>1, <2>2, <2>3
<1>3. wpc[i] = "none"
  BY <1>1 DEF PrefixInv
<1> QED  BY <1>2, <1>3, ByKind DEF Grows

LEMMA PrefixNext == PoolInv /\ PrefixInv /\ [Next]_vars => PrefixInv'
<1> SUFFICES ASSUME PoolInv, PrefixInv, [Next]_vars, ~shrunk', NEW i \in Slots, i >= live'
             PROVE  wpc'[i] = "none"
  BY DEF PrefixInv
<1>1. ~shrunk /\ live \in Nat /\ i \in Nat
  BY ShrunkStays DEF PoolInv, TypeOK, Slots
<1> HIDE DEF Kind
<1>2. ASSUME live' = live, NEW w \in Slots, Kind(wpc[w]) # "none", Others({w})
      PROVE  wpc'[i] = "none"
  <2>1. wpc[i] = "none" /\ i # w
    BY <1>1, <1>2, ByKind DEF PrefixInv
  <2> QED  BY <1>2, <2>1, ByKind
<1>3. CASE Still
  BY <1>1, <1>3, ByKind DEF Still, PrefixInv
<1>4. CASE \E w \in Slots : Starts(w) \/ Stops(w) \/ Leaves(w)
  BY <1>2, <1>4 DEF Starts, Stops, Leaves
<1>5. CASE \E new \in SUBSET Slots : Grows(new)
  BY <1>1, <1>5, GrowsPrefix
<1> QED  BY StepMoves, <1>3, <1>4, <1>5 DEF Moves

-----------------------------------------------------------------------------
(* threadpool_destroy *)

LEMMA JoinInit == Init => JoinInv
BY DEF Init, JoinInv

\* Once the manager is gone, a thread that has exited stays so, and
\* live_thr_num does not grow.
LEMMA ExitedStay ==
  ASSUME PoolInv, [Next]_vars, mpc # "grow"
  PROVE  /\ live' \in Nat /\ live' <= live
         /\ \A w \in Slots : wpc[w] = "exited" => wpc'[w] = "exited"
<1>1. live \in Nat /\ live \in Nat \ {0} /\ live' \in Nat
  <2>1. PoolInv'
    BY NextInv
  <2> QED  BY <2>1 DEF PoolInv, TypeOK, LiveInv
<1>2. ~ \E new \in SUBSET Slots : Grows(new)
  BY DEF Grows
<1>3. live' <= live
  BY <1>1, <1>2, StepMoves DEF Moves, Still, Starts, Stops, Leaves
<1>4. \A w \in Slots : Kind(wpc[w]) = "exited" => Kind(wpc'[w]) = "exited"
  BY <1>2, StepMoves DEF Moves, Still, Starts, Stops, Leaves
<1> QED  BY <1>1, <1>3, <1>4

LEMMA JoinNext == PoolInv /\ JoinInv /\ [Next]_vars => JoinInv'
<1> SUFFICES ASSUME PoolInv, JoinInv, [Next]_vars PROVE JoinInv'
  OBVIOUS
<1>1. live \in Nat /\ di \in Nat
  BY DEF PoolInv, TypeOK
<1>2. CASE Destroy
  <2>1. CASE DestroyJoinManager
    BY <2>1 DEF DestroyJoinManager, ManagerGone, managerVars, JoinInv
  <2>2. CASE DestroyBroadcast
    BY <1>1, <2>2 DEF DestroyBroadcast, managerVars, JoinInv, Slots
  <2>3. CASE DestroyJoin
    BY <1>1, <2>3 DEF DestroyJoin, LeftToJoin, managerVars, workerVars, JoinInv, Slots
  <2>4. CASE DestroyFree
    BY <2>4 DEF DestroyFree, managerVars, workerVars, JoinInv
  <2> QED  BY <1>2, <2>1, <2>2, <2>3, <2>4 DEF Destroy
<1>3. CASE DestroyCall
  BY <1>3 DEF DestroyCall, JoinInv
<1>4. CASE ~Destroy /\ ~DestroyCall
  <2>1. dpc' = dpc /\ di' = di
    BY <1>4 DEF Next, vars, destroyVars, Add, AddCall, AddFull, AddSleep, AddPush,
         AddShutdown, LateStore, LateAdvance, Worker, WorkerRetire, WorkerEmpty,
         WorkerSleep, WorkerStop, WorkerTake, WorkerBusy, WorkerRun, WorkerIdle,
         Manager, ManagerTest, ManagerSample, ManagerSampleBusy, ManagerGrow,
         ManagerShrink, ManagerSignal, SpuriousWakeup
  <2>2. mpc = "exited" => mpc' = "exited"
    BY <1>4 DEF Next, vars, managerVars, Add, AddCall, AddFull, AddSleep, AddPush,
         AddShutdown, LateStore, LateAdvance, Worker, WorkerRetire, WorkerEmpty,
         WorkerSleep, WorkerStop, WorkerTake, WorkerBusy, WorkerRun, WorkerIdle,
         Manager, ManagerTest, ManagerSample, ManagerSampleBusy, ManagerGrow,
         ManagerShrink, ManagerSignal, SpuriousWakeup
  <2>3. mpc = "exited" =>
          /\ live' \in Nat /\ live' <= live
          /\ \A w \in Slots : wpc[w] = "exited" => wpc'[w] = "exited"
    BY ExitedStay
  <2> QED  BY <1>1, <2>1, <2>2, <2>3 DEF JoinInv, Slots
<1> QED  BY <1>2, <1>3, <1>4

-----------------------------------------------------------------------------
(* The theorems *)

THEOREM CountInvariant == Spec => [](PoolInv /\ CountInv /\ PrefixInv /\ JoinInv)
<1>1. Init => PoolInv /\ CountInv /\ PrefixInv /\ JoinInv
  BY InitInv, CountInit, PrefixInit, JoinInit
<1>2. PoolInv /\ CountInv /\ PrefixInv /\ JoinInv /\ [Next]_vars
        => (PoolInv /\ CountInv /\ PrefixInv /\ JoinInv)'
  BY NextInv, CountNext, PrefixNext, JoinNext
<1> QED  BY <1>1, <1>2, PTL DEF Spec

\* live_thr_num stays between the sizes given to threadpool_create and counts
\* the threads there are, as long as the pool is open.
THEOREM LiveCountRight == Spec => []LiveCounted
<1>1. PoolInv /\ CountInv => LiveCounted
  BY DEF PoolInv, LiveInv, CountInv, LiveCounted
<1> QED  BY <1>1, CountInvariant, PTL

\* busy_thr_num counts the workers between its two updates.
THEOREM BusyCountRight == Spec => []BusyCounted
<1>1. CountInv => BusyCounted
  BY DEF CountInv, BusyCounted, Running
<1> QED  BY <1>1, CountInvariant, PTL

\* While the pool is open, slots 0 .. live_thr_num-1, which threadpool_destroy
\* would join, have all had a thread: were one of them without, the threads
\* there are would all be below it, and be fewer than live_thr_num.
THEOREM JoinedHadThreads == Spec => []JoinsRealThreads
<1>1. PoolInv /\ CountInv => JoinsRealThreads
  <2> SUFFICES ASSUME PoolInv, CountInv, ~shutdown,
                      NEW i \in Slots, i < live, wpc[i] = "none"
               PROVE  FALSE
    BY DEF JoinsRealThreads
  <2>1. i \in Nat /\ live \in Nat
    BY DEF PoolInv, TypeOK, Slots
  <2>2. Alive \in SUBSET (0 .. i - 1)
    <3> SUFFICES ASSUME NEW w \in Slots, wpc[w] # "none" PROVE w \in 0 .. i - 1
      BY DEF Alive
    <3>1. ~(i < w) /\ w # i
      BY DEF CountInv
    <3> QED  BY <2>1, <3>1 DEF Slots
  <2>3. Cardinality(Alive) <= i
    BY <2>1, <2>2, FewBelow
  <2> QED  BY <2>1, <2>3, Finite DEF CountInv
<1> QED  BY <1>1, CountInvariant, PTL

\* The slots threadpool_destroy has joined stay without a thread, and the
\* manager is gone by then.
THEOREM JoinedThreadsStayDead == Spec => []JoinedStayDead
<1>1. JoinInv => JoinedStayDead
  BY DEF JoinInv, JoinedStayDead
<1> QED  BY <1>1, CountInvariant, PTL

\* Until a worker retires, the pool is freed only when none of its threads is
\* left, also when the manager has added some: all slots that ever had a thread
\* are below live_thr_num, and those have been joined.
THEOREM PoolFreedLast == Spec => []FreedLastUnlessShrunk
<1>1. PoolInv /\ PrefixInv /\ JoinInv => FreedLastUnlessShrunk
  <2> SUFFICES ASSUME PoolInv, PrefixInv, JoinInv, dpc = "freed", ~shrunk
               PROVE  Alive = {}
    BY DEF FreedLastUnlessShrunk
  <2>1. \A w \in Slots : w >= live \/ w < live
    BY DEF PoolInv, TypeOK, Slots
  <2> QED  BY <2>1 DEF PrefixInv, JoinInv, Alive
<1> QED  BY <1>1, CountInvariant, PTL

-----------------------------------------------------------------------------
(* The ring as a queue *)

HIDE EnvironmentAssumption DEF Kind, Others

\* Different offsets lead from the front to different slots of the ring.
LEMMA ModDistinct ==
  ASSUME NEW m \in Nat \ {0}, NEW f \in 0 .. m - 1,
         NEW j \in 0 .. m - 1, NEW k \in 0 .. m - 1, j # k
  PROVE  (f + j) % m # (f + k) % m
<1>1. (f + j) % m = IF f + j < m THEN f + j ELSE f + j - m
  OBVIOUS
<1>2. (f + k) % m = IF f + k < m THEN f + k ELSE f + k - m
  OBVIOUS
<1> QED  BY <1>1, <1>2

LEMMA QueueIsSeq ==
  ASSUME PoolInv
  PROVE  /\ PoolQueue \in Seq(Tasks)
         /\ shutdown => PoolQueue = <<>>
         /\ ~shutdown => Len(PoolQueue) = size
<1>1. CASE ~shutdown
  <2>1. /\ size \in Nat /\ front \in Nat
        /\ \A j \in 0 .. size - 1 : ring[(front + j) % QUEUE_MAX] \in Tasks
    <3>1. size \in Nat /\ front \in Nat
      BY DEF PoolInv, TypeOK, Ring
    <3> QED  BY <1>1, <3>1 DEF PoolInv, RingInv
  <2>2. \A k \in 1 .. size : ring[(front + k - 1) % QUEUE_MAX] \in Tasks
    <3> TAKE k \in 1 .. size
    <3>1. k - 1 \in 0 .. size - 1 /\ front + k - 1 = front + (k - 1)
      BY <2>1
    <3>2. ring[(front + (k - 1)) % QUEUE_MAX] \in Tasks
      BY <2>1, <3>1
    <3> QED  BY <3>1, <3>2
  <2>3. PoolQueue = [k \in 1 .. size |-> ring[(front + k - 1) % QUEUE_MAX]]
    BY <1>1 DEF PoolQueue
  <2> QED  BY <1>1, <2>1, <2>2, <2>3
<1>2. CASE shutdown
  BY <1>2 DEF PoolQueue
<1> QED  BY <1>1, <1>2 DEF PoolInv, TypeOK

\* A step that leaves the ring alone, while the pool is open.
LEMMA QueueKept ==
  ASSUME UNCHANGED <<ring, front, size, shutdown>>
  PROVE  PoolQueue' = PoolQueue
BY DEF PoolQueue

LEMMA QueueAppended ==
  ASSUME PoolInv, NEW c \in Clients, AddPush(c)
  PROVE  PoolQueue' = Append(PoolQueue, ctask[c]) /\ Len(PoolQueue) < QUEUE_MAX
<1> USE DEF PoolInv, AddPush, AddLocks, HasRoom, FillSlot, AddReturn
<1>1. /\ ~shutdown /\ ~shutdown' /\ front' = front
      /\ size \in 0 .. QUEUE_MAX - 1 /\ size' = size + 1
      /\ front \in 0 .. QUEUE_MAX - 1
      /\ rear = (front + size) % QUEUE_MAX
      /\ ring' = [ring EXCEPT ![rear] = ctask[c]] /\ ring \in [Ring -> Tasks \cup {NULL, Junk}]
  BY DEF TypeOK, RingInv, Ring
<1>2. PoolQueue = [k \in 1 .. size |-> ring[(front + k - 1) % QUEUE_MAX]]
  BY <1>1 DEF PoolQueue
<1>3. PoolQueue' = [k \in 1 .. size + 1 |-> ring'[(front + k - 1) % QUEUE_MAX]]
  BY <1>1 DEF PoolQueue
<1>4. \A k \in 1 .. size : ring'[(front + k - 1) % QUEUE_MAX] = ring[(front + k - 1) % QUEUE_MAX]
  <2> TAKE k \in 1 .. size
  <2>1. k - 1 \in 0 .. QUEUE_MAX - 1 /\ k - 1 # size /\ front + k - 1 = front + (k - 1)
    BY <1>1
  <2>2. (front + (k - 1)) % QUEUE_MAX # rear
    BY <1>1, <2>1, ModDistinct
  <2> QED  BY <1>1, <2>1, <2>2
<1>5. ring'[(front + (size + 1) - 1) % QUEUE_MAX] = ctask[c]
  <2>1. front + (size + 1) - 1 = front + size /\ rear \in Ring
    BY <1>1 DEF TypeOK
  <2> QED  BY <1>1, <2>1
<1>6. Len(PoolQueue) = size
  BY <1>1, <1>2
<1>7. Append(PoolQueue, ctask[c]) =
        [k \in 1 .. size + 1 |-> IF k = size + 1 THEN ctask[c] ELSE PoolQueue[k]]
  BY <1>1, <1>2, <1>6, QueueIsSeq
<1>8. \A k \in 1 .. size + 1 : ring'[(front + k - 1) % QUEUE_MAX] =
                              IF k = size + 1 THEN ctask[c] ELSE PoolQueue[k]
  <2> TAKE k \in 1 .. size + 1
  <2>1. CASE k = size + 1
    BY <1>5, <2>1
  <2>2. CASE k # size + 1
    <3>1. k \in 1 .. size
      BY <1>1, <2>2
    <3> QED  BY <1>2, <1>4, <2>2, <3>1
  <2> QED  BY <2>1, <2>2
<1> HIDE DEF PoolInv, AddPush, AddLocks, HasRoom, FillSlot, AddReturn
<1>9. PoolQueue' = Append(PoolQueue, ctask[c])
  BY <1>3, <1>7, <1>8
<1>10. Len(PoolQueue) < QUEUE_MAX
  BY <1>1, <1>6
<1> QED  BY <1>9, <1>10

LEMMA QueueTaken ==
  ASSUME PoolInv, NEW w \in Slots, WorkerTake(w)
  PROVE  /\ PoolQueue # <<>> /\ ring[front] = Head(PoolQueue)
         /\ PoolQueue' = Tail(PoolQueue)
<1> USE DEF PoolInv, WorkerTake, MayTake
<1>1. /\ ~shutdown /\ ~shutdown' /\ ring' = ring
      /\ size \in 1 .. QUEUE_MAX /\ size' = size - 1
      /\ front \in 0 .. QUEUE_MAX - 1 /\ front' = (front + 1) % QUEUE_MAX
  BY DEF TypeOK, RingInv, Ring, Succ
<1>2. PoolQueue = [k \in 1 .. size |-> ring[(front + k - 1) % QUEUE_MAX]]
  BY <1>1 DEF PoolQueue
<1>3. PoolQueue' = [k \in 1 .. size - 1 |-> ring[(front' + k - 1) % QUEUE_MAX]]
  BY <1>1 DEF PoolQueue
<1>4. PoolQueue \in Seq(Tasks) /\ Len(PoolQueue) = size
  BY <1>1, QueueIsSeq
<1>5. PoolQueue # <<>> /\ Head(PoolQueue) = PoolQueue[1]
  BY <1>1, <1>4
<1>6. PoolQueue[1] = ring[front]
  <2>1. (front + 1 - 1) % QUEUE_MAX = front /\ 1 \in 1 .. size
    BY <1>1
  <2> QED  BY <1>2, <2>1
<1>7. Tail(PoolQueue) = [k \in 1 .. size - 1 |-> PoolQueue[k + 1]]
  BY <1>1, <1>4, <1>5, TailIs
<1>8. \A k \in 1 .. size - 1 : ring[(front' + k - 1) % QUEUE_MAX] = PoolQueue[k + 1]
  <2> TAKE k \in 1 .. size - 1
  <2>1. /\ k - 1 \in 0 .. QUEUE_MAX - 1 /\ front' + k - 1 = front' + (k - 1)
        /\ front + (k + 1) - 1 = front + ((k - 1) + 1) /\ k + 1 \in 1 .. size
    BY <1>1, ModStep
  <2>2. (front' + (k - 1)) % QUEUE_MAX = (front + ((k - 1) + 1)) % QUEUE_MAX
    BY <1>1, <2>1, ModStep
  <2> QED  BY <1>2, <2>1, <2>2
<1> QED  BY <1>3, <1>5, <1>6, <1>7, <1>8

-----------------------------------------------------------------------------
(* Every task is in one place *)

\* A worker that is not at work on a task has none.
IdleInv == \A w \in Slots : wtask[w] # NULL => wpc[w] \in {"fetched", "running"}

\* While the pool is open, a task that was offered is with one client, in one
\* place of the queue, with one worker, or done.
PlaceInv ==
  /\ \A c, d \in Clients : ctask[c] = ctask[d] /\ ctask[c] # NULL => c = d
  /\ \A w, v \in Slots : wtask[w] = wtask[v] /\ wtask[w] # NULL => w = v
  /\ Injective(PoolQueue)
  /\ \A c \in Clients : ctask[c] # NULL =>
       /\ ctask[c] \in offered \ (done \cup Elements(PoolQueue))
       /\ \A w \in Slots : wtask[w] # ctask[c]
  /\ \A w \in Slots : wtask[w] # NULL =>
       wtask[w] \in offered \ (done \cup Elements(PoolQueue))
  /\ Elements(PoolQueue) \subseteq offered \ done
  /\ done \subseteq offered

UniqueInv == IdleInv /\ (~shutdown => PlaceInv)

LEMMA UniqueInit == Init => UniqueInv
<1> SUFFICES ASSUME Init PROVE UniqueInv
  OBVIOUS
<1>1. PoolQueue = <<>> /\ Elements(<<>>) = {} /\ Injective(<<>>)
  BY DEF Init, PoolQueue, Elements, Injective
<1> QED  BY <1>1 DEF Init, UniqueInv, IdleInv, PlaceInv

\* A step that moves no task keeps the invariant, and is none of the abstract
\* pool's.
Quiet == UNCHANGED <<PoolQueue, ctask, wtask, offered, done, shutdown>>

LEMMA QuietKeeps ==
  ASSUME UniqueInv, Quiet, IdleInv'
  PROVE  UniqueInv'
BY DEF UniqueInv, Quiet, PlaceInv

\* A client brings a new task.
LEMMA CallKeeps ==
  ASSUME PoolInv, UniqueInv, NEW c \in Clients, NEW t \in Tasks, AddCall(c, t)
  PROVE  UniqueInv'
<1> USE DEF AddCall
<1>1. /\ PoolQueue' = PoolQueue /\ t \notin offered /\ t # NULL
      /\ ctask' = [ctask EXCEPT ![c] = t] /\ ctask \in [Clients -> Tasks \cup {NULL}]
      /\ UNCHANGED <<wpc, wtask, done, shutdown>> /\ offered' = offered \cup {t}
  BY QueueKept, NamesAssumption DEF queueVars, workerVars, PoolInv, TypeOK
<1>2. ASSUME PlaceInv PROVE PlaceInv'
  BY <1>1, <1>2 DEF PlaceInv
<1> QED  BY <1>1, <1>2 DEF UniqueInv, IdleInv

\* It puts it into the queue.
LEMMA PushKeeps ==
  ASSUME PoolInv, UniqueInv, NEW c \in Clients, AddPush(c)
  PROVE  UniqueInv'
<1> DEFINE t == ctask[c]
           q == PoolQueue
<1>1. /\ t \in Tasks /\ t # NULL /\ ~shutdown /\ ~shutdown'
      /\ UNCHANGED <<wtask, done, offered>>
      /\ ctask' = [ctask EXCEPT ![c] = NULL] /\ ctask \in [Clients -> Tasks \cup {NULL}]
  BY NamesAssumption DEF AddPush, AddLocks, AddReturn, PoolInv, TypeOK, PhaseInv
<1>2. q \in Seq(Tasks) /\ Injective(q) /\ t \notin Elements(q) /\ PlaceInv
  BY <1>1, QueueIsSeq DEF UniqueInv, PlaceInv
<1>3. /\ Elements(PoolQueue') = Elements(PoolQueue) \cup {t}
      /\ Injective(PoolQueue')
  <2>1. PoolQueue' = Append(q, t)
    BY QueueAppended
  <2> QED  BY <1>1, <1>2, <2>1, AppendNew
<1>4. \A w \in Slots : wpc'[w] = wpc[w] \/ (wpc[w] = "blocked" /\ wpc'[w] = "woken")
  BY SignalledMoves DEF AddPush, TaskSignal, PoolInv, TypeOK
<1>5. IdleInv'
  BY <1>1, <1>4 DEF UniqueInv, IdleInv
<1>6. \A d \in Clients : ctask'[d] # NULL => d # c /\ ctask'[d] = ctask[d] /\ ctask[d] # t
  BY <1>1, <1>2 DEF PlaceInv
<1> HIDE DEF q
<1>7. PlaceInv'
  BY <1>1, <1>2, <1>3, <1>6 DEF PlaceInv
<1> QED  BY <1>5, <1>7 DEF UniqueInv

\* A worker takes it out.
LEMMA TakeKeeps ==
  ASSUME PoolInv, UniqueInv, NEW w \in Slots, WorkerTake(w)
  PROVE  UniqueInv'
<1> DEFINE t == ring[front]
<1>1. /\ ~shutdown /\ ~shutdown' /\ UNCHANGED <<ctask, done, offered>>
      /\ wtask' = [wtask EXCEPT ![w] = t] /\ wtask \in [Slots -> Tasks \cup {NULL}]
      /\ wpc' = [wpc EXCEPT ![w] = "fetched"] /\ wpc \in [Slots -> WorkerPC]
      /\ wpc[w] \in {"enter", "woken"}
  BY DEF WorkerTake, MayTake, WorkerLocks, historyVars, PoolInv, TypeOK
<1>2. /\ t \in Elements(PoolQueue)
      /\ Elements(PoolQueue') = Elements(PoolQueue) \ {t} /\ Injective(PoolQueue')
  <2>1. PoolQueue \in Seq(Tasks) /\ Injective(PoolQueue)
    BY <1>1, QueueIsSeq DEF UniqueInv, PlaceInv
  <2>2. PoolQueue # <<>> /\ t = Head(PoolQueue) /\ PoolQueue' = Tail(PoolQueue)
    BY QueueTaken
  <2> QED  BY <2>1, <2>2, TailRest
<1> HIDE DEF t
<1>3. PlaceInv
  BY <1>1 DEF UniqueInv
<1>4. wtask[w] = NULL /\ IdleInv'
  BY <1>1 DEF UniqueInv, IdleInv
<1>5. PlaceInv'
  BY <1>1, <1>2, <1>3 DEF PlaceInv
<1> QED  BY <1>4, <1>5 DEF UniqueInv

\* And it has run it.
LEMMA RunKeeps ==
  ASSUME PoolInv, UniqueInv, NEW w \in Slots, WorkerRun(w)
  PROVE  UniqueInv' /\ PoolQueue' = PoolQueue /\ wtask[w] \in Tasks
<1>1. /\ wtask[w] \in Tasks /\ wtask[w] # NULL /\ PoolQueue' = PoolQueue
      /\ UNCHANGED <<ctask, shutdown, offered>>
      /\ done' = done \cup {wtask[w]}
      /\ wtask' = [wtask EXCEPT ![w] = NULL] /\ wtask \in [Slots -> Tasks \cup {NULL}]
      /\ wpc' = [wpc EXCEPT ![w] = "ran"] /\ wpc \in [Slots -> WorkerPC]
  BY QueueKept, NamesAssumption
     DEF WorkerRun, queueVars, clientVars, PoolInv, TypeOK, PhaseInv
<1>2. IdleInv'
  BY <1>1 DEF UniqueInv, IdleInv
<1>3. ASSUME PlaceInv PROVE PlaceInv'
  BY <1>1, <1>3 DEF PlaceInv
<1> QED  BY <1>1, <1>2, <1>3 DEF UniqueInv

-----------------------------------------------------------------------------
(* What each step is to the abstract pool *)

\* After the shutdown the queue counts for nothing.
AfterShutdown == shutdown /\ shutdown' /\ UNCHANGED <<wtask, done>>

Stutters == (Quiet \/ AfterShutdown) /\ IdleInv'

\* A step that leaves the tasks alone, and starts no work but in slots without
\* a task.
LEMMA StutterStep ==
  ASSUME UniqueInv, UNCHANGED wtask, Quiet \/ AfterShutdown,
         \A w \in Slots : wpc[w] \in {"fetched", "running"} => wpc'[w] \in {"fetched", "running"}
  PROVE  Stutters
BY DEF Stutters, UniqueInv, IdleInv

LEMMA ClientStutters ==
  ASSUME PoolInv, UniqueInv, NEW c \in Clients, Add(c)
  PROVE  AddPush(c) \/ Stutters
<1> USE DEF queueVars, workerVars, historyVars, PoolInv, TypeOK
<1>1. CASE AddFull(c) \/ AddSleep(c) \/ AddShutdown(c)
  <2>1. Quiet /\ UNCHANGED <<wpc, wtask>>
    BY <1>1, QueueKept DEF AddFull, AddSleep, AddShutdown, Quiet
  <2> QED  BY <2>1, StutterStep
<1>2. CASE LateStore(c)
  <2>1. AfterShutdown /\ UNCHANGED <<wpc, wtask>>
    BY <1>2 DEF LateStore, PhaseInv, AfterShutdown
  <2> QED  BY <2>1, StutterStep
<1>3. CASE LateAdvance(c)
  <2>1. AfterShutdown
    BY <1>3 DEF LateAdvance, PhaseInv, AfterShutdown
  <2>2. \A w \in Slots : wpc'[w] = wpc[w] \/ (wpc[w] = "blocked" /\ wpc'[w] = "woken")
    BY <1>3, SignalledMoves DEF LateAdvance, TaskSignal
  <2> QED  BY <1>3, <2>1, <2>2, StutterStep DEF LateAdvance
<1> QED  BY <1>1, <1>2, <1>3 DEF Add

LEMMA WorkerStutters ==
  ASSUME PoolInv, UniqueInv, NEW w \in Slots, Worker(w)
  PROVE  WorkerTake(w) \/ WorkerRun(w) \/ Stutters
<1> USE DEF queueVars, clientVars, historyVars, PoolInv, TypeOK
<1>1. ASSUME ~WorkerTake(w), ~WorkerRun(w)
      PROVE  /\ UNCHANGED <<ring, front, size, shutdown, ctask, wtask, offered, done>>
             /\ \A v \in Slots \ {w} : wpc'[v] = wpc[v]
             /\ wpc[w] \in {"fetched", "running"} => wpc'[w] \in {"fetched", "running"}
  BY <1>1 DEF Worker, WorkerRetire, WorkerEmpty, WorkerSleep, WorkerStop,
       WorkerLocks, WorkerBusy, WorkerIdle
<1>2. ASSUME ~WorkerTake(w), ~WorkerRun(w) PROVE Stutters
  BY <1>1, <1>2, QueueKept, StutterStep DEF Quiet
<1> QED  BY <1>2

LEMMA ManagerStutters ==
  ASSUME PoolInv, UniqueInv, Manager
  PROVE  Stutters
<1>1. Quiet /\ UNCHANGED wtask
  BY QueueKept DEF Manager, ManagerTest, ManagerSample, ManagerSampleBusy,
     ManagerGrow, ManagerShrink, ManagerSignal, queueVars, workerVars, clientVars,
     historyVars, Quiet
<1>2. CASE ManagerGrow
  BY <1>1, <1>2, GrowMoves, StutterStep
<1>3. CASE ManagerSignal
  <2>1. \A w \in Slots : wpc'[w] = wpc[w] \/ (wpc[w] = "blocked" /\ wpc'[w] = "woken")
    BY <1>3, SignalledMoves DEF ManagerSignal, PoolInv, TypeOK
  <2> QED  BY <1>1, <2>1, StutterStep
<1>4. CASE UNCHANGED wpc
  BY <1>1, <1>4, StutterStep
<1> QED
  BY <1>2, <1>3, <1>4 DEF Manager, ManagerTest, ManagerSample, ManagerSampleBusy,
     ManagerShrink, workerVars

LEMMA DestroyStutters ==
  ASSUME PoolInv, UniqueInv, Destroy \/ SpuriousWakeup
  PROVE  Stutters
<1>1. Quiet /\ UNCHANGED wtask
  BY QueueKept DEF Destroy, DestroyJoinManager, DestroyBroadcast, DestroyJoin,
     DestroyFree, SpuriousWakeup, queueVars, workerVars, clientVars, historyVars,
     Quiet
<1>2. \A w \in Slots : wpc'[w] = wpc[w] \/ (wpc[w] = "blocked" /\ wpc'[w] = "woken")
  BY WokenWorkers DEF Destroy, DestroyJoinManager, DestroyBroadcast, DestroyJoin,
     DestroyFree, SpuriousWakeup, Blocked, workerVars, PoolInv, TypeOK
<1> QED  BY <1>1, <1>2, StutterStep

\* The steps that move a task or close the pool, and the others.
LEMMA StepKinds ==
  ASSUME PoolInv, UniqueInv, [Next]_vars
  PROVE  \/ Stutters
         \/ \E c \in Clients : AddPush(c) \/ \E t \in Tasks : AddCall(c, t)
         \/ \E w \in Slots : WorkerTake(w) \/ WorkerRun(w)
         \/ DestroyCall
<1>1. CASE UNCHANGED vars
  <2>1. Quiet /\ UNCHANGED <<wpc, wtask>>
    BY <1>1, QueueKept DEF vars, queueVars, workerVars, clientVars, historyVars, Quiet
  <2> QED  BY <2>1, StutterStep
<1>2. CASE \E c \in Clients : Add(c)
  BY <1>2, ClientStutters
<1>3. CASE \E w \in Slots : Worker(w)
  BY <1>3, WorkerStutters
<1> QED
  BY <1>1, <1>2, <1>3, ManagerStutters, DestroyStutters DEF Next

LEMMA UniqueNext == PoolInv /\ UniqueInv /\ [Next]_vars => UniqueInv'
<1> SUFFICES ASSUME PoolInv, UniqueInv, [Next]_vars PROVE UniqueInv'
  OBVIOUS
<1>1. CASE Stutters
  BY <1>1, QuietKeeps DEF Stutters, AfterShutdown, UniqueInv
<1>2. CASE DestroyCall
  BY <1>2 DEF DestroyCall, workerVars, UniqueInv, IdleInv
<1> QED  BY <1>1, <1>2, StepKinds, CallKeeps, PushKeeps, TakeKeeps, RunKeeps

-----------------------------------------------------------------------------
(* The refinement *)

LEMMA AbstractInit == Init => Abstract!Init
BY DEF Init, Abstract!Init, PoolQueue

LEMMA QueuedIs ==
  ASSUME PoolInv
  PROVE  Abstract!Queued = Elements(PoolQueue)
<1>1. DOMAIN PoolQueue = 1 .. Len(PoolQueue)
  BY QueueIsSeq
<1> QED  BY <1>1 DEF Abstract!Queued, Elements

LEMMA PushAccepts ==
  ASSUME PoolInv, UniqueInv, NEW c \in Clients, AddPush(c)
  PROVE  Abstract!Accept(ctask[c])
<1>1. /\ ctask[c] \in Tasks /\ ctask[c] # NULL /\ ~shutdown
      /\ UNCHANGED <<wtask, done, shutdown>>
  BY NamesAssumption DEF AddPush, AddLocks, PoolInv, TypeOK, PhaseInv
<1>2. ctask[c] \notin Elements(PoolQueue) \cup Abstract!Running \cup done
  BY <1>1 DEF UniqueInv, PlaceInv, Abstract!Running
<1> QED  BY <1>1, <1>2, QueueAppended, QueuedIs DEF Abstract!Accept

LEMMA TakeStarts ==
  ASSUME PoolInv, UniqueInv, NEW w \in Slots, WorkerTake(w)
  PROVE  Abstract!Start(w)
<1>1. /\ ~shutdown /\ wpc[w] \in {"enter", "woken"}
      /\ UNCHANGED <<done, shutdown>> /\ wtask' = [wtask EXCEPT ![w] = ring[front]]
  BY DEF WorkerTake, MayTake, WorkerLocks, historyVars
<1>2. wtask[w] = NULL
  BY <1>1 DEF UniqueInv, IdleInv
<1> QED  BY <1>1, <1>2, QueueTaken DEF Abstract!Start

LEMMA RunFinishes ==
  ASSUME PoolInv, UniqueInv, NEW w \in Slots, WorkerRun(w)
  PROVE  Abstract!Finish(w)
<1>1. /\ done' = done \cup {wtask[w]} /\ wtask' = [wtask EXCEPT ![w] = NULL]
      /\ UNCHANGED shutdown
  BY DEF WorkerRun
<1> QED  BY <1>1, RunKeeps, NamesAssumption DEF Abstract!Finish

LEMMA AbstractStep ==
  ASSUME PoolInv, UniqueInv, [Next]_vars
  PROVE  [Abstract!Next]_(Abstract!vars)
<1>1. CASE Stutters
  <2>1. CASE Quiet
    BY <2>1 DEF Quiet, Abstract!vars
  <2>2. CASE AfterShutdown
    <3>1. shutdown = TRUE /\ shutdown' = TRUE
      BY <2>2, NextInv DEF AfterShutdown, PoolInv, TypeOK
    <3> QED  BY <2>2, <3>1 DEF AfterShutdown, PoolQueue, Abstract!vars
  <2> QED  BY <1>1, <2>1, <2>2 DEF Stutters
<1>2. CASE \E c \in Clients : \E t \in Tasks : AddCall(c, t)
  BY <1>2, QueueKept DEF AddCall, queueVars, workerVars, Abstract!vars
<1>3. ASSUME NEW c \in Clients, AddPush(c) PROVE Abstract!Next
  <2>1. ctask[c] \in Tasks
    BY <1>3 DEF AddPush, AddLocks, PoolInv, PhaseInv
  <2> QED  BY <1>3, <2>1, PushAccepts DEF Abstract!Next
<1>4. CASE \E w \in Slots : WorkerTake(w) \/ WorkerRun(w)
  BY <1>4, TakeStarts, RunFinishes DEF Abstract!Next
<1>5. CASE DestroyCall
  <2>1. ~shutdown /\ shutdown' = TRUE /\ PoolQueue' = <<>> /\ UNCHANGED <<wtask, done>>
    BY <1>5 DEF DestroyCall, workerVars, historyVars, PoolQueue, PoolInv, TypeOK, PhaseInv
  <2> QED  BY <2>1 DEF Abstract!Close, Abstract!Next
<1> QED  BY <1>1, <1>2, <1>3, <1>4, <1>5, StepKinds

\* Every behaviour of threadpool.c is one of the bounded FIFO queue of TaskPool:
\* whatever clients, workers, manager and shutdown do, tasks are started in the
\* order in which threadpool_add stored them, none is run twice, and none is
\* started once `shutdown' is set.
THEOREM PoolRefines == Spec => ImplementsTaskPool
<1>1. Spec => []PoolInv
  BY PoolInvariant
<1>2. Init => UniqueInv
  BY UniqueInit
<1>3. PoolInv /\ UniqueInv /\ [Next]_vars => UniqueInv'
  BY UniqueNext
<1>4. Init => Abstract!Init
  BY AbstractInit
<1>5. PoolInv /\ UniqueInv /\ [Next]_vars => [Abstract!Next]_(Abstract!vars)
  BY AbstractStep
<1> QED
  BY <1>1, <1>2, <1>3, <1>4, <1>5, PTL DEF Spec, ImplementsTaskPool, Abstract!Spec

=============================================================================

---------------------------- MODULE CThreadPool ----------------------------
(***************************************************************************)
(* The C thread pool of thread_pool/threadpool.c: worker threads that take *)
(* tasks from a ring, client threads in threadpool_add, the manager thread *)
(* that grows and shrinks the pool, and the client in threadpool_destroy.  *)
(*                                                                         *)
(* A step is what one thread does between two points at which another      *)
(* thread can see or change something it uses.  A critical section of      *)
(* pool->lock is one step, except where the thread is between the test of  *)
(* a while loop and pthread_cond_wait: `shutdown', the broadcasts of       *)
(* threadpool_destroy and the signals of adjust_thread take no lock, so    *)
(* they can fall into that gap.  A critical section of thread_counter is   *)
(* a single statement and always one step.                                 *)
(***************************************************************************)
EXTENDS Integers, FiniteSets

CONSTANTS
  MIN_THR, MAX_THR, QUEUE_MAX,  \* the arguments of threadpool_create
  MIN_WAIT_TASK_NUM,            \* queue length at which the pool grows
  DEFAULT_THREAD_VARY,          \* threads added, or asked to leave, at once
  Tasks,                        \* tasks (a task stands for its argument too)
  Clients,                      \* threads that call threadpool_add
  NULL,                         \* a NULL argument pointer; also "no task"
  Junk,                         \* a pointer read from uninitialised memory
  NoOne,                        \* "the mutex is free"
  Destroyer,                    \* the thread in threadpool_destroy
  ArgInit,                      \* what malloc may leave in a slot's arg
  WaitExitInit,                 \* what malloc may leave in wait_exit_thr_num
  KillOutcomes,                 \* is_thread_alive's answers for a dead thread
  SpuriousWakeups               \* may pthread_cond_wait return unsignalled?

Slots == 0 .. MAX_THR - 1       \* indices of pool->threads
Ring == 0 .. QUEUE_MAX - 1      \* indices of pool->task_queue

ASSUME SizesAssumption ==
  /\ MIN_THR \in Nat \ {0}
  /\ MAX_THR \in Nat
  /\ MIN_THR <= MAX_THR
  /\ QUEUE_MAX \in Nat \ {0}
  /\ MIN_WAIT_TASK_NUM \in Nat
  /\ DEFAULT_THREAD_VARY \in Nat \ {0}

ASSUME NamesAssumption ==
  /\ NULL \notin Tasks /\ Junk \notin Tasks /\ NULL # Junk
  /\ NoOne \notin Slots \cup Clients
  /\ Destroyer \notin Slots \cup Clients \cup {NoOne}
  /\ Slots \cap Clients = {}

ASSUME EnvironmentAssumption ==
  /\ ArgInit \subseteq {NULL, Junk} /\ ArgInit # {}
  /\ WaitExitInit \subseteq Int /\ WaitExitInit # {}
  /\ KillOutcomes \subseteq BOOLEAN /\ KillOutcomes # {}
  /\ SpuriousWakeups \in BOOLEAN

VARIABLES
  lock,       \* owner of pool->lock
  ring,       \* pool->task_queue: the arg (= task) each slot holds
  front,      \* pool->queue_front
  rear,       \* pool->queue_rear
  size,       \* pool->queue_size
  live,       \* pool->live_thr_num
  busy,       \* pool->busy_thr_num
  waitExit,   \* pool->wait_exit_thr_num
  shutdown,   \* pool->shutdown
  wpc,        \* where the thread of each slot is
  wtask,      \* its local variable `task'
  cpc,        \* where each client of threadpool_add is
  ctask,      \* the task it adds
  mpc,        \* where the manager thread is
  snap,       \* its local copies of queue_size, live and busy_thr_num
  sig,        \* signals it still has to send
  dpc,        \* where threadpool_destroy is
  di,         \* its loop variable i
  offered,    \* history: tasks a client has asked the pool to run
  done,       \* history: tasks whose function has returned
  freed,      \* history: the args given to free()
  shrunk      \* history: a worker has retired

queueVars == <<ring, front, rear, size>>
workerVars == <<wpc, wtask>>
clientVars == <<cpc, ctask>>
managerVars == <<mpc, snap, sig>>
destroyVars == <<dpc, di>>
historyVars == <<offered, done, freed, shrunk>>
vars == <<lock, queueVars, live, busy, waitExit, shutdown, workerVars,
          clientVars, managerVars, destroyVars, historyVars>>

WorkerPC == {"none", "enter", "waiting", "blocked", "woken",
             "fetched", "running", "ran", "exited"}
ClientPC == {"idle", "calling", "full", "blocked", "woken", "late", "later"}
ManagerPC == {"loop", "asleep", "sampled", "grow", "shrink", "signal", "exited"}
DestroyPC == {"idle", "joinManager", "broadcast", "join", "free", "freed"}

\* A mutation of Succ: the index runs past the end of the ring.
SuccUnwrapped(i) == i + 1

Succ(i) == (i + 1) % QUEUE_MAX

Blocked == {w \in Slots : wpc[w] = "blocked"}
Exited == {w \in Slots : wpc[w] = "exited"}
Alive == {w \in Slots : wpc[w] \notin {"none", "exited"}}

\* pthread_cond_signal(&queue_not_empty), pc being the workers' places after
\* the rest of the step: it wakes one of the blocked workers, if there is one.
Signalled(pc) ==
  LET asleep == {w \in Slots : pc[w] = "blocked"}
  IN  IF asleep = {} THEN {pc}
      ELSE {[pc EXCEPT ![w] = "woken"] : w \in asleep}

\* pthread_cond_broadcast on either condition variable.
WokenAll(pc) ==
  [p \in DOMAIN pc |-> IF pc[p] = "blocked" THEN "woken" ELSE pc[p]]

-----------------------------------------------------------------------------
NoSnap == [size |-> 0, live |-> 0, busy |-> 0]

\* threadpool_create: MIN_THR workers and the manager have been started.
\* wait_exit_thr_num and the slots of task_queue are left as malloc left them.
Init ==
  /\ lock = NoOne
  /\ ring \in [Ring -> ArgInit]
  /\ front = 0 /\ rear = 0 /\ size = 0
  /\ live = MIN_THR
  /\ busy = 0
  /\ waitExit \in WaitExitInit
  /\ shutdown = FALSE
  /\ wpc = [w \in Slots |-> IF w < MIN_THR THEN "enter" ELSE "none"]
  /\ wtask = [w \in Slots |-> NULL]
  /\ cpc = [c \in Clients |-> "idle"]
  /\ ctask = [c \in Clients |-> NULL]
  /\ mpc = "loop"
  /\ snap = NoSnap
  /\ sig = 0
  /\ dpc = "idle" /\ di = 0
  /\ offered = {} /\ done = {} /\ freed = {} /\ shrunk = FALSE

-----------------------------------------------------------------------------
(* threadpool_add *)

\* A client calls threadpool_add with a task of its own.
AddCall(c, t) ==
  /\ cpc[c] = "idle"
  /\ t \notin offered /\ dpc # "freed"
  /\ cpc' = [cpc EXCEPT ![c] = "calling"]
  /\ ctask' = [ctask EXCEPT ![c] = t]
  /\ offered' = offered \cup {t}
  /\ UNCHANGED <<lock, queueVars, live, busy, waitExit, shutdown, workerVars,
                 managerVars, destroyVars, done, freed, shrunk>>

\* The client takes the lock, on entry or on its way out of cond_wait.
AddLocks(c) == cpc[c] \in {"calling", "woken"} /\ lock = NoOne

\* A mutation of HasRoom: a woken client does not look again (`if' for `while').
HasRoomUnchecked(c) == size # QUEUE_MAX \/ cpc[c] = "woken"

HasRoom(c) == size # QUEUE_MAX

\* The queue is full: the client, holding the lock, is about to wait.
AddFull(c) ==
  /\ AddLocks(c)
  /\ ~HasRoom(c) /\ ~shutdown
  /\ lock' = c
  /\ cpc' = [cpc EXCEPT ![c] = "full"]
  /\ UNCHANGED <<queueVars, live, busy, waitExit, shutdown, workerVars, ctask,
                 managerVars, destroyVars, historyVars>>

\* pthread_cond_wait(&queue_not_full) gives up the lock.
AddSleep(c) ==
  /\ cpc[c] = "full"
  /\ lock' = NoOne
  /\ cpc' = [cpc EXCEPT ![c] = "blocked"]
  /\ UNCHANGED <<queueVars, live, busy, waitExit, shutdown, workerVars, ctask,
                 managerVars, destroyVars, historyVars>>

\* The slot at rear gets the task; an arg left there by an earlier task is
\* given to free() first.
FillSlot(c) ==
  /\ ring' = [ring EXCEPT ![rear] = ctask[c]]
  /\ freed' = freed \cup ({ring[rear]} \ {NULL})

AddReturn(c) ==
  /\ cpc' = [cpc EXCEPT ![c] = "idle"]
  /\ ctask' = [ctask EXCEPT ![c] = NULL]

\* A mutation of TaskSignal: only the first task of an empty queue is told.
TaskSignalOnEmpty == IF size = 0 THEN wpc' \in Signalled(wpc) ELSE wpc' = wpc

\* One worker is told of the new task.
TaskSignal == wpc' \in Signalled(wpc)

\* There is room: store the task, signal one worker, unlock, return 0.
AddPush(c) ==
  /\ AddLocks(c)
  /\ HasRoom(c) /\ ~shutdown
  /\ FillSlot(c)
  /\ rear' = Succ(rear)
  /\ size' = size + 1
  /\ TaskSignal
  /\ AddReturn(c)
  /\ UNCHANGED <<lock, front, live, busy, waitExit, shutdown, wtask,
                 managerVars, destroyVars, offered, done,
                 shrunk>>

\* The pool is shut down: the client unlocks, and goes on without the lock.
AddShutdown(c) ==
  /\ AddLocks(c)
  /\ shutdown
  /\ cpc' = [cpc EXCEPT ![c] = "late"]
  /\ UNCHANGED <<lock, queueVars, live, busy, waitExit, shutdown, workerVars,
                 ctask, managerVars, destroyVars, historyVars>>

LateStore(c) ==
  /\ cpc[c] = "late"
  /\ dpc # "freed"
  /\ FillSlot(c)
  /\ cpc' = [cpc EXCEPT ![c] = "later"]
  /\ UNCHANGED <<lock, front, rear, size, live, busy, waitExit, shutdown,
                 workerVars, ctask, managerVars, destroyVars, offered, done,
                 shrunk>>

\* Without the lock the updates of rear and size race with those of the other
\* late clients, and each can be lost; the second unlock leaves the mutex free.
LateAdvance(c) ==
  LET races == \E other \in Clients \ {c} : cpc[other] = "later"
  IN  /\ cpc[c] = "later"
      /\ dpc # "freed"
      /\ rear' \in {Succ(rear)} \cup (IF races THEN {rear} ELSE {})
      /\ size' \in {size + 1} \cup (IF races THEN {size} ELSE {})
      /\ TaskSignal
      /\ lock' = NoOne
      /\ AddReturn(c)
      /\ UNCHANGED <<ring, front, live, busy, waitExit, shutdown, wtask,
                     managerVars, destroyVars, historyVars>>

-----------------------------------------------------------------------------
(* threadpool_thread *)

\* A mutation of MustRetire: the test of live_thr_num is missing.
MustRetireUnbounded == waitExit > 0

\* A woken worker sees that threads are to leave, and that it may.
MustRetire == waitExit > 0 /\ live > MIN_THR

\* A woken worker, the lock its own again, leaves the pool.
WorkerRetire(w) ==
  /\ wpc[w] = "woken" /\ lock = NoOne
  /\ MustRetire
  /\ waitExit' = waitExit - 1
  /\ live' = live - 1
  /\ wpc' = [wpc EXCEPT ![w] = "exited"]
  /\ shrunk' = TRUE
  /\ UNCHANGED <<lock, queueVars, busy, shutdown, wtask, clientVars,
                 managerVars, destroyVars, offered, done, freed>>

\* The worker has the lock and is at the test of the while loop; a woken one
\* has counted wait_exit_thr_num down on its way.
WorkerLocks(w) ==
  /\ lock = NoOne
  /\ \/ wpc[w] = "enter" /\ UNCHANGED waitExit
     \/ /\ wpc[w] = "woken" /\ ~MustRetire
        /\ waitExit' = IF waitExit > 0 THEN waitExit - 1 ELSE waitExit

\* No task: the worker, holding the lock, is about to wait.
WorkerEmpty(w) ==
  /\ WorkerLocks(w)
  /\ size = 0 /\ ~shutdown
  /\ lock' = w
  /\ wpc' = [wpc EXCEPT ![w] = "waiting"]
  /\ UNCHANGED <<queueVars, live, busy, shutdown, wtask, clientVars,
                 managerVars, destroyVars, historyVars>>

\* pthread_cond_wait(&queue_not_empty) gives up the lock.
WorkerSleep(w) ==
  /\ wpc[w] = "waiting"
  /\ lock' = NoOne
  /\ wpc' = [wpc EXCEPT ![w] = "blocked"]
  /\ UNCHANGED <<queueVars, live, busy, waitExit, shutdown, wtask, clientVars,
                 managerVars, destroyVars, historyVars>>

\* The pool is shut down: unlock and exit; live_thr_num is left as it is.
WorkerStop(w) ==
  /\ WorkerLocks(w)
  /\ shutdown
  /\ wpc' = [wpc EXCEPT ![w] = "exited"]
  /\ UNCHANGED <<lock, queueVars, live, busy, shutdown, wtask, clientVars,
                 managerVars, destroyVars, historyVars>>

\* A mutation of MayTake: the queue is served before the shutdown is seen.
MayTakeLate == size # 0

MayTake == size # 0 /\ ~shutdown

\* Mutations of RoomBroadcast: a signal in its place, and nothing.
RoomSignal ==
  LET asleep == {c \in Clients : cpc[c] = "blocked"}
  IN  IF asleep = {} THEN cpc' = cpc
      ELSE \E c \in asleep : cpc' = [cpc EXCEPT ![c] = "woken"]
RoomUntold == cpc' = cpc

\* All clients that wait are told that there is room.
RoomBroadcast == cpc' = WokenAll(cpc)

\* Take the task at front, tell the clients that there is room, unlock.
WorkerTake(w) ==
  /\ WorkerLocks(w)
  /\ MayTake
  /\ wtask' = [wtask EXCEPT ![w] = ring[front]]
  /\ front' = Succ(front)
  /\ size' = size - 1
  /\ RoomBroadcast
  /\ wpc' = [wpc EXCEPT ![w] = "fetched"]
  /\ UNCHANGED <<lock, ring, rear, live, busy, shutdown, ctask, managerVars,
                 destroyVars, historyVars>>

\* thread_counter is a mutex of its own; threadpool_free leaves it locked.
CounterFree == dpc # "freed"

WorkerBusy(w) ==
  /\ wpc[w] = "fetched" /\ CounterFree
  /\ busy' = busy + 1
  /\ wpc' = [wpc EXCEPT ![w] = "running"]
  /\ UNCHANGED <<lock, queueVars, live, waitExit, shutdown, wtask, clientVars,
                 managerVars, destroyVars, historyVars>>

\* The task's function returns.
WorkerRun(w) ==
  /\ wpc[w] = "running"
  /\ done' = done \cup {wtask[w]}
  /\ wtask' = [wtask EXCEPT ![w] = NULL]
  /\ wpc' = [wpc EXCEPT ![w] = "ran"]
  /\ UNCHANGED <<lock, queueVars, live, busy, waitExit, shutdown, clientVars,
                 managerVars, destroyVars, offered, freed, shrunk>>

WorkerIdle(w) ==
  /\ wpc[w] = "ran" /\ CounterFree
  /\ busy' = busy - 1
  /\ wpc' = [wpc EXCEPT ![w] = "enter"]
  /\ UNCHANGED <<lock, queueVars, live, waitExit, shutdown, wtask, clientVars,
                 managerVars, destroyVars, historyVars>>

-----------------------------------------------------------------------------
(* adjust_thread *)

ManagerTest ==
  /\ mpc = "loop"
  /\ mpc' = IF shutdown THEN "exited" ELSE "asleep"
  /\ UNCHANGED <<lock, queueVars, live, busy, waitExit, shutdown, workerVars,
                 clientVars, snap, sig, destroyVars, historyVars>>

\* After the sleep: copy queue_size and live_thr_num under pool->lock ...
ManagerSample ==
  /\ mpc = "asleep" /\ lock = NoOne
  /\ snap' = [snap EXCEPT !.size = size, !.live = live]
  /\ mpc' = "sampled"
  /\ UNCHANGED <<lock, queueVars, live, busy, waitExit, shutdown, workerVars,
                 clientVars, sig, destroyVars, historyVars>>

\* ... and, later, busy_thr_num under thread_counter.
ManagerSampleBusy ==
  /\ mpc = "sampled"
  /\ snap' = [snap EXCEPT !.busy = busy]
  /\ mpc' = "grow"
  /\ UNCHANGED <<lock, queueVars, live, busy, waitExit, shutdown, workerVars,
                 clientVars, sig, destroyVars, historyVars>>

GrowWanted == snap.size >= MIN_WAIT_TASK_NUM /\ snap.live < MAX_THR
ShrinkWanted == snap.busy * 2 < snap.live /\ snap.live > MIN_THR

\* A mutation of Refills: it need not be the lowest slots.
RefillsAnywhere(usable) ==
  {new \in SUBSET usable : /\ Cardinality(new) <= DEFAULT_THREAD_VARY
                           /\ live + Cardinality(new) <= MAX_THR}

\* The slots the for loop may leave refilled, `usable' being those without a
\* thread: the lowest ones, as many as its two bounds allow.
Refills(usable) ==
  {new \in SUBSET usable :
     /\ \A i \in new, j \in usable : j < i => j \in new
     /\ Cardinality(new) <= DEFAULT_THREAD_VARY
     /\ live + Cardinality(new) <= MAX_THR
     /\ \/ new = usable
        \/ Cardinality(new) = DEFAULT_THREAD_VARY
        \/ live + Cardinality(new) = MAX_THR}

\* What is_thread_alive may find dead: pthread_kill reports ESRCH for a thread
\* that has exited and was not joined, or does not, depending on the C library.
DeadSets ==
  {dead \in SUBSET Exited : /\ FALSE \notin KillOutcomes => dead = {}
                            /\ TRUE \notin KillOutcomes => dead = Exited}

ManagerGrow ==
  /\ mpc = "grow"
  /\ mpc' = "shrink"
  /\ \/ ~GrowWanted /\ UNCHANGED <<wpc, live>>
     \/ /\ GrowWanted /\ lock = NoOne
        /\ \E dead \in DeadSets :
             \E new \in Refills({i \in Slots : wpc[i] = "none"} \cup dead) :
               /\ wpc' = [w \in Slots |-> IF w \in new THEN "enter" ELSE wpc[w]]
               /\ live' = live + Cardinality(new)
  /\ UNCHANGED <<lock, queueVars, busy, waitExit, shutdown, wtask, clientVars,
                 snap, sig, destroyVars, historyVars>>

\* The last use of the copies, which go out of scope with the loop's body.
ManagerShrink ==
  /\ mpc = "shrink"
  /\ snap' = NoSnap
  /\ \/ /\ ~ShrinkWanted
        /\ mpc' = "loop"
        /\ UNCHANGED <<waitExit, sig>>
     \/ /\ ShrinkWanted /\ lock = NoOne
        /\ mpc' = "signal"
        /\ waitExit' = DEFAULT_THREAD_VARY
        /\ sig' = DEFAULT_THREAD_VARY
  /\ UNCHANGED <<lock, queueVars, live, busy, shutdown, workerVars, clientVars,
                 destroyVars, historyVars>>

\* One signal of the loop; it is sent without the lock.
ManagerSignal ==
  /\ mpc = "signal"
  /\ wpc' \in Signalled(wpc)
  /\ sig' = sig - 1
  /\ mpc' = IF sig = 1 THEN "loop" ELSE "signal"
  /\ UNCHANGED <<lock, queueVars, live, busy, waitExit, shutdown, wtask,
                 clientVars, snap, destroyVars, historyVars>>

-----------------------------------------------------------------------------
(* threadpool_destroy *)

\* pool->shutdown = true, without the lock.
DestroyCall ==
  /\ dpc = "idle"
  /\ shutdown' = TRUE
  /\ dpc' = "joinManager"
  /\ UNCHANGED <<lock, queueVars, live, busy, waitExit, workerVars, clientVars,
                 managerVars, di, historyVars>>

\* A mutation of ManagerGone: the manager is not joined.
ManagerForgotten == TRUE

ManagerGone == mpc = "exited"

DestroyJoinManager ==
  /\ dpc = "joinManager" /\ ManagerGone
  /\ dpc' = "broadcast" /\ di' = 0
  /\ UNCHANGED <<lock, queueVars, live, busy, waitExit, shutdown, workerVars,
                 clientVars, managerVars, historyVars>>

\* One test of the first loop; live_thr_num is read without the lock.
DestroyBroadcast ==
  /\ dpc = "broadcast"
  /\ IF di < live
       THEN wpc' = WokenAll(wpc) /\ di' = di + 1 /\ dpc' = dpc
       ELSE wpc' = wpc /\ di' = 0 /\ dpc' = "join"
  /\ UNCHANGED <<lock, queueVars, live, busy, waitExit, shutdown, wtask,
                 clientVars, managerVars, historyVars>>

\* A mutation of LeftToJoin: the last thread is forgotten.
LeftToJoinButOne == di < live - 1

LeftToJoin == di < live

\* One test of the second loop: join the thread of slot i.
DestroyJoin ==
  /\ dpc = "join"
  /\ IF LeftToJoin
       THEN wpc[di] = "exited" /\ di' = di + 1 /\ dpc' = dpc
       ELSE di' = di /\ dpc' = "free"
  /\ UNCHANGED <<lock, queueVars, live, busy, waitExit, shutdown, workerVars,
                 clientVars, managerVars, historyVars>>

\* threadpool_free locks both mutexes and releases neither.
DestroyFree ==
  /\ dpc = "free" /\ lock = NoOne
  /\ dpc' = "freed"
  /\ lock' = Destroyer
  /\ UNCHANGED <<queueVars, live, busy, waitExit, shutdown, workerVars,
                 clientVars, managerVars, di, historyVars>>

-----------------------------------------------------------------------------
\* pthread_cond_wait may return without a signal.
SpuriousWakeup ==
  /\ SpuriousWakeups /\ dpc # "freed"
  /\ \/ /\ \E w \in Blocked : wpc' = [wpc EXCEPT ![w] = "woken"]
        /\ UNCHANGED cpc
     \/ /\ \E c \in Clients : /\ cpc[c] = "blocked"
                              /\ cpc' = [cpc EXCEPT ![c] = "woken"]
        /\ UNCHANGED wpc
  /\ UNCHANGED <<lock, queueVars, live, busy, waitExit, shutdown, wtask, ctask,
                 managerVars, destroyVars, historyVars>>

\* What a client does inside threadpool_add.
Add(c) ==
  \/ AddFull(c) \/ AddSleep(c) \/ AddPush(c)
  \/ AddShutdown(c) \/ LateStore(c) \/ LateAdvance(c)

Worker(w) ==
  \/ WorkerRetire(w) \/ WorkerEmpty(w) \/ WorkerSleep(w) \/ WorkerStop(w)
  \/ WorkerTake(w) \/ WorkerBusy(w) \/ WorkerRun(w) \/ WorkerIdle(w)

Manager ==
  \/ ManagerTest \/ ManagerSample \/ ManagerSampleBusy
  \/ ManagerGrow \/ ManagerShrink \/ ManagerSignal

\* threadpool_destroy once it has been called.
Destroy ==
  \/ DestroyJoinManager \/ DestroyBroadcast \/ DestroyJoin \/ DestroyFree

Next ==
  \/ \E c \in Clients : Add(c) \/ \E t \in Tasks : AddCall(c, t)
  \/ \E w \in Slots : Worker(w)
  \/ Manager
  \/ DestroyCall
  \/ Destroy
  \/ SpuriousWakeup

Spec == Init /\ [][Next]_vars

(***************************************************************************)
(* Every thread that can go on eventually does, and every task's function  *)
(* returns.  Nothing obliges a client to call threadpool_add or            *)
(* threadpool_destroy, nor cond_wait to wake up unsignalled.               *)
(***************************************************************************)
Fairness ==
  /\ \A c \in Clients : WF_vars(Add(c))
  /\ \A w \in Slots : WF_vars(Worker(w))
  /\ WF_vars(Manager)
  /\ WF_vars(Destroy)

FairSpec == Spec /\ Fairness

-----------------------------------------------------------------------------
(* Properties *)

TypeOK ==
  /\ lock \in Slots \cup Clients \cup {NoOne, Destroyer}
  /\ ring \in [Ring -> Tasks \cup {NULL, Junk}]
  /\ front \in Ring /\ rear \in Ring
  /\ size \in Nat
  /\ live \in Nat
  /\ busy \in Int
  /\ waitExit \in Int
  /\ shutdown \in BOOLEAN
  /\ wpc \in [Slots -> WorkerPC]
  /\ wtask \in [Slots -> Tasks \cup {NULL}]
  /\ cpc \in [Clients -> ClientPC]
  /\ ctask \in [Clients -> Tasks \cup {NULL}]
  /\ mpc \in ManagerPC
  /\ snap \in [size : Nat, live : Nat, busy : Int]
  /\ sig \in 0 .. DEFAULT_THREAD_VARY
  /\ dpc \in DestroyPC
  /\ di \in 0 .. MAX_THR
  /\ offered \subseteq Tasks
  /\ done \subseteq Tasks
  /\ freed \subseteq Tasks \cup {Junk}
  /\ shrunk \in BOOLEAN

\* live_thr_num stays between the sizes given to threadpool_create and, until
\* the pool is shut down, is the number of threads that are there: whatever
\* the interleaving of retiring workers with a manager that decides on counts
\* it read earlier.  (A worker that stops for the shutdown is not counted off.)
LiveCounted ==
  /\ MIN_THR <= live /\ live <= MAX_THR
  /\ IF shutdown THEN Cardinality(Alive) <= live ELSE Cardinality(Alive) = live

\* busy_thr_num is the number of workers between the two updates of it, though
\* none of them holds pool->lock.
BusyCounted ==
  busy = Cardinality({w \in Slots : wpc[w] \in {"running", "ran"}})

\* A client is asleep on queue_not_full only while the queue is full: the
\* worker that takes a task wakes every client, and none can be overtaken and
\* left behind.
ClientsSleepOnlyWhenFull ==
  ~shutdown /\ (\E c \in Clients : cpc[c] = "blocked") => size = QUEUE_MAX

\* Until a worker has retired: while an idle worker sleeps on queue_not_empty
\* there is, for every queued task, a worker on its way to the queue.  No
\* signal of threadpool_add is lost, also when a signalled worker is overtaken
\* by one that was not, and while the manager adds threads.
NoIdleWhileQueued ==
  ~shutdown /\ ~shrunk /\ Blocked # {} =>
    size <= Cardinality({w \in Slots : wpc[w] \in {"enter", "woken"}})

\* The slots threadpool_destroy would join have had a thread: slots 0 .. live-1
\* have been used, since the manager fills the array from its low end, however
\* many threads have come and gone.  (Once the pool is shut down it can fail: a
\* slot refilled after its worker stopped for the shutdown is counted twice.)
JoinsRealThreads ==
  ~shutdown => \A i \in Slots : i < live => wpc[i] # "none"

\* A slot whose thread threadpool_destroy has joined stays without a running
\* thread, since the manager is joined before the workers.
JoinedStayDead ==
  /\ dpc = "join" => \A i \in Slots : i < di => wpc[i] = "exited"
  /\ dpc \in {"broadcast", "join", "free", "freed"} => mpc = "exited"

\* As long as no worker has retired, threadpool_destroy frees the pool when no
\* worker uses it any more: however many threads the manager has added, also
\* in the slots of workers that the shutdown has stopped, the slots it joins
\* are all that ever had one.
FreedLastUnlessShrunk == dpc = "freed" => Alive = {} \/ shrunk

\* No more tasks are queued than the ring has slots, although several clients
\* that waited for room wake up at once.  (A client that finds the pool shut
\* down queues its task all the same, without the lock and without a bound.)
SizeWithinCapacity == ~shutdown => size <= QUEUE_MAX

\* The queue the pool stands for: the tasks from front on, none once it is shut
\* down.
PoolQueue ==
  IF shutdown THEN <<>>
  ELSE [k \in 1 .. size |-> ring[(front + k - 1) % QUEUE_MAX]]

Abstract == INSTANCE TaskPool
  WITH Executors <- Slots, Capacity <- QUEUE_MAX, Idle <- NULL,
       queue <- PoolQueue, exec <- wtask, finished <- done, closed <- shutdown

\* The pool is a bounded FIFO queue served by at most MAX_THR executors, no
\* task runs twice, and none is started after the shutdown.
ImplementsTaskPool == Abstract!Spec

\* A task a client has offered is run, unless the pool is shut down: clients
\* waiting for room get it, and no task is left behind in the queue.
OfferedTasksRun ==
  \A t \in Tasks : t \in offered ~> (t \in done \/ shutdown)

\* Three properties that a reader may expect and the code does not have, as the
\* README tells; no run checks them.
\* `Stops and destroys a thread pool' (threadpool.h, threadpool_destroy): the
\* pool is freed when no worker uses it any more.  A pool that has shrunk
\* breaks it: the live threads are no longer in the slots that are joined.
NoWorkerAfterFree == dpc = "freed" => Alive = {}

\* A queue that is not empty is emptied, unless the pool is shut down: the
\* worker that a signal of threadpool_add wakes handles the task.
QueueDrains == size > 0 ~> (size = 0 \/ shutdown)

\* threadpool_destroy, once called, returns.
DestroyReturns == dpc = "joinManager" ~> dpc = "freed"

=============================================================================

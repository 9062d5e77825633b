--------------------------- MODULE CppThreadPool ---------------------------
(***************************************************************************)
(* The C++ thread pool: class ThreadPool and the TaskQueue it takes tasks  *)
(* from.  It differs from the C pool where it matters: the queue has a     *)
(* mutex of its own, so                                                    *)
(*   - addPoolTask pushes and signals without pool->lock, between another  *)
(*     thread's look at the queue and its pthread_cond_wait;               *)
(*   - a worker looks at the queue under pool->lock, unlocks, looks again  *)
(*     in takeTask without any lock, and only then locks the queue;        *)
(* and the pool is never shut down.  size() of the queue read without its  *)
(* mutex is taken to give a value the queue has at that moment; front()    *)
(* and pop() of an empty queue, and the call of a null function, are       *)
(* undefined, and the model stops there with `fault' set.                  *)
(***************************************************************************)
EXTENDS Integers, Sequences, FiniteSets

CONSTANTS
  MIN_THR, MAX_THR,             \* the arguments of the constructor
  MIN_WAIT_TASK_NUM,            \* queue length at which the pool grows
  DEFAULT_THREAD_VARY,          \* threads added, or asked to leave, at once
  Tasks,                        \* tasks: each is added at most once
  Clients,                      \* threads that call addPoolTask
  NULL,                         \* the task with a null function; "no task"
  NoOne,                        \* "the mutex is free"
  WaitExitInit,                 \* what new may leave in wait_exit_thr_num
  KillOutcomes,                 \* threadIsAlive's answers for a dead thread
  SpuriousWakeups               \* may pthread_cond_wait return unsignalled?

Slots == 0 .. MAX_THR - 1       \* indices of `threads'

ASSUME SizesAssumption ==
  /\ MIN_THR \in Nat \ {0} /\ MAX_THR \in Nat /\ MIN_THR <= MAX_THR
  /\ MIN_WAIT_TASK_NUM \in Nat
  /\ DEFAULT_THREAD_VARY \in Nat \ {0}

ASSUME EnvironmentAssumption ==
  /\ NULL \notin Tasks /\ NoOne \notin Slots
  /\ WaitExitInit \subseteq Int /\ WaitExitInit # {}
  /\ KillOutcomes \subseteq BOOLEAN /\ KillOutcomes # {}
  /\ SpuriousWakeups \in BOOLEAN

VARIABLES
  lock,       \* owner of ThreadPool::lock (only workers keep it over a step)
  queue,      \* TaskQueue::m_queue
  live,       \* live_thr_num
  busy,       \* busy_thr_num
  waitExit,   \* wait_exit_thr_num
  wpc,        \* where the thread of each slot is
  wtask,      \* its local variable `task'
  cpc,        \* where each client of addPoolTask is
  ctask,      \* the task it adds
  mpc,        \* where the manager thread is
  snap,       \* its local copies of the queue's size, live and busy_thr_num
  sig,        \* signals it still has to send
  fault,      \* what undefined step was taken, "none" if none was
  offered,    \* history: tasks a client has asked the pool to run
  done        \* history: tasks whose function has returned

workerVars == <<wpc, wtask>>
clientVars == <<cpc, ctask>>
managerVars == <<mpc, snap, sig>>
historyVars == <<offered, done>>
vars == <<lock, queue, live, busy, waitExit, workerVars, clientVars,
          managerVars, fault, historyVars>>

WorkerPC == {"none", "enter", "waiting", "blocked", "woken", "taking",
             "popping", "fetched", "running", "ran", "exited"}
ClientPC == {"idle", "adding", "added"}
ManagerPC == {"asleep", "sampled", "grow", "shrink", "signal"}
Faults == {"none", "popped empty queue", "called null task"}

Alive == {w \in Slots : wpc[w] \notin {"none", "exited"}}

\* pthread_cond_signal(&queue_not_empty): it wakes one blocked worker, if any.
Signalled(pc) ==
  LET asleep == {w \in Slots : pc[w] = "blocked"}
  IN  IF asleep = {} THEN {pc}
      ELSE {[pc EXCEPT ![w] = "woken"] : w \in asleep}

-----------------------------------------------------------------------------
NoSnap == [size |-> 0, live |-> 0, busy |-> 0]

\* The constructor has started MIN_THR workers and the manager; it leaves
\* wait_exit_thr_num as the allocation did.
Init ==
  /\ lock = NoOne
  /\ queue = <<>>
  /\ live = MIN_THR
  /\ busy = 0
  /\ waitExit \in WaitExitInit
  /\ wpc = [w \in Slots |-> IF w < MIN_THR THEN "enter" ELSE "none"]
  /\ wtask = [w \in Slots |-> NULL]
  /\ cpc = [c \in Clients |-> "idle"]
  /\ ctask = [c \in Clients |-> NULL]
  /\ mpc = "asleep"
  /\ snap = NoSnap
  /\ sig = 0
  /\ fault = "none"
  /\ offered = {} /\ done = {}

-----------------------------------------------------------------------------
(* addPoolTask *)

AddCall(c, t) ==
  /\ cpc[c] = "idle"
  /\ t \notin offered
  /\ cpc' = [cpc EXCEPT ![c] = "adding"]
  /\ ctask' = [ctask EXCEPT ![c] = t]
  /\ offered' = offered \cup {t}
  /\ UNCHANGED <<lock, queue, live, busy, waitExit, workerVars, managerVars,
                 fault, done>>

\* TaskQueue::addTask, under the queue's own mutex.
AddTask(c) ==
  /\ cpc[c] = "adding"
  /\ queue' = Append(queue, ctask[c])
  /\ cpc' = [cpc EXCEPT ![c] = "added"]
  /\ UNCHANGED <<lock, live, busy, waitExit, workerVars, ctask, managerVars,
                 fault, historyVars>>

\* The signal, sent without pool->lock.
AddSignal(c) ==
  /\ cpc[c] = "added"
  /\ wpc' \in Signalled(wpc)
  /\ cpc' = [cpc EXCEPT ![c] = "idle"]
  /\ ctask' = [ctask EXCEPT ![c] = NULL]
  /\ UNCHANGED <<lock, queue, live, busy, waitExit, wtask, managerVars, fault,
                 historyVars>>

-----------------------------------------------------------------------------
(* threadWorking *)

\* A mutation of MustRetire: the test of live_thr_num is missing.
MustRetireUnbounded == waitExit > 0

\* A woken worker sees that threads are to leave, and that it may.
MustRetire == waitExit > 0 /\ live > MIN_THR

WorkerRetire(w) ==
  /\ wpc[w] = "woken" /\ lock = NoOne
  /\ MustRetire
  /\ waitExit' = waitExit - 1
  /\ live' = live - 1
  /\ wpc' = [wpc EXCEPT ![w] = "exited"]
  /\ UNCHANGED <<lock, queue, busy, wtask, clientVars, managerVars, fault,
                 historyVars>>

\* The worker has the lock and is at the test of the while loop.
WorkerLocks(w) ==
  /\ lock = NoOne
  /\ \/ wpc[w] = "enter" /\ UNCHANGED waitExit
     \/ /\ wpc[w] = "woken" /\ ~MustRetire
        /\ waitExit' = IF waitExit > 0 THEN waitExit - 1 ELSE waitExit

\* No task: the worker, holding the lock, is about to wait.
WorkerEmpty(w) ==
  /\ WorkerLocks(w)
  /\ queue = <<>>
  /\ lock' = w
  /\ wpc' = [wpc EXCEPT ![w] = "waiting"]
  /\ UNCHANGED <<queue, live, busy, wtask, clientVars, managerVars, fault,
                 historyVars>>

\* pthread_cond_wait(&queue_not_empty) gives up the lock.
WorkerSleep(w) ==
  /\ wpc[w] = "waiting"
  /\ lock' = NoOne
  /\ wpc' = [wpc EXCEPT ![w] = "blocked"]
  /\ UNCHANGED <<queue, live, busy, waitExit, wtask, clientVars, managerVars,
                 fault, historyVars>>

\* There is a task: the worker leaves the loop and unlocks.
WorkerUnlock(w) ==
  /\ WorkerLocks(w)
  /\ queue # <<>>
  /\ wpc' = [wpc EXCEPT ![w] = "taking"]
  /\ UNCHANGED <<lock, queue, live, busy, wtask, clientVars, managerVars,
                 fault, historyVars>>

\* takeTask looks at the queue again, without a lock: with nothing in it, the
\* worker gets a Task() whose function is null.
TakeLook(w) ==
  /\ wpc[w] = "taking"
  /\ wpc' = [wpc EXCEPT ![w] = IF queue = <<>> THEN "fetched" ELSE "popping"]
  /\ UNCHANGED <<lock, queue, live, busy, waitExit, wtask, clientVars,
                 managerVars, fault, historyVars>>

\* A mutation of TakePop: pop() is missing.
TakePopKeeps(w) ==
  /\ wpc[w] = "popping" /\ queue # <<>>
  /\ wtask' = [wtask EXCEPT ![w] = Head(queue)]
  /\ wpc' = [wpc EXCEPT ![w] = "fetched"]
  /\ UNCHANGED <<lock, queue, live, busy, waitExit, clientVars, managerVars,
                 fault, historyVars>>

\* front() and pop() under the queue's mutex.
TakePop(w) ==
  /\ wpc[w] = "popping"
  /\ IF queue = <<>>
       THEN /\ fault' = "popped empty queue"
            /\ UNCHANGED <<queue, workerVars>>
       ELSE /\ wtask' = [wtask EXCEPT ![w] = Head(queue)]
            /\ queue' = Tail(queue)
            /\ wpc' = [wpc EXCEPT ![w] = "fetched"]
            /\ UNCHANGED fault
  /\ UNCHANGED <<lock, live, busy, waitExit, clientVars, managerVars,
                 historyVars>>

WorkerBusy(w) ==
  /\ wpc[w] = "fetched"
  /\ busy' = busy + 1
  /\ wpc' = [wpc EXCEPT ![w] = "running"]
  /\ UNCHANGED <<lock, queue, live, waitExit, wtask, clientVars, managerVars,
                 fault, historyVars>>

\* The task's function is called, and returns.
WorkerRun(w) ==
  /\ wpc[w] = "running"
  /\ IF wtask[w] = NULL
       THEN /\ fault' = "called null task"
            /\ UNCHANGED <<workerVars, done>>
       ELSE /\ done' = done \cup {wtask[w]}
            /\ wtask' = [wtask EXCEPT ![w] = NULL]
            /\ wpc' = [wpc EXCEPT ![w] = "ran"]
            /\ UNCHANGED fault
  /\ UNCHANGED <<lock, queue, live, busy, waitExit, clientVars, managerVars,
                 offered>>

WorkerIdle(w) ==
  /\ wpc[w] = "ran"
  /\ busy' = busy - 1
  /\ wpc' = [wpc EXCEPT ![w] = "enter"]
  /\ UNCHANGED <<lock, queue, live, waitExit, wtask, clientVars, managerVars,
                 fault, historyVars>>

-----------------------------------------------------------------------------
(* threadManager *)

\* After the sleep: the queue's size and live_thr_num under pool->lock ...
ManagerSample ==
  /\ mpc = "asleep" /\ lock = NoOne
  /\ snap' = [snap EXCEPT !.size = Len(queue), !.live = live]
  /\ mpc' = "sampled"
  /\ UNCHANGED <<lock, queue, live, busy, waitExit, workerVars, clientVars, sig,
                 fault, historyVars>>

\* ... and, later, busy_thr_num under thread_counter.
ManagerSampleBusy ==
  /\ mpc = "sampled"
  /\ snap' = [snap EXCEPT !.busy = busy]
  /\ mpc' = "grow"
  /\ UNCHANGED <<lock, queue, live, busy, waitExit, workerVars, clientVars, sig,
                 fault, historyVars>>

GrowWanted == snap.size >= MIN_WAIT_TASK_NUM /\ snap.live < MAX_THR
ShrinkWanted == snap.busy * 2 < snap.live /\ snap.live > MIN_THR

\* The slots the for loop may leave refilled, `usable' being those without a
\* thread: the lowest ones, as many as its two bounds allow.
Refills(usable) ==
  {new \in SUBSET usable :
     /\ \A i \in new, j \in usable : j < i => j \in new
     /\ Cardinality(new) <= DEFAULT_THREAD_VARY
     /\ live + Cardinality(new) <= MAX_THR
     /\ \/ new = usable
        \/ Cardinality(new) = DEFAULT_THREAD_VARY
        \/ live + Cardinality(new) = MAX_THR}

\* The sets of exited threads that threadIsAlive may find dead.
DeadSets ==
  LET exited == {w \in Slots : wpc[w] = "exited"}
  IN  {dead \in SUBSET exited : /\ FALSE \notin KillOutcomes => dead = {}
                                /\ TRUE \notin KillOutcomes => dead = exited}

ManagerGrow ==
  /\ mpc = "grow"
  /\ mpc' = "shrink"
  /\ \/ ~GrowWanted /\ UNCHANGED <<wpc, live>>
     \/ /\ GrowWanted /\ lock = NoOne
        /\ \E dead \in DeadSets :
             \E new \in Refills({i \in Slots : wpc[i] = "none"} \cup dead) :
               /\ wpc' = [w \in Slots |-> IF w \in new THEN "enter" ELSE wpc[w]]
               /\ live' = live + Cardinality(new)
  /\ UNCHANGED <<lock, queue, busy, waitExit, wtask, clientVars, snap, sig,
                 fault, historyVars>>

\* The last use of the copies, which go out of scope with the loop's body.
ManagerShrink ==
  /\ mpc = "shrink"
  /\ snap' = NoSnap
  /\ \/ /\ ~ShrinkWanted
        /\ mpc' = "asleep"
        /\ UNCHANGED <<waitExit, sig>>
     \/ /\ ShrinkWanted /\ lock = NoOne
        /\ mpc' = "signal"
        /\ waitExit' = DEFAULT_THREAD_VARY
        /\ sig' = DEFAULT_THREAD_VARY
  /\ UNCHANGED <<lock, queue, live, busy, workerVars, clientVars, fault,
                 historyVars>>

LastSignal == sig = 1

\* One signal of the loop; it is sent without the lock.
ManagerSignal ==
  /\ mpc = "signal"
  /\ wpc' \in Signalled(wpc)
  /\ sig' = sig - 1
  /\ mpc' = IF LastSignal THEN "asleep" ELSE "signal"
  /\ UNCHANGED <<lock, queue, live, busy, waitExit, wtask, clientVars, snap,
                 fault, historyVars>>

-----------------------------------------------------------------------------
\* pthread_cond_wait may return without a signal.
SpuriousWakeup ==
  /\ SpuriousWakeups
  /\ \E w \in Slots : /\ wpc[w] = "blocked"
                      /\ wpc' = [wpc EXCEPT ![w] = "woken"]
  /\ UNCHANGED <<lock, queue, live, busy, waitExit, wtask, clientVars,
                 managerVars, fault, historyVars>>

Add(c) == AddTask(c) \/ AddSignal(c)

Worker(w) ==
  \/ WorkerRetire(w) \/ WorkerEmpty(w) \/ WorkerSleep(w) \/ WorkerUnlock(w)
  \/ TakeLook(w) \/ TakePop(w)
  \/ WorkerBusy(w) \/ WorkerRun(w) \/ WorkerIdle(w)

Manager ==
  \/ ManagerSample \/ ManagerSampleBusy
  \/ ManagerGrow \/ ManagerShrink \/ ManagerSignal

\* After an undefined step there is nothing left to model.
Next ==
  /\ fault = "none"
  /\ \/ \E c \in Clients : Add(c) \/ \E t \in Tasks : AddCall(c, t)
     \/ \E w \in Slots : Worker(w)
     \/ Manager
     \/ SpuriousWakeup

Spec == Init /\ [][Next]_vars

(***************************************************************************)
(* Every thread that can go on eventually does, and every task's function  *)
(* returns.  Nothing obliges a client to call addPoolTask, nor cond_wait   *)
(* to wake up unsignalled.                                                 *)
(***************************************************************************)
Fairness ==
  /\ \A c \in Clients : WF_vars(fault = "none" /\ Add(c))
  /\ \A w \in Slots : WF_vars(fault = "none" /\ Worker(w))
  /\ WF_vars(fault = "none" /\ Manager)

FairSpec == Spec /\ Fairness

-----------------------------------------------------------------------------
(* Properties *)

TypeOK ==
  /\ lock \in Slots \cup {NoOne}
  /\ queue \in Seq(Tasks)
  /\ live \in Nat /\ busy \in Nat /\ waitExit \in Int
  /\ wpc \in [Slots -> WorkerPC]
  /\ wtask \in [Slots -> Tasks \cup {NULL}]
  /\ cpc \in [Clients -> ClientPC]
  /\ ctask \in [Clients -> Tasks \cup {NULL}]
  /\ mpc \in ManagerPC
  /\ snap \in [size : Nat, live : Nat, busy : Nat]
  /\ sig \in 0 .. DEFAULT_THREAD_VARY
  /\ fault \in Faults
  /\ offered \subseteq Tasks /\ done \subseteq Tasks

\* live_thr_num is the number of threads there are and stays between the sizes
\* given to the constructor, although the manager decides on old counts and
\* the workers retire on their own; and busy_thr_num is the number of workers
\* between its two updates, those that were given the null task included.
CountsRight ==
  /\ live = Cardinality(Alive)
  /\ MIN_THR <= live /\ live <= MAX_THR
  /\ busy = Cardinality({w \in Slots : wpc[w] \in {"running", "ran"}})

Abstract == INSTANCE TaskPool
  WITH Executors <- Slots, Capacity <- Cardinality(Tasks), Idle <- NULL,
       exec <- wtask, finished <- done, closed <- FALSE

\* Up to an undefined step, tasks start in the order they were added, each on
\* one worker and once, also when workers race for the queue.
ImplementsTaskPool == Abstract!Spec

\* Two properties that a reader may expect and the code does not have; a run
\* shows that of QueueDrains.
\* takeTask "takes a task out of the queue": a worker that has seen a task gets
\* one, never the null task, and never pops an empty queue.
NoFault == fault = "none"

\* addPoolTask wakes a worker for the task it has added: a queue that is not
\* empty is emptied.
QueueDrains == queue # <<>> ~> queue = <<>>

=============================================================================

------------------------ MODULE CppThreadPool_proofs ------------------------
(***************************************************************************)
(* Proofs about the C++ thread pool, for every number of threads, clients  *)
(* and tasks, and whatever new leaves in wait_exit_thr_num: its counters   *)
(* are right, and as long as no undefined step is taken it is the FIFO     *)
(* queue of TaskPool, although a worker takes its task under another mutex *)
(* than the one under which it saw it.                                     *)
(***************************************************************************)
EXTENDS CppThreadPool, SequenceTheorems, FiniteSetTheorems, TLAPS

-----------------------------------------------------------------------------
(* Queues: sequences whose elements are all different *)

Elements(s) == {s[i] : i \in 1 .. Len(s)}

Injective(s) == \A i, j \in 1 .. Len(s) : s[i] = s[j] => i = j

\* Appending a new element to a sequence without repetitions.
LEMMA AppendNew ==
  ASSUME NEW S, NEW s \in Seq(S), NEW e \in S,
         Injective(s), e \notin Elements(s)
  PROVE  /\ Append(s, e) \in Seq(S)
         /\ Len(Append(s, e)) = Len(s) + 1
         /\ Elements(Append(s, e)) = Elements(s) \cup {e}
         /\ Injective(Append(s, e))
<1> DEFINE t == Append(s, e)
<1>1. /\ t \in Seq(S)
      /\ Len(t) = Len(s) + 1
      /\ \A i \in 1 .. Len(s) : t[i] = s[i]
      /\ t[Len(s) + 1] = e
  OBVIOUS
<1>2. Len(s) \in Nat
  OBVIOUS
<1> HIDE DEF t
<1>3. Elements(t) \subseteq Elements(s) \cup {e}
  BY <1>1, <1>2 DEF Elements
<1>4. Elements(s) \subseteq Elements(t)
  <2> SUFFICES ASSUME NEW i \in 1 .. Len(s) PROVE s[i] \in Elements(t)
    BY DEF Elements
  <2> QED  BY <1>1, <1>2 DEF Elements
<1>5. e \in Elements(t)
  BY <1>1, <1>2 DEF Elements
<1>6. Injective(t)
  BY <1>1, <1>2 DEF Injective, Elements
<1> QED  BY <1>1, <1>3, <1>4, <1>5, <1>6 DEF t

\* Taking the first element off a sequence without repetitions.
LEMMA TailRest ==
  ASSUME NEW S, NEW s \in Seq(S), s # <<>>, Injective(s)
  PROVE  /\ Tail(s) \in Seq(S)
         /\ Len(Tail(s)) = Len(s) - 1
         /\ Head(s) \in Elements(s)
         /\ Elements(Tail(s)) = Elements(s) \ {Head(s)}
         /\ Injective(Tail(s))
<1> DEFINE t == Tail(s)
<1>1. /\ t \in Seq(S)
      /\ Len(t) = Len(s) - 1
      /\ \A i \in 1 .. Len(s) - 1 : t[i] = s[i + 1]
      /\ Head(s) = s[1]
  OBVIOUS
<1>2. Len(s) \in Nat \ {0}
  OBVIOUS
<1> HIDE DEF t
<1>3. Head(s) \in Elements(s)
  BY <1>1, <1>2 DEF Elements
<1>4. Elements(t) \subseteq Elements(s) \ {Head(s)}
  BY <1>1, <1>2 DEF Elements, Injective
<1>5. Elements(s) \ {Head(s)} \subseteq Elements(t)
  <2> SUFFICES ASSUME NEW i \in 1 .. Len(s), s[i] # Head(s)
               PROVE  s[i] \in Elements(t)
    BY DEF Elements
  <2>1. i # 1
    BY <1>1
  <2>2. i - 1 \in 1 .. Len(t) /\ t[i - 1] = s[i]
    BY <1>1, <1>2, <2>1
  <2> QED  BY <2>2 DEF Elements
<1>6. Injective(t)
  BY <1>1, <1>2 DEF Injective
<1> QED  BY <1>1, <1>3, <1>4, <1>5, <1>6 DEF t

USE SizesAssumption, EnvironmentAssumption

-----------------------------------------------------------------------------
(* The inductive invariant *)

\* The workers between the two updates of busy_thr_num.
Busy == {w \in Slots : wpc[w] \in {"running", "ran"}}

\* A client in addPoolTask has a task; the manager signals as often as it has to.
PhaseInv ==
  /\ \A c \in Clients : cpc[c] # "idle" => ctask[c] \in Tasks
  /\ mpc = "signal" => sig # 0

PoolInv == TypeOK /\ PhaseInv /\ CountsRight

LEMMA FiniteSlots == \A S \in SUBSET Slots : IsFiniteSet(S) /\ Cardinality(S) \in Nat
<1>1. IsFiniteSet(Slots)
  BY FS_Interval DEF Slots
<1> QED  BY <1>1, FS_Subset, FS_CardinalityType

LEMMA Finite ==
  /\ IsFiniteSet(Alive) /\ IsFiniteSet(Busy)
  /\ Cardinality(Alive) \in Nat /\ Cardinality(Busy) \in Nat
<1>1. Alive \in SUBSET Slots /\ Busy \in SUBSET Slots
  BY DEF Alive, Busy
<1> QED  BY <1>1, FiniteSlots

LEMMA InitInv == Init => PoolInv
<1> SUFFICES ASSUME Init PROVE PoolInv
  OBVIOUS
<1> USE DEF Init
<1>1. TypeOK
  <2>1. /\ wpc \in [Slots -> WorkerPC] /\ wtask \in [Slots -> Tasks \cup {NULL}]
        /\ cpc \in [Clients -> ClientPC] /\ ctask \in [Clients -> Tasks \cup {NULL}]
    BY DEF WorkerPC, ClientPC
  <2>2. /\ snap \in [size : Nat, live : Nat, busy : Nat] /\ mpc \in ManagerPC /\ fault \in Faults
        /\ sig \in 0 .. DEFAULT_THREAD_VARY /\ waitExit \in Int
    BY DEF NoSnap, ManagerPC, Faults
  <2> QED  BY <2>1, <2>2 DEF TypeOK
<1>2. CountsRight
  <2>1. Alive = 0 .. MIN_THR - 1 /\ Busy = {}
    BY DEF Alive, Busy, Slots
  <2>2. Cardinality(Alive) = MIN_THR /\ Cardinality(Busy) = 0
    BY <2>1, FS_Interval, FS_EmptySet
  <2> QED  BY <2>2 DEF CountsRight, Busy
<1> QED  BY <1>1, <1>2 DEF PoolInv, PhaseInv

-----------------------------------------------------------------------------
(* What a step does to the threads and their counters *)

\* What the counters tell apart.
Kind(p) ==
  IF p \in {"none", "exited"} THEN "gone"
  ELSE IF p \in {"running", "ran"} THEN "busy" ELSE "idle"

Others(W) == \A v \in Slots \ W : Kind(wpc'[v]) = Kind(wpc[v])

Still == Others({}) /\ live' = live /\ busy' = busy

Starts(w) ==
  /\ Kind(wpc[w]) = "idle" /\ Kind(wpc'[w]) = "busy" /\ Others({w})
  /\ live' = live /\ busy' = busy + 1

Stops(w) ==
  /\ Kind(wpc[w]) = "busy" /\ Kind(wpc'[w]) = "idle" /\ Others({w})
  /\ live' = live /\ busy' = busy - 1

Leaves(w) ==
  /\ Kind(wpc[w]) = "idle" /\ Kind(wpc'[w]) = "gone" /\ Others({w})
  /\ live > MIN_THR /\ live' = live - 1 /\ busy' = busy

\* The manager refills the slots in new.
Grows(new) ==
  /\ \A w \in new : Kind(wpc[w]) = "gone" /\ Kind(wpc'[w]) = "idle"
  /\ Others(new)
  /\ live' = live + Cardinality(new) /\ live' <= MAX_THR /\ busy' = busy

Moves ==
  \/ Still
  \/ \E w \in Slots : Starts(w) \/ Stops(w) \/ Leaves(w)
  \/ \E new \in SUBSET Slots : Grows(new)

\* A signal moves at most a blocked worker, and only to "woken".
LEMMA SignalledMoves ==
  ASSUME NEW pc \in [Slots -> WorkerPC], NEW new \in Signalled(pc)
  PROVE  /\ new \in [Slots -> WorkerPC]
         /\ \A w \in Slots : \/ new[w] = pc[w]
                             \/ pc[w] = "blocked" /\ new[w] = "woken"
BY DEF Signalled, WorkerPC

\* What a round of growing does.
LEMMA GrowMoves ==
  ASSUME TypeOK, ManagerGrow
  PROVE  /\ wpc' \in [Slots -> WorkerPC]
         /\ \A w \in Slots : \/ wpc'[w] = wpc[w]
                             \/ wpc[w] \in {"none", "exited"} /\ wpc'[w] = "enter"
         /\ live' \in Nat
         /\ Still \/ \E new \in SUBSET Slots : Grows(new)
<1> USE DEF TypeOK, ManagerGrow
<1>1. CASE UNCHANGED <<wpc, live>>
  BY <1>1 DEF Still, Others
<1>2. CASE \E dead \in DeadSets :
             \E new \in Refills({i \in Slots : wpc[i] = "none"} \cup dead) :
               /\ wpc' = [w \in Slots |-> IF w \in new THEN "enter" ELSE wpc[w]]
               /\ live' = live + Cardinality(new)
  <2>1. PICK dead \in DeadSets :
             \E new \in Refills({i \in Slots : wpc[i] = "none"} \cup dead) :
               /\ wpc' = [w \in Slots |-> IF w \in new THEN "enter" ELSE wpc[w]]
               /\ live' = live + Cardinality(new)
    BY <1>2
  <2>2. PICK new \in Refills({i \in Slots : wpc[i] = "none"} \cup dead) :
               /\ wpc' = [w \in Slots |-> IF w \in new THEN "enter" ELSE wpc[w]]
               /\ live' = live + Cardinality(new)
    BY <2>1
  <2>3. /\ new \subseteq Slots /\ \A w \in new : wpc[w] \in {"none", "exited"}
        /\ live + Cardinality(new) <= MAX_THR
    BY DEF Refills, DeadSets
  <2>4. Cardinality(new) \in Nat
    BY <2>3, FiniteSlots
  <2>5. Grows(new)
    BY <2>2, <2>3 DEF Grows, Others, Kind
  <2> QED  BY <2>2, <2>3, <2>4, <2>5 DEF WorkerPC
<1> QED  BY <1>1, <1>2

LEMMA WorkerMoves ==
  ASSUME TypeOK, NEW w \in Slots, Worker(w)
  PROVE  Still \/ Starts(w) \/ Stops(w) \/ Leaves(w)
<1> USE DEF TypeOK, workerVars, Kind, Others
<1>1. CASE WorkerRetire(w)
  BY <1>1 DEF WorkerRetire, MustRetire, Leaves
<1>2. CASE WorkerEmpty(w) \/ WorkerSleep(w) \/ WorkerUnlock(w) \/ TakeLook(w)
  BY <1>2 DEF WorkerEmpty, WorkerSleep, WorkerUnlock, WorkerLocks, TakeLook, Still
<1>3. CASE TakePop(w)
  BY <1>3 DEF TakePop, Still
<1>4. CASE WorkerBusy(w)
  BY <1>4 DEF WorkerBusy, Starts
<1>5. CASE WorkerRun(w)
  BY <1>5 DEF WorkerRun, Still
<1>6. CASE WorkerIdle(w)
  BY <1>6 DEF WorkerIdle, Stops
<1> QED  BY <1>1, <1>2, <1>3, <1>4, <1>5, <1>6 DEF Worker

LEMMA StepMoves ==
  ASSUME TypeOK, [Next]_vars
  PROVE  Moves
<1>1. CASE wpc' = wpc /\ live' = live /\ busy' = busy
  BY <1>1 DEF Still, Others, Moves
<1>2. CASE wpc' \in Signalled(wpc) /\ live' = live /\ busy' = busy
  <2>1. \A w \in Slots : wpc'[w] = wpc[w] \/ (wpc[w] = "blocked" /\ wpc'[w] = "woken")
    BY <1>2, SignalledMoves DEF TypeOK
  <2> QED  BY <1>2, <2>1 DEF Still, Others, Kind, Moves
<1>3. CASE \E w \in Slots : Worker(w)
  BY <1>3, WorkerMoves DEF Moves
<1>4. CASE ManagerGrow
  BY <1>4, GrowMoves DEF Moves
<1>5. CASE SpuriousWakeup
  BY <1>5 DEF SpuriousWakeup, TypeOK, Still, Others, Kind, Moves
<1> QED
  BY <1>1, <1>2, <1>3, <1>4, <1>5 DEF Next, Add, AddCall, AddTask, AddSignal, Manager, ManagerSample,
     ManagerSampleBusy, ManagerShrink, ManagerSignal, vars, workerVars

\* The two sets by kind.
LEMMA ByKind ==
  /\ Alive = {w \in Slots : Kind(wpc[w]) \in {"idle", "busy"}}
  /\ Alive' = {w \in Slots : Kind(wpc'[w]) \in {"idle", "busy"}}
  /\ Busy = {w \in Slots : Kind(wpc[w]) = "busy"}
  /\ Busy' = {w \in Slots : Kind(wpc'[w]) = "busy"}
BY DEF Alive, Busy, Kind

LEMMA CountNext ==
  ASSUME TypeOK, CountsRight, [Next]_vars
  PROVE  CountsRight' /\ busy' \in Nat /\ live' \in Nat
<1>1. /\ live \in Nat /\ busy \in Nat /\ live = Cardinality(Alive) /\ busy = Cardinality(Busy)
      /\ MIN_THR <= live /\ live <= MAX_THR
  BY DEF TypeOK, CountsRight, Busy
<1> SUFFICES /\ live' = Cardinality(Alive') /\ MIN_THR <= live' /\ live' <= MAX_THR
             /\ busy' = Cardinality(Busy') /\ live' \in Nat
  <2>1. Busy' \in SUBSET Slots
    BY DEF Busy
  <2> QED  BY <2>1, FiniteSlots DEF CountsRight, Busy
<1>2. CASE Still
  <2>1. Alive' = Alive /\ Busy' = Busy
    BY <1>2, ByKind DEF Still, Others
  <2> QED  BY <1>1, <1>2, <2>1 DEF Still
<1>3. ASSUME NEW w \in Slots, Starts(w)
      PROVE  live' = Cardinality(Alive') /\ live' = live /\ busy' = Cardinality(Busy')
  <2>1. Alive' = Alive /\ Busy' = Busy \cup {w} /\ w \notin Busy
    BY <1>3, ByKind DEF Starts, Others
  <2>2. Cardinality(Busy') = Cardinality(Busy) + 1
    BY <2>1, Finite, FS_AddElement
  <2> QED  BY <1>1, <1>3, <2>1, <2>2 DEF Starts
<1>4. ASSUME NEW w \in Slots, Stops(w)
      PROVE  live' = Cardinality(Alive') /\ live' = live /\ busy' = Cardinality(Busy')
  <2>1. Alive' = Alive /\ Busy' = Busy \ {w} /\ w \in Busy
    BY <1>4, ByKind DEF Stops, Others
  <2>2. Cardinality(Busy') = Cardinality(Busy) - 1
    BY <2>1, Finite, FS_RemoveElement
  <2> QED  BY <1>1, <1>4, <2>1, <2>2 DEF Stops
<1>5. ASSUME NEW w \in Slots, Leaves(w)
      PROVE  /\ live' = Cardinality(Alive') /\ MIN_THR <= live' /\ live' <= MAX_THR
             /\ busy' = Cardinality(Busy') /\ live' \in Nat
  <2>1. Alive' = Alive \ {w} /\ w \in Alive /\ Busy' = Busy
    BY <1>5, ByKind DEF Leaves, Others
  <2>2. Cardinality(Alive') = Cardinality(Alive) - 1
    BY <2>1, Finite, FS_RemoveElement
  <2> QED  BY <1>1, <1>5, <2>1, <2>2 DEF Leaves
<1>6. ASSUME NEW new \in SUBSET Slots, Grows(new)
      PROVE  /\ live' = Cardinality(Alive') /\ MIN_THR <= live' /\ live' <= MAX_THR
             /\ busy' = Cardinality(Busy') /\ live' \in Nat
  <2>1. Alive' = Alive \cup new /\ Alive \cap new = {} /\ Busy' = Busy
    BY <1>6, ByKind DEF Grows, Others
  <2>2. IsFiniteSet(new) /\ Cardinality(new) \in Nat
    BY FiniteSlots
  <2>3. Cardinality(Alive') = Cardinality(Alive) + Cardinality(new)
    <3>1. Cardinality(Alive \cap new) = 0
      BY <2>1, FS_EmptySet
    <3>2. Cardinality(Alive \cup new) =
            Cardinality(Alive) + Cardinality(new) - Cardinality(Alive \cap new)
      BY <2>2, Finite, FS_Union
    <3> QED  BY <1>1, <2>1, <2>2, <3>1, <3>2
  <2> QED  BY <1>1, <1>6, <2>1, <2>2, <2>3 DEF Grows
<1> QED  BY <1>1, <1>2, <1>3, <1>4, <1>5, <1>6, StepMoves DEF Moves

-----------------------------------------------------------------------------
(* Types and phases *)

LEMMA ClientInv ==
  ASSUME NEW c \in Clients, PoolInv, Add(c) \/ \E t \in Tasks : AddCall(c, t)
  PROVE  PhaseInv' /\ (busy' \in Nat /\ live' \in Nat => TypeOK')
<1> USE DEF PoolInv, PhaseInv, TypeOK, workerVars, managerVars, historyVars, ClientPC
<1>1. ASSUME NEW t \in Tasks, AddCall(c, t)  PROVE PhaseInv' /\ TypeOK'
  BY <1>1 DEF AddCall
<1>2. CASE AddTask(c)
  <2>1. ctask[c] \in Tasks
    BY <1>2 DEF AddTask
  <2>2. Append(queue, ctask[c]) \in Seq(Tasks)
    BY <2>1
  <2> QED  BY <1>2, <2>2 DEF AddTask
<1>3. CASE AddSignal(c)
  BY <1>3, SignalledMoves DEF AddSignal
<1> QED  BY <1>1, <1>2, <1>3 DEF Add

LEMMA WorkerInv ==
  ASSUME NEW w \in Slots, PoolInv, Worker(w)
  PROVE  PhaseInv' /\ (busy' \in Nat /\ live' \in Nat => TypeOK')
<1> USE DEF PoolInv, PhaseInv, TypeOK, workerVars, clientVars, managerVars, historyVars, WorkerPC,
            WorkerLocks
<1>1. CASE WorkerRetire(w)
  BY <1>1 DEF WorkerRetire
<1>2. CASE WorkerEmpty(w) \/ WorkerUnlock(w)
  BY <1>2 DEF WorkerEmpty, WorkerUnlock
<1>3. CASE WorkerSleep(w) \/ TakeLook(w) \/ WorkerBusy(w) \/ WorkerIdle(w)
  BY <1>3 DEF WorkerSleep, TakeLook, WorkerBusy, WorkerIdle
<1>4. CASE TakePop(w)
  <2>1. queue # <<>> => Head(queue) \in Tasks /\ Tail(queue) \in Seq(Tasks)
    OBVIOUS
  <2>2. CASE queue = <<>>
    BY <1>4, <2>2 DEF TakePop, Faults
  <2>3. CASE queue # <<>>
    <3>1. /\ wtask' = [wtask EXCEPT ![w] = Head(queue)] /\ queue' = Tail(queue)
          /\ wpc' = [wpc EXCEPT ![w] = "fetched"]
      BY <1>4, <2>3 DEF TakePop
    <3>2. wtask' \in [Slots -> Tasks \cup {NULL}] /\ queue' \in Seq(Tasks)
      BY <2>1, <2>3, <3>1
    <3> QED  BY <1>4, <2>3, <3>1, <3>2 DEF TakePop
  <2> QED  BY <2>2, <2>3
<1>5. CASE WorkerRun(w)
  <2>1. CASE wtask[w] = NULL
    BY <1>5, <2>1 DEF WorkerRun, Faults
  <2>2. CASE wtask[w] # NULL
    <3>1. wtask[w] \in Tasks
      BY <2>2
    <3> QED  BY <1>5, <2>2, <3>1 DEF WorkerRun
  <2> QED  BY <2>1, <2>2
<1> QED  BY <1>1, <1>2, <1>3, <1>4, <1>5 DEF Worker

LEMMA ManagerInv ==
  ASSUME PoolInv, Manager
  PROVE  PhaseInv' /\ (busy' \in Nat /\ live' \in Nat => TypeOK')
<1> USE DEF PoolInv, PhaseInv, TypeOK, workerVars, clientVars, historyVars, ManagerPC
<1>1. CASE ManagerSample
  <2>1. Len(queue) \in Nat
    OBVIOUS
  <2> QED  BY <1>1, <2>1 DEF ManagerSample
<1>2. CASE ManagerSampleBusy
  BY <1>2 DEF ManagerSampleBusy
<1>3. CASE ManagerGrow
  BY <1>3, GrowMoves DEF ManagerGrow
<1>4. CASE ManagerShrink
  BY <1>4 DEF ManagerShrink, NoSnap
<1>5. CASE ManagerSignal
  BY <1>5, SignalledMoves DEF ManagerSignal, LastSignal
<1> QED  BY <1>1, <1>2, <1>3, <1>4, <1>5 DEF Manager

LEMMA WakeupInv ==
  ASSUME PoolInv, SpuriousWakeup
  PROVE  PhaseInv' /\ TypeOK'
BY DEF SpuriousWakeup, PoolInv, PhaseInv, TypeOK, WorkerPC, clientVars, managerVars, historyVars

LEMMA NextInv == PoolInv /\ [Next]_vars => PoolInv'
<1> SUFFICES ASSUME PoolInv, [Next]_vars  PROVE PoolInv'
  OBVIOUS
<1>1. CountsRight' /\ busy' \in Nat /\ live' \in Nat
  BY CountNext DEF PoolInv
<1>2. CASE UNCHANGED vars
  BY <1>1, <1>2 DEF vars, workerVars, clientVars, managerVars, historyVars, PoolInv, PhaseInv, TypeOK
<1>3. CASE Next
  BY <1>1, <1>3, ClientInv, WorkerInv, ManagerInv, WakeupInv DEF Next, PoolInv
<1> QED  BY <1>2, <1>3

THEOREM PoolInvariant == Spec => []PoolInv
BY InitInv, NextInv, PTL DEF Spec

\* Every variable keeps its type; the counters never go below zero.
THEOREM TypeCorrect == Spec => []TypeOK
<1>1. PoolInv => TypeOK
  BY DEF PoolInv
<1> QED  BY <1>1, PoolInvariant, PTL

\* live_thr_num counts the threads there are and stays within the constructor's
\* sizes, and busy_thr_num counts the threads at work, whatever old counts the
\* manager decides on and whatever was in wait_exit_thr_num.
THEOREM CountersRight == Spec => []CountsRight
<1>1. PoolInv => CountsRight
  BY DEF PoolInv
<1> QED  BY <1>1, PoolInvariant, PTL

-----------------------------------------------------------------------------
(* Every task is in one place *)

\* The tasks that have come as far as the queue.
Held == Elements(queue) \cup ({wtask[w] : w \in Slots} \ {NULL}) \cup done

\* A task that was offered is with one client until it is in the queue, and
\* never with a client again; a worker has a task only while it is at work on it.
UniqueInv ==
  /\ Injective(queue)
  /\ Held \subseteq offered
  /\ \A c \in Clients : cpc[c] = "adding" => ctask[c] \in offered \ Held
  /\ \A c, d \in Clients :
       cpc[c] = "adding" /\ cpc[d] = "adding" /\ ctask[c] = ctask[d] => c = d
  /\ \A w \in Slots : wtask[w] # NULL => wpc[w] \in {"fetched", "running"}

LEMMA UniqueInit == Init => UniqueInv
<1> SUFFICES ASSUME Init PROVE UniqueInv
  OBVIOUS
<1>1. Elements(<<>>) = {} /\ Injective(<<>>)
  BY DEF Elements, Injective
<1> QED  BY <1>1 DEF Init, UniqueInv, Held

\* A step that moves no task.
Quiet == UNCHANGED <<queue, wtask, done, offered>> /\ \A w \in Slots :
           wpc[w] \in {"fetched", "running"} => wpc'[w] \in {"fetched", "running"}

LEMMA QuietKeeps ==
  ASSUME UniqueInv, Quiet,
         \A c \in Clients : cpc'[c] = "adding" => cpc[c] = "adding" /\ ctask'[c] = ctask[c]
  PROVE  UniqueInv'
<1>1. Held' = Held
  BY DEF Quiet, Held, Elements
<1> QED  BY <1>1 DEF UniqueInv, Quiet

\* A client brings a new task.
LEMMA CallKeeps ==
  ASSUME PoolInv, UniqueInv, NEW c \in Clients, NEW t \in Tasks, AddCall(c, t)
  PROVE  UniqueInv'
<1>1. /\ t \notin offered /\ offered' = offered \cup {t} /\ UNCHANGED <<queue, wpc, wtask, done>>
      /\ cpc'[c] = "adding" /\ ctask'[c] = t
      /\ \A d \in Clients \ {c} : cpc'[d] = cpc[d] /\ ctask'[d] = ctask[d]
  BY DEF AddCall, workerVars, PoolInv, TypeOK
<1>2. Held' = Held
  BY <1>1 DEF Held, Elements
<1> QED  BY <1>1, <1>2 DEF UniqueInv

\* It puts it into the queue.
LEMMA PushKeeps ==
  ASSUME PoolInv, UniqueInv, NEW c \in Clients, AddTask(c)
  PROVE  /\ UniqueInv' /\ ctask[c] \in Tasks \ Held /\ queue' = Append(queue, ctask[c])
         /\ UNCHANGED <<wtask, done>>
<1> DEFINE t == ctask[c]
<1>1. /\ UNCHANGED <<wpc, wtask, ctask, offered, done>> /\ queue' = Append(queue, t)
      /\ cpc[c] = "adding" /\ cpc'[c] = "added" /\ \A d \in Clients \ {c} : cpc'[d] = cpc[d]
      /\ t \in Tasks /\ queue \in Seq(Tasks)
  BY DEF AddTask, workerVars, historyVars, PoolInv, PhaseInv, TypeOK
<1>2. Injective(queue) /\ t \in offered \ Held /\ t \notin Elements(queue)
  BY <1>1 DEF UniqueInv, Held
<1>3. Elements(queue') = Elements(queue) \cup {t} /\ Injective(queue')
  <2>1. Append(queue, t) = queue'
    BY <1>1
  <2> HIDE DEF t
  <2>2. Elements(Append(queue, t)) = Elements(queue) \cup {t} /\ Injective(Append(queue, t))
    BY <1>1, <1>2, AppendNew
  <2> QED  BY <2>1, <2>2
<1>4. Held' = Held \cup {t}
  BY <1>1, <1>3 DEF Held
<1> QED  BY <1>1, <1>2, <1>3, <1>4 DEF UniqueInv

\* A worker takes it out.
LEMMA PopKeeps ==
  ASSUME PoolInv, UniqueInv, NEW w \in Slots, TakePop(w), queue # <<>>
  PROVE  /\ UniqueInv' /\ wtask[w] = NULL /\ wtask' = [wtask EXCEPT ![w] = Head(queue)]
         /\ queue' = Tail(queue) /\ done' = done
<1> DEFINE t == Head(queue)
<1>1. /\ wtask' = [wtask EXCEPT ![w] = t] /\ queue' = Tail(queue) /\ wpc[w] = "popping"
      /\ wpc' = [wpc EXCEPT ![w] = "fetched"] /\ UNCHANGED <<cpc, ctask, offered, done>>
      /\ queue \in Seq(Tasks) /\ wtask \in [Slots -> Tasks \cup {NULL}]
      /\ wpc \in [Slots -> WorkerPC]
  BY DEF TakePop, clientVars, historyVars, PoolInv, TypeOK
<1>2. wtask[w] = NULL /\ Injective(queue)
  BY <1>1 DEF UniqueInv
<1>3. t \in Elements(queue) /\ Elements(queue') = Elements(queue) \ {t} /\ Injective(queue')
  <2>1. /\ t \in Elements(queue) /\ Elements(Tail(queue)) = Elements(queue) \ {t}
        /\ Injective(Tail(queue))
    BY <1>1, <1>2, TailRest
  <2> QED  BY <1>1, <2>1
<1> HIDE DEF t
<1>4. Held' \subseteq Held
  BY <1>1, <1>3 DEF Held
<1>5. \A v \in Slots : wtask'[v] # NULL => wpc'[v] \in {"fetched", "running"}
  BY <1>1 DEF UniqueInv
<1> QED  BY <1>1, <1>2, <1>3, <1>4, <1>5 DEF UniqueInv, t

\* And it has run it.
LEMMA RunKeeps ==
  ASSUME PoolInv, UniqueInv, NEW w \in Slots, WorkerRun(w), wtask[w] # NULL
  PROVE  /\ UniqueInv' /\ done' = done \cup {wtask[w]} /\ wtask' = [wtask EXCEPT ![w] = NULL]
         /\ queue' = queue
<1>1. /\ wtask' = [wtask EXCEPT ![w] = NULL] /\ queue' = queue /\ done' = done \cup {wtask[w]}
      /\ wpc' = [wpc EXCEPT ![w] = "ran"] /\ UNCHANGED <<cpc, ctask, offered>>
      /\ wtask \in [Slots -> Tasks \cup {NULL}] /\ wpc \in [Slots -> WorkerPC]
  BY DEF WorkerRun, clientVars, PoolInv, TypeOK
<1>2. Held' \subseteq Held
  BY <1>1 DEF Held, Elements
<1>3. \A v \in Slots : wtask'[v] # NULL => wpc'[v] \in {"fetched", "running"}
  BY <1>1 DEF UniqueInv
<1> QED  BY <1>1, <1>2, <1>3 DEF UniqueInv

\* The steps that move a task, and the others.
LEMMA StepKinds ==
  ASSUME PoolInv, UniqueInv, [Next]_vars
  PROVE  \/ UniqueInv' /\ UNCHANGED <<queue, wtask, done>>
         \/ \E c \in Clients : AddTask(c)
         \/ \E w \in Slots : TakePop(w) /\ queue # <<>>
         \/ \E w \in Slots : WorkerRun(w) /\ wtask[w] # NULL
<1> USE DEF PoolInv, TypeOK, workerVars, clientVars, managerVars, historyVars
<1>1. CASE UNCHANGED vars
  <2>1. Quiet /\ UNCHANGED <<cpc, ctask>>
    BY <1>1 DEF vars, Quiet
  <2> QED  BY <2>1, QuietKeeps DEF Quiet
<1>2. ASSUME NEW c \in Clients, NEW t \in Tasks, AddCall(c, t)
      PROVE  UniqueInv' /\ UNCHANGED <<queue, wtask, done>>
  BY <1>2, CallKeeps DEF AddCall
<1>3. ASSUME NEW c \in Clients, AddSignal(c)
      PROVE  UniqueInv' /\ UNCHANGED <<queue, wtask, done>>
  <2>1. \A w \in Slots : wpc'[w] = wpc[w] \/ (wpc[w] = "blocked" /\ wpc'[w] = "woken")
    BY <1>3, SignalledMoves DEF AddSignal
  <2>2. Quiet
    BY <1>3, <2>1 DEF AddSignal, Quiet
  <2>3. \A d \in Clients : cpc'[d] = "adding" => cpc[d] = "adding" /\ ctask'[d] = ctask[d]
    BY <1>3 DEF AddSignal
  <2> QED  BY <2>2, <2>3, QuietKeeps DEF Quiet
<1>4. ASSUME NEW w \in Slots, Worker(w), ~(TakePop(w) /\ queue # <<>>),
             ~(WorkerRun(w) /\ wtask[w] # NULL)
      PROVE  UniqueInv' /\ UNCHANGED <<queue, wtask, done>>
  <2>1. UNCHANGED <<queue, wtask, done, offered, cpc, ctask>>
    BY <1>4 DEF Worker, WorkerRetire, WorkerEmpty, WorkerSleep, WorkerUnlock, TakeLook, TakePop,
       WorkerBusy, WorkerRun, WorkerIdle
  <2>2. \A v \in Slots : wpc[v] \in {"fetched", "running"} => wpc'[v] \in {"fetched", "running"}
    BY <1>4 DEF Worker, WorkerRetire, WorkerEmpty, WorkerSleep, WorkerUnlock, WorkerLocks, TakeLook,
       TakePop, WorkerBusy, WorkerRun, WorkerIdle
  <2>3. Quiet
    BY <2>1, <2>2 DEF Quiet
  <2> QED  BY <2>1, <2>3, QuietKeeps
<1>5. ASSUME Manager  PROVE UniqueInv' /\ UNCHANGED <<queue, wtask, done>>
  <2>1. UNCHANGED <<queue, wtask, done, offered, cpc, ctask>>
    BY <1>5 DEF Manager, ManagerSample, ManagerSampleBusy, ManagerGrow, ManagerShrink, ManagerSignal
  <2>2. \A v \in Slots : wpc[v] \in {"fetched", "running"} => wpc'[v] \in {"fetched", "running"}
    <3>1. CASE ManagerGrow
      BY <3>1, GrowMoves
    <3>2. CASE ManagerSignal
      BY <3>2, SignalledMoves DEF ManagerSignal
    <3>3. CASE UNCHANGED wpc
      BY <3>3
    <3> QED  BY <1>5, <3>1, <3>2, <3>3 DEF Manager, ManagerSample, ManagerSampleBusy, ManagerShrink
  <2>3. Quiet
    BY <2>1, <2>2 DEF Quiet
  <2> QED  BY <2>1, <2>3, QuietKeeps
<1>6. ASSUME SpuriousWakeup  PROVE UniqueInv' /\ UNCHANGED <<queue, wtask, done>>
  <2>1. Quiet /\ UNCHANGED <<cpc, ctask>>
    BY <1>6 DEF SpuriousWakeup, Quiet
  <2> QED  BY <2>1, QuietKeeps DEF Quiet
<1> QED  BY <1>1, <1>2, <1>3, <1>4, <1>5, <1>6 DEF Next, Add

LEMMA UniqueNext == PoolInv /\ UniqueInv /\ [Next]_vars => UniqueInv'
BY StepKinds, PushKeeps, PopKeeps, RunKeeps

-----------------------------------------------------------------------------
(* The refinement *)

LEMMA AbstractInit == Init => Abstract!Init
BY DEF Init, Abstract!Init

\* A queue without repetitions that misses a task is shorter than their number.
LEMMA RoomLeft ==
  ASSUME IsFiniteSet(Tasks), queue \in Seq(Tasks), Injective(queue),
         NEW t \in Tasks, t \notin Elements(queue)
  PROVE  Len(queue) < Cardinality(Tasks)
<1>1. Len(queue) \in Nat /\ \A i \in 1 .. Len(queue) : queue[i] \in Tasks
  OBVIOUS
<1>2. Elements(queue) \subseteq Tasks \ {t}
  BY <1>1 DEF Elements
<1>3. /\ IsFiniteSet(Tasks \ {t}) /\ Cardinality(Tasks \ {t}) = Cardinality(Tasks) - 1
      /\ Cardinality(Tasks) \in Nat
  BY FS_RemoveElement, FS_CardinalityType
<1>4. queue \in Injection(1 .. Len(queue), Elements(queue))
  BY <1>1 DEF Injection, IsInjective, Injective, Elements
<1>5. IsFiniteSet(Elements(queue)) /\ Cardinality(Elements(queue)) <= Cardinality(Tasks \ {t})
  BY <1>2, <1>3, FS_Subset
<1>6. Cardinality(1 .. Len(queue)) = Len(queue) /\ IsFiniteSet(1 .. Len(queue))
  BY <1>1, FS_Interval
<1>7. Cardinality(1 .. Len(queue)) <= Cardinality(Elements(queue))
  BY <1>4, <1>5, <1>6, FS_Injection
<1> QED  BY <1>1, <1>3, <1>5, <1>6, <1>7, FS_CardinalityType

LEMMA PushAccepts ==
  ASSUME IsFiniteSet(Tasks), PoolInv, UniqueInv, NEW c \in Clients, AddTask(c)
  PROVE  Abstract!Accept(ctask[c])
<1>1. queue \in Seq(Tasks) /\ Injective(queue)
  BY DEF PoolInv, TypeOK, UniqueInv
<1>2. DOMAIN queue = 1 .. Len(queue)
  BY <1>1
<1>3. ctask[c] \notin Abstract!Queued \cup Abstract!Running \cup done
  BY <1>2, PushKeeps DEF Held, Elements, Abstract!Queued, Abstract!Running
<1>4. ctask[c] \in Tasks /\ ctask[c] \notin Elements(queue)
  BY PushKeeps DEF Held
<1>5. Len(queue) < Cardinality(Tasks)
  BY <1>1, <1>4, RoomLeft
<1> QED  BY <1>3, <1>5, PushKeeps DEF Abstract!Accept

LEMMA AbstractStep ==
  ASSUME IsFiniteSet(Tasks), PoolInv, UniqueInv, [Next]_vars
  PROVE  [Abstract!Next]_(Abstract!vars)
<1>1. CASE UNCHANGED <<queue, wtask, done>>
  BY <1>1 DEF Abstract!vars
<1>2. ASSUME NEW c \in Clients, AddTask(c)  PROVE Abstract!Next
  <2>1. ctask[c] \in Tasks
    BY <1>2, PushKeeps
  <2> QED  BY <1>2, <2>1, PushAccepts DEF Abstract!Next
<1>3. ASSUME NEW w \in Slots, TakePop(w), queue # <<>>  PROVE Abstract!Next
  <2>1. Abstract!Start(w)
    BY <1>3, PopKeeps DEF Abstract!Start
  <2> QED  BY <2>1 DEF Abstract!Next
<1>4. ASSUME NEW w \in Slots, WorkerRun(w), wtask[w] # NULL  PROVE Abstract!Next
  <2>1. Abstract!Finish(w)
    BY <1>4, RunKeeps DEF Abstract!Finish
  <2> QED  BY <2>1 DEF Abstract!Next
<1> QED  BY <1>1, <1>2, <1>3, <1>4, StepKinds

\* Every behaviour of the C++ pool, up to an undefined step, is one of TaskPool's
\* FIFO queue, which is never closed: tasks start in the order in which addTask
\* queued them, each on one worker and once, also when workers that have seen the
\* same task race to take it.  The queue has no bound; that the tasks are
\* finitely many gives TaskPool a capacity.
THEOREM CppPoolRefines == ASSUME IsFiniteSet(Tasks)  PROVE Spec => ImplementsTaskPool
<1>1. PoolInv /\ UniqueInv /\ [Next]_vars => [Abstract!Next]_(Abstract!vars)
  BY AbstractStep
<1>2. Init => UniqueInv
  BY UniqueInit
<1>3. PoolInv /\ UniqueInv /\ [Next]_vars => UniqueInv'
  BY UniqueNext
<1>4. Init => Abstract!Init
  BY AbstractInit
<1> QED
  BY <1>1, <1>2, <1>3, <1>4, PoolInvariant, PTL DEF Spec, ImplementsTaskPool, Abstract!Spec

=============================================================================

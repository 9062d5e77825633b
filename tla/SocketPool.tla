----------------------------- MODULE SocketPool -----------------------------
(***************************************************************************)
(* The C++ connection pool (class SocketPool) and the threads of main.cpp  *)
(* that use it: each runs the function working, which takes a connection,  *)
(* exchanges some messages with the server and gives the connection back,  *)
(* as broken if an answer was empty.                                       *)
(*                                                                         *)
(* getConnect looks at the list before it locks the mutex.  createConnect  *)
(* is called with the mutex locked and tries to connect until the list is  *)
(* long enough, however often the server refuses; connectToHost leaves the *)
(* descriptor of a refused connection open.  The exchange of messages is   *)
(* reduced to its outcome.  front() and pop() of an empty queue, and any   *)
(* call of a pool that is being destroyed, are undefined: the model stops  *)
(* there with `fault' set.                                                 *)
(***************************************************************************)
EXTENDS Integers, Sequences, FiniteSets

CONSTANTS
  Capacity,           \* the argument of the constructor
  Callers,            \* threads that run working
  Objects,            \* addresses new TcpSocket may return
  NULL,
  Main, NoOne,        \* the thread of main; "the mutex is free"
  FdLimit,            \* descriptors the process may have open
  Calls,              \* bound: how often working is run
  MaxRefusals         \* bound: how many attempts to connect are refused

ASSUME SizesAssumption ==
  /\ Capacity \in Nat \ {0} /\ FdLimit \in Nat /\ Calls \in Nat
  /\ MaxRefusals \in Nat

ASSUME NamesAssumption ==
  /\ NULL \notin Objects
  /\ Main \notin Callers /\ NoOne \notin Callers \cup {Main}

ASSUME ObjectsAssumption ==
  IsFiniteSet(Objects) /\ Cardinality(Objects) >= Capacity

VARIABLES
  mutex,      \* owner of m_mutex, when it is kept over a step
  list,       \* m_list
  nodeNumber, \* m_nodeNumber
  objs,       \* TcpSocket objects that exist, each with an open descriptor
  leaked,     \* descriptors left open by refused attempts to connect
  pc,         \* where each thread is
  tcp,        \* each caller's connection
  calls,      \* how often working still is to be run
  fault       \* what undefined step was taken, "none" if none was

vars == <<mutex, list, nodeNumber, objs, leaked, pc, tcp, calls, fault>>

CallerPC == {"idle", "wants", "popping", "using", "valid", "invalid", "creating"}
MainPC == {"creating", "sleeping", "destroying", "exited"}
Faults == {"none", "popped empty list", "called destroyed pool"}

Threads == Callers \cup {Main}
Open == Cardinality(objs) + leaked
Pooled == {list[i] : i \in 1 .. Len(list)}

\* main is in the destructor or beyond it.
Gone == pc[Main] \in {"destroying", "exited"}

-----------------------------------------------------------------------------
\* main has entered the constructor, whose call of createConnect needs no mutex.
Init ==
  /\ mutex = NoOne
  /\ list = <<>>
  /\ nodeNumber = Capacity
  /\ objs = {}
  /\ leaked = 0
  /\ pc = [t \in Threads |-> IF t = Main THEN "creating" ELSE "idle"]
  /\ tcp = [c \in Callers |-> NULL]
  /\ calls = Calls
  /\ fault = "none"

-----------------------------------------------------------------------------
(* createConnect *)

ListIsFull == Len(list) >= nodeNumber

\* A new connection joins the list ...
CreateSucceeds(t) ==
  /\ pc[t] = "creating" /\ ~ListIsFull
  /\ Open < FdLimit
  /\ \E o \in Objects \ objs : /\ objs' = objs \cup {o}
                               /\ list' = Append(list, o)
  /\ UNCHANGED <<mutex, nodeNumber, leaked, pc, tcp, calls, fault>>

\* ... or the server refuses it: the object is deleted, its descriptor is not
\* closed, and the next call tries again.  (With no descriptor left, every call
\* fails in socket(), and nothing changes any more.)
CreateRefused(t) ==
  /\ pc[t] = "creating" /\ ~ListIsFull
  /\ Open < FdLimit
  /\ leaked < MaxRefusals
  /\ leaked' = leaked + 1
  /\ UNCHANGED <<mutex, list, nodeNumber, objs, pc, tcp, calls, fault>>

\* A mutation of CreateReturns: putConnect returns with the mutex locked.
CreateReturnsLocked(t) ==
  /\ pc[t] = "creating" /\ ListIsFull
  /\ pc' = [pc EXCEPT ![t] = IF t = Main THEN "sleeping" ELSE "idle"]
  /\ UNCHANGED <<mutex, list, nodeNumber, objs, leaked, tcp, calls, fault>>

\* The list is long enough: the constructor returns, or putConnect unlocks and
\* working returns.
CreateReturns(t) ==
  /\ pc[t] = "creating" /\ ListIsFull
  /\ pc' = [pc EXCEPT ![t] = IF t = Main THEN "sleeping" ELSE "idle"]
  /\ mutex' = NoOne
  /\ UNCHANGED <<list, nodeNumber, objs, leaked, tcp, calls, fault>>

Create(t) == CreateSucceeds(t) \/ CreateRefused(t) \/ CreateReturns(t)

-----------------------------------------------------------------------------
(* working *)

\* A thread begins to run working.
WorkingStarts(c) ==
  /\ pc[c] = "idle" /\ pc[Main] \notin {"creating", "exited"}
  /\ calls > 0
  /\ calls' = calls - 1
  /\ pc' = [pc EXCEPT ![c] = "wants"]
  /\ UNCHANGED <<mutex, list, nodeNumber, objs, leaked, tcp, fault>>

\* getConnect sees, without the mutex, a list that is not empty.  (When it sees
\* an empty one it returns NULL and working calls it again.)
GetLook(c) ==
  /\ pc[c] = "wants" /\ ~Gone
  /\ list # <<>>
  /\ pc' = [pc EXCEPT ![c] = "popping"]
  /\ UNCHANGED <<mutex, list, nodeNumber, objs, leaked, tcp, calls, fault>>

\* A mutation of GetPop: pop() is missing.
GetPopKeeps(c) ==
  /\ pc[c] = "popping" /\ ~Gone
  /\ mutex = NoOne /\ list # <<>>
  /\ tcp' = [tcp EXCEPT ![c] = Head(list)]
  /\ pc' = [pc EXCEPT ![c] = "using"]
  /\ UNCHANGED <<mutex, list, nodeNumber, objs, leaked, calls, fault>>

\* front() and pop(), with the mutex.
GetPop(c) ==
  /\ pc[c] = "popping" /\ ~Gone
  /\ mutex = NoOne
  /\ IF list = <<>>
       THEN /\ fault' = "popped empty list"
            /\ UNCHANGED <<list, tcp, pc>>
       ELSE /\ tcp' = [tcp EXCEPT ![c] = Head(list)]
            /\ list' = Tail(list)
            /\ pc' = [pc EXCEPT ![c] = "using"]
            /\ UNCHANGED fault
  /\ UNCHANGED <<mutex, nodeNumber, objs, leaked, calls>>

\* All answers came, or one was empty: a timeout, an error, or the server has
\* closed the connection.
Converse(c) ==
  /\ pc[c] = "using"
  /\ \E outcome \in {"valid", "invalid"} : pc' = [pc EXCEPT ![c] = outcome]
  /\ UNCHANGED <<mutex, list, nodeNumber, objs, leaked, tcp, calls, fault>>

\* putConnect(tcp)
PutValid(c) ==
  /\ pc[c] = "valid" /\ ~Gone
  /\ mutex = NoOne
  /\ list' = Append(list, tcp[c])
  /\ tcp' = [tcp EXCEPT ![c] = NULL]
  /\ pc' = [pc EXCEPT ![c] = "idle"]
  /\ UNCHANGED <<mutex, nodeNumber, objs, leaked, calls, fault>>

\* A mutation of Wanted: without the connection just closed.
WantedTooFew == Len(list)

\* Another: as many as the pool had at first.
WantedCapacity == Capacity

\* The length putConnect asks createConnect for.
Wanted == Len(list) + 1

\* putConnect(tcp, false): the connection is closed and its object deleted, and
\* with the mutex still locked a new one is created.
PutInvalid(c) ==
  /\ pc[c] = "invalid" /\ ~Gone
  /\ mutex = NoOne
  /\ mutex' = c
  /\ objs' = objs \ {tcp[c]}
  /\ tcp' = [tcp EXCEPT ![c] = NULL]
  /\ nodeNumber' = Wanted
  /\ pc' = [pc EXCEPT ![c] = "creating"]
  /\ UNCHANGED <<list, leaked, calls, fault>>

\* A thread that goes on with a pool main is destroying, or has destroyed.
UseAfterDestroy(c) ==
  /\ pc[c] \in {"wants", "popping", "valid", "invalid", "creating"}
  /\ pc[Main] = "destroying"
  /\ fault' = "called destroyed pool"
  /\ UNCHANGED <<mutex, list, nodeNumber, objs, leaked, pc, tcp, calls>>

-----------------------------------------------------------------------------
(* ~SocketPool, when main returns after its long sleep *)

DestroyStarts ==
  /\ pc[Main] = "sleeping"
  /\ pc' = [pc EXCEPT ![Main] = "destroying"]
  /\ UNCHANGED <<mutex, list, nodeNumber, objs, leaked, tcp, calls, fault>>

\* One connection of the list is closed and deleted.
DestroyOne ==
  /\ pc[Main] = "destroying"
  /\ list # <<>>
  /\ objs' = objs \ {Head(list)}
  /\ list' = Tail(list)
  /\ UNCHANGED <<mutex, nodeNumber, leaked, pc, tcp, calls, fault>>

\* The process ends.
Exit ==
  /\ pc[Main] = "destroying"
  /\ list = <<>>
  /\ pc' = [pc EXCEPT ![Main] = "exited"]
  /\ UNCHANGED <<mutex, list, nodeNumber, objs, leaked, tcp, calls, fault>>

-----------------------------------------------------------------------------
Working(c) ==
  \/ GetLook(c) \/ GetPop(c) \/ Converse(c) \/ PutValid(c) \/ PutInvalid(c)
  \/ UseAfterDestroy(c)

\* After an undefined step, or the end of the process, there is nothing left
\* to model; a caller that is creating stops when the destructor starts.
Next ==
  /\ fault = "none" /\ pc[Main] # "exited"
  /\ \/ Create(Main)
     \/ \E c \in Callers : \/ WorkingStarts(c) \/ Working(c)
                           \/ ~Gone /\ Create(c)
     \/ DestroyStarts \/ DestroyOne \/ Exit

Spec == Init /\ [][Next]_vars

(***************************************************************************)
(* A thread that can go on eventually does: the mutex is kept over several *)
(* steps only by createConnect.  Nothing obliges main to return, or a      *)
(* thread to run working.                                                  *)
(***************************************************************************)
Fairness ==
  /\ WF_vars(fault = "none" /\ Create(Main))
  /\ \A c \in Callers :
       WF_vars(fault = "none" /\ ~Gone /\ (Working(c) \/ Create(c)))

FairSpec == Spec /\ Fairness

-----------------------------------------------------------------------------
(* Properties *)

TypeOK ==
  /\ mutex \in Callers \cup {NoOne}
  /\ list \in Seq(Objects) /\ Len(list) <= Capacity
  /\ nodeNumber \in 1 .. Capacity
  /\ objs \subseteq Objects
  /\ leaked \in 0 .. MaxRefusals /\ Open <= FdLimit
  /\ pc \in [Threads -> CallerPC \cup MainPC]
  /\ tcp \in [Callers -> Objects \cup {NULL}]
  /\ calls \in 0 .. Calls
  /\ fault \in Faults

Abstract == INSTANCE ConnectionPool
  WITH Users <- Callers, Connections <- Objects, None <- NULL,
       free <- Pooled, lent <- tcp

\* A connection is in the list or with one caller, never both and never with
\* two, although objects are freed and their addresses used again; and there
\* are never more than the capacity.
ImplementsConnectionPool == Abstract!Spec

\* Whenever nobody is in createConnect, the connections in the list and those
\* the callers have make up the capacity, and no other TcpSocket object exists:
\* a connection found broken is replaced, not lost, whoever else takes and
\* returns connections meanwhile, and nobody holds a deleted one.
NoneLost ==
  /\ pc[Main] = "sleeping" /\ mutex = NoOne => Cardinality(objs) = Capacity
  /\ objs = Pooled \cup ({tcp[c] : c \in Callers} \ {NULL})

\* getConnect takes the connection at the head of the queue (SocketPool.cpp:23):
\* there is one when it has locked the mutex.  Its look at the list came before
\* the lock, and with more callers than connections others can have taken what
\* it saw.
NoEmptyPop == fault # "popped empty list"

\* working returns, as long as main has not and no undefined step was taken:
\* with finitely many calls and refusals, and descriptors for them, no caller
\* waits for a connection or for the mutex, or tries to replace a connection,
\* for ever, though there are more callers than connections.
CallersReturn ==
  \A c \in Callers : pc[c] # "idle" ~> (pc[c] = "idle" \/ Gone \/ fault # "none")

\* A property that a reader may expect and the code does not have, as the README
\* tells; no run checks it.
\* putConnect creates a new connection for the broken one it has closed, also
\* when the server has refused some attempts, but not for ever.
BrokenReplaced ==
  \A c \in Callers : pc[c] = "creating" ~> (pc[c] = "idle" \/ Gone)

=============================================================================

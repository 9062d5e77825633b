------------------------------- MODULE CltPool -------------------------------
(***************************************************************************)
(* The C connection pool (sckCltPool_...) and the client and server that   *)
(* are its test programs: the client's main makes a pool, its threads each *)
(* take a connection, exchange Rounds messages over it and put it back,    *)
(* and main, having joined them, destroys the pool.                        *)
(*                                                                         *)
(* Connections are descriptors, which the kernel numbers: a new one gets   *)
(* the lowest free number, so that a number that is still remembered after *)
(* a close may come to mean another connection.  A refused attempt to      *)
(* connect leaves its descriptor open.  A message is the pair of the       *)
(* thread and the round it belongs to; the server answers the requests of  *)
(* a connection in order, or fails to.  A message goes and comes in two    *)
(* parts, for only the select before each call is timed: once a part of a  *)
(* frame has gone or come, writen and readn wait for the rest without a    *)
(* limit.                                                                  *)
(***************************************************************************)
EXTENDS Integers, Sequences, FiniteSets

CONSTANTS
  Bounds,             \* param.bounds
  Callers,            \* threads that run pthread_func
  MaxFd,              \* descriptors are numbered from 1, 0 being stdin's
  NoFd, NoOne,        \* connfd = -1; "the mutex is free"
  Rounds,             \* messages a thread exchanges
  Flags,              \* what threads pass to sckCltPool_putConnet
  TerminatedInit,     \* what malloc may leave in hdl->terminated
  MaxRefused          \* bound: how many attempts to connect are refused

Slots == 0 .. Bounds - 1
Fds == 1 .. MaxFd

ASSUME SizesAssumption ==
  /\ Bounds \in Nat \ {0} /\ Rounds \in Nat \ {0} /\ MaxRefused \in Nat
  /\ MaxFd \in Nat /\ MaxFd >= Bounds + Cardinality(Callers) + MaxRefused

ASSUME NamesAssumption ==
  NoFd \notin Fds /\ NoOne \notin Callers /\ IsFiniteSet(Callers)

ASSUME ValuesAssumption ==
  Flags \subseteq {0, 1} /\ TerminatedInit \subseteq {0, 1} /\ TerminatedInit # {}

VARIABLES
  handle,     \* whether main has a pool
  mutex,      \* owner of foo_mutex, when it is kept over a step
  fdArray, valid, terminated,
  open,       \* descriptors the process has open
  refused,    \* attempts to connect that were refused
  mpc,        \* where main is
  pc,         \* where each thread is
  connfd,     \* its local variables connfd
  round,      \* ... and i
  asked,      \* on each connection, requests the server has still to read
  answers,    \* ... and answers the client has still to read
  partial,    \* those on which the last of the answers has come in part only
  stray       \* history: those put back with 1 while something was under way

poolVars == <<handle, mutex, fdArray, valid, terminated>>
kernelVars == <<open, refused>>
threadVars == <<pc, connfd, round>>
streamVars == <<asked, answers, partial, stray>>
vars == <<poolVars, kernelVars, mpc, threadVars, streamVars>>

CallerPC == {"start", "send", "sending", "recv", "put", "reconnect", "ended"}
MainPC == {"init", "running", "done"}
Messages == Callers \X (1 .. Rounds)

-----------------------------------------------------------------------------
(* The kernel *)

\* The descriptor socket returns next.
NewFd == CHOOSE f \in Fds \ open : \A g \in Fds \ open : f <= g

MayRefuse == refused < MaxRefused

\* close of some descriptors, those that are not open included: what their
\* connections still carried is gone.
CloseFds(fds) ==
  /\ open' = open \ fds
  /\ asked' = [f \in Fds |-> IF f \in fds THEN <<>> ELSE asked[f]]
  /\ answers' = [f \in Fds |-> IF f \in fds THEN <<>> ELSE answers[f]]
  /\ partial' = partial \ fds
  /\ stray' = stray \ fds

\* The descriptor of a refused connection stays open.
Refused ==
  /\ MayRefuse
  /\ refused' = refused + 1
  /\ open' = open \cup {NewFd}

-----------------------------------------------------------------------------
\* sckCltPool_init has allocated the handle; what malloc leaves in the arrays
\* is not read while the pool works.
Init ==
  /\ handle = "none" /\ mutex = NoOne
  /\ fdArray = [i \in Slots |-> 0] /\ valid = 0
  /\ terminated \in TerminatedInit
  /\ open = {} /\ refused = 0
  /\ mpc = "init"
  /\ pc = [c \in Callers |-> "start"]
  /\ connfd = [c \in Callers |-> NoFd]
  /\ round = [c \in Callers |-> 0]
  /\ asked = [f \in Fds |-> <<>>] /\ answers = [f \in Fds |-> <<>>]
  /\ partial = {} /\ stray = {}

(* sckCltPool_init *)

\* One connection of the loop.
InitConnects ==
  /\ mpc = "init" /\ valid < Bounds
  /\ fdArray' = [fdArray EXCEPT ![valid] = NewFd]
  /\ open' = open \cup {NewFd}
  /\ valid' = valid + 1
  /\ UNCHANGED <<handle, mutex, terminated, refused, mpc, threadVars, streamVars>>

\* One is refused: those there are closed again, the handle is freed and main,
\* which ignores the result, has none.  (The loop that closes them reads the
\* rest of statusArray, which nothing has written: it may take it for 1, and
\* close numbers nobody uses, or that of the refused connection.)
InitRefused ==
  /\ mpc = "init" /\ valid < Bounds
  /\ MayRefuse /\ refused' = refused + 1
  /\ open' \in {{}, {NewFd}}
  /\ valid' = 0
  /\ mpc' = "running"
  /\ UNCHANGED <<handle, mutex, fdArray, terminated, threadVars, streamVars>>

InitReturns ==
  /\ mpc = "init" /\ valid = Bounds
  /\ handle' = "live"
  /\ mpc' = "running"
  /\ UNCHANGED <<mutex, fdArray, valid, terminated, kernelVars, threadVars,
                 streamVars>>

-----------------------------------------------------------------------------
(* sckCltPool_getConnet *)

MayGet == handle = "live" /\ terminated = 0 /\ valid > 0

\* A mutation of GetTop: valid is decremented after its use as the position.
GetTopLate == fdArray[valid % Bounds]

\* The connection a thread gets: the last that was put.
GetTop == fdArray[valid - 1]

\* (No status of a connection in the pool is ever 0: the repair of a broken one
\* that would follow here never runs.)
Get(c) ==
  /\ mpc = "running" /\ pc[c] = "start"
  /\ MayGet /\ mutex = NoOne
  /\ connfd' = [connfd EXCEPT ![c] = GetTop]
  /\ valid' = valid - 1
  /\ pc' = [pc EXCEPT ![c] = "send"]
  /\ round' = [round EXCEPT ![c] = 1]
  /\ UNCHANGED <<handle, mutex, fdArray, terminated, kernelVars, mpc, streamVars>>

\* No pool, one that claims to be terminated, or no connection left: the thread
\* ignores the error and returns when sckCltPool_send refuses connfd = -1.
GetFails(c) ==
  /\ mpc = "running" /\ pc[c] = "start"
  /\ ~MayGet /\ (handle = "live" => mutex = NoOne)
  /\ pc' = [pc EXCEPT ![c] = "ended"]
  /\ UNCHANGED <<poolVars, kernelVars, mpc, connfd, round, streamVars>>

-----------------------------------------------------------------------------
(* pthread_func, between getting a connection and putting it back *)

\* continue: the next round, or the end of the loop.
Continue(c) ==
  /\ round' = [round EXCEPT ![c] = IF @ = Rounds THEN 0 ELSE @ + 1]
  /\ pc' = [pc EXCEPT ![c] = IF round[c] = Rounds THEN "put" ELSE "send"]

Ask(c) ==
  /\ asked' = [asked EXCEPT ![connfd[c]] = Append(@, <<c, round[c]>>)]
  /\ pc' = [pc EXCEPT ![c] = "recv"]

Send(c) ==
  /\ pc[c] = "send"
  /\ Ask(c)
  /\ UNCHANGED <<poolVars, kernelVars, mpc, connfd, round, answers, partial, stray>>

\* The buffer of the connection takes only a part of the frame: writen waits
\* until there is room, which the server makes, or the connection ends.
SendBlocks(c) ==
  /\ pc[c] = "send"
  /\ pc' = [pc EXCEPT ![c] = "sending"]
  /\ UNCHANGED <<poolVars, kernelVars, mpc, connfd, round, streamVars>>

SendEnds(c) ==
  /\ pc[c] = "sending"
  /\ Ask(c)
  /\ UNCHANGED <<poolVars, kernelVars, mpc, connfd, round, answers, partial, stray>>

\* An answer is there whole.
Whole(f) == Len(answers[f]) > IF f \in partial THEN 1 ELSE 0

\* readn waits for the whole of the frame whose first byte ended the select.
Receive(c) ==
  /\ pc[c] = "recv"
  /\ Whole(connfd[c])
  /\ answers' = [answers EXCEPT ![connfd[c]] = Tail(@)]
  /\ Continue(c)
  /\ UNCHANGED <<poolVars, kernelVars, mpc, connfd, asked, partial, stray>>

\* Five seconds pass in the select of a call, to which no room or no byte comes:
\* the loop goes on, and what was to be received then will be received in a
\* later round.
TimesOut(c) ==
  /\ \/ pc[c] = "send"
     \/ pc[c] = "recv" /\ answers[connfd[c]] = <<>>
  /\ Continue(c)
  /\ UNCHANGED <<poolVars, kernelVars, mpc, connfd, streamVars>>

\* The connection fails, in the middle of a frame too: the thread returns, and
\* does not put it back.
Fails(c) ==
  /\ pc[c] \in {"send", "sending", "recv"}
  /\ pc' = [pc EXCEPT ![c] = "ended"]
  /\ connfd' = [connfd EXCEPT ![c] = NoFd]
  /\ round' = [round EXCEPT ![c] = 0]
  /\ UNCHANGED <<poolVars, kernelVars, mpc, streamVars>>

\* The thread of the server, when it has finished the answer before: it reads a
\* request and answers it, of which the first part may come alone, or has its
\* answer time out.
ServerAnswers(f) ==
  /\ f \in open \ partial /\ asked[f] # <<>>
  /\ asked' = [asked EXCEPT ![f] = Tail(@)]
  /\ \/ /\ answers' = [answers EXCEPT ![f] = Append(@, Head(asked[f]))]
        /\ partial' \in {partial, partial \cup {f}}
     \/ UNCHANGED <<answers, partial>>
  /\ UNCHANGED <<poolVars, kernelVars, mpc, threadVars, stray>>

\* The rest of an answer comes.  Nothing says that it does.
ServerFinishes(f) ==
  /\ f \in partial
  /\ partial' = partial \ {f}
  /\ UNCHANGED <<poolVars, kernelVars, mpc, threadVars, asked, answers, stray>>

-----------------------------------------------------------------------------
(* sckCltPool_putConnet *)

Pooled == {fdArray[i] : i \in 0 .. valid - 1}

\* The thread has the mutex and passes the tests for a connection that is in
\* the pool already and for a pool that is full.
MayPut(c) ==
  /\ pc[c] = "put" /\ mutex = NoOne
  /\ connfd[c] \notin Pooled /\ valid < Bounds

Push(f) ==
  /\ fdArray' = [fdArray EXCEPT ![valid] = f]
  /\ valid' = valid + 1

\* A request or an answer is still on the connection.
UnderWay(f) == asked[f] # <<>> \/ answers[f] # <<>>

\* With validFlag = 1 the connection goes back to the pool ...
PutKeeps(c) ==
  /\ MayPut(c) /\ 1 \in Flags
  /\ Push(connfd[c])
  /\ connfd' = [connfd EXCEPT ![c] = NoFd]
  /\ pc' = [pc EXCEPT ![c] = "ended"]
  /\ stray' = IF UnderWay(connfd[c]) THEN stray \cup {connfd[c]} ELSE stray
  /\ UNCHANGED <<handle, mutex, terminated, kernelVars, mpc, round, asked, answers,
                 partial>>

\* A mutation of PutCloses: the old connection is not closed.
PutForgets(c) ==
  /\ MayPut(c) /\ 0 \in Flags
  /\ mutex' = c
  /\ connfd' = [connfd EXCEPT ![c] = NoFd]
  /\ pc' = [pc EXCEPT ![c] = "reconnect"]
  /\ UNCHANGED <<handle, fdArray, valid, terminated, kernelVars, mpc, round,
                 streamVars>>

\* Another: 0 is taken to mean a connection in order.
PutReturns(c) ==
  /\ MayPut(c) /\ 0 \in Flags
  /\ Push(connfd[c])
  /\ connfd' = [connfd EXCEPT ![c] = NoFd]
  /\ pc' = [pc EXCEPT ![c] = "ended"]
  /\ UNCHANGED <<handle, mutex, terminated, kernelVars, mpc, round, streamVars>>

\* ... and otherwise it is closed, and replaced, with the mutex locked.
PutCloses(c) ==
  /\ MayPut(c) /\ 0 \in Flags
  /\ mutex' = c
  /\ CloseFds({connfd[c]})
  /\ connfd' = [connfd EXCEPT ![c] = NoFd]
  /\ pc' = [pc EXCEPT ![c] = "reconnect"]
  /\ UNCHANGED <<handle, fdArray, valid, terminated, refused, mpc, round>>

\* The one attempt to connect again succeeds ...
Reconnects(c) ==
  /\ pc[c] = "reconnect"
  /\ Push(NewFd)
  /\ open' = open \cup {NewFd}
  /\ mutex' = NoOne
  /\ pc' = [pc EXCEPT ![c] = "ended"]
  /\ UNCHANGED <<handle, terminated, refused, mpc, connfd, round, streamVars>>

\* A mutation of ReconnectRefused: it returns with the mutex locked.
ReconnectRefusedLocked(c) ==
  /\ pc[c] = "reconnect"
  /\ Refused
  /\ pc' = [pc EXCEPT ![c] = "ended"]
  /\ UNCHANGED <<handle, mutex, fdArray, valid, terminated, mpc, connfd, round,
                 streamVars>>

\* ... or is refused, and the pool has a connection less for good.
ReconnectRefused(c) ==
  /\ pc[c] = "reconnect"
  /\ Refused
  /\ mutex' = NoOne
  /\ pc' = [pc EXCEPT ![c] = "ended"]
  /\ UNCHANGED <<handle, fdArray, valid, terminated, mpc, connfd, round,
                 streamVars>>

-----------------------------------------------------------------------------
(* sckCltPool_destroy *)

\* A mutation of Remembered: the last element is missed.
RememberedButLast == {fdArray[i] : i \in Slots \ {Bounds - 1}} \ {0}

\* The numbers destroy closes: all of fdArray, whatever became of them.
Remembered == {fdArray[i] : i \in Slots} \ {0}

\* main has joined the threads; then it returns, and the process ends.
Destroy ==
  /\ mpc = "running"
  /\ \A c \in Callers : pc[c] = "ended"
  /\ mpc' = "done"
  /\ IF handle = "live"
       THEN /\ handle' = "freed" /\ terminated' = 1 /\ valid' = 0
            /\ CloseFds(Remembered)
       ELSE UNCHANGED <<handle, terminated, valid, open, streamVars>>
  /\ UNCHANGED <<mutex, fdArray, refused, threadVars>>

-----------------------------------------------------------------------------
\* What a thread does by itself.
Runs(c) ==
  \/ Get(c) \/ GetFails(c)
  \/ Send(c) \/ Receive(c) \/ TimesOut(c)
  \/ PutKeeps(c) \/ PutCloses(c) \/ Reconnects(c) \/ ReconnectRefused(c)

Thread(c) == Runs(c) \/ SendBlocks(c) \/ SendEnds(c) \/ Fails(c)

MainStep == InitConnects \/ InitRefused \/ InitReturns \/ Destroy

Next ==
  \/ MainStep
  \/ \E c \in Callers : Thread(c)
  \/ \E f \in Fds : ServerAnswers(f) \/ ServerFinishes(f)

Spec == Init /\ [][Next]_vars

(***************************************************************************)
(* Every thread that can go on does.  Nothing is assumed of the server: it *)
(* need not answer, read, finish an answer it has begun or end a           *)
(* connection.                                                             *)
(***************************************************************************)
Fairness == WF_vars(MainStep) /\ \A c \in Callers : WF_vars(Runs(c))

FairSpec == Spec /\ Fairness

-----------------------------------------------------------------------------
(* Properties *)

TypeOK ==
  /\ handle \in {"none", "live", "freed"} /\ mutex \in Callers \cup {NoOne}
  /\ fdArray \in [Slots -> Fds \cup {0}] /\ valid \in 0 .. Bounds
  /\ terminated \in {0, 1}
  /\ open \subseteq Fds /\ refused \in 0 .. MaxRefused
  /\ mpc \in MainPC
  /\ pc \in [Callers -> CallerPC]
  /\ connfd \in [Callers -> Fds \cup {NoFd}]
  /\ round \in [Callers -> 0 .. Rounds]
  /\ asked \in [Fds -> Seq(Messages)] /\ answers \in [Fds -> Seq(Messages)]
  /\ partial \subseteq Fds /\ stray \subseteq Fds

Abstract == INSTANCE ConnectionPool
  WITH Users <- Callers, Connections <- Fds, Capacity <- Bounds, None <- NoFd,
       free <- Pooled, lent <- connfd

\* Although the numbers of closed connections are used again, no connection is
\* in the pool twice, lent twice, or lent and in the pool, and there are never
\* more than bounds of them.
ImplementsConnectionPool == Abstract!Spec

\* A thread that puts back the connection it got is never told that it is in
\* the pool already, or that the pool is full: a number of its own cannot have
\* come back into the pool by way of another thread's reconnection.
PutNeverRefused ==
  \A c \in Callers : pc[c] = "put" => connfd[c] \notin Pooled /\ valid < Bounds

\* Of a live pool exactly bounds descriptors are open, or about to be: those in
\* the pool, with the threads, left behind by a failed thread, or leaked by a
\* refused attempt to connect, which replaces a connection just closed.
DescriptorsBounded ==
  handle = "live" =>
    /\ Cardinality(open) + Cardinality({c \in Callers : pc[c] = "reconnect"}) = Bounds
    /\ Pooled \cup ({connfd[c] : c \in Callers} \ {NoFd}) \subseteq open

\* destroy leaves open at most as many connections as the pool had lost: those
\* of threads that failed, and those that could not be made again.  It closes
\* the pool's own, though it goes by what fdArray remembers.
DestroyLeavesOnlyLost ==
  [][Destroy /\ handle = "live" => Cardinality(open') <= Bounds - valid]_vars

\* Answers that come late are never read by another thread: what is still under
\* way on a thread's connection belongs to the thread, unless an earlier one has
\* put the connection back with 1, as one in order, before all its answers had
\* come.  The client's program puts all back with 0, which closes them.
NoForeignAnswer ==
  \A c \in Callers : connfd[c] # NoFd /\ connfd[c] \notin stray =>
    \A s \in {asked[connfd[c]], answers[connfd[c]]} :
      \A i \in 1 .. Len(s) : s[i][1] = c

\* The thread waits in writen or readn for the rest of a frame.
InFrame(c) ==
  \/ pc[c] = "sending"
  \/ pc[c] = "recv" /\ answers[connfd[c]] # <<>> /\ ~Whole(connfd[c])

\* main joins all its threads and returns, unless one of them waits for ever in
\* the middle of a frame: a server that does not read, does not answer or loses
\* its answers holds nobody up, nor do a refused attempt to connect, threads that
\* fail and those that find the pool empty.
MainReturns == (\A c \in Callers : []<>~InFrame(c)) => <>(mpc = "done")

=============================================================================

# A TLA+ development of `c-c-java`

The repository is a collection of C, C++ and Java programs with the notes they
were written for. What has behaviour worth specifying is under `src/c++/共享内存`
("shared memory"), `src/c++/套接字` ("sockets") and `src/c++/protobuf`: two
thread pools, two pools of connections, the TCP code beneath them with its
clients and servers, a table of keys in shared memory, a message codec, and the
address book programs with the classes protoc generated for them. This project
specifies them in TLA+, checks small instances with TLC, and proves some of the
results for all instances with TLAPS.

Paths below are abbreviated: `C/` is `src/c++/共享内存/C代码/thread_pool`, `CP/`
is `src/c++/共享内存/connectPool/connectPool`, `SK/` is `src/c++/套接字/C Socket
API`, `SHM/` is `src/c++/共享内存/ShareMemory/ShareMemory`, `TCP/` is
`src/c++/共享内存/Tcp-Linux`, `ENC/` is
`src/c++/共享内存/EncDecCode/EncDecCode`, `PB/` is `src/c++/protobuf`. Several
directories hold copies of these files (`threadpoll/`, `Tcp-Linux/connectPool/`,
`C代码/C Socket API/`, `面向对象TCP/`); the copies differ in layout at most, and
one of each is modelled.

## Inventory

| Component | State | Operations | Who interacts | Hard behaviour |
|---|---|---|---|---|
| C thread pool, `C/threadpool.c` | the ring `task_queue` with `queue_front/rear/size`, `threads[]`, `live_thr_num`, `busy_thr_num`, `wait_exit_thr_num`, `shutdown` | `threadpool_create`, `_add`, `_destroy`, `_free`; the bodies `threadpool_thread` and `adjust_thread` | clients, workers, one manager thread and the caller of destroy, by `lock`, `thread_counter` and two condition variables; task functions are called back | lost wakeups, decisions on old counts, `shutdown` without a lock, threads that retire, memory left uninitialised |
| C++ thread pool, `CP/ThreadPool.cpp`, `TaskQueue.cpp` | a queue with a mutex of its own, and the counters above | constructor, `addPoolTask`, `addTask`, `takeTask`, `threadWorking`, `threadManager` | as above, but the queue's mutex and the pool's are different | look-then-act across two mutexes |
| C++ connection pool, `CP/SocketPool.cpp`, `main.cpp` | `m_list`, `m_nodeNumber`, the objects and descriptors | constructor, `getConnect`, `putConnect`, `createConnect`, destructor; `working` of its client | threads of `main.cpp`, the mutex, the server | a look before the lock, retry with the lock held, addresses used again |
| C connection pool, `SK/poolsocket.c`, `Socket_Client/main.c` | `fdArray[]`, `valid`, `terminated`, the descriptors | `sckCltPool_init`, `_getConnet`, `_send`, `_rev`, `_putConnet`, `_destroy`; `pthread_func` of the client | client threads, main that joins them, the server, the kernel that numbers descriptors | descriptor numbers used again, late answers, threads that fail |
| TCP classes and programs, `CP/TcpSocket.cpp`, `TCP/TcpServer`, `working` of `CP/main.cpp` | one descriptor, blocking or not; the stream in the kernel | `connectToHost`, `sendMsg`, `recvMsg`, `acceptConn`, `callback` | two processes, by two byte streams for each connection | partial reads and writes, timeouts, resets, `SIGPIPE`, descriptors not closed |
| C socket helpers, `SK/socketutil.c`, `Socket_Server/main.c` | `connfd[]`, `pid[]`, the descriptors of the process | `sckServer_accept`, `_rev`, `_send`, `_close`, `sckClient_connect`, `_send`, `_rev`, `_closeconn` | main, its threads and their clients | descriptors used again, clients that time out, abort or close |
| Shared memory, `SHM/` | an array of key nodes in a segment, `m_shmAddr` in each process | constructor, `mapShm`, `unmapShm`, `shmInit`, `shmWrite`, `shmRead` | processes, by the segment, with no lock | interleaved look-up and copy, half-written nodes, stale addresses |
| Message codec, `ENC/` | `m_msg`, `m_encStr` of a codec, which is used again | the factories, `initMessage`, `encodeMsg`, `decodeMsg`; the classes `RequestMsg`, `RespondMsg` | what encodes, what carries the string, what decodes | what an earlier call left in the object, strings cut short |
| protobuf samples, `PB/` | the file of an address book; the books in memory | `add_person`, `list_people`, the mains of samples 04 to 09; their generated classes | processes, by the file, with no lock | overlaps, a kill between truncation and write, classes of different protos |
| Loggers, OpenSSL and Java samples | none between calls | | | |

What makes each of them correct:

- *Thread pools*: a task that is offered is run once, in order, by one worker;
  none is lost in the ring; no thread sleeps on a condition that holds; the
  counters say what is there; the pool is not freed under its threads.
- *Connection pools*: a connection is in the pool or with one thread, never
  both; none is lost although broken ones are closed and replaced; a thread
  that waits gets on; nobody reads another thread's answers.
- *TCP*: what one side sends as a message the other receives whole or not at
  all; an answer belongs to the request it is taken for; a server's thread has
  its connection to itself; both sides get on when the other does not.
- *Shared memory*: one node per key pair, no write lost, a reader sees a node
  some writer wrote.
- *Codec and classes*: what is decoded is what was encoded, whatever the object
  held before; sizes announced are lengths written; fields a class does not
  know do no harm.
- *Address book*: nobody who was added gets lost, and every program can read
  the book.

`PROJECT.json` lists the hazards, each with its line and the properties that
would catch it, or the reason why no property does.

## Modules

| Module | What it is |
|---|---|
| `TaskPool` | what a thread pool promises: a bounded FIFO queue and executors |
| `CThreadPool`, `MCCThreadPool` | the C thread pool; the symmetry for TLC |
| `CThreadPool_proofs` | theorems about it: the invariant `PoolInv`, its signals until a worker retires, the counters and `threadpool_destroy`, and that it implements `TaskPool` |
| `CppThreadPool`, `MCCppThreadPool` | the C++ thread pool |
| `CppThreadPool_proofs` | its counters, and that it implements `TaskPool` |
| `ConnectionPool` | what a connection pool promises: each connection is free or lent to one user |
| `SocketPool` | the C++ connection pool with the threads of its `main.cpp` |
| `SocketPool_proofs` | theorems about it |
| `CltPool` | the C connection pool with its client and server programs |
| `CltPool_proofs` | its descriptors, that it implements `ConnectionPool`, whose answers threads read |
| `SecKeyShm`, `MCSecKeyShm` | the table of keys in shared memory with the writers and readers of `main.cpp`; for TLC the symmetry of writers and the constraint that leaves readers out when writers overlap |
| `SecKeyShm_proofs` | what writers and readers that take turns find in the table, and what writers that race leave there |
| `TcpEcho` | a client thread of `CP/main.cpp`, the C++ server and the streams between them, message by message and piece by piece |
| `TcpEcho_proofs` | that messages arrive whole, once and in order, that answers belong to their requests, and that no SIGPIPE ends a process while a frame fits into one write |
| `SckServer` | the accept loop and the threads of the C server with its descriptors, and its clients |
| `SckServer_proofs` | that the server's threads do not get into each other's way, which descriptors they leave open, and when SIGPIPE ends the server |
| `WireFormat` | what the generated classes use of libprotobuf, which is not in the repository |
| `MessagePb`, `MessageCodec`, `MCMessageCodec` | the classes of `Message.pb.cc`; the two codecs and their factories; the infos for TLC |
| `MessageCodec_proofs` | that what the codecs write is read back, whole, cut short or joined |
| `TutorialPb`, `PersonPb`, `StreamPb`, `PeoplePb`, `PhonesPb`, `PackagePb`, `GroupsPb`, `InfoPb` | the classes generated for samples 01, 04, 05, 06, 07, 08 and 09 (`addressbook.pb.cc`, `info.pb.cc`) |
| `AddressBookFile`, `MCAddressBookFile` | the programs of samples 01 and 04 to 09 on one file; the people typed in for TLC |

`StreamPb` is `PersonPb` and `PackagePb` is `PhonesPb` under another name:
protoc made the classes of samples 05 and 08 of the protos of 04 and 07. They are
modules of their own because they stand for files of their own.

### How steps are cut

A step is what one thread does between two points at which another can see or
change what it uses. A critical section is one step unless something in it is
touched without the lock, or it takes time:

- In `CThreadPool`, `shutdown`, the broadcasts of `threadpool_destroy` and the
  signals of `adjust_thread` take no lock, so they may fall between the test of
  a `while` and `pthread_cond_wait`. A thread there is `"waiting"` or
  `"full"` and owns `lock`; everywhere else the lock is free between steps.
- In `CppThreadPool`, `addPoolTask` pushes and signals without `pool->lock`,
  and a worker unlocks before `takeTask`, which looks at the size again
  (`TakeLook`) before it locks the queue (`TakePop`).
- In `SocketPool`, `getConnect` looks (`GetLook`) before it locks (`GetPop`);
  `createConnect` keeps the mutex over its attempts.
- In `CltPool`, a thread that replaces a connection keeps the mutex while it
  connects. A message goes and comes in one or two parts: only the `select`
  before a call is timed (`TimesOut`), and once a part of a frame has gone
  (`SendBlocks`) or come (`partial`), `writen` and `readn` wait for the rest
  without a limit (`SendEnds`, `ServerFinishes`).
- In `SecKeyShm` nothing is locked, so every `strcmp`, every `memcmp` with the
  empty node and every field of a `memcpy` is a step; fields are copied in any
  order, since `memcpy` promises none. The key of 128 bytes is two fields,
  `seckeyHead` and `seckeyTail`, so that a copy can be seen, or killed, inside
  it; `seckeyID` and the status, of four bytes each, are one field together, since
  nothing reads the status.
- In `TcpEcho` each call of `read` and `write` is a step and takes or leaves as
  many pieces as the kernel likes; so is each wait in `select`. `SckServer`
  leaves that to `TcpEcho`, since the C originals have the same loops: there a
  message is its header and its body, read one after the other.
- In `AddressBookFile` a program's steps are the system calls on the file: it
  reads, waits for its user, opens (which truncates) and writes as it closes.
- `MessageCodec` is sequential: a step is a call.

Both thread pools have the wakeups for no reason that POSIX allows
(`SpuriousWakeups`).

Where the code's effect is undefined (a null function called, an empty queue
popped, a pool used after its destructor has begun), the C++ models set `fault`
and stop. `CThreadPool` goes on after the late path of `threadpool_add`, which
stores a task without the lock after it has unlocked.

### How state and actions correspond to the code

Variables have the names of the fields and locals they stand for, or the
comment at the declaration gives them. Program counters (`wpc`, `cpc`,
`mpc`, `dpc`, `pc`) say between which two statements a thread is. `PROJECT.json`
gives for each definition the lines it translates. In outline:

- `threadpool_add`: `AddCall`, then `AddPush`, or `AddFull` and `AddSleep`
  while there is no room, or after a shutdown `AddShutdown`, `LateStore` and
  `LateAdvance`. A worker: `WorkerEmpty`, `WorkerSleep`, `WorkerRetire`,
  `WorkerStop`, `WorkerTake`, `WorkerBusy`, `WorkerRun`, `WorkerIdle`. The
  manager: `ManagerTest`, `ManagerSample`, `ManagerSampleBusy`, `ManagerGrow`,
  `ManagerShrink`, `ManagerSignal`. `threadpool_destroy`: the `Destroy...`
  actions in the order of its statements.
- `SocketPool`: `CreateSucceeds`, `CreateRefused`, `CreateReturns` are one call
  of `createConnect` each; the others are the halves of `getConnect`,
  `putConnect` for a good and a broken connection, and the destructor's loop.
- `CltPool`: one action per call of the pool, the attempt to connect apart; the
  thread's loop, with the five seconds of the `select` before each call; the
  server's answers, whole or in part, or never. The history variable `stray` names
  the connections that were put back with 1 while something was under way on
  them.
- `SecKeyShm`: `Construct`, `ShmInit`, `MapShm` and `MapShmFails`, the searches
  `CompareClientID`, `CompareServerID`, `NoMatch`, `FindEmpty`, the copies
  `WriteField` and `ReadField`, `UnmapShm`, in the order of `shmWrite` and
  `shmRead`. `shmInit` clears the table only through a non-null `m_shmAddr`, and
  main calls it before the first `mapShm`: it does nothing there, and a table
  that another process left stays (`SecKeyShm.cpp:26`). Were it called later,
  the address would be a detached one; the model ends the process then.
- `TcpEcho`: endpoint 0 is the client thread, endpoint k the server's thread for
  connection k. Both run `SendMsg`, `Writen`, `WritenFails`, `RecvMsg`,
  `ReadTimeout`, `Readn`, `ReadnFails`; `ConnectToHost`, `Connected`,
  `ConnectFails`, `Working`, `Request` and `Answered` are the client's,
  `AcceptConn` the server's. `ServerDies`, `ServerStarts` and `Sigpipe` are what
  happens to processes. A frame is a few pieces, numbered, so that a frame put
  together of the wrong pieces is seen to be none.
- `SckServer`: `SckServerAccept` is a turn of main's loop; a thread runs `Start`,
  `Rev`, `Readn` for the header and the body, `ReadnEnds`, `SckServerSend` and
  `Close`; clients connect, send, wait, give up and close as they like. A
  connection is new, open, closed in order (`fin`), closed in order and since
  answered with RST (`reset`), or aborted (`rst`). A reply written after an orderly
  close draws the RST, and the next one raises `SIGPIPE`, which ends the whole
  process (`Killed`), or fails with `EPIPE` where the signal is ignored; an error
  ends the thread, its descriptor open. A text is the number of its request.
- The classes: for each message its fields, the constructor, `Clear`, the reading
  of one field (the `case` of its tag and the fall-through that keeps unknown
  ones), `ByteSizeLong`, `Serialize`, `MergeFrom`, `CopyFrom` and the setters. A
  string is a sequence of bytes; those that occur are one to three bytes long,
  but for a text of 130 and an email of 128, whose person has a size of two bytes
  in its book. In `WireFormat`, numbers and lengths are coded byte by byte,
  since the properties are about that: a number takes one to five bytes, or ten
  if it is negative. The loop over the fields of a buffer is two recursive
  functions there, `FieldsOf`, which takes one field after another off the
  buffer, and `ReadAll`, which takes the class's `...ReadField` as an operator
  and stops at the first field that cannot be read.
- `MessageCodec`: the codec made by a factory (`CreateToEncode`,
  `CreateToDecode`) or initialised again (`InitToEncode`, `InitToDecode`),
  `EncodeMsg`, `DecodeMsg`. The string is handed on as it is or through `RecvMsg`, the
  conversion `TcpSocket::recvMsg` puts a received buffer through, or cut.
- `AddressBookFile`: `SetOpens`, `SetWrites`, `GetReads` are the main of a sample;
  `AddReads`, `AddPrompts`, `AddOpens`, `AddWrites` that of `add_person`;
  `ListReads` that of `list_people`. In the repository each sample has a
  directory of its own and writes `pb.xxx` into the one it is run in; the model
  runs them in one directory, with `add_person pb.xxx` and `list_people pb.xxx`,
  as their argument allows. One letter stands for each text of the samples. The
  history variable `disturbed` says that programs have overlapped or that one has
  died writing, from when on nothing is promised of the file.

What is abstracted: a task stands for its argument too and is offered at most
once; a message is the pair of its thread and its round, or its number; a
connection of the C++ pool is its address; how long anything takes, and what is
printed. Allocation, `pthread_create` and the initialisation of mutexes do not
fail.

`is_thread_alive` calls `pthread_kill` on a thread that may be gone, which is
undefined; `KillOutcomes` gives both answers. What `malloc` leaves in fields
nobody initialises is chosen from a set (`ArgInit`, `WaitExitInit`,
`TerminatedInit`).

## Runs

| Run | Instance | Shows |
|---|---|---|
| `pool_fixed` | 1 worker, 2 clients, ring of 1, 3 tasks, fair | two clients wait for room together and both are woken by the one broadcast: none stays asleep while there is room (`ClientsSleepOnlyWhenFull`), none stores its task without another look (`SizeWithinCapacity`), and every task a client offers is run unless the pool is shut down |
| `pool_elastic` | 1 to 3 workers, growing and asked to leave by two, ring of 2, 3 tasks, 2 clients, spurious wakeups | the pool implements `TaskPool`; the counters are right although the manager decides on old ones; until a worker retires no wakeup is lost (`NoIdleWhileQueued`) and no worker outlives the pool (`FreedLastUnlessShrunk`); the slots that are joined are those that had threads, and stay dead |
| `cpp_pool` | 1 to 3 workers, 3 tasks, spurious wakeups | `TaskPool` is implemented up to an undefined step; the counters are right |
| `cpp_lost_wakeup` | 1 worker, 1 task, fair | **violated**: the signal comes before the wait |
| `sock_pool` | 2 connections, 3 callers, 5 runs of `working`, 2 refusals, fair | each connection is pooled or lent once (`ConnectionPool`), none is lost, and callers return, all until an undefined step |
| `sock_empty_pop` | 2 connections, 3 callers | **violated**: `NoEmptyPop`, three callers see a list that is not empty and the last one pops an empty queue |
| `clt_pool` | 2 connections, 3 threads of 2 rounds, put back with 0 or 1, 1 refusal, fair | the pool implements `ConnectionPool` although numbers come back; a `put` is never refused; destroy leaves open only what was lost; no late answer reaches another thread; main returns unless a thread waits for ever in the middle of a frame |
| `shm` | 2 writers, 1 reader, 3 nodes, writers killed anywhere, that take turns or overlap | writers that take turns: the last complete write of a pair stands, in one node, and a reader gets what it stored, or under a write pieces of that pair only (`LastWriteStands`, `AnswerOfOnePair`); writers that overlap: the table still ends with both pairs in it (`RaceConverges`) |
| `tcp_echo` | 2 calls of `working` with 2 exchanges, 3 connections, frames of 4 pieces, streams of 2 or 4, 2 descriptors, 1 kill, fair | messages arrive whole and in order however reads and writes are cut; an accepted answer is that to the last request; `SIGPIPE` ends nobody while a frame fits into a write; the calls end |
| `sck_server` | 2 clients, 3 requests each, 1 reply in flight, 2 descriptors, 2 slots, fair | each thread has its connection to itself and answers in order; a descriptor left open was aborted by its client, or closed with two requests unanswered (`LeakedOnlyOnReset`); `SIGPIPE` ends the server only after such a close (`SigpipeOnlyAfterTwo`); while the server lives every request of a client that stays is taken and every close is followed |
| `codec` | 3 infos of each kind, with zero bytes in a text and a status of 2, 5 calls | what is decoded is what was encoded, but for that status, with a codec used again, and through `recvMsg` if no text has a zero byte; a cut string shows a part of what was sent and nothing else; joined strings are merged messages |
| `address_book` | one of samples 04 to 09, 2 `add_person`, 1 `list_people`, 3 people to type, 1 kill | nobody is lost from a book that was not disturbed, whichever class wrote it; a book becomes unreadable by a text that is not UTF-8 and by nothing else; sizes are lengths, a parse of joined books is a merge |

Each property of a passing run is broken by a mutant: a definition of the model
is replaced by one that a plausible slip in the code would give (the operators
commented "A mutation of ..." or "(mutant)"), and TLC finds the property
violated. Type invariants other than that of `CThreadPool` are in their modules
and no run's property: TLC and, where there is one, the proof agree with them.

### Bounds and why they are enough

- *Threads*: interference here is between two threads of a kind, or a thread,
  the manager and the caller of destroy. In `pool_elastic` three workers, which
  let the pool grow and shrink by more than one, and two clients give all pairs; in
  `pool_fixed` the interference is between clients, and one worker is enough to
  wake them.
- *Ring*: one slot in `pool_fixed` makes full and empty adjacent and lets clients
  sleep while another task is stored; two in `pool_elastic` make `front` and
  `rear` differ and wrap around within three tasks.
- *Tasks*: three in `pool_fixed`, one to fill the ring and one for each client, so
  that two wait for room together; three in `pool_elastic`, so that a task arrives
  after others have been run and slots used again. A bound on tasks also bounds
  how often clients call.
- *Connections*: one fewer than callers in `sock_pool`, `sock_empty_pop` and
  `clt_pool`, as in `main.cpp`, which has five connections and up to eight
  threads; in `clt_pool` a thread without a connection returns. One address more
  than connections lets an address be freed and come back, or not.
- *Refusals*: `MaxRefusals` and `MaxRefused` bound what a refusing server does: two
  in `sock_pool`, where the attempt is made again, one in `clt_pool`, where it is
  not and costs the pool a connection. `MaxFd` and `FdLimit` are large enough for
  every descriptor that can be open at once in the pools.
- *Calls*, *Rounds*: five runs of `working` let a thread use the pool again after
  another replaced its connection. The client program of `clt_pool` exchanges three
  messages; two are enough for one to time out and the other to meet the answer
  that comes late, or to leave it for the next thread.
- *Nodes* (`shm`): three, for two pairs and the half node that a killed writer
  leaves. Two writers give every pair of overlapping calls. Readers
  write nothing, and `RaceConverges` says nothing of them: a constraint leaves the
  reader out of the behaviours in which writers overlap.
- *Pieces* (`tcp_echo`): header and body of two pieces each can be cut inside and
  between; a stream of four holds a frame, one of two blocks the writer in the
  middle. Three connections let a request time out, be asked again and time out
  again; two descriptors for them let `accept` fail.
- *Slots* (`sck_server`): no more than descriptors, for the reason given below;
  three requests and one reply in flight let a reply be dropped and a later one
  be sent, and leave two unanswered at a close. A descriptor is closed and used again within two connections.
- *Calls* (`codec`): five are an initialisation, an encoding, a decoding and two
  more with the same object. The infos have empty and long texts, one with a zero byte, a status
  that is neither 0 nor 1, and numbers whose varints have one, two and ten
  bytes; strings are cut at every byte.
- *Programs* (`address_book`): a sample, two additions and a list, in any order,
  cover each pair of classes as writer and next reader; the people typed in
  have a phone of no known type and an email of 128 bytes, no texts at all, and a
  name in GBK.

Symmetry of tasks and clients is used in `pool_elastic` and `cpp_pool` and that of
writers in `shm`, never with liveness. Runs do not check deadlock: when all tasks have been
offered, main has returned or the clients are done, the system has stopped for
good.

### Fairness

Each thread is weakly fair: its next step stays enabled until it is taken
(another thread's critical section is a single step, or ends by itself), so
this asks no more than that the scheduler runs every thread and that mutexes
are not withheld for ever. In `SocketPool` and `CltPool`, where the mutex is
kept over an attempt to connect, its owner's steps are fair too; `sock_pool`
further assumes that refusals end. A thread's fairness covers its step that is
possible, not a choice among them. In `clt_pool` it covers what a thread does by
itself (`Runs`) only: not that the rest of a frame gets through, nor that a
connection fails, and nothing is assumed of the server, which need not read, nor
answer, nor finish an answer it has begun, nor end a connection. `MainReturns`
therefore has the condition that no thread is in the middle of a frame for ever;
in `writen` and `readn` no limit would get it out. Nobody is
obliged to call `threadpool_add`, `threadpool_destroy` or `working`, the
client's main joins its threads, and condition variables need not wake up by
themselves. Spurious wakeups are left out of `pool_fixed`: an endless row of them
would be a fair behaviour in which a worker does nothing else. Task functions
are assumed to return.

In `tcp_echo` the client thread, each of the server's threads and `accept` are
weakly fair, and a server that was killed is started again in the end; kills,
cuts and timeouts are as they come. A call also ends when the connections of the
model (`MaxConn`) are used up, where `createConnect` tries on for ever.
In `sck_server` main and the threads are
weakly fair and nothing is assumed of clients: `RequestsHandled` is about
requests that were sent, of a client that stays connected, to a server that lives.

## Proofs

TLAPS proves, for all values of the constants that satisfy the modules' named
assumptions:

| Theorem | States |
|---|---|
| `CThreadPool_proofs!TypeCorrect` | `Spec => []TypeOK` |
| `CThreadPool_proofs!ClientsNotLeftAsleep` | `Spec => []ClientsSleepOnlyWhenFull` |
| `CThreadPool_proofs!RingNeverOverflows` | `Spec => []SizeWithinCapacity` |
| `CThreadPool_proofs!LiveCountRight` | `Spec => []LiveCounted` |
| `CThreadPool_proofs!BusyCountRight` | `Spec => []BusyCounted` |
| `CThreadPool_proofs!JoinedHadThreads` | `Spec => []JoinsRealThreads` |
| `CThreadPool_proofs!JoinedThreadsStayDead` | `Spec => []JoinedStayDead` |
| `CThreadPool_proofs!PoolFreedLast` | `Spec => []FreedLastUnlessShrunk` |
| `CThreadPool_proofs!NoSignalLost` | `Spec => []NoIdleWhileQueued` |
| `CThreadPool_proofs!PoolRefines` | `Spec => ImplementsTaskPool` |
| `CppThreadPool_proofs!TypeCorrect` | `Spec => []TypeOK` |
| `CppThreadPool_proofs!CountersRight` | `Spec => []CountsRight` |
| `CppThreadPool_proofs!CppPoolRefines` | `Spec => ImplementsTaskPool`, for finitely many tasks |
| `SocketPool_proofs!SockTypeCorrect` | `Spec => []TypeOK` |
| `SocketPool_proofs!NoConnectionLost` | `Spec => []NoneLost` |
| `SocketPool_proofs!SockPoolRefines` | `Spec => ImplementsConnectionPool` |
| `CltPool_proofs!CltTypeCorrect` | `Spec => []TypeOK` |
| `CltPool_proofs!PutAccepted` | `Spec => []PutNeverRefused` |
| `CltPool_proofs!DescriptorsCounted` | `Spec => []DescriptorsBounded` |
| `CltPool_proofs!DestroyClosesPooled` | `Spec => DestroyLeavesOnlyLost` |
| `CltPool_proofs!CltPoolRefines` | `Spec => ImplementsConnectionPool` |
| `CltPool_proofs!AnswersStayApart` | `Spec => []NoForeignAnswer` |
| `SecKeyShm_proofs!ShmTypes` | `Spec => []TypeOK` |
| `SecKeyShm_proofs!FinishedWriteStands` | `Spec => []LastWriteStands` |
| `SecKeyShm_proofs!ReadersGetOnePair` | `Spec => []AnswerOfOnePair` |
| `SecKeyShm_proofs!RacesConverge` | `Spec => []RaceConverges`, for at least one writer |
| `TcpEcho_proofs!EchoTypes` | `Spec => []TypeOK` |
| `TcpEcho_proofs!MessagesInOrder` | `Spec => []DeliveredInOrder` |
| `TcpEcho_proofs!AnswersInStep` | `Spec => []LockStep` |
| `TcpEcho_proofs!SigpipeNever` | `Spec => []NeverSigpipe` |
| `SckServer_proofs!ThreadsKeepApart` | `Spec => []OneThreadPerConnection`, for `Slots <= MaxFd` |
| `SckServer_proofs!LeaksOnlyReset` | `Spec => []LeakedOnlyOnReset`, for `Slots <= MaxFd` |
| `SckServer_proofs!SigpipeNeedsTwo` | `Spec => []SigpipeOnlyAfterTwo`, for `Slots <= MaxFd` |
| `MessageCodec_proofs!DecodedRight` | `Spec => []DecodedIsEncoded` |
| `MessageCodec_proofs!EncodedRight` | `Spec => []EncodesItsInfo` |
| `MessageCodec_proofs!CutRight` | `Spec => []CutShowsLess` |
| `MessageCodec_proofs!JoinedRight` | `Spec => []JoinedIsMerged` |

*C thread pool.* The assumptions are that the sizes are positive and ordered,
that the model values are distinct, and that the undefined inputs come from the
sets named above. The type invariant is not inductive: nothing in it says that a
worker takes a task from the ring and not what `malloc` left there. `PoolInv`
adds that the slots from `queue_front` up to `queue_rear`, `queue_size` of them
modulo `queue_max_size`, hold tasks while the pool is open (`RingInv`); who owns
the lock between steps (`OwnerInv`), what each thread's place says of its locals
and of `shutdown` (`PhaseInv`), that `live_thr_num` stays in its bounds
(`LiveInv`), so that the joining loop stays inside `threads`, and that a client
sleeps only while the ring is full (`SleepInv`). One lemma per thread shows that
its steps keep `PoolInv`; the two steps that move the ring rest on a lemma on
addition modulo `queue_max_size`.

*Its counters.* What a step does to the counters depends on the kinds of the
threads only (never started, idle, busy, gone), so `Moves` says which kinds a
step changes: none, one thread's, or those of the slots the manager refills. From
there `CountInv` is about cardinalities: `busy_thr_num` and `live_thr_num` are
those of the busy and of the living threads, and a slot that has never had a
thread has none above it that has. The last part is what `JoinedHadThreads`
needs: if slot i < `live_thr_num` had never had a thread, all living threads
would be below i, and be too few. `PrefixInv` says, until a worker retires, the
converse: the slots that have had a thread are among the first `live_thr_num`. A
manager that adds threads refills slots of workers the shutdown has stopped before
it takes new ones, and counts each, so this stays true while the pool grows.
`JoinInv` follows `threadpool_destroy` from the joined manager to the freed pool;
with `PrefixInv` it gives `PoolFreedLast`: the slots that were joined are all
that ever had a thread. Once a worker has retired (`shrunk`, a history variable)
`live_thr_num` falls below slots in use, and the pool may be freed under a worker
(see below).

*Its wakeups.* `WakeInv` is `NoIdleWhileQueued` with the gap before
`pthread_cond_wait` filled in: a worker there holds the lock and has seen an
empty queue. The proof counts the workers on their way to the queue, one more
for every stored task if any sleep, one less for every task taken. A thread the
manager adds is on its way too. The one step that takes a worker off its way
without a task is `WorkerRetire`, and from then on nothing is claimed.

*Its refinement.* The abstract queue is read off the ring (`PoolQueue`); the
lemmas `QueueAppended` and `QueueTaken` show that storing at `queue_rear` is
`Append` and taking at `queue_front` is `Head` and `Tail`, because different
offsets below `queue_max_size` are different slots (`ModDistinct`). `TaskPool`
accepts a task once only, so `UniqueInv` follows each task through the places it
can be in: with a client, in the queue, with a worker, done. `AddPush` is
`Accept`, `WorkerTake` is `Start`, `WorkerRun` is `Finish`, `DestroyCall` is
`Close`; the steps of a client that stores its task after the shutdown, and all
others, are stutters.

*C++ thread pool.* The counters are proved as for the C pool: `Moves` says which
threads a step starts, stops, adds or lets go, the rest is cardinalities. A step
that lets one go tests `live_thr_num` in the same critical section, and a round of
growing adds no more than `live_thr_num` leaves room for, so old counts in the
manager's locals and garbage in `wait_exit_thr_num` do no harm. For the
refinement `UniqueInv` says that a task a client is still to queue is none of
those in the queue, with a worker or done, and that a worker that is about to take
a task has none. `AddTask` is `Accept`, `TakePop` of a queue that is not empty
`Start`, `WorkerRun` of a task that is not null `Finish`; the undefined steps, and
all others, are stutters.

*C++ connection pool.* `NoneLost` counts objects that are created and deleted
one by one, so `SockInv` has to say how many are still to be made at every
moment. `CountInv` does: the objects that exist and those missing (what
`nodeNumber` says beyond the list's length, while someone is in
`createConnect`, and none otherwise) are `Capacity` together until the
destructor starts. `OwnInv` says that the list has no repetitions, that no two
callers have the same object and none has one that is in the list, and that
these are all the objects; `ThreadInv` ties a caller's place to what it holds
and to the mutex. The refinement
theorem maps each step to one of `ConnectionPool` or to a stutter:
`CreateSucceeds` to `Create`, `GetPop` to `Lend`, `PutValid` to `GiveBack`,
`PutInvalid` to `Discard`, `DestroyOne` to `Close`.

*C connection pool.* Connections are numbers here, which come back, so everything
rests on what is open. `CltInv` says that the numbers in the pool and those of the
threads are all different and all open (`OwnInv`), so that `socket` returns none
of them, and that a live pool has `bounds` descriptors open, less one while a
thread reconnects with the mutex locked (`CountInv`, with `PhaseInv` for who is
where). A refused reconnection does not disturb the count: its descriptor stays
open in place of the one that was closed. A lent number that is open and not
pooled leaves room in the pool (`RoomForLent`), which is why putting never fails.
What is needed of `MaxFd` is only that the process does not run out of
descriptors. `CltPoolRefines` maps `InitConnects` and `Reconnects` to `Create`,
`Get` to `Lend`, `PutKeeps` to `GiveBack`, `Fails` and `PutCloses` to `Discard`,
`InitRefused` and `Destroy` to `Close`. `StreamInv` says of every connection that
is not in `stray` that it carries nothing when it is closed or pooled, and only the
thread's own messages when a thread has it. A connection becomes `stray` when it
is put back with 1 while a request or an answer is under way on it, and stops
being so when it is closed; the next thread that gets a stray one may well read a
foreign answer.

*C server.* `OneThreadPerConnection` speaks of `connfd[]`, of what the threads
read and of the replies, and none of the three keeps itself. `SckInv` adds where
things are. `FdInv`: entries of `connfd[]` from `i` on are unused and only
descriptors up to `i` are open, because `accept` gives out the lowest that is
free; with `Slots <= MaxFd` one is therefore always free, and `accept` never
returns the `errno` that main would take for a descriptor. `ConnInv`: a
connection is with its client, once in the backlog, or behind one descriptor.
`StreamInv`: the stream of a connection is exactly the requests after the last
one handled, header and body in turn, less the header a thread has just read
(`Carries`; three lemmas say what reading a header, reading a body and sending a
request do to it), so a thread never takes a body for a header. `ReplyInv`: the
replies in a stream rise from the last one read to the last request handled, and
a request that is about to be answered is newer than all of them. A step of a
thread leaves the connections of the others alone by `FdInv` and `ConnInv`
together: different descriptors, so different connections. The condition is
needed: with more slots than descriptors the property is violated (see below).

The returns of `pthread_func` that skip `sckServer_close` are taken after an abort,
or when a second reply is written to a client that has closed in order. `ResetInv`
says when that can be: a client that has closed waits for nothing, so it reads no
reply any more; a connection was reset only by a reply the client had not read;
and a thread that is about to write the next one has taken a second request
beyond the last reply read (`seen[c] + 2 <= handled[c]`). `SigpipeOnlyAfterTwo`
follows. `LeakedOnlyOnReset` follows from `OwnedInv` with it: every open descriptor
has a thread, or its connection is `Lost`, aborted or reset with two requests
unanswered, and what is lost stays so.

*Shared memory.* When writers take turns, `ShmInv` holds. `TableInv`: no node
mixes two pairs (`Of`), no two nodes hold one pair, and a pair that was written to
the end is there. `WriterInv` says what the writer that is in `shmWrite` has found
out on its way: that no node up to `i` holds its pair, none at all once it looks for
an empty one, and while it copies, that it does so into the one node that holds or
will hold the pair. That node may be half a node a killed writer left, in which
the search, that compares both identifiers, does not see the pair; then it is not
empty either, and stays half for good. `ReaderInv` follows a reader through the
same search: what it has copied so far are the
identifiers and pieces of keys of its pair (`Copied`), and no
write has come in between while `due` says so. A step writes nothing
(`QuietKeeps`), begins a copy (`BeginKeeps`) or copies one field (`WriteKeeps`).

When writers race, none of this holds: two nodes may carry a pair and a node may
be overwritten with the other pair. What remains is about who comes last. As
long as all writers are at the first pair, what one has copied stays
(`FirstInv`), since all write the same identifiers; the first to pass on to the
second pair has found its own first one whole, and no writer of the second ever
starts at that node, whose identifiers are not its own and which is not empty
(`SafeInv`). So one node with the first pair survives. Once all are at the second
pair only that pair's identifiers are written, and the last to copy leaves it
(`SecondInv`). `KeyInv` says that a node gets both pieces of a key before its
writer ends, though perhaps of two writers. TLC
checked `ShmInv` and `RaceInv` on the instance of `shm` before they were proved.

*C++ client and server.* The assumption is that the sizes are positive. None of
the three properties is inductive, because none says what is in a stream.
However reads and writes cut it, that is a part of one frame. `Part(m, a, b)` is
the pieces of message `m` after the first `a` up to the `b`-th; the lemmas
`PartCut` and `PartJoin` say that cutting a part gives two and joining those
gives it back, so that what was read, what is in the stream and what is still to
be written always make up the frame (`ReadnParts` for a read). `PhaseInv` then
has four phases for each connection. `Calm`: everything sent was received and
both streams are empty. `Asking`: one request is sent and not received; it lies
in the server thread's buffer, the stream and the client's `todo`. `Asked`: the
server's thread has it and has not answered. `Answering`: the reply is in the
same three places the other way round, as long as the client reads it at all. A
connection goes round these phases and nothing else: the client makes a request
only on a `Calm` one, since it replaces a connection on which an answer did not
come (`ClientInv`), and a server's thread that gives up never answers any more,
so what an old connection still holds is never taken for an answer. `CountInv`
counts the requests, which are numbers and therefore all different; `EndInv`
says who has which connection open, and that one where something ended is in
`trouble`; `FateInv` that only a thread with a reply under way is told of a
reset, and that a second write to it takes a frame longer than the stream. A
step of one endpoint leaves the other connections alone (`OtherConnections`),
and a step of a call is proved once for the client and once for a server's
thread. TLC checked the invariant on the instance of `tcp_echo`, except
`TypeInv`, whose sequences are unbounded.

*Message codec.* The assumption `InfosAssumption` is that the numbers of an info
are int32 and that its texts are at most `INT_MAX` bytes long (`Text`), whatever
the bytes are. libprotobuf refuses to write messages of more than `INT_MAX` bytes,
so the second leaves nothing out. TLC has three infos of each kind and five
calls; the theorems are for all infos and any number of calls.

`GivesBack` compares with the info, not with the message made of it. A status is an
int there and a `bool` in the message: 0 and 1 come back, and any other number as
1. A text with a zero byte comes back if the string is handed on as it is; `recvMsg`
makes a string of its buffer and cuts it there. What is written of an info without
zero bytes holds none, neither in a tag nor in a length or a number
(`FreshWithoutZeros`), so `recvMsg` hands it on whole; of every other it hands on the
beginning (`RecvMsgCuts`), and `CutShowsLess` applies.

The argument follows the bytes. `VarintShape` gives, for each of the six lengths,
the bytes of a varint, that only its last one is below 128, and that none is zero
unless the number is. So `ReadVarint` returns the number and leaves what follows
(`VarintRead`), and finds no end in a part of it (`VarintCut`). One level up, a
field that was written is read back whatever follows it (`Int32Read`,
`BytesRead`), and the beginning of a field is read as no field, or as the
beginning of its text, which is not `ok` (`Int32Cut`, `BytesCut`).

The two recursive functions are followed by induction, although the library's
induction theorems cannot be used: `Induction` is proved for a set of numbers
from the fact that a set of naturals has a least element. `SplittingExists` and
`ReadOfIs` show that both functions have the values their equations give.
`Progress(k, b, m, r, t)` says that reading `b` into `m` has got to the result `r`
with `t` left; it starts with all of `b`, takes one field at a time and ends when
nothing is left (`ProgressStart`, `ProgressStep`, `ProgressEnd`). A message is
written as five pieces, each a field or nothing, and `RequestStage` and
`RespondStage` are what the message read into is after each of them
(`RequestRead`, `RespondRead`): the last is what `MergeFrom` makes. Hence reading
what was written of `x` into `m` merges `x` into `m`, whatever follows
(`MessageRead`), and reading of it what comes before a cut gives the stage of the
piece where it was cut, with the beginning of that piece's text at most
(`MessageCut`).

None of the four properties is inductive, because none says where `m_encStr`
comes from, nor `output` after a decoded message was encoded again. `CodecInv`
adds that: `output` is what was written of some message a codec can hold, of the
one `sent` names if it is known (`WrittenFrom`), and `m_encStr` is the beginning
of such a string, all of it unless it was cut (`CutFrom`). A codec can hold the
messages whose texts are `Text` and which have no unknown fields; that no step
leaves those (in particular not the decoding of a string cut short) is part of
`CodecInv`. It quantifies over all messages, so TLC cannot evaluate it; the
properties it implies TLC checks in `codec`.

`BusyCountRight`, `ShmTypes`, `EchoTypes`, the `TypeCorrect` of `CppThreadPool`,
`SockTypeCorrect` and `CltTypeCorrect` state invariants that no run checks: the
proofs cover every instance.

### Checked by TLC only

- `AddressBookFile` and its classes (`AddedPeopleKept`, `UnreadableOnlyByText`,
  `ReadersSeeTheBook`, `MergeIsConcatenation`). The fields of `WireFormat` are
  proved to be read back, but a person has any number of phones and a book any
  number of people, each a message inside a message: what is written of them are
  folds over sequences, for seven classes that differ. The run `address_book`
  has one of the samples 04 to 09, two `add_person` and a `list_people` on one
  file.
- Liveness (`OfferedTasksRun`, `CallersReturn`, `MainReturns`, `ExchangesEnd`,
  `RequestsHandled`): out of the prover's reach. `CallersReturn` is promised until an
  undefined step, `MainReturns` while no thread is in the middle of a frame for ever.

## Where the code and its comments disagree

`ThreadPool.cpp:213` says that a worker is woken for the task; the signal is sent
without `pool->lock` and may come before the wait (`cpp_lost_wakeup`).

`SocketPool.cpp:23` says that the connection at the head of the queue is taken; the
queue may be empty by then, since the test at line 18 comes before the lock and
`main.cpp` has more threads than connections (`sock_empty_pop`).

More that the models show, by instances no run keeps. Each is what the code does,
and the property named is one that it does not have or has only under the
condition the run gives:

- `threadpool.c:176`, `QueueDrains` of `CThreadPool`: in a pool that shrinks, the
  worker woken for a task may obey a left-over `wait_exit_thr_num` and leave, and
  the task stays beside a sleeping worker until another task comes.
- `threadpool.c:296`, `NoWorkerAfterFree` with `MIN_THR < MAX_THR`: after the pool
  has shrunk, a worker in a slot beyond `live_thr_num` is not joined, and the pool
  is freed under it.
- `threadpool.c:287`, `DestroyReturns`: a worker that tested `shutdown` before it
  was set and waits after the broadcasts is joined for ever. Clients asleep for
  room are not woken by a shutdown either, for which `OfferedTasksRun` makes an
  exception.
- `TaskQueue.cpp:35`, `NoFault` of `CppThreadPool`: two workers race for the last
  task, and the slower one gets a null function or pops an empty queue.
- `poolsocket.c:60`: `memset` clears as many bytes of the handle as a pointer has,
  and `terminated`, of which the comment at line 41 says that 1 means terminated, is
  never set before it is tested. A pool that starts with 1 there refuses every
  thread (`TerminatedInit`); `clt_pool` has both values.
- `TcpSocket.cpp:49`, `BrokenReplaced` of `SocketPool`: each refused attempt keeps
  its descriptor; when there are none left `putConnect` retries for ever, with
  the mutex locked.
- `socketutil.c:627`, `OneThreadPerConnection` with more slots than descriptors:
  `accept_timeout` returns `errno`, a positive number, when `accept` fails, and
  `sckServer_accept` takes it for a descriptor.
- `socketutil.c:682`, `SigpipeOnlyAfterTwo` without its right side: a client that
  closes in order with two requests unanswered answers the first reply with RST,
  and the second one ends the whole C server, or leaks the descriptor where the
  signal is ignored (`main.c:43`).
- `socketutil.c:453`, `MainReturns` without its condition: only the `select` before
  `readn` is timed, so a server that stops in the middle of a frame keeps the
  thread, and main that joins it, for ever.
- `poolsocket.c:327`, `NoForeignAnswer` without its condition: a connection put back
  with 1 after a timeout brings the next thread the answer that came late. The
  comment `0正常` ("0: normal") at `poolsocket.h:58` has it the other way round:
  the code keeps a connection that is put back with 1, and closes it with 0.
- `RespondCodec.cpp:25`, `DecodedIsEncoded` with the status itself in `GivesBack`: a
  status other than 0 and 1 comes back as 1. Nor does a text with a zero byte come
  back through `recvMsg`.
- `SecKeyShm.cpp:113`, `AnswerOfOnePair` with a whole key asked of every read: a read
  under a write can return a key of which one part is old and the other new.
- `TcpSocket.cpp:91`, `NeverSigpipe` and `ExchangesEnd` without their first
  condition: a frame that does not fit into one write is written in several, and
  the second one to a connection that was reset raises `SIGPIPE`; or the writer
  blocks for ever, because a server thread that has given up does not close.
- `SecKeyShm.cpp:67`, `LastWriteStands` without its condition: writers that
  overlap lose each other's writes or leave two nodes for a pair.
- `add_person.cc:84`, `AddedPeopleKept` without its condition: two that overlap
  lose a person, a kill between truncation and write loses the book.

Met while reading, without a property: `TCP/TcpClient/TcpClient/main.cpp`
connects to port 9898 while the servers listen on 9999; the order of the
arguments in `pthread_create(&pid[i], ..., &connfd[i++])`
(`Socket_Server/main.c:108`) is unspecified, and the entries are never used
again after the 1024th; `sckServer_send` frees its buffer on failure only; the
length in a header is trusted (`TcpSocket.cpp:154`); the destructors of the C++
pools run under threads that may still work; `getConnet` waits for a connection
with the mutex locked, so that none can be put back meanwhile
(`poolsocket.c:176`).

## Not modelled, and why

- *Loggers*: output.
- *OpenSSL and Java samples, pcap files, notes*: calls of libraries in one
  function, a few lines each, or no code.
- *Samples 02 and 03 of `PB/`*: a person serialised into memory and read back,
  with the class of sample 04.
- *Of the generated classes*: reflection and descriptors, which only describe
  them; arenas, `Swap` and the tables of the linker; the second halves of files
  (`.pb.h`) where they forward to what is modelled.
- *Of the TCP code*: `disConnect`'s guard, a time limit of zero, `recv_peek`,
  which nothing calls, failures of `setListen` and of the `init` functions, the
  `destroy` functions, which do nothing, and the one exchange of
  `TCP/TcpClient`, which is a shorter `working`.
- *Of the shared memory*: `delShm`, which nothing calls, the constructors that
  open without creating, and a segment that exists with another size.
- *Of the C server*: `pthread_detach`, which main gives the next entry of `pid[]`, not
  yet set.
- *In the pools*: the C++ thread pool's destructor, which runs when main returns
  and the process ends; failures of allocation and of `pthread_create`; the
  getters, which only read; in `poolsocket.c` the counter `nvalid` and the
  repair of a connection with status 0, which no connection in the pool has.

## Plan

The most important first; all steps are done.

1. `TaskPool`, `CThreadPool`, its runs and its proofs.
2. `CppThreadPool` against the same `TaskPool`.
3. `ConnectionPool`, `SocketPool`, its runs and `SocketPool_proofs`.
4. `CltPool` against the same `ConnectionPool`.
5. `SecKeyShm`.
6. `TcpEcho` and `SckServer`.
7. `MessageCodec` and its classes.
8. `AddressBookFile` and its classes.
9. `SckServer_proofs` and `CltPool_proofs`.
10. `SecKeyShm_proofs`, `CppThreadPool_proofs` and `TcpEcho_proofs`.
11. `MessageCodec_proofs`.

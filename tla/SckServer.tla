------------------------------ MODULE SckServer ------------------------------
(***************************************************************************)
(* The server of the C Socket API: sckServer_* of socketutil.c under the   *)
(* accept loop and the threads of Socket_Server/main.c, with the table of  *)
(* descriptors of its process.  A request is a header and a body in the    *)
(* stream of its connection; its number stands for its text and for that   *)
(* of the reply to it.                                                     *)
(***************************************************************************)
EXTENDS Integers, Sequences, FiniteSets

CONSTANTS Conns,      \* connections clients open, each a process's own
          Requests,   \* bound: requests a client sends on one connection
          MaxReplies, \* replies a connection can hold until its client reads
          MaxFd,      \* descriptors the process has for connections: 1..MaxFd
          Errno,      \* the number errno has when accept fails: EMFILE
          Slots,      \* bound: entries of connfd[] and pid[] that main uses
          NoConn

ASSUME SckAssumption ==
  /\ {Requests, MaxReplies, MaxFd, Slots} \subseteq Nat \ {0} /\ Errno \in Nat \ {0}
  /\ IsFiniteSet(Conns) /\ NoConn \notin Conns

VARIABLES
  backlog,    \* connections accept has not returned yet
  fds,        \* the connection behind each descriptor
  i,          \* of main: the next entry of connfd[]
  connfd,     \* connfd[]
  pc, fd, msg,\* of the thread of each entry: where it is, its connfd, the request it holds
  state,      \* of a connection at its client: "new", "open", "fin" (closed in order),
              \* "reset" (closed in order, and a later reply was answered with RST),
              \* "rst" (aborted)
  req, rep,   \* the streams of a connection
  asked,      \* requests sent on a connection
  waiting,    \* clients in sckClient_rev
  seen,       \* the number of the last reply a client has read
  handled     \* history: the last request of a connection a thread has taken

threads == <<pc, fd, msg>>
clients == <<state, req, rep, asked, waiting, seen, handled>>
vars    == <<backlog, fds, i, connfd, threads, clients>>

Threads == 0..(Slots - 1)
Live(t) == pc[t] \notin {"none", "ended"}
Killed  == \E t \in Threads : pc[t] = "sigpipe"  \* the process is gone, threads and all
Goto(t, label) == pc' = [pc EXCEPT ![t] = label]

\* the connection a thread's descriptor stands for at the moment
At(t) == IF fd[t] \in 1..MaxFd THEN fds[fd[t]] ELSE NoConn

Init == /\ backlog = <<>> /\ fds = [f \in 1..MaxFd |-> NoConn] /\ i = 0
        /\ connfd = [t \in Threads |-> 0]
        /\ pc = [t \in Threads |-> "none"]
        /\ fd = [t \in Threads |-> 0] /\ msg = [t \in Threads |-> 0]
        /\ state = [c \in Conns |-> "new"]
        /\ req = [c \in Conns |-> <<>>] /\ rep = [c \in Conns |-> <<>>]
        /\ asked = [c \in Conns |-> 0] /\ seen = asked /\ handled = asked
        /\ waiting = {}

-----------------------------------------------------------------------------
\* main: sckServer_accept, pthread_create.  A timeout of accept_timeout changes nothing.
\* (Left out: pthread_detach, which is given the next entry of pid[], not yet set.)
FreeFds == {f \in 1..MaxFd : fds[f] = NoConn}

\* accept_timeout returns the lowest free descriptor, or the errno of an accept that
\* failed, which is positive like a descriptor
AcceptReturns == IF FreeFds = {} THEN Errno ELSE CHOOSE f \in FreeFds : \A g \in FreeFds : f <= g

SckServerAccept ==
  /\ ~Killed /\ backlog # <<>> /\ i < Slots
  /\ connfd' = [connfd EXCEPT ![i] = AcceptReturns]
  /\ IF FreeFds = {} THEN UNCHANGED <<fds, backlog>>
     ELSE /\ fds' = [fds EXCEPT ![AcceptReturns] = Head(backlog)]
          /\ backlog' = Tail(backlog)
  /\ i' = i + 1
  /\ Goto(i, "start")
  /\ UNCHANGED <<fd, msg, clients>>

\* (mutant) every thread is given the entry main is at
StartLate(t) ==
  /\ pc[t] = "start" /\ fd' = [fd EXCEPT ![t] = connfd[IF i < Slots /\ connfd[i] # 0 THEN i ELSE i - 1]]
  /\ Goto(t, "rev")
  /\ UNCHANGED <<backlog, fds, i, connfd, msg, clients>>

\* pthread_func: int connfd = *(int*)arg, the entry that is this thread's alone
Start(t) ==
  /\ pc[t] = "start" /\ fd' = [fd EXCEPT ![t] = connfd[t]]
  /\ Goto(t, "rev")
  /\ UNCHANGED <<backlog, fds, i, connfd, msg, clients>>

-----------------------------------------------------------------------------
\* (mutant) a timeout ends the thread
RevOnce(t) ==
  /\ pc[t] = "rev" /\ At(t) # NoConn
  /\ Goto(t, IF req[At(t)] # <<>> \/ state[At(t)] # "open" THEN "header" ELSE "ended")
  /\ UNCHANGED <<backlog, fds, i, connfd, fd, msg, clients>>

\* sckServer_rev: read_timeout, readn of the header, readn of the body.  A timeout, and
\* a select that fails because the descriptor is closed, are both taken up again.
Rev(t) ==
  /\ pc[t] = "rev" /\ At(t) # NoConn
  /\ req[At(t)] # <<>> \/ state[At(t)] # "open"
  /\ Goto(t, "header")
  /\ UNCHANGED <<backlog, fds, i, connfd, fd, msg, clients>>

\* readn gets what it is for.  Anything but a header where one is due is a length
\* that readn never gets to the end of.
Readn(t, part) ==
  /\ pc[t] = part /\ At(t) # NoConn /\ req[At(t)] # <<>>
  /\ req' = [req EXCEPT ![At(t)] = Tail(@)]
  /\ IF Head(req[At(t)])[2] # part
       THEN Goto(t, "misframed") /\ UNCHANGED <<msg, handled>>
       ELSE /\ msg' = [msg EXCEPT ![t] = Head(req[At(t)])[1]]
            /\ Goto(t, IF part = "header" THEN "body" ELSE "send")
            /\ handled' = IF part = "header" THEN handled ELSE [handled EXCEPT ![At(t)] = msg'[t]]
  /\ UNCHANGED <<backlog, fds, i, connfd, fd, state, rep, asked, waiting, seen>>

\* (mutant) a client that has closed ends the thread like an error
ReadnEndsAll(t) ==
  /\ pc[t] \in {"header", "body"}
  /\ At(t) = NoConn \/ (req[At(t)] = <<>> /\ state[At(t)] \notin {"new", "open"})
  /\ Goto(t, "ended")
  /\ UNCHANGED <<backlog, fds, i, connfd, fd, msg, clients>>

\* readn at the end of the stream: Sck_ErrPeerClosed breaks the loop, an error
\* (the client has aborted, or the descriptor is closed) returns at once.  A stream
\* that the client has ended in order ends, on Linux, also after RST.
ReadnEnds(t) ==
  /\ pc[t] \in {"header", "body"}
  /\ At(t) = NoConn \/ (req[At(t)] = <<>> /\ state[At(t)] \notin {"new", "open"})
  /\ Goto(t, IF At(t) # NoConn /\ state[At(t)] \in {"fin", "reset"} THEN "close" ELSE "ended")
  /\ UNCHANGED <<backlog, fds, i, connfd, fd, msg, clients>>

Push(c, m) == IF Len(rep[c]) < MaxReplies THEN [rep EXCEPT ![c] = Append(@, m)] ELSE rep

\* (mutant) header and body of a reply are written by themselves
SendInTwo(t) ==
  /\ pc[t] = "send" /\ At(t) # NoConn
  /\ CASE state[At(t)] = "open" -> Goto(t, "rev") /\ rep' = Push(At(t), msg[t]) /\ UNCHANGED state
       [] state[At(t)] = "fin"  -> Goto(t, "sigpipe") /\ state' = [state EXCEPT ![At(t)] = "reset"]
                                   /\ UNCHANGED rep
       [] OTHER                 -> Goto(t, "ended") /\ UNCHANGED <<rep, state>>
  /\ UNCHANGED <<backlog, fds, i, connfd, fd, msg, req, asked, waiting, seen, handled>>

\* sckServer_send.  With no room until the timeout the reply is dropped, and the loop
\* goes on with the next request.  A client that has closed answers the reply with
\* RST; once that is here, the next write raises SIGPIPE, which nothing handles, or
\* fails with EPIPE where the process was started with the signal ignored.  An error
\* ends the thread, its descriptor left open.
SckServerSend(t) ==
  /\ pc[t] = "send"
  /\ \/ /\ At(t) = NoConn \/ state[At(t)] = "rst"
        /\ Goto(t, "ended") /\ UNCHANGED <<rep, state>>
     \/ /\ At(t) # NoConn /\ state[At(t)] = "open"
        /\ Goto(t, "rev") /\ rep' = Push(At(t), msg[t]) /\ UNCHANGED state
     \/ /\ At(t) # NoConn /\ state[At(t)] = "fin"
        /\ Goto(t, "rev") /\ \E s \in {"fin", "reset"} : state' = [state EXCEPT ![At(t)] = s]
        /\ UNCHANGED rep
     \/ /\ At(t) # NoConn /\ state[At(t)] = "reset"
        /\ \E label \in {"sigpipe", "ended"} : Goto(t, label)
        /\ UNCHANGED <<rep, state>>
  /\ UNCHANGED <<backlog, fds, i, connfd, fd, msg, req, asked, waiting, seen, handled>>

\* sckServer_close(connfd), pthread_exit
Close(t) ==
  /\ pc[t] = "close"
  /\ fds' = IF fd[t] \in 1..MaxFd THEN [fds EXCEPT ![fd[t]] = NoConn] ELSE fds
  /\ Goto(t, "ended")
  /\ UNCHANGED <<backlog, i, connfd, fd, msg, clients>>

-----------------------------------------------------------------------------
\* The clients: sckClient_connect, then requests one after the other.  A client that
\* times out (or is done) goes on with its next request, the reply still to come.
Connect(c) ==
  /\ state[c] = "new" /\ state' = [state EXCEPT ![c] = "open"]
  /\ backlog' = Append(backlog, c)
  /\ UNCHANGED <<fds, i, connfd, threads, req, rep, asked, waiting, seen, handled>>

SckClientSend(c) ==
  /\ state[c] = "open" /\ c \notin waiting /\ asked[c] < Requests
  /\ asked' = [asked EXCEPT ![c] = @ + 1]
  /\ req' = [req EXCEPT ![c] = @ \o <<<<asked'[c], "header">>, <<asked'[c], "body">>>>]
  /\ waiting' = waiting \union {c}
  /\ UNCHANGED <<backlog, fds, i, connfd, threads, state, rep, seen, handled>>

SckClientRev(c) ==
  /\ c \in waiting
  /\ IF rep[c] # <<>>
       THEN rep' = [rep EXCEPT ![c] = Tail(@)] /\ seen' = [seen EXCEPT ![c] = Head(rep[c])]
       ELSE UNCHANGED <<rep, seen>>  \* Sck_ErrTimeOut
  /\ waiting' = waiting \ {c}
  /\ UNCHANGED <<backlog, fds, i, connfd, threads, state, req, asked, handled>>

\* sckClient_closeconn: with a reply unread the kernel aborts the connection
SckClientClose(c) ==
  /\ state[c] = "open" /\ c \notin waiting
  /\ state' = [state EXCEPT ![c] = IF rep[c] = <<>> THEN "fin" ELSE "rst"]
  /\ rep' = [rep EXCEPT ![c] = <<>>]
  /\ UNCHANGED <<backlog, fds, i, connfd, threads, req, asked, waiting, seen, handled>>

ThreadStep(t) == /\ ~Killed
                 /\ \/ Start(t) \/ Rev(t) \/ ReadnEnds(t) \/ SckServerSend(t) \/ Close(t)
                    \/ \E part \in {"header", "body"} : Readn(t, part)
ClientStep(c) == /\ ~Killed
                 /\ Connect(c) \/ SckClientSend(c) \/ SckClientRev(c) \/ SckClientClose(c)
Next == \/ SckServerAccept
        \/ \E t \in Threads : ThreadStep(t)
        \/ \E c \in Conns : ClientStep(c)

Spec == Init /\ [][Next]_vars
FairSpec == Spec /\ WF_vars(SckServerAccept) /\ \A t \in Threads : WF_vars(ThreadStep(t))

-----------------------------------------------------------------------------
\* The connection a thread was started for, or has ended with: entry t of connfd[].
ServedBy(c) == {t \in Threads : Live(t) /\ connfd[t] \in 1..MaxFd /\ fds[connfd[t]] = c}

\* Type invariant of the server's and the clients' variables (main.c, socketutil.c).
TypeOK ==
  /\ Len(backlog) <= Cardinality(Conns) /\ fds \in [1..MaxFd -> Conns \union {NoConn}]
  /\ i \in 0..Slots /\ connfd \in [Threads -> 0..MaxFd \union {Errno}]
  /\ fd \in [Threads -> 0..MaxFd \union {Errno}] /\ msg \in [Threads -> 0..Requests]
  /\ pc \in [Threads -> {"none", "start", "rev", "header", "body", "send", "close", "ended", "misframed",
                    "sigpipe"}]
  /\ state \in [Conns -> {"new", "open", "fin", "reset", "rst"}]
  /\ \A c \in Conns : Len(rep[c]) <= MaxReplies /\ Len(req[c]) <= 2 * Requests
  /\ asked \in [Conns -> 0..Requests] /\ seen \in [Conns -> 0..Requests]
  /\ handled \in [Conns -> 0..Requests] /\ waiting \subseteq Conns

\* As long as accept does not run out of descriptors (Slots <= MaxFd: the errno it
\* returns then is taken for one), what sckServer_accept stores is a connection, and
\* its thread has it to itself: no two live threads read one descriptor, and none
\* reads a descriptor that was closed or given to another connection.  So replies
\* come in the order of the requests, none twice, whatever clients and the server
\* have given up waiting for, and no thread reads a body as a header.
OneThreadPerConnection ==
  /\ \A t \in Threads : Live(t) =>
       /\ connfd[t] \in 1..MaxFd /\ fds[connfd[t]] # NoConn
       /\ \A u \in Threads \ {t} : Live(u) => connfd[u] # connfd[t]
       /\ pc[t] # "start" => fd[t] = connfd[t]
  /\ \A t \in Threads : pc[t] # "misframed"
  /\ \A c \in Conns : \A n \in 1..Len(rep[c]) :
       /\ rep[c][n] > (IF n = 1 THEN seen[c] ELSE rep[c][n - 1])
       /\ rep[c][n] <= handled[c]

\* Has the client of c closed in order with two of its requests or more without a
\* reply it has read, and answered one of the replies with RST?
TwoUnanswered(c) == state[c] = "reset" /\ asked[c] >= seen[c] + 2

\* A descriptor outlives its thread only when the client has aborted the connection
\* (closed it with a reply unread, after a timeout), or when it has closed in order
\* with two requests or more unanswered: pthread_func returns then, from a read or
\* from the second sckServer_send, without sckServer_close (main.c:28-32, 43-47).
LeakedOnlyOnReset ==
  \A f \in 1..MaxFd : fds[f] # NoConn /\ ServedBy(fds[f]) = {} =>
    state[fds[f]] = "rst" \/ TwoUnanswered(fds[f])

\* SIGPIPE, which sckServer_send does nothing about, ends the whole server only after
\* a client has closed with two requests or more unanswered: a client that has read
\* all replies but one never does it to the others, whenever it closes.
SigpipeOnlyAfterTwo == Killed => \E c \in Conns : TwoUnanswered(c)

\* While the server lives, every request of a client that stays is taken by a thread,
\* since timeouts are taken up again, and every connection that a client has closed or
\* aborted is accepted and then left by its thread (with its descriptor closed, or as
\* LeakedOnlyOnReset says).
RequestsHandled ==
  \A c \in Conns :
    /\ \A n \in 1..Requests :
         (asked[c] = n) ~> (handled[c] >= n \/ state[c] # "open" \/ Killed)
    /\ (state[c] \notin {"new", "open"}) ~>
         (Killed \/ (ServedBy(c) = {} /\ c \notin {backlog[n] : n \in DOMAIN backlog}))
==============================================================================

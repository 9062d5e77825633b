------------------------------- MODULE TcpEcho -------------------------------
(***************************************************************************)
(* A client thread of connectPool (main.cpp, working) and the server of    *)
(* Tcp-Linux (TcpServer.cpp, main.cpp), talking through TcpSocket.cpp: a   *)
(* message is a header with its length, then its body, written to and read *)
(* from byte streams of bounded capacity.  A stream carries units <<m, p>>:*)
(* the p-th piece of the frame of message m.  Request m and the reply to   *)
(* it carry the same m.  Endpoint 0 is the client; endpoint k is the       *)
(* server's thread for the k-th connection.                                *)
(***************************************************************************)
EXTENDS Integers, FiniteSets, Sequences, SequencesExt

CONSTANTS MaxConn,    \* bound: the connections the client opens
          Tasks,      \* calls of working() that use the connection, one after the other
          Exchanges,  \* exchanges of one call of working()
          Caps,       \* the capacities a stream may have
          HeaderLen,  \* pieces of a header
          BodyLen,    \* pieces of a body
          MaxFd,      \* descriptors the server may have open for connections
          MaxDeaths   \* bound: how often the server is killed from outside

ASSUME TcpAssumption ==
  /\ {MaxConn, Tasks, Exchanges, HeaderLen, BodyLen, MaxFd} \subseteq Nat \ {0}
  /\ Caps \subseteq Nat \ {0} /\ MaxDeaths \in Nat

VARIABLES
  cap,       \* the capacity of the streams in this behaviour
  chan,      \* per connection and direction: what the kernel holds for the reader
  cliEnd,    \* connections whose client end is open
  srvEnd,    \* connections whose server end is open, accepted or in the backlog
  served,    \* those a thread of the server has; callback() closes none
  fate,      \* per endpoint: "none", "reset" (RST, errno pending) or "broken" (a write raises SIGPIPE)
  alive,     \* the server process
  deaths,    \* how often it was killed
  cur,       \* the connection of the client, 0 before the first
  nonblock,  \* O_NONBLOCK of the client's socket
  pc,        \* per endpoint
  todo, got, \* per endpoint: the pieces writen has still to write, the pieces readn has read
  res,       \* per endpoint: the message recvMsg returned, 0 for the empty string
  num, task, i,     \* of the client: requests so far, calls of working() left, exchanges left
  sent, delivered,  \* history, per connection and direction: the messages sent and received
  trouble    \* history: the connections on which a call timed out or an end went away

net    == <<chan, cliEnd, srvEnd, served, trouble>>
proc   == <<alive, deaths>>
client == <<cur, nonblock, num, task, i>>
io     == <<todo, got, res, sent, delivered>>
vars   == <<cap, net, fate, proc, client, pc, io>>

Conns     == 1..MaxConn
Endpoints == 0..MaxConn
Messages  == 1..(Tasks * Exchanges)
FrameLen  == HeaderLen + BodyLen
Roomy     == cap >= FrameLen
Frame(m)  == [p \in 1..FrameLen |-> <<m, p>>]
Goto(e, label) == pc' = [pc EXCEPT ![e] = label]

\* an endpoint's connection, its directions, its streams, and whether its peer is gone
Conn(e)     == IF e = 0 THEN cur ELSE e
Out(e)      == IF e = 0 THEN "up" ELSE "down"
In(e)       == IF e = 0 THEN "down" ELSE "up"
Outgoing(e) == chan[Conn(e)][Out(e)]
Incoming(e) == chan[Conn(e)][In(e)]
PeerGone(e) == fate[e] # "none" \/ Conn(e) \notin (IF e = 0 THEN srvEnd ELSE cliEnd)

Init == /\ cap \in Caps
        /\ chan = [k \in Conns |-> [d \in {"up", "down"} |-> <<>>]]
        /\ sent = chan /\ delivered = chan
        /\ cliEnd = {} /\ srvEnd = {} /\ served = {} /\ trouble = {}
        /\ fate = [e \in Endpoints |-> "none"]
        /\ alive = TRUE /\ deaths = 0
        /\ cur = 0 /\ nonblock = FALSE /\ num = 0 /\ task = Tasks /\ i = 0
        /\ pc = [e \in Endpoints |-> IF e = 0 THEN "connect" ELSE "none"]
        /\ todo = [e \in Endpoints |-> <<>>] /\ got = todo
        /\ res = [e \in Endpoints |-> 0]

-----------------------------------------------------------------------------
\* sendMsg: writeTimeout, then writen.
Outgoes(e) == IF e = 0 THEN num ELSE res[e]

\* select finds the socket writable, or an error to report.  It never waits for its
\* time limit between these two programs: LockStep.
SendMsg(e) ==
  /\ pc[e] = "send" /\ (Len(Outgoing(e)) < cap \/ PeerGone(e))
  /\ todo' = [todo EXCEPT ![e] = Frame(Outgoes(e))]
  /\ sent' = [sent EXCEPT ![Conn(e)][Out(e)] = Append(@, Outgoes(e))]
  /\ Goto(e, "writen")
  /\ UNCHANGED <<cap, net, fate, proc, client, got, res, delivered>>

\* writen: one write.  The kernel takes what fits and blocks while nothing does;
\* to a write whose peer has closed, RST is the answer.
Writen(e) ==
  LET room == IF PeerGone(e) THEN cap ELSE cap - Len(Outgoing(e))
      n    == IF room < Len(todo[e]) THEN room ELSE Len(todo[e])
  IN /\ pc[e] = "writen" /\ fate[e] = "none" /\ n > 0
     /\ todo' = [todo EXCEPT ![e] = SubSeq(@, n + 1, Len(@))]
     /\ IF PeerGone(e)
          THEN fate' = [fate EXCEPT ![e] = "broken"] /\ UNCHANGED chan
          ELSE /\ chan' = [chan EXCEPT ![Conn(e)][Out(e)] = @ \o SubSeq(todo[e], 1, n)]
               /\ UNCHANGED fate
     /\ IF n = Len(todo[e]) THEN Goto(e, "recv") ELSE UNCHANGED pc
     /\ UNCHANGED <<cap, cliEnd, srvEnd, served, trouble, proc, client, got, res, sent, delivered>>

\* an error is reported once; after it a write raises SIGPIPE
Spend(e) == fate' = [fate EXCEPT ![e] = IF @ = "reset" THEN "broken" ELSE @]
WouldBlock(e) == e = 0 /\ nonblock

\* write fails with ECONNRESET, or EAGAIN on a socket left non-blocking: writen returns -1
WritenFails(e) ==
  /\ pc[e] = "writen"
  /\ fate[e] = "reset" \/ (WouldBlock(e) /\ Len(Outgoing(e)) = cap /\ ~PeerGone(e))
  /\ Spend(e) /\ Goto(e, "recv") /\ todo' = [todo EXCEPT ![e] = <<>>]
  /\ UNCHANGED <<cap, net, proc, client, got, res, sent, delivered>>

-----------------------------------------------------------------------------
\* recvMsg: readTimeout, then readn of the header and readn of the body.
Readable(e) == Incoming(e) # <<>> \/ PeerGone(e)

RecvMsg(e) ==
  /\ pc[e] = "recv" /\ Readable(e)
  /\ got' = [got EXCEPT ![e] = <<>>]
  /\ Goto(e, "header")
  /\ UNCHANGED <<cap, net, fate, proc, client, todo, res, sent, delivered>>

\* recvMsg returns to working(), or to callback(), which breaks on an empty string
Return(e, m) ==
  /\ res' = [res EXCEPT ![e] = m]
  /\ got' = [got EXCEPT ![e] = <<>>]
  /\ Goto(e, IF e = 0 THEN "answered" ELSE IF m = 0 THEN "ended" ELSE "send")
  /\ delivered' = IF m = 0 THEN delivered
                  ELSE [delivered EXCEPT ![Conn(e)][In(e)] = Append(@, m)]

\* (mutant) wait_seconds is 0: select is not called
NoTimeLimit(e) == FALSE /\ UNCHANGED vars

\* readTimeout expires
ReadTimeout(e) ==
  /\ pc[e] = "recv" /\ ~Readable(e)
  /\ trouble' = trouble \union {Conn(e)}
  /\ Return(e, 0)
  /\ UNCHANGED <<cap, chan, cliEnd, srvEnd, served, fate, proc, client, todo, sent>>

\* the length a header holds, and the message a frame is: -1 when it is none
Length(h)  == IF \E m \in Messages : h = SubSeq(Frame(m), 1, HeaderLen) THEN BodyLen ELSE 1
Message(f) == IF \E m \in Messages : f = Frame(m) THEN f[1][1] ELSE -1
Wanted(e)  == IF pc[e] = "header" THEN HeaderLen
              ELSE HeaderLen + Length(SubSeq(got[e], 1, HeaderLen))

\* (mutant) one read for the body, whatever it returns
ReadOnce(e) ==
  /\ pc[e] \in {"header", "body"} /\ Incoming(e) # <<>>
  /\ \E n \in 1..Len(Incoming(e)) :
       LET all == got[e] \o SubSeq(Incoming(e), 1, n) IN
       /\ Len(all) <= Wanted(e)
       /\ chan' = [chan EXCEPT ![Conn(e)][In(e)] = SubSeq(@, n + 1, Len(@))]
       /\ IF pc[e] = "header"
            THEN /\ got' = [got EXCEPT ![e] = all]
                 /\ Goto(e, IF Len(all) < Wanted(e) THEN "header" ELSE "body")
                 /\ UNCHANGED <<res, delivered>>
            ELSE Return(e, Message(all))
  /\ UNCHANGED <<cap, cliEnd, srvEnd, served, fate, trouble, proc, client, todo, sent>>

\* readn: one read, of some of what is there and at most what is still wanted
Readn(e) ==
  /\ pc[e] \in {"header", "body"} /\ Incoming(e) # <<>>
  /\ \E n \in 1..Len(Incoming(e)) :
       LET all == got[e] \o SubSeq(Incoming(e), 1, n) IN
       /\ Len(all) <= Wanted(e)
       /\ chan' = [chan EXCEPT ![Conn(e)][In(e)] = SubSeq(@, n + 1, Len(@))]
       /\ IF Len(all) < Wanted(e) \/ pc[e] = "header"
            THEN /\ got' = [got EXCEPT ![e] = all]
                 /\ Goto(e, IF Len(all) < Wanted(e) THEN pc[e] ELSE "body")
                 /\ UNCHANGED <<res, delivered>>
            ELSE Return(e, Message(all))
  /\ UNCHANGED <<cap, cliEnd, srvEnd, served, fate, trouble, proc, client, todo, sent>>

\* read returns 0 at the end of the stream, or fails (ECONNRESET, EAGAIN): an empty string
ReadnFails(e) ==
  /\ pc[e] \in {"header", "body"} /\ Incoming(e) = <<>>
  /\ PeerGone(e) \/ WouldBlock(e)
  /\ Spend(e) /\ Return(e, 0)
  /\ UNCHANGED <<cap, net, proc, client, todo, sent>>

-----------------------------------------------------------------------------
\* The client: connectToHost, which createConnect repeats until it returns 0.
ConnectToHost ==
  /\ pc[0] = "connect" /\ alive /\ cur < MaxConn
  /\ cur' = cur + 1
  /\ cliEnd' = cliEnd \union {cur + 1} /\ srvEnd' = srvEnd \union {cur + 1}
  /\ nonblock' = TRUE
  /\ fate' = [fate EXCEPT ![0] = "none"]
  /\ Goto(0, "connecting")
  /\ UNCHANGED <<cap, chan, served, trouble, proc, num, task, i, io>>

SetBlock == nonblock' = FALSE

\* connectTimeout: select finds the socket writable and no error on it
Connected ==
  /\ pc[0] = "connecting" /\ fate[0] = "none"
  /\ SetBlock
  /\ Goto(0, "working")
  /\ UNCHANGED <<cap, net, fate, proc, cur, num, task, i, io>>

\* connectTimeout: 0 from select, or an error; the socket of this attempt stays open
ConnectFails ==
  /\ pc[0] = "connecting"
  /\ SetBlock
  /\ trouble' = trouble \union {cur}
  /\ Goto(0, IF cur < MaxConn THEN "connect" ELSE "done")
  /\ UNCHANGED <<cap, chan, cliEnd, srvEnd, served, fate, proc, cur, num, task, i, io>>

\* the next call of working() takes the connection, until there is none left
Working ==
  /\ pc[0] = "working"
  /\ IF task = 0 THEN Goto(0, "done") /\ UNCHANGED <<task, i>>
                 ELSE Goto(0, "request") /\ task' = task - 1 /\ i' = Exchanges
  /\ UNCHANGED <<cap, net, fate, proc, cur, nonblock, num, io>>

\* while (i--): the next request, or the connection goes back into the pool
Request ==
  /\ pc[0] = "request"
  /\ IF i = 0 THEN Goto(0, "working") /\ UNCHANGED <<num, i>>
              ELSE Goto(0, "send") /\ num' = num + 1 /\ i' = i - 1
  /\ UNCHANGED <<cap, net, fate, proc, cur, nonblock, task, io>>

\* (mutant) an empty answer is not looked at
AnsweredAnyhow ==
  /\ pc[0] = "answered" /\ Goto(0, "request")
  /\ UNCHANGED <<cap, net, fate, proc, client, io>>

\* an empty answer: putConnect(tcp, false) closes the connection and opens another.
\* Unread data makes the kernel send RST instead of FIN.
Answered ==
  /\ pc[0] = "answered"
  /\ IF res[0] # 0
       THEN Goto(0, "request") /\ UNCHANGED <<net, fate, i>>
       ELSE /\ cliEnd' = cliEnd \ {cur} /\ trouble' = trouble \union {cur}
            /\ fate' = IF Incoming(0) # <<>> /\ fate[cur] = "none"
                         THEN [fate EXCEPT ![cur] = "reset"] ELSE fate
            /\ i' = 0
            /\ Goto(0, IF cur < MaxConn THEN "connect" ELSE "done")
            /\ UNCHANGED <<chan, srvEnd, served>>
  /\ UNCHANGED <<cap, proc, cur, nonblock, num, task, io>>

-----------------------------------------------------------------------------
\* The server: acceptConn hands a connection to a new thread, while descriptors last;
\* when accept fails it returns NULL and main tries again.
AcceptConn(k) ==
  /\ k \in srvEnd \ served /\ Cardinality(served) < MaxFd
  /\ served' = served \union {k}
  /\ Goto(k, "recv")
  /\ UNCHANGED <<cap, chan, cliEnd, srvEnd, fate, trouble, proc, client, io>>

\* The process dies with its threads: RST for a connection with unread data or
\* still in the backlog, FIN for the others.
Dies ==
  /\ alive' = FALSE
  /\ srvEnd' = {} /\ served' = {} /\ trouble' = trouble \union srvEnd
  /\ pc' = [e \in Endpoints |-> IF e = 0 \/ pc[e] = "none" THEN pc[e] ELSE "ended"]
  /\ fate' = IF cur \in srvEnd /\ fate[0] = "none" /\ (cur \notin served \/ chan[cur].up # <<>>)
               THEN [fate EXCEPT ![0] = "reset"] ELSE fate

ServerDies ==
  /\ alive /\ deaths < MaxDeaths /\ Dies /\ deaths' = deaths + 1
  /\ UNCHANGED <<cap, chan, cliEnd, client, io>>

\* main: a new process listens on the port (SO_REUSEADDR)
ServerStarts ==
  /\ ~alive /\ alive' = TRUE
  /\ UNCHANGED <<cap, net, fate, deaths, client, pc, io>>

\* SIGPIPE, which neither program handles, ends the process that writes
Sigpipe(e) ==
  /\ pc[e] = "writen" /\ fate[e] = "broken"
  /\ IF e = 0 THEN Goto(0, "killed") /\ UNCHANGED <<cap, net, fate, proc, client, io>>
              ELSE Dies /\ UNCHANGED <<cap, chan, cliEnd, deaths, client, io>>

-----------------------------------------------------------------------------
Step(e) == \/ SendMsg(e) \/ Writen(e) \/ WritenFails(e) \/ Sigpipe(e)
           \/ RecvMsg(e) \/ ReadTimeout(e) \/ Readn(e) \/ ReadnFails(e)
ClientStep == Step(0) \/ ConnectToHost \/ Connected \/ ConnectFails \/ Working \/ Request \/ Answered

Next == \/ ClientStep
        \/ \E k \in Conns : Step(k) \/ AcceptConn(k)
        \/ ServerDies \/ ServerStarts

Spec == Init /\ [][Next]_vars
FairSpec == /\ Spec
            /\ WF_vars(ClientStep) /\ WF_vars(ServerStarts)
            /\ \A k \in Conns : WF_vars(Step(k)) /\ WF_vars(AcceptConn(k))

-----------------------------------------------------------------------------
\* Type invariant (TcpSocket.h and the kernel's side of a connection): no more than
\* cap pieces are in flight, no more than a frame is buffered, the counters stay in range.
TypeOK ==
  /\ cap \in Caps /\ num \in {0} \union Messages /\ task \in 0..Tasks /\ i \in 0..Exchanges
  /\ \A k \in Conns, d \in {"up", "down"} : Len(chan[k][d]) <= cap
  /\ served \subseteq srvEnd /\ srvEnd \subseteq Conns /\ cliEnd \subseteq Conns
  /\ fate \in [Endpoints -> {"none", "reset", "broken"}]
  /\ \A e \in Endpoints : Len(todo[e]) <= FrameLen /\ Len(got[e]) <= FrameLen
  /\ alive \in BOOLEAN /\ deaths \in 0..MaxDeaths /\ cur \in Endpoints /\ nonblock \in BOOLEAN

\* recvMsg returns whole messages, each once and in the order sendMsg was called with
\* them at the other end, however reads and writes are cut and whoever gives up.
DeliveredInOrder ==
  \A k \in Conns, d \in {"up", "down"} : IsPrefix(delivered[k][d], sent[k][d])

\* An answer working() accepts answers the request it has just sent, although a
\* timed-out request may be answered later: the connection was replaced by then.
\* And a stream is empty when a message is put into it, so that the time limit of
\* sendMsg never expires, unlike in a client that goes on after an empty answer.
\* Nor is an empty string, which is all recvMsg has to report an error with, ever
\* returned on a connection where nobody has timed out, closed or died.
LockStep ==
  /\ pc[0] = "answered" /\ res[0] # 0 => res[0] = num
  /\ \A e \in Endpoints : pc[e] = "send" => Outgoing(e) = <<>>
  /\ pc[0] = "answered" /\ res[0] = 0 => cur \in trouble
  /\ \A k \in Conns : pc[k] = "ended" => k \in trouble

\* When a frame fits into one write, neither process is ended by SIGPIPE, whatever
\* dies and restarts: an empty answer keeps both from writing to a broken connection.
NeverSigpipe == Roomy => \A e \in Endpoints : ~(pc[e] = "writen" /\ fate[e] = "broken")

\* The calls of working() come to an end.  A frame longer than the stream needs a
\* peer that reads on: sendMsg times out before its first byte only, and a server
\* thread that has given up never closes the connection.  They have come to an end too
\* when the last of the MaxConn connections is lost, where createConnect tries on until
\* it has another one.
ExchangesEnd ==
  [](Roomy \/ \A k \in served : pc[k] # "ended") => <>(pc[0] \in {"done", "killed"})
==============================================================================

--------------------------- MODULE SckServer_proofs ---------------------------
(***************************************************************************)
(* Proofs that the threads of SckServer do not get into each other's way   *)
(* (OneThreadPerConnection), which descriptors they leave open             *)
(* (LeakedOnlyOnReset) and what a client must do for SIGPIPE to end the    *)
(* server (SigpipeOnlyAfterTwo), for every number of clients, requests,    *)
(* replies and descriptors, as long as main does not accept more           *)
(* connections than there are descriptors.                                 *)
(***************************************************************************)
EXTENDS SckServer, SequenceTheorems, WellFoundedInduction, TLAPS

-----------------------------------------------------------------------------
(* Queues: sequences whose elements are all different *)

Elements(s) == {s[k] : k \in 1 .. Len(s)}

Injective(s) == \A k, j \in 1 .. Len(s) : s[k] = s[j] => k = j

\* Appending a new element to a sequence without repetitions.
LEMMA AppendNew ==
  ASSUME NEW S, NEW s \in Seq(S), NEW e \in S,
         Injective(s), e \notin Elements(s)
  PROVE  /\ Append(s, e) \in Seq(S)
         /\ Len(Append(s, e)) = Len(s) + 1
         /\ Elements(Append(s, e)) = Elements(s) \cup {e}
         /\ Injective(Append(s, e))
<1> DEFINE t == Append(s, e)
<1>1. /\ t \in Seq(S)
      /\ Len(t) = Len(s) + 1
      /\ \A k \in 1 .. Len(s) : t[k] = s[k]
      /\ t[Len(s) + 1] = e
  OBVIOUS
<1>2. Len(s) \in Nat
  OBVIOUS
<1> HIDE DEF t
<1>3. Elements(t) \subseteq Elements(s) \cup {e}
  BY <1>1, <1>2 DEF Elements
<1>4. Elements(s) \subseteq Elements(t)
  <2> SUFFICES ASSUME NEW k \in 1 .. Len(s) PROVE s[k] \in Elements(t)
    BY DEF Elements
  <2> QED  BY <1>1, <1>2 DEF Elements
<1>5. e \in Elements(t)
  BY <1>1, <1>2 DEF Elements
<1>6. Injective(t)
  BY <1>1, <1>2 DEF Injective, Elements
<1> QED  BY <1>1, <1>3, <1>4, <1>5, <1>6 DEF t

\* Taking the first element off a sequence without repetitions.
LEMMA TailRest ==
  ASSUME NEW S, NEW s \in Seq(S), s # <<>>, Injective(s)
  PROVE  /\ Tail(s) \in Seq(S)
         /\ Len(Tail(s)) = Len(s) - 1
         /\ Head(s) \in Elements(s)
         /\ Elements(Tail(s)) = Elements(s) \ {Head(s)}
         /\ Injective(Tail(s))
<1> DEFINE t == Tail(s)
<1>1. /\ t \in Seq(S)
      /\ Len(t) = Len(s) - 1
      /\ \A k \in 1 .. Len(s) - 1 : t[k] = s[k + 1]
      /\ Head(s) = s[1]
  OBVIOUS
<1>2. Len(s) \in Nat \ {0}
  OBVIOUS
<1> HIDE DEF t
<1>3. Head(s) \in Elements(s)
  BY <1>1, <1>2 DEF Elements
<1>4. Elements(t) \subseteq Elements(s) \ {Head(s)}
  BY <1>1, <1>2 DEF Elements, Injective
<1>5. Elements(s) \ {Head(s)} \subseteq Elements(t)
  <2> SUFFICES ASSUME NEW k \in 1 .. Len(s), s[k] # Head(s)
               PROVE  s[k] \in Elements(t)
    BY DEF Elements
  <2>1. k # 1
    BY <1>1
  <2>2. k - 1 \in 1 .. Len(t) /\ t[k - 1] = s[k]
    BY <1>1, <1>2, <2>1
  <2> QED  BY <2>2 DEF Elements
<1>6. Injective(t)
  BY <1>1, <1>2 DEF Injective
<1> QED  BY <1>1, <1>3, <1>4, <1>5, <1>6 DEF t

States == {"none", "start", "rev", "header", "body", "send", "close", "ended", "sigpipe"}

Parts == Nat \X {"header", "body"}

-----------------------------------------------------------------------------
(* The inductive invariant *)

\* What the variables hold: no thread is ever "misframed".
ShapeInv ==
  /\ backlog \in Seq(Conns) /\ fds \in [1..MaxFd -> Conns \union {NoConn}]
  /\ i \in 0..Slots /\ connfd \in [Threads -> 0..MaxFd]
  /\ pc \in [Threads -> States] /\ fd \in [Threads -> 0..MaxFd]
  /\ msg \in [Threads -> Nat] /\ waiting \subseteq Conns
  /\ state \in [Conns -> {"new", "open", "fin", "reset", "rst"}]
  /\ req \in [Conns -> Seq(Parts)] /\ rep \in [Conns -> Seq(Nat)]
  /\ asked \in [Conns -> Nat] /\ seen \in [Conns -> Nat] /\ handled \in [Conns -> Nat]

\* Entries of connfd[] from i on are unused, and accept has given out the lowest
\* descriptors: at most i of them.  A live thread has one that is open and that no
\* other live thread has.
FdInv ==
  /\ \A t \in Threads : pc[t] = "none" <=> t >= i
  /\ \A f \in 1..MaxFd : fds[f] # NoConn => f <= i
  /\ \A t \in Threads : Live(t) =>
       /\ connfd[t] \in 1..MaxFd /\ fds[connfd[t]] # NoConn
       /\ pc[t] # "start" => fd[t] = connfd[t]
  /\ \A t, u \in Threads : Live(t) /\ Live(u) /\ connfd[t] = connfd[u] => t = u

\* A connection is in one place: with its client, in the backlog, behind one descriptor.
ConnInv ==
  /\ Injective(backlog)
  /\ \A c \in Elements(backlog) : state[c] # "new" /\ \A f \in 1..MaxFd : fds[f] # c
  /\ \A f \in 1..MaxFd : fds[f] # NoConn => state[fds[f]] # "new"
  /\ \A f, g \in 1..MaxFd : fds[f] = fds[g] /\ fds[f] # NoConn => f = g

\* Is the header of a connection's next request read, and its body not?
InBody(c) == \E t \in Threads : pc[t] = "body" /\ fds[connfd[t]] = c
Read(c) == IF InBody(c) THEN 1 ELSE 0

\* The stream s holds the requests after h up to a, header and body in turn, but
\* for the first header if r, which is 0 or 1, headers were read.
Carries(s, h, a, r) ==
  /\ h <= a /\ Len(s) = 2 * (a - h) - r
  /\ \A n \in 1..Len(s) : \A m \in 1..(a - h) :
       /\ n = 2 * m - 1 - r => s[n] = <<h + m, "header">>
       /\ n = 2 * m - r => s[n] = <<h + m, "body">>

\* Each connection carries the requests after the last one handled.
StreamInv == \A c \in Conns : Carries(req[c], handled[c], asked[c], Read(c))

\* Replies are in the order of their requests, none is to a request still to be
\* taken, and one that a thread is about to send is newer than all of them.
Ascending(c) ==
  \A n \in 1..Len(rep[c]) : /\ rep[c][n] > (IF n = 1 THEN seen[c] ELSE rep[c][n - 1])
                            /\ rep[c][n] <= handled[c]
ReplyInv ==
  /\ \A c \in Conns : seen[c] <= handled[c] /\ Ascending(c)
  /\ \A t \in Threads : pc[t] = "send" =>
       LET c == fds[connfd[t]]
       IN  /\ msg[t] = handled[c] /\ seen[c] < handled[c]
           /\ \A n \in 1..Len(rep[c]) : rep[c][n] < handled[c]

SckInv == ShapeInv /\ FdInv /\ ConnInv /\ StreamInv /\ ReplyInv

-----------------------------------------------------------------------------
(* Streams that carry requests *)

LEMMA CarriesFirst ==
  ASSUME NEW s \in Seq(Parts), NEW h \in Nat, NEW a \in Nat, NEW r \in {0, 1},
         Carries(s, h, a, r)
  PROVE  /\ r = 1 => s # <<>>
         /\ s # <<>> => Head(s) = <<h + 1, IF r = 1 THEN "body" ELSE "header">>
<1>1. Len(s) \in Nat /\ Len(s) = 2 * (a - h) - r /\ (s = <<>> <=> Len(s) = 0)
  BY DEF Carries
<1>2. r = 1 => Len(s) # 0
  BY <1>1
<1>3. ASSUME s # <<>>  PROVE 1 \in 1..Len(s) /\ 1 \in 1..(a - h) /\ Head(s) = s[1]
  BY <1>1, <1>3
<1>4. ASSUME s # <<>>  PROVE Head(s) = <<h + 1, IF r = 1 THEN "body" ELSE "header">>
  <2>1. /\ 1 = 2 * 1 - 1 - r => s[1] = <<h + 1, "header">>
        /\ 1 = 2 * 1 - r => s[1] = <<h + 1, "body">>
    BY <1>3, <1>4 DEF Carries
  <2> QED  BY <1>3, <1>4, <2>1
<1> QED  BY <1>1, <1>2, <1>4

\* A header read, and a body read.
LEMMA CarriesTail ==
  ASSUME NEW s \in Seq(Parts), NEW h \in Nat, NEW a \in Nat, NEW r \in {0, 1},
         Carries(s, h, a, r), s # <<>>
  PROVE  /\ r = 0 => Carries(Tail(s), h, a, 1)
         /\ r = 1 => Carries(Tail(s), h + 1, a, 0)
<1> DEFINE t == Tail(s)
<1>1. /\ Len(t) = Len(s) - 1 /\ Len(s) \in Nat /\ Len(s) >= 1
      /\ \A n \in 1..Len(t) : n + 1 \in 1..Len(s) /\ t[n] = s[n + 1]
  OBVIOUS
<1>2. h <= a /\ Len(s) = 2 * (a - h) - r
  BY DEF Carries
<1>3. \A n \in 1..Len(s) : \A m \in 1..(a - h) :
        /\ n = 2 * m - 1 - r => s[n] = <<h + m, "header">>
        /\ n = 2 * m - r => s[n] = <<h + m, "body">>
  BY DEF Carries
<1> HIDE DEF t
<1>4. ASSUME r = 0  PROVE Carries(t, h, a, 1)
  <2>1. ASSUME NEW n \in 1..Len(t), NEW m \in 1..(a - h)
        PROVE  /\ n = 2 * m - 1 - 1 => t[n] = <<h + m, "header">>
               /\ n = 2 * m - 1 => t[n] = <<h + m, "body">>
    <3>1. n + 1 \in 1..Len(s) /\ t[n] = s[n + 1]
      BY <1>1, <2>1
    <3>2. /\ n + 1 = 2 * m - 1 - r => s[n + 1] = <<h + m, "header">>
          /\ n + 1 = 2 * m - r => s[n + 1] = <<h + m, "body">>
      BY <1>3, <2>1, <3>1
    <3>3. n \in Int /\ m \in Int
      BY <2>1
    <3> QED  BY <1>4, <3>1, <3>2, <3>3
  <2>2. h <= a /\ Len(t) = 2 * (a - h) - 1
    BY <1>1, <1>2, <1>4
  <2> QED  BY <2>1, <2>2 DEF Carries
<1>5. ASSUME r = 1  PROVE Carries(t, h + 1, a, 0)
  <2>1. ASSUME NEW n \in 1..Len(t), NEW m \in 1..(a - (h + 1))
        PROVE  /\ n = 2 * m - 1 - 0 => t[n] = <<(h + 1) + m, "header">>
               /\ n = 2 * m - 0 => t[n] = <<(h + 1) + m, "body">>
    <3>1. m + 1 \in 1..(a - h) /\ n + 1 \in 1..Len(s) /\ t[n] = s[n + 1]
      BY <1>1, <2>1
    <3>2. /\ n + 1 = 2 * (m + 1) - 1 - r => s[n + 1] = <<h + (m + 1), "header">>
          /\ n + 1 = 2 * (m + 1) - r => s[n + 1] = <<h + (m + 1), "body">>
      BY <1>3, <3>1
    <3>3. n \in Int /\ m \in Int /\ h + (m + 1) = (h + 1) + m
      BY <2>1
    <3>4. /\ n = 2 * m - 1 - 0 => n + 1 = 2 * (m + 1) - 1 - r
          /\ n = 2 * m - 0 => n + 1 = 2 * (m + 1) - r
      BY <1>5, <3>3
    <3> QED  BY <3>1, <3>2, <3>3, <3>4
  <2>2. h + 1 <= a /\ Len(t) = 2 * (a - (h + 1)) - 0
    BY <1>1, <1>2, <1>5
  <2> QED  BY <2>1, <2>2 DEF Carries
<1> QED  BY <1>4, <1>5 DEF t

\* A request sent.
LEMMA CarriesMore ==
  ASSUME NEW s \in Seq(Parts), NEW h \in Nat, NEW a \in Nat, NEW r \in {0, 1},
         Carries(s, h, a, r)
  PROVE  Carries(s \o << <<a + 1, "header">>, <<a + 1, "body">> >>, h, a + 1, r)
<1> DEFINE new == << <<a + 1, "header">>, <<a + 1, "body">> >>
           t == s \o new
<1>1. /\ new \in Seq(Parts) /\ Len(new) = 2
      /\ new[1] = <<a + 1, "header">> /\ new[2] = <<a + 1, "body">>
  BY DEF Parts
<1> HIDE DEF new
<1>2. /\ Len(t) = Len(s) + 2 /\ Len(s) \in Nat
      /\ \A n \in 1..Len(s) : t[n] = s[n]
      /\ t[Len(s) + 1] = new[1] /\ t[Len(s) + 2] = new[2]
  <2>1. /\ Len(t) = Len(s) + Len(new)
        /\ \A n \in 1..(Len(s) + Len(new)) : t[n] = IF n <= Len(s) THEN s[n] ELSE new[n - Len(s)]
    BY <1>1, ConcatProperties
  <2> HIDE DEF t
  <2>2. Len(s) \in Nat /\ \A n \in 1..(Len(s) + 2) : t[n] = IF n <= Len(s) THEN s[n] ELSE new[n - Len(s)]
    BY <1>1, <2>1
  <2>3. /\ Len(s) + 1 - Len(s) = 1 /\ Len(s) + 2 - Len(s) = 2
        /\ Len(s) + 1 \in 1..(Len(s) + 2) /\ Len(s) + 2 \in 1..(Len(s) + 2)
        /\ ~(Len(s) + 1 <= Len(s)) /\ ~(Len(s) + 2 <= Len(s))
        /\ \A n \in 1..Len(s) : n \in 1..(Len(s) + 2) /\ n <= Len(s)
    BY <2>2
  <2>4. \A n \in 1..Len(s) : t[n] = s[n]
    BY <2>2, <2>3
  <2>5. t[Len(s) + 1] = new[1]
    BY <2>2, <2>3
  <2>6. t[Len(s) + 2] = new[2]
    BY <2>2, <2>3
  <2> QED  BY <1>1, <2>1, <2>2, <2>4, <2>5, <2>6
<1> HIDE DEF t
<1>3. /\ h <= a /\ Len(s) = 2 * (a - h) - r
      /\ \A n \in 1..Len(s) : \A m \in 1..(a - h) :
           /\ n = 2 * m - 1 - r => s[n] = <<h + m, "header">>
           /\ n = 2 * m - r => s[n] = <<h + m, "body">>
  BY DEF Carries
<1>4. ASSUME NEW n \in 1..Len(t), NEW m \in 1..((a + 1) - h)
      PROVE  /\ n = 2 * m - 1 - r => t[n] = <<h + m, "header">>
             /\ n = 2 * m - r => t[n] = <<h + m, "body">>
  <2>1. n \in Int /\ m \in Int /\ (m = (a + 1) - h => h + m = a + 1)
    BY <1>4
  <2>2. CASE m = (a + 1) - h
    <3>1. h + m = a + 1 /\ 2 * m - 1 - r = Len(s) + 1 /\ 2 * m - r = Len(s) + 2
      BY <1>3, <2>1, <2>2
    <3> QED  BY <1>1, <1>2, <3>1
  <2>3. CASE m \in 1..(a - h)
    <3>1. n = 2 * m - 1 - r \/ n = 2 * m - r => n \in 1..Len(s)
      BY <1>2, <1>3, <2>1, <2>3
    <3> QED  BY <1>2, <1>3, <2>3, <3>1
  <2>4. m = (a + 1) - h \/ m \in 1..(a - h)
    BY <1>3, <1>4, <2>1
  <2> QED  BY <2>2, <2>3, <2>4
<1>5. h <= a + 1 /\ Len(t) = 2 * ((a + 1) - h) - r
  BY <1>2, <1>3
<1>6. \A n \in 1..Len(t) : \A m \in 1..((a + 1) - h) :
        /\ n = 2 * m - 1 - r => t[n] = <<h + m, "header">>
        /\ n = 2 * m - r => t[n] = <<h + m, "body">>
  BY <1>4
<1>7. Carries(t, h, a + 1, r)
  BY <1>5, <1>6 DEF Carries
<1> QED  BY <1>7 DEF t, new

-----------------------------------------------------------------------------
USE SckAssumption

(* What the invariant says of a descriptor and of a thread *)

\* With a slot left there is a free descriptor, and accept returns the lowest.
LEMMA LowestFree ==
  ASSUME SckInv, i < Slots, Slots <= MaxFd
  PROVE  /\ FreeFds # {} /\ AcceptReturns \in 1..MaxFd
         /\ fds[AcceptReturns] = NoConn /\ AcceptReturns <= i + 1
<1>1. i + 1 \in FreeFds
  BY DEF SckInv, ShapeInv, FdInv, FreeFds
<1>2. FreeFds \subseteq Nat
  BY DEF FreeFds
<1> DEFINE Less == OpToRel(<, Nat)
<1>3. \E f \in FreeFds : \A g \in FreeFds : <<g, f>> \notin Less
  <2>1. IsWellFoundedOn(Less, Nat)
    BY NatLessThanWellFounded, Zenon
  <2> HIDE DEF Less
  <2> QED  BY <1>1, <1>2, <2>1, WFMin, Zenon
<1>4. \E f \in FreeFds : \A g \in FreeFds : f <= g
  <2>1. PICK f \in FreeFds : \A g \in FreeFds : <<g, f>> \notin Less
    BY <1>3
  <2>2. \A x, y \in Nat : x < y => <<x, y>> \in Less
    BY Zenon DEF OpToRel
  <2> HIDE DEF Less
  <2>3. ASSUME NEW g \in FreeFds  PROVE f <= g
    <3>1. f \in Nat /\ g \in Nat
      BY <1>2
    <3>2. ~(g < f)
      BY <2>1, <2>2, <3>1, Zenon
    <3> QED  BY <3>1, <3>2
  <2> QED  BY <2>3
<1>5. AcceptReturns \in FreeFds /\ \A g \in FreeFds : AcceptReturns <= g
  BY <1>1, <1>4 DEF AcceptReturns
<1> QED  BY <1>1, <1>5 DEF FreeFds

\* A live thread is the only one at its connection.
LEMMA OnlyThread ==
  ASSUME SckInv, NEW t \in Threads, Live(t)
  PROVE  /\ connfd[t] \in 1..MaxFd /\ fds[connfd[t]] \in Conns
         /\ pc[t] # "start" => fd[t] = connfd[t] /\ At(t) = fds[connfd[t]]
         /\ \A u \in Threads \ {t} : Live(u) => /\ connfd[u] # connfd[t]
                                                /\ fds[connfd[u]] # fds[connfd[t]]
         /\ InBody(fds[connfd[t]]) <=> pc[t] = "body"
<1>1. /\ connfd[t] \in 1..MaxFd /\ fds[connfd[t]] \in Conns
      /\ pc[t] # "start" => fd[t] = connfd[t] /\ At(t) = fds[connfd[t]]
  BY DEF SckInv, ShapeInv, FdInv, At
<1>2. \A u \in Threads \ {t} : Live(u) => /\ connfd[u] # connfd[t]
                                          /\ fds[connfd[u]] # fds[connfd[t]]
  BY <1>1 DEF SckInv, FdInv, ConnInv
<1>3. InBody(fds[connfd[t]]) <=> pc[t] = "body"
  BY <1>2 DEF InBody, Live
<1> QED  BY <1>1, <1>2, <1>3

\* A step that changes neither the streams nor who is in the middle of one.
LEMMA StreamsKept ==
  ASSUME StreamInv, UNCHANGED <<req, asked, handled>>,
         \A c \in Conns : InBody(c)' <=> InBody(c)
  PROVE  StreamInv'
<1>1. \A c \in Conns : Read(c)' = Read(c)
  BY DEF Read
<1> QED  BY <1>1 DEF StreamInv

\* No connection becomes new again.
LEMMA ConnKept ==
  ASSUME ShapeInv, ConnInv, UNCHANGED <<backlog, fds>>,
         \A c \in Conns : state'[c] = "new" => state[c] = "new"
  PROVE  ConnInv'
<1>1. \A c \in Elements(backlog) : c \in Conns
  BY DEF ShapeInv, Elements
<1>2. \A f \in 1..MaxFd : fds[f] # NoConn => fds[f] \in Conns
  BY DEF ShapeInv
<1> QED  BY <1>1, <1>2 DEF ConnInv

\* A thread that goes from one place to another, neither in the middle of a request.
LEMMA BodiesKept ==
  ASSUME SckInv, NEW t \in Threads, NEW label, pc[t] # "body", label # "body",
         Goto(t, label), UNCHANGED <<fds, connfd>>, NEW c
  PROVE  InBody(c)' <=> InBody(c)
BY DEF SckInv, ShapeInv, InBody, Goto

-----------------------------------------------------------------------------
(* One lemma per step of the server *)

LEMMA AcceptKeeps ==
  ASSUME SckInv, SckServerAccept, Slots <= MaxFd
  PROVE  SckInv'
<1> DEFINE new == AcceptReturns
           c == Head(backlog)
<1>1. /\ new \in 1..MaxFd /\ fds[new] = NoConn /\ new <= i + 1
      /\ fds' = [fds EXCEPT ![new] = c] /\ backlog' = Tail(backlog)
      /\ connfd' = [connfd EXCEPT ![i] = new] /\ i' = i + 1
      /\ pc' = [pc EXCEPT ![i] = "start"]
      /\ UNCHANGED <<fd, msg, clients>>
  BY LowestFree DEF SckServerAccept, Goto
<1> HIDE DEF new
<1>2. /\ i \in Threads /\ pc[i] = "none"
      /\ backlog \in Seq(Conns) /\ backlog # <<>> /\ Injective(backlog)
  BY DEF SckServerAccept, SckInv, ShapeInv, FdInv, ConnInv, Threads
<1>3. /\ Tail(backlog) \in Seq(Conns) /\ Injective(Tail(backlog))
      /\ c \in Elements(backlog) /\ Elements(Tail(backlog)) = Elements(backlog) \ {c}
  BY <1>2, TailRest
<1>4. c \in Conns
  BY <1>2
<1> HIDE DEF c
<1>5. \A t \in Threads : Live(t) => t # i /\ connfd[t] # new /\ Live(t)'
  BY <1>1, <1>2 DEF SckInv, FdInv, ShapeInv, Live
<1>6. \A t \in Threads \ {i} :
        pc'[t] = pc[t] /\ connfd'[t] = connfd[t] /\ (Live(t)' <=> Live(t))
  BY <1>1, <1>2 DEF SckInv, ShapeInv, Live
<1>7. pc'[i] = "start" /\ connfd'[i] = new /\ fds'[new] = c
  BY <1>1, <1>2 DEF SckInv, ShapeInv
<1>8. \A f \in 1..MaxFd \ {new} : fds'[f] = fds[f]
  BY <1>1 DEF SckInv, ShapeInv
<1>9. ShapeInv'
  <2>1. i' \in 0..Slots /\ new \in 0..MaxFd
    BY <1>1, <1>2 DEF Threads
  <2>2. /\ backlog' \in Seq(Conns) /\ fds' \in [1..MaxFd -> Conns \union {NoConn}]
        /\ connfd' \in [Threads -> 0..MaxFd] /\ pc' \in [Threads -> States]
    BY <1>1, <1>3, <1>4, <2>1 DEF SckInv, ShapeInv, States
  <2>3. UNCHANGED <<fd, msg, clients>>
    BY <1>1
  <2> QED  BY <2>1, <2>2, <2>3 DEF SckInv, ShapeInv, clients
<1>10. FdInv'
  <2>1. ASSUME NEW t \in Threads PROVE pc'[t] = "none" <=> t >= i'
    <3>1. t \in Int /\ i \in Int /\ i' = i + 1
      BY <1>1, <1>2 DEF Threads
    <3>2. t # i => (pc'[t] = "none" <=> t >= i)
      BY <1>6 DEF SckInv, FdInv
    <3> QED  BY <1>7, <3>1, <3>2
  <2>2. \A f \in 1..MaxFd : fds'[f] # NoConn => f <= i'
    BY <1>1, <1>8 DEF SckInv, FdInv, ShapeInv
  <2>3. \A t \in Threads : Live(t)' =>
          /\ connfd'[t] \in 1..MaxFd /\ fds'[connfd'[t]] # NoConn
          /\ pc'[t] # "start" => fd'[t] = connfd'[t]
    BY <1>1, <1>4, <1>5, <1>6, <1>7, <1>8, SckAssumption DEF SckInv, FdInv
  <2>4. \A t, u \in Threads : Live(t)' /\ Live(u)' /\ connfd'[t] = connfd'[u] => t = u
    BY <1>5, <1>6, <1>7 DEF SckInv, FdInv
  <2> QED  BY <2>1, <2>2, <2>3, <2>4 DEF FdInv, Live
<1>11. ConnInv'
  <2>1. Injective(backlog)' /\ Elements(backlog)' = Elements(backlog) \ {c}
    BY <1>1, <1>3 DEF Injective, Elements
  <2>2. /\ state' = state /\ state[c] # "new" /\ \A f \in 1..MaxFd : fds[f] # c
    BY <1>1, <1>3 DEF SckInv, ConnInv, clients
  <2>3. \A k \in Elements(backlog)' : state'[k] # "new" /\ \A f \in 1..MaxFd : fds'[f] # k
    BY <1>7, <1>8, <2>1, <2>2 DEF SckInv, ConnInv
  <2>4. \A f \in 1..MaxFd : fds'[f] # NoConn => state'[fds'[f]] # "new"
    BY <1>7, <1>8, <2>2 DEF SckInv, ConnInv
  <2>5. \A f, g \in 1..MaxFd : fds'[f] = fds'[g] /\ fds'[f] # NoConn => f = g
    BY <1>7, <1>8, <2>2 DEF SckInv, ConnInv
  <2> QED  BY <2>1, <2>3, <2>4, <2>5 DEF ConnInv
<1>12. StreamInv'
  <2>1. ASSUME NEW k \in Conns PROVE InBody(k)' <=> InBody(k)
    <3>1. \A t \in Threads : pc'[t] = "body" => t # i /\ pc[t] = "body"
      BY <1>6, <1>7
    <3>2. \A t \in Threads : pc[t] = "body" =>
            t # i /\ pc'[t] = "body" /\ fds'[connfd'[t]] = fds[connfd[t]]
      BY <1>2, <1>5, <1>6, <1>8 DEF SckInv, FdInv, Live
    <3> QED  BY <3>1, <3>2 DEF InBody
  <2> QED  BY <1>1, <2>1, StreamsKept DEF SckInv, clients
<1>13. ReplyInv'
  <2>1. \A t \in Threads : pc'[t] = "send" =>
          pc[t] = "send" /\ fds'[connfd'[t]] = fds[connfd[t]]
    BY <1>2, <1>5, <1>6, <1>7, <1>8 DEF SckInv, FdInv, Live
  <2>2. UNCHANGED <<msg, seen, handled, rep>>
    BY <1>1 DEF clients
  <2> QED  BY <2>1, <2>2 DEF SckInv, ReplyInv, Ascending
<1> QED  BY <1>9, <1>10, <1>11, <1>12, <1>13 DEF SckInv

\* A thread goes on, and nothing but its place changes, or the descriptor it reads.
LEMMA PlaceKeeps ==
  ASSUME SckInv, NEW t \in Threads, NEW label \in {"rev", "header", "close", "ended"},
         pc[t] \in {"start", "rev", "header", "send"}, Goto(t, label),
         fd' = [fd EXCEPT ![t] = connfd[t]],
         UNCHANGED <<backlog, fds, i, connfd, msg, clients>>
  PROVE  SckInv'
<1>1. \A u \in Threads \ {t} : pc'[u] = pc[u] /\ fd'[u] = fd[u]
  BY DEF SckInv, ShapeInv, Goto
<1>2. pc'[t] = label /\ fd'[t] = connfd[t]
  BY DEF SckInv, ShapeInv, Goto
<1>3. ShapeInv'
  BY DEF SckInv, ShapeInv, Goto, clients, States
<1>4. FdInv'
  BY <1>1, <1>2 DEF SckInv, FdInv, Live
<1>5. ConnInv'
  BY DEF SckInv, ConnInv, clients
<1>6. StreamInv'
  BY BodiesKept, StreamsKept DEF SckInv, clients
<1>7. ReplyInv'
  BY <1>1, <1>2 DEF SckInv, ReplyInv, Ascending, clients
<1> QED  BY <1>3, <1>4, <1>5, <1>6, <1>7 DEF SckInv

\* A thread in the middle of a request finds its body: the stream is not empty there.
LEMMA NextPart ==
  ASSUME SckInv, NEW t \in Threads, pc[t] \in {"header", "body"}
  PROVE  LET c == fds[connfd[t]]
         IN  /\ At(t) = c /\ c \in Conns /\ c # NoConn
             /\ pc[t] = "body" => req[c] # <<>>
             /\ req[c] # <<>> => Head(req[c]) = <<handled[c] + 1, pc[t]>>
             /\ Read(c) = IF pc[t] = "body" THEN 1 ELSE 0
<1> DEFINE c == fds[connfd[t]]
<1>1. Live(t) /\ pc[t] # "start"
  BY DEF Live
<1>2. At(t) = c /\ c \in Conns /\ Read(c) = IF pc[t] = "body" THEN 1 ELSE 0
  BY <1>1, OnlyThread DEF Read
<1>3. c # NoConn
  BY <1>2
<1> HIDE DEF c
<1>4. /\ handled[c] \in Nat /\ asked[c] \in Nat /\ req[c] \in Seq(Parts)
      /\ Read(c) \in {0, 1} /\ Carries(req[c], handled[c], asked[c], Read(c))
  BY <1>2 DEF SckInv, ShapeInv, StreamInv
<1>5. /\ Read(c) = 1 => req[c] # <<>>
      /\ req[c] # <<>> =>
           Head(req[c]) = <<handled[c] + 1, IF Read(c) = 1 THEN "body" ELSE "header">>
  BY <1>4, CarriesFirst
<1> QED  BY <1>2, <1>3, <1>5 DEF c

\* What a thread does that takes the part it is due.
LEMMA ReadnTakes ==
  ASSUME SckInv, NEW t \in Threads, NEW part \in {"header", "body"}, Readn(t, part)
  PROVE  \E c \in Conns :
           /\ c = fds[connfd[t]] /\ pc[t] = part /\ req[c] # <<>> /\ handled[c] \in Nat
           /\ Read(c) = IF part = "body" THEN 1 ELSE 0
           /\ req' = [req EXCEPT ![c] = Tail(@)]
           /\ msg' = [msg EXCEPT ![t] = handled[c] + 1]
           /\ pc' = [pc EXCEPT ![t] = IF part = "header" THEN "body" ELSE "send"]
           /\ handled' = IF part = "header" THEN handled
                         ELSE [handled EXCEPT ![c] = handled[c] + 1]
           /\ UNCHANGED <<backlog, fds, i, connfd, fd, state, rep, asked, waiting, seen>>
           /\ \A u \in Threads \ {t} : Live(u) => fds[connfd[u]] # c
<1> DEFINE c == fds[connfd[t]]
<1>1. /\ pc[t] = part /\ At(t) = c /\ c \in Conns /\ req[c] # <<>>
      /\ Head(req[c]) = <<handled[c] + 1, part>> /\ Read(c) = IF part = "body" THEN 1 ELSE 0
  BY NextPart DEF Readn
<1>2. handled[c] \in Nat /\ \A u \in Threads \ {t} : Live(u) => fds[connfd[u]] # c
  BY <1>1, OnlyThread DEF Live, SckInv, ShapeInv
<1>3. msg \in [Threads -> Nat]
  BY DEF SckInv, ShapeInv
<1> HIDE DEF c
<1>4. /\ req' = [req EXCEPT ![c] = Tail(@)]
      /\ msg' = [msg EXCEPT ![t] = handled[c] + 1]
      /\ pc' = [pc EXCEPT ![t] = IF part = "header" THEN "body" ELSE "send"]
      /\ handled' = IF part = "header" THEN handled ELSE [handled EXCEPT ![c] = msg'[t]]
      /\ UNCHANGED <<backlog, fds, i, connfd, fd, state, rep, asked, waiting, seen>>
  BY <1>1 DEF Readn, Goto
<1> QED  BY <1>1, <1>2, <1>3, <1>4 DEF c

LEMMA HeaderKeeps ==
  ASSUME SckInv, NEW t \in Threads, Readn(t, "header")
  PROVE  SckInv'
<1>1. PICK c \in Conns :
        /\ c = fds[connfd[t]] /\ pc[t] = "header" /\ req[c] # <<>> /\ handled[c] \in Nat
        /\ Read(c) = 0
        /\ req' = [req EXCEPT ![c] = Tail(@)] /\ msg' = [msg EXCEPT ![t] = handled[c] + 1]
        /\ pc' = [pc EXCEPT ![t] = "body"] /\ handled' = handled
        /\ UNCHANGED <<backlog, fds, i, connfd, fd, state, rep, asked, waiting, seen>>
        /\ \A u \in Threads \ {t} : Live(u) => fds[connfd[u]] # c
  BY ReadnTakes
<1>2. \A u \in Threads : u # t => pc'[u] = pc[u] /\ msg'[u] = msg[u]
  BY <1>1 DEF SckInv, ShapeInv
<1>3. pc'[t] = "body"
  BY <1>1 DEF SckInv, ShapeInv
<1>4. req[c] \in Seq(Parts) /\ Tail(req[c]) \in Seq(Parts) /\ asked[c] \in Nat
  BY <1>1 DEF SckInv, ShapeInv
<1>5. ShapeInv'
  <2>1. req' \in [Conns -> Seq(Parts)]
    BY <1>1, <1>4 DEF SckInv, ShapeInv
  <2>2. msg' \in [Threads -> Nat]
    BY <1>1 DEF SckInv, ShapeInv
  <2>3. pc' \in [Threads -> States]
    BY <1>1 DEF SckInv, ShapeInv, States
  <2>4. UNCHANGED <<backlog, fds, i, connfd, fd, state, rep, asked, handled, waiting, seen>>
    BY <1>1
  <2> QED  BY <2>1, <2>2, <2>3, <2>4 DEF SckInv, ShapeInv
<1>6. FdInv'
  BY <1>1, <1>2, <1>3 DEF SckInv, FdInv, Live
<1>7. ConnInv'
  BY <1>1, ConnKept DEF SckInv
<1>8. Read(c)' = 1 /\ \A k \in Conns \ {c} : Read(k)' = Read(k)
  <2>1. InBody(c)'
    BY <1>1, <1>3 DEF InBody
  <2>2. \A k \in Conns \ {c} : InBody(k)' <=> InBody(k)
    BY <1>1, <1>2 DEF InBody
  <2> QED  BY <2>1, <2>2 DEF Read
<1>9. StreamInv'
  <2>1. Carries(Tail(req[c]), handled[c], asked[c], 1)
    BY <1>1, <1>4, CarriesTail DEF SckInv, StreamInv
  <2>2. /\ req'[c] = Tail(req[c])
        /\ \A k \in Conns \ {c} : req'[k] = req[k]
    BY <1>1 DEF SckInv, ShapeInv
  <2>3. ASSUME NEW k \in Conns  PROVE Carries(req'[k], handled'[k], asked'[k], Read(k)')
    <3>1. CASE k = c
      BY <1>1, <1>8, <2>1, <2>2, <3>1
    <3>2. CASE k # c
      BY <1>1, <1>8, <2>2, <3>2 DEF SckInv, StreamInv
    <3> QED  BY <3>1, <3>2
  <2> QED  BY <2>3 DEF StreamInv, Carries
<1>10. ReplyInv'
  BY <1>1, <1>2, <1>3 DEF SckInv, ReplyInv, Ascending
<1> QED  BY <1>5, <1>6, <1>7, <1>9, <1>10 DEF SckInv

LEMMA BodyKeeps ==
  ASSUME SckInv, NEW t \in Threads, Readn(t, "body")
  PROVE  SckInv'
<1>1. PICK c \in Conns :
        /\ c = fds[connfd[t]] /\ pc[t] = "body" /\ req[c] # <<>> /\ handled[c] \in Nat
        /\ Read(c) = 1
        /\ req' = [req EXCEPT ![c] = Tail(@)] /\ msg' = [msg EXCEPT ![t] = handled[c] + 1]
        /\ pc' = [pc EXCEPT ![t] = "send"] /\ handled' = [handled EXCEPT ![c] = handled[c] + 1]
        /\ UNCHANGED <<backlog, fds, i, connfd, fd, state, rep, asked, waiting, seen>>
        /\ \A u \in Threads \ {t} : Live(u) => fds[connfd[u]] # c
  BY ReadnTakes
<1>2. \A u \in Threads : u # t => pc'[u] = pc[u] /\ msg'[u] = msg[u]
  BY <1>1 DEF SckInv, ShapeInv
<1>3. pc'[t] = "send" /\ msg'[t] = handled[c] + 1
  BY <1>1 DEF SckInv, ShapeInv
<1>4. req[c] \in Seq(Parts) /\ Tail(req[c]) \in Seq(Parts) /\ asked[c] \in Nat
  BY <1>1 DEF SckInv, ShapeInv
<1>5. ShapeInv'
  <2>1. req' \in [Conns -> Seq(Parts)]
    BY <1>1, <1>4 DEF SckInv, ShapeInv
  <2>2. msg' \in [Threads -> Nat] /\ handled' \in [Conns -> Nat]
    BY <1>1 DEF SckInv, ShapeInv
  <2>3. pc' \in [Threads -> States]
    BY <1>1 DEF SckInv, ShapeInv, States
  <2>4. UNCHANGED <<backlog, fds, i, connfd, fd, state, rep, asked, waiting, seen>>
    BY <1>1
  <2> QED  BY <2>1, <2>2, <2>3, <2>4 DEF SckInv, ShapeInv
<1>6. FdInv'
  BY <1>1, <1>2, <1>3 DEF SckInv, FdInv, Live
<1>7. ConnInv'
  BY <1>1, ConnKept DEF SckInv
<1>8. Read(c)' = 0 /\ \A k \in Conns \ {c} : Read(k)' = Read(k)
  <2>1. ~InBody(c)'
    BY <1>1, <1>2, <1>3 DEF InBody, Live
  <2>2. \A k \in Conns \ {c} : InBody(k)' <=> InBody(k)
    BY <1>1, <1>2, <1>3 DEF InBody
  <2> QED  BY <2>1, <2>2 DEF Read
<1>9. handled'[c] = handled[c] + 1 /\ \A k \in Conns \ {c} : handled'[k] = handled[k]
  BY <1>1 DEF SckInv, ShapeInv
<1>10. StreamInv'
  <2>1. Carries(Tail(req[c]), handled[c] + 1, asked[c], 0)
    BY <1>1, <1>4, CarriesTail DEF SckInv, StreamInv
  <2>2. /\ req'[c] = Tail(req[c])
        /\ \A k \in Conns \ {c} : req'[k] = req[k]
    BY <1>1 DEF SckInv, ShapeInv
  <2>3. ASSUME NEW k \in Conns  PROVE Carries(req'[k], handled'[k], asked'[k], Read(k)')
    <3>1. CASE k = c
      BY <1>1, <1>8, <1>9, <2>1, <2>2, <3>1
    <3>2. CASE k # c
      BY <1>1, <1>8, <1>9, <2>2, <3>2 DEF SckInv, StreamInv
    <3> QED  BY <3>1, <3>2
  <2> QED  BY <2>3 DEF StreamInv, Carries
<1>11. ReplyInv'
  <2>1. seen[c] \in Nat /\ rep[c] \in Seq(Nat) /\ seen[c] <= handled[c] /\ Ascending(c)
    BY DEF SckInv, ShapeInv, ReplyInv
  <2>2. \A n \in 1..Len(rep[c]) : rep[c][n] \in Nat /\ rep[c][n] <= handled[c]
    BY <2>1 DEF Ascending
  <2>3. seen'[c] <= handled'[c] /\ Ascending(c)'
    <3>1. seen' = seen /\ rep' = rep /\ handled'[c] = handled[c] + 1 /\ handled[c] \in Nat
      BY <1>1, <1>9
    <3>2. seen'[c] <= handled'[c]
      BY <2>1, <3>1
    <3>3. \A n \in 1..Len(rep[c]) : rep[c][n] <= handled'[c]
      BY <2>2, <3>1
    <3> QED  BY <2>1, <3>1, <3>2, <3>3 DEF Ascending
  <2>4. ASSUME NEW k \in Conns  PROVE seen'[k] <= handled'[k] /\ Ascending(k)'
    <3>1. CASE k = c
      BY <2>3, <3>1
    <3>2. CASE k # c
      BY <1>1, <1>9, <3>2 DEF SckInv, ReplyInv, Ascending
    <3> QED  BY <3>1, <3>2
  <2>5. ASSUME NEW u \in Threads, pc'[u] = "send"
        PROVE  LET k == fds'[connfd'[u]]
               IN  /\ msg'[u] = handled'[k] /\ seen'[k] < handled'[k]
                   /\ \A n \in 1..Len(rep'[k]) : rep'[k][n] < handled'[k]
    <3>1. CASE u = t
      <4>1. fds'[connfd'[u]] = c /\ msg'[u] = handled'[c] /\ handled'[c] = handled[c] + 1
        BY <1>1, <1>3, <1>9, <3>1
      <4>2. seen' = seen /\ rep' = rep /\ handled[c] \in Nat
        BY <1>1
      <4>3. seen'[c] < handled'[c]
        BY <2>1, <4>1, <4>2
      <4>4. \A n \in 1..Len(rep'[c]) : rep'[c][n] < handled'[c]
        BY <2>2, <4>1, <4>2
      <4> QED  BY <4>1, <4>3, <4>4
    <3>2. CASE u # t
      <4>1. pc[u] = "send" /\ Live(u) /\ fds[connfd[u]] # c
        BY <1>1, <1>2, <2>5, <3>2 DEF Live
      <4>2. fds[connfd[u]] \in Conns
        BY <4>1, OnlyThread
      <4>3. PICK k \in Conns : k = fds[connfd[u]]
        BY <4>2
      <4>4. /\ fds'[connfd'[u]] = k /\ msg'[u] = msg[u] /\ handled'[k] = handled[k]
            /\ seen' = seen /\ rep' = rep
        BY <1>1, <1>2, <1>9, <3>2, <4>1, <4>3
      <4>5. /\ msg[u] = handled[k] /\ seen[k] < handled[k]
            /\ \A n \in 1..Len(rep[k]) : rep[k][n] < handled[k]
        BY <4>1, <4>3 DEF SckInv, ReplyInv
      <4> QED  BY <4>4, <4>5
    <3> QED  BY <3>1, <3>2
  <2> QED  BY <2>4, <2>5 DEF ReplyInv
<1> QED  BY <1>5, <1>6, <1>7, <1>10, <1>11 DEF SckInv

LEMMA StartKeeps ==
  ASSUME SckInv, NEW t \in Threads, Start(t)
  PROVE  SckInv'
BY PlaceKeeps DEF Start

\* A thread that has started reads the descriptor it was given.
LEMMA FdKept ==
  ASSUME SckInv, NEW t \in Threads, Live(t), pc[t] # "start", fd' = fd
  PROVE  fd' = [fd EXCEPT ![t] = connfd[t]]
BY DEF SckInv, FdInv, ShapeInv

LEMMA RevKeeps ==
  ASSUME SckInv, NEW t \in Threads, Rev(t)
  PROVE  SckInv'
BY FdKept, PlaceKeeps DEF Rev, Live

\* At the end of the stream a thread is between two requests.
LEMMA ReadnEndsKeeps ==
  ASSUME SckInv, NEW t \in Threads, ReadnEnds(t)
  PROVE  SckInv'
<1>1. pc[t] \in {"header", "body"}
  BY DEF ReadnEnds
<1>2. pc[t] = "header"
  BY <1>1, NextPart DEF ReadnEnds
<1> QED  BY <1>2, FdKept, PlaceKeeps DEF ReadnEnds, Live

\* A reply is put behind older ones, or dropped.
LEMMA SendKeeps ==
  ASSUME SckInv, NEW t \in Threads, SckServerSend(t)
  PROVE  SckInv'
<1>1. Live(t) /\ pc[t] = "send"
  BY DEF SckServerSend, Live
<1>2. PICK c \in Conns : c = fds[connfd[t]] /\ At(t) = c
  BY <1>1, OnlyThread
<1>3. PICK label \in {"rev", "ended", "sigpipe"} : Goto(t, label)
  BY <1>2 DEF SckServerSend
<1>4. /\ rep' \in {rep, [rep EXCEPT ![c] = Append(@, msg[t])]}
      /\ \/ state' = state
         \/ /\ state[c] = "fin"
            /\ \E s \in {"fin", "reset"} : state' = [state EXCEPT ![c] = s]
      /\ UNCHANGED <<backlog, fds, i, connfd, fd, msg, req, asked, waiting, seen, handled>>
  BY <1>2 DEF SckServerSend, Push
<1>5. \A u \in Threads : u # t => pc'[u] = pc[u]
  BY <1>3 DEF SckInv, ShapeInv, Goto
<1>6. pc'[t] = label
  BY <1>3 DEF SckInv, ShapeInv, Goto
<1>7. /\ msg[t] = handled[c] /\ seen[c] < handled[c] /\ msg[t] \in Nat
      /\ \A n \in 1..Len(rep[c]) : rep[c][n] < handled[c]
      /\ rep[c] \in Seq(Nat) /\ seen[c] \in Nat /\ Ascending(c)
  BY <1>1, <1>2 DEF SckInv, ReplyInv, ShapeInv
<1>8. ShapeInv'
  <2>1. rep' \in [Conns -> Seq(Nat)]
    <3>1. Append(rep[c], msg[t]) \in Seq(Nat)
      BY <1>7
    <3> QED  BY <1>4, <3>1 DEF SckInv, ShapeInv
  <2>2. pc' \in [Threads -> States]
    BY <1>3 DEF SckInv, ShapeInv, States, Goto
  <2>3. state' \in [Conns -> {"new", "open", "fin", "reset", "rst"}]
    BY <1>4 DEF SckInv, ShapeInv
  <2> QED  BY <1>4, <2>1, <2>2, <2>3 DEF SckInv, ShapeInv
<1>9. FdInv'
  BY <1>1, <1>4, <1>5, <1>6 DEF SckInv, FdInv, Live
<1>10. ConnInv'
  <2>1. \A k \in Conns : state'[k] = "new" => state[k] = "new"
    BY <1>4 DEF SckInv, ShapeInv
  <2> QED  BY <1>4, <2>1, ConnKept DEF SckInv
<1>11. StreamInv'
  BY <1>1, <1>3, <1>4, BodiesKept, StreamsKept DEF SckInv
<1>12. ReplyInv'
  <2>1. \A k \in Conns \ {c} : rep'[k] = rep[k]
    BY <1>4 DEF SckInv, ShapeInv
  <2>2. Ascending(c)'
    <3>1. CASE rep'[c] = rep[c]
      BY <1>4, <1>7, <3>1 DEF Ascending
    <3>2. CASE rep'[c] = Append(rep[c], msg[t])
      <4>1. /\ Len(rep'[c]) = Len(rep[c]) + 1 /\ Len(rep[c]) \in Nat
            /\ \A n \in 1..Len(rep[c]) : rep'[c][n] = rep[c][n]
            /\ rep'[c][Len(rep[c]) + 1] = handled[c]
        BY <1>7, <3>2
      <4>2. seen' = seen /\ handled' = handled /\ handled[c] \in Nat
        BY <1>4, <1>7
      <4>3. ASSUME NEW n \in 1..Len(rep[c])
            PROVE  /\ rep'[c][n] > (IF n = 1 THEN seen'[c] ELSE rep'[c][n - 1])
                   /\ rep'[c][n] <= handled'[c]
        <5>1. n = 1 \/ n - 1 \in 1..Len(rep[c])
          BY <4>1
        <5> QED  BY <1>7, <4>1, <4>2, <5>1 DEF Ascending
      <4>4. ASSUME NEW n, n = Len(rep[c]) + 1
            PROVE  /\ rep'[c][n] > (IF n = 1 THEN seen'[c] ELSE rep'[c][n - 1])
                   /\ rep'[c][n] <= handled'[c]
        <5>1. n = 1 \/ (n # 1 /\ n - 1 \in 1..Len(rep[c]))
          BY <4>1, <4>4
        <5>2. rep'[c][n] = handled[c] /\ handled'[c] = handled[c] /\ seen'[c] = seen[c]
          BY <4>1, <4>2, <4>4
        <5>3. n # 1 => rep'[c][n - 1] < handled[c]
          BY <1>7, <4>1, <5>1
        <5>4. handled[c] <= handled[c]
          BY <4>2
        <5> QED  BY <1>7, <4>2, <5>1, <5>2, <5>3, <5>4
      <4>5. \A n \in 1..Len(rep'[c]) : n \in 1..Len(rep[c]) \/ n = Len(rep[c]) + 1
        BY <4>1
      <4> QED  BY <4>3, <4>4, <4>5 DEF Ascending
    <3> QED  BY <1>4, <3>1, <3>2 DEF SckInv, ShapeInv
  <2>3. ASSUME NEW k \in Conns  PROVE seen'[k] <= handled'[k] /\ Ascending(k)'
    <3>1. CASE k = c
      BY <1>4, <2>2, <3>1 DEF SckInv, ReplyInv
    <3>2. CASE k # c
      BY <1>4, <2>1, <3>2 DEF SckInv, ReplyInv, Ascending
    <3> QED  BY <3>1, <3>2
  <2>4. ASSUME NEW u \in Threads, pc'[u] = "send"
        PROVE  LET k == fds'[connfd'[u]]
               IN  /\ msg'[u] = handled'[k] /\ seen'[k] < handled'[k]
                   /\ \A n \in 1..Len(rep'[k]) : rep'[k][n] < handled'[k]
    <3>1. u # t /\ pc[u] = "send" /\ Live(u)
      BY <1>5, <1>6, <2>4 DEF Live
    <3>2. PICK k \in Conns : k = fds[connfd[u]] /\ k # c
      BY <1>1, <1>2, <3>1, OnlyThread
    <3>3. /\ fds'[connfd'[u]] = k /\ msg'[u] = msg[u] /\ handled'[k] = handled[k]
          /\ seen' = seen /\ rep'[k] = rep[k]
      BY <1>4, <2>1, <3>2
    <3>4. /\ msg[u] = handled[k] /\ seen[k] < handled[k]
          /\ \A n \in 1..Len(rep[k]) : rep[k][n] < handled[k]
      BY <3>1, <3>2 DEF SckInv, ReplyInv
    <3> QED  BY <3>3, <3>4
  <2> QED  BY <2>3, <2>4 DEF ReplyInv
<1> QED  BY <1>8, <1>9, <1>10, <1>11, <1>12 DEF SckInv

\* The descriptor that is closed was this thread's alone.
LEMMA CloseKeeps ==
  ASSUME SckInv, NEW t \in Threads, Close(t)
  PROVE  SckInv'
<1>1. Live(t) /\ pc[t] = "close"
  BY DEF Close, Live
<1>2. /\ connfd[t] \in 1..MaxFd /\ fd[t] = connfd[t]
      /\ \A u \in Threads \ {t} : Live(u) => connfd[u] # connfd[t]
  BY <1>1, OnlyThread
<1>3. /\ fds' = [fds EXCEPT ![connfd[t]] = NoConn]
      /\ pc' = [pc EXCEPT ![t] = "ended"]
      /\ UNCHANGED <<backlog, i, connfd, fd, msg, clients>>
  BY <1>2 DEF Close, Goto
<1>4. pc'[t] = "ended" /\ \A u \in Threads : u # t => pc'[u] = pc[u]
  BY <1>3 DEF SckInv, ShapeInv
<1>5. /\ fds'[connfd[t]] = NoConn
      /\ \A f \in 1..MaxFd : f # connfd[t] => fds'[f] = fds[f]
  BY <1>2, <1>3 DEF SckInv, ShapeInv
<1>6. ShapeInv'
  BY <1>3 DEF SckInv, ShapeInv, clients, States
<1>7. FdInv'
  BY <1>1, <1>2, <1>3, <1>4, <1>5 DEF SckInv, FdInv, Live
<1>8. ConnInv'
  <2>1. backlog' = backlog /\ state' = state
    BY <1>3 DEF clients
  <2>2. \A n \in 1..Len(backlog) : backlog[n] \in Conns
    BY DEF SckInv, ShapeInv
  <2>3. \A c \in Elements(backlog) : c # NoConn
    BY <2>2 DEF Elements
  <2> QED  BY <1>5, <2>1, <2>3 DEF SckInv, ConnInv
<1>9. \A u \in Threads : pc'[u] \in {"body", "send"} =>
        u # t /\ pc[u] = pc'[u] /\ fds'[connfd[u]] = fds[connfd[u]]
  <2>1. ASSUME NEW u \in Threads, pc'[u] \in {"body", "send"}
        PROVE  u # t /\ pc[u] = pc'[u] /\ fds'[connfd[u]] = fds[connfd[u]]
    <3>1. u # t /\ pc[u] = pc'[u] /\ Live(u)
      BY <1>4, <2>1 DEF Live
    <3>2. connfd[u] \in 1..MaxFd /\ connfd[u] # connfd[t]
      BY <1>2, <3>1, OnlyThread
    <3> QED  BY <1>5, <3>1, <3>2
  <2> QED  BY <2>1
<1>10. StreamInv'
  <2>1. ASSUME NEW c \in Conns  PROVE InBody(c)' <=> InBody(c)
    <3>1. \A u \in Threads : pc[u] = "body" => pc'[u] = "body"
      BY <1>1, <1>4
    <3> QED  BY <1>3, <1>9, <3>1 DEF InBody
  <2> QED  BY <1>3, <2>1, StreamsKept DEF SckInv, clients
<1>11. ReplyInv'
  <2>1. UNCHANGED <<connfd, msg, seen, handled, rep>>
    BY <1>3 DEF clients
  <2>2. \A u \in Threads : pc'[u] = "send" => pc[u] = "send" /\ fds'[connfd[u]] = fds[connfd[u]]
    BY <1>9
  <2>3. \A c \in Conns : seen'[c] <= handled'[c] /\ Ascending(c)'
    BY <2>1 DEF SckInv, ReplyInv, Ascending
  <2> QED  BY <2>1, <2>2, <2>3 DEF SckInv, ReplyInv
<1> QED  BY <1>6, <1>7, <1>8, <1>10, <1>11 DEF SckInv

-----------------------------------------------------------------------------
(* One lemma per step of the clients *)

LEMMA ConnectKeeps ==
  ASSUME SckInv, NEW c \in Conns, Connect(c)
  PROVE  SckInv'
<1>1. /\ state[c] = "new" /\ state' = [state EXCEPT ![c] = "open"]
      /\ backlog' = Append(backlog, c)
      /\ UNCHANGED <<fds, i, connfd, threads, req, rep, asked, waiting, seen, handled>>
  BY DEF Connect
<1>2. backlog \in Seq(Conns) /\ Injective(backlog) /\ c \notin Elements(backlog)
  BY <1>1 DEF SckInv, ShapeInv, ConnInv
<1>3. /\ Append(backlog, c) \in Seq(Conns) /\ Injective(Append(backlog, c))
      /\ Elements(Append(backlog, c)) = Elements(backlog) \union {c}
  BY <1>2, AppendNew
<1>4. state'[c] = "open" /\ \A k \in Conns : k # c => state'[k] = state[k]
  BY <1>1 DEF SckInv, ShapeInv
<1>5. ShapeInv'
  BY <1>1, <1>3 DEF SckInv, ShapeInv, threads
<1>6. FdInv'
  BY <1>1 DEF SckInv, FdInv, Live, threads
<1>7. ConnInv'
  <2>1. Injective(backlog') /\ Elements(backlog') = Elements(backlog) \union {c}
    BY <1>1, <1>3
  <2>2. \A k \in Elements(backlog) : k \in Conns
    BY <1>2 DEF Elements
  <2>3. \A f \in 1..MaxFd : fds[f] # NoConn => fds[f] \in Conns /\ fds[f] # c
    BY <1>1 DEF SckInv, ShapeInv, ConnInv
  <2>4. fds' = fds /\ c # NoConn
    BY <1>1, SckAssumption
  <2>5. \A k \in Elements(backlog') : state'[k] # "new" /\ \A f \in 1..MaxFd : fds'[f] # k
    BY <1>4, <2>1, <2>2, <2>3, <2>4 DEF SckInv, ConnInv
  <2>6. \A f \in 1..MaxFd : fds'[f] # NoConn => state'[fds'[f]] # "new"
    BY <1>4, <2>3, <2>4 DEF SckInv, ConnInv
  <2> QED  BY <2>1, <2>4, <2>5, <2>6 DEF SckInv, ConnInv
<1>8. StreamInv'
  BY <1>1, StreamsKept DEF SckInv, InBody, threads
<1>9. ReplyInv'
  BY <1>1 DEF SckInv, ReplyInv, Ascending, threads
<1> QED  BY <1>5, <1>6, <1>7, <1>8, <1>9 DEF SckInv

LEMMA AskKeeps ==
  ASSUME SckInv, NEW c \in Conns, SckClientSend(c)
  PROVE  SckInv'
<1> DEFINE new == << <<asked[c] + 1, "header">>, <<asked[c] + 1, "body">> >>
<1>1. /\ asked' = [asked EXCEPT ![c] = @ + 1] /\ req' = [req EXCEPT ![c] = @ \o new]
      /\ waiting' = waiting \union {c}
      /\ UNCHANGED <<backlog, fds, i, connfd, threads, state, rep, seen, handled>>
  BY DEF SckClientSend, SckInv, ShapeInv
<1>2. /\ asked[c] \in Nat /\ handled[c] \in Nat /\ req[c] \in Seq(Parts)
      /\ Read(c) \in {0, 1} /\ Carries(req[c], handled[c], asked[c], Read(c))
  BY DEF SckInv, ShapeInv, StreamInv, Read
<1>3. req[c] \o new \in Seq(Parts)
  <2>1. new \in Seq(Parts)
    BY <1>2 DEF Parts
  <2> HIDE DEF new
  <2> QED  BY <1>2, <2>1
<1>4. Carries(req[c] \o new, handled[c], asked[c] + 1, Read(c))
  BY <1>2, CarriesMore
<1> HIDE DEF new
<1>5. /\ req'[c] = req[c] \o new /\ asked'[c] = asked[c] + 1
      /\ \A k \in Conns : k # c => req'[k] = req[k] /\ asked'[k] = asked[k]
  BY <1>1 DEF SckInv, ShapeInv
<1>6. ShapeInv'
  <2>1. req' \in [Conns -> Seq(Parts)]
    BY <1>1, <1>3 DEF SckInv, ShapeInv
  <2>2. asked' \in [Conns -> Nat]
    BY <1>1, <1>2 DEF SckInv, ShapeInv
  <2>3. waiting' \subseteq Conns
    BY <1>1 DEF SckInv, ShapeInv
  <2> QED  BY <1>1, <2>1, <2>2, <2>3 DEF SckInv, ShapeInv, threads
<1>7. FdInv'
  BY <1>1 DEF SckInv, FdInv, Live, threads
<1>8. ConnInv'
  BY <1>1, ConnKept DEF SckInv
<1>9. StreamInv'
  <2>1. \A k \in Conns : Read(k)' = Read(k)
    BY <1>1 DEF Read, InBody, threads
  <2>2. ASSUME NEW k \in Conns  PROVE Carries(req'[k], handled'[k], asked'[k], Read(k)')
    <3>1. CASE k = c
      BY <1>1, <1>4, <1>5, <2>1, <3>1
    <3>2. CASE k # c
      BY <1>1, <1>5, <2>1, <3>2 DEF SckInv, StreamInv
    <3> QED  BY <3>1, <3>2
  <2> QED  BY <2>2 DEF StreamInv, Carries
<1>10. ReplyInv'
  BY <1>1 DEF SckInv, ReplyInv, Ascending, threads
<1> QED  BY <1>6, <1>7, <1>8, <1>9, <1>10 DEF SckInv

\* A client reads its oldest reply, waits in vain, or closes.
LEMMA TakeKeeps ==
  ASSUME SckInv, NEW c \in Conns, SckClientRev(c) \/ SckClientClose(c)
  PROVE  SckInv'
<1>1. /\ UNCHANGED <<backlog, fds, i, connfd, threads, req, asked, handled>>
      /\ \/ UNCHANGED <<rep, seen>>
         \/ /\ rep[c] # <<>> /\ rep' = [rep EXCEPT ![c] = Tail(@)]
            /\ seen' = [seen EXCEPT ![c] = Head(rep[c])]
         \/ rep' = [rep EXCEPT ![c] = <<>>] /\ seen' = seen
      /\ waiting' \in {waiting, waiting \ {c}}
      /\ \/ state' = state
         \/ /\ state[c] = "open"
            /\ \E s \in {"fin", "rst"} : state' = [state EXCEPT ![c] = s]
  BY DEF SckClientRev, SckClientClose
<1>2. rep[c] \in Seq(Nat) /\ seen[c] \in Nat /\ handled[c] \in Nat
  BY DEF SckInv, ShapeInv
<1>3. /\ seen'[c] \in Nat /\ rep'[c] \in Seq(Nat)
      /\ rep' = [rep EXCEPT ![c] = rep'[c]] /\ seen' = [seen EXCEPT ![c] = seen'[c]]
  <2>1. rep[c] # <<>> => Tail(rep[c]) \in Seq(Nat) /\ Head(rep[c]) \in Nat
    BY <1>2
  <2>2. CASE UNCHANGED <<rep, seen>>
    BY <1>2, <2>2 DEF SckInv, ShapeInv
  <2>3. CASE rep' = [rep EXCEPT ![c] = <<>>] /\ seen' = seen
    <3>1. rep'[c] = <<>> /\ <<>> \in Seq(Nat) /\ seen'[c] = seen[c]
      BY <2>3 DEF SckInv, ShapeInv
    <3> QED  BY <1>2, <2>3, <3>1 DEF SckInv, ShapeInv
  <2>4. CASE /\ rep[c] # <<>> /\ rep' = [rep EXCEPT ![c] = Tail(@)]
             /\ seen' = [seen EXCEPT ![c] = Head(rep[c])]
    <3>1. rep'[c] = Tail(rep[c]) /\ seen'[c] = Head(rep[c])
      BY <2>4 DEF SckInv, ShapeInv
    <3> QED  BY <2>1, <2>4, <3>1
  <2> QED  BY <1>1, <2>2, <2>3, <2>4
<1>4. \A k \in Conns : k # c => rep'[k] = rep[k] /\ seen'[k] = seen[k]
  BY <1>1 DEF SckInv, ShapeInv
<1>5. ShapeInv'
  <2>1. rep' \in [Conns -> Seq(Nat)] /\ seen' \in [Conns -> Nat]
    BY <1>3 DEF SckInv, ShapeInv
  <2>2. state' \in [Conns -> {"new", "open", "fin", "reset", "rst"}] /\ waiting' \subseteq Conns
    BY <1>1 DEF SckInv, ShapeInv
  <2> QED  BY <1>1, <2>1, <2>2 DEF SckInv, ShapeInv, threads
<1>6. FdInv'
  BY <1>1 DEF SckInv, FdInv, Live, threads
<1>7. ConnInv'
  <2>1. \A k \in Conns : state'[k] = "new" => state[k] = "new"
    BY <1>1 DEF SckInv, ShapeInv
  <2> QED  BY <1>1, <2>1, ConnKept DEF SckInv
<1>8. StreamInv'
  BY <1>1, StreamsKept DEF SckInv, InBody, threads
<1>9. /\ seen'[c] <= handled[c] /\ Ascending(c)'
      /\ \A n \in 1..Len(rep'[c]) : \E m \in 1..Len(rep[c]) : rep'[c][n] = rep[c][m]
      /\ seen'[c] = seen[c] \/ \E m \in 1..Len(rep[c]) : seen'[c] = rep[c][m]
  <2>1. seen[c] <= handled[c] /\ Ascending(c) /\ handled' = handled
    BY <1>1 DEF SckInv, ReplyInv
  <2>2. CASE UNCHANGED <<rep, seen>>
    BY <2>1, <2>2 DEF Ascending
  <2>3. CASE rep' = [rep EXCEPT ![c] = <<>>] /\ seen' = seen
    <3>1. rep'[c] = <<>>
      BY <2>3 DEF SckInv, ShapeInv
    <3> QED  BY <2>1, <2>3, <3>1 DEF Ascending
  <2>4. CASE /\ rep[c] # <<>> /\ rep' = [rep EXCEPT ![c] = Tail(@)]
             /\ seen' = [seen EXCEPT ![c] = Head(rep[c])]
    <3>1. rep'[c] = Tail(rep[c]) /\ seen'[c] = Head(rep[c])
      BY <2>4 DEF SckInv, ShapeInv
    <3>2. /\ Len(rep'[c]) = Len(rep[c]) - 1 /\ Len(rep[c]) \in Nat /\ Len(rep[c]) >= 1
          /\ \A n \in 1..Len(rep'[c]) : n + 1 \in 1..Len(rep[c]) /\ rep'[c][n] = rep[c][n + 1]
          /\ seen'[c] = rep[c][1] /\ 1 \in 1..Len(rep[c])
      <4>1. \A s \in Seq(Nat) : s # <<>> =>
              /\ Len(Tail(s)) = Len(s) - 1 /\ Len(s) \in Nat /\ Len(s) >= 1
              /\ \A n \in 1..Len(Tail(s)) : n + 1 \in 1..Len(s) /\ Tail(s)[n] = s[n + 1]
              /\ Head(s) = s[1] /\ 1 \in 1..Len(s)
        OBVIOUS
      <4> QED  BY <1>2, <2>4, <3>1, <4>1
    <3>3. ASSUME NEW n \in 1..Len(rep'[c])
          PROVE  /\ rep'[c][n] > (IF n = 1 THEN seen'[c] ELSE rep'[c][n - 1])
                 /\ rep'[c][n] <= handled'[c]
      <4>1. n + 1 \in 1..Len(rep[c]) /\ rep'[c][n] = rep[c][n + 1] /\ n + 1 # 1
        <5>1. n \in Int /\ n >= 1
          BY <3>2, <3>3
        <5>2. n + 1 # 1
          BY <5>1
        <5> QED  BY <3>2, <3>3, <5>2
      <4>2. rep[c][n + 1] > rep[c][n + 1 - 1] /\ rep[c][n + 1] <= handled[c]
        <5>1. \A m \in 1..Len(rep[c]) : /\ m # 1 => rep[c][m] > rep[c][m - 1]
                                        /\ rep[c][m] <= handled[c]
          BY <2>1 DEF Ascending
        <5> QED  BY <4>1, <5>1
      <4>3. n + 1 - 1 = n /\ (n = 1 \/ (n - 1 \in 1..Len(rep'[c]) /\ n - 1 + 1 = n))
        BY <3>2
      <4>4. n # 1 => rep'[c][n - 1] = rep[c][n]
        BY <3>2, <4>3
      <4> QED  BY <2>1, <3>2, <4>1, <4>2, <4>3, <4>4
    <3>4. rep[c][1] <= handled[c]
      BY <2>1, <3>2 DEF Ascending
    <3> QED  BY <3>2, <3>3, <3>4 DEF Ascending
  <2> QED  BY <1>1, <2>2, <2>3, <2>4
<1>10. ReplyInv'
  <2>1. UNCHANGED <<fds, connfd, pc, msg, handled>>
    BY <1>1 DEF threads
  <2>2. ASSUME NEW k \in Conns  PROVE seen'[k] <= handled'[k] /\ Ascending(k)'
    <3>1. CASE k = c
      BY <1>9, <2>1, <3>1
    <3>2. CASE k # c
      BY <1>4, <2>1, <3>2 DEF SckInv, ReplyInv, Ascending
    <3> QED  BY <3>1, <3>2
  <2>3. ASSUME NEW u \in Threads, pc'[u] = "send"
        PROVE  LET k == fds'[connfd'[u]]
               IN  /\ msg'[u] = handled'[k] /\ seen'[k] < handled'[k]
                   /\ \A n \in 1..Len(rep'[k]) : rep'[k][n] < handled'[k]
    <3>1. pc[u] = "send" /\ Live(u)
      BY <2>1, <2>3 DEF Live
    <3>2. PICK k \in Conns : k = fds[connfd[u]]
      BY <3>1, OnlyThread
    <3>3. /\ msg[u] = handled[k] /\ seen[k] < handled[k]
          /\ \A n \in 1..Len(rep[k]) : rep[k][n] < handled[k]
      BY <3>1, <3>2 DEF SckInv, ReplyInv
    <3>4. seen'[k] < handled[k] /\ \A n \in 1..Len(rep'[k]) : rep'[k][n] < handled[k]
      BY <1>4, <1>9, <3>3
    <3> QED  BY <2>1, <3>2, <3>3, <3>4
  <2> QED  BY <2>2, <2>3 DEF ReplyInv
<1> QED  BY <1>5, <1>6, <1>7, <1>8, <1>10 DEF SckInv

-----------------------------------------------------------------------------
LEMMA SckInit == Init => SckInv
<1> SUFFICES ASSUME Init  PROVE SckInv
  OBVIOUS
<1>1. ShapeInv
  BY DEF Init, ShapeInv, States, Threads
<1>2. FdInv /\ ConnInv
  BY DEF Init, FdInv, ConnInv, Live, Injective, Elements, Threads
<1>3. StreamInv
  BY DEF Init, StreamInv, Carries, Read, InBody
<1>4. ReplyInv
  BY DEF Init, ReplyInv, Ascending
<1> QED  BY <1>1, <1>2, <1>3, <1>4 DEF SckInv

LEMMA SckStep == ASSUME Slots <= MaxFd, SckInv, [Next]_vars  PROVE SckInv'
<1>1. CASE SckServerAccept
  BY <1>1, AcceptKeeps
<1>2. ASSUME NEW t \in Threads, ThreadStep(t)  PROVE SckInv'
  BY <1>2, StartKeeps, RevKeeps, ReadnEndsKeeps, SendKeeps, CloseKeeps, HeaderKeeps, BodyKeeps
     DEF ThreadStep
<1>3. ASSUME NEW c \in Conns, ClientStep(c)  PROVE SckInv'
  BY <1>3, ConnectKeeps, AskKeeps, TakeKeeps DEF ClientStep
<1>4. CASE UNCHANGED vars
  <2>1. UNCHANGED <<backlog, fds, i, connfd, pc, fd, msg, state, req, rep, asked, waiting,
                    seen, handled>>
    BY <1>4 DEF vars, threads, clients
  <2>2. ShapeInv' /\ FdInv'
    BY <2>1 DEF SckInv, ShapeInv, FdInv, Live
  <2>3. ConnInv' /\ StreamInv'
    BY <2>1, ConnKept, StreamsKept DEF SckInv, InBody
  <2>4. ReplyInv'
    BY <2>1 DEF SckInv, ReplyInv, Ascending
  <2> QED  BY <2>2, <2>3, <2>4 DEF SckInv
<1> QED  BY <1>1, <1>2, <1>3, <1>4 DEF Next

LEMMA SckImplies == SckInv => OneThreadPerConnection
<1> SUFFICES ASSUME SckInv  PROVE OneThreadPerConnection
  OBVIOUS
<1>1. \A t \in Threads : Live(t) =>
        /\ connfd[t] \in 1..MaxFd /\ fds[connfd[t]] # NoConn
        /\ \A u \in Threads \ {t} : Live(u) => connfd[u] # connfd[t]
        /\ pc[t] # "start" => fd[t] = connfd[t]
  BY DEF SckInv, FdInv
<1>2. \A t \in Threads : pc[t] # "misframed"
  BY DEF SckInv, ShapeInv, States
<1>3. \A c \in Conns : \A n \in 1..Len(rep[c]) :
        /\ rep[c][n] > (IF n = 1 THEN seen[c] ELSE rep[c][n - 1])
        /\ rep[c][n] <= handled[c]
  BY DEF SckInv, ReplyInv, Ascending
<1> QED  BY <1>1, <1>2, <1>3 DEF OneThreadPerConnection

\* As long as main accepts no more connections than the process has descriptors,
\* each of the server's threads has its connection to itself, reads whole requests,
\* and answers them in order (sckServer_accept, pthread_func, sckServer_rev and
\* sckServer_send), whatever clients do.
THEOREM ThreadsKeepApart ==
  ASSUME Slots <= MaxFd
  PROVE  Spec => []OneThreadPerConnection
<1>1. Init => SckInv
  BY SckInit
<1>2. SckInv /\ [Next]_vars => SckInv'
  BY SckStep
<1>3. SckInv => OneThreadPerConnection
  BY SckImplies
<1> QED  BY <1>1, <1>2, <1>3, PTL DEF Spec

-----------------------------------------------------------------------------
(* Connections that are closed while requests are open *)

\* The client of a connection that is closed waits for nothing more; one whose server
\* has had RST from it has not read the last reply, and when a thread is at the next
\* reply already, not the last two; SIGPIPE comes from such a thread.
ResetInv ==
  /\ \A c \in Conns : state[c] \notin {"new", "open"} => c \notin waiting
  /\ \A c \in Conns : state[c] = "reset" => seen[c] < handled[c]
  /\ \A t \in Threads : pc[t] \in {"send", "sigpipe"} =>
       LET c == fds[connfd[t]]
       IN  /\ state[c] = "reset" => seen[c] + 2 <= handled[c]
           /\ pc[t] = "sigpipe" => state[c] = "reset"

\* A thread that changes nothing that ResetInv is about, and goes on elsewhere.
LEMMA ResetKept ==
  ASSUME SckInv, ResetInv, NEW t \in Threads, NEW label, label \notin {"send", "sigpipe"},
         pc' = [pc EXCEPT ![t] = label], UNCHANGED <<state, waiting, seen, handled>>,
         \A u \in Threads : u # t /\ Live(u) => fds'[connfd'[u]] = fds[connfd[u]]
  PROVE  ResetInv'
<1>1. \A u \in Threads : pc'[u] = IF u = t THEN label ELSE pc[u]
  BY DEF SckInv, ShapeInv
<1> QED  BY <1>1 DEF ResetInv, Live

\* A body read: one request more than before is handled, and not replied to.
LEMMA BodyResets ==
  ASSUME SckInv, ResetInv, NEW t \in Threads, Readn(t, "body")
  PROVE  ResetInv'
<1>1. PICK c \in Conns :
        /\ c = fds[connfd[t]] /\ pc[t] = "body" /\ handled[c] \in Nat
        /\ pc' = [pc EXCEPT ![t] = "send"] /\ handled' = [handled EXCEPT ![c] = handled[c] + 1]
        /\ UNCHANGED <<fds, connfd, state, waiting, seen>>
        /\ \A u \in Threads \ {t} : Live(u) => fds[connfd[u]] # c
  BY ReadnTakes
<1>2. pc'[t] = "send" /\ \A u \in Threads : u # t => pc'[u] = pc[u]
  BY <1>1 DEF SckInv, ShapeInv
<1>3. handled'[c] = handled[c] + 1 /\ \A k \in Conns : k # c => handled'[k] = handled[k]
  BY <1>1 DEF SckInv, ShapeInv
<1>4. \A k \in Conns : seen[k] \in Nat /\ handled[k] \in Nat
  BY DEF SckInv, ShapeInv
<1>5. \A k \in Conns : state[k] = "reset" => seen[k] < handled'[k]
  BY <1>3, <1>4 DEF ResetInv
<1>6. state[c] = "reset" => seen[c] + 2 <= handled'[c]
  <2>1. state[c] = "reset" => seen[c] < handled[c]
    BY DEF ResetInv
  <2> QED  BY <1>3, <1>4, <2>1
<1>7. ASSUME NEW u \in Threads, u # t, pc'[u] \in {"send", "sigpipe"}
      PROVE  LET k == fds[connfd[u]]
             IN  /\ state[k] = "reset" => seen[k] + 2 <= handled'[k]
                 /\ pc'[u] = "sigpipe" => state[k] = "reset"
  <2>1. pc[u] = pc'[u] /\ Live(u)
    BY <1>2, <1>7 DEF Live
  <2>2. fds[connfd[u]] \in Conns \ {c}
    BY <1>1, <1>7, <2>1, OnlyThread
  <2>3. handled'[fds[connfd[u]]] = handled[fds[connfd[u]]]
    BY <1>3, <2>2
  <2> QED  BY <1>7, <2>1, <2>3 DEF ResetInv
<1> QED  BY <1>1, <1>2, <1>5, <1>6, <1>7 DEF ResetInv

\* The reply a thread sends is newer than all its client has read.
LEMMA SendResets ==
  ASSUME SckInv, ResetInv, NEW t \in Threads, SckServerSend(t)
  PROVE  ResetInv'
<1>1. Live(t) /\ pc[t] = "send"
  BY DEF SckServerSend, Live
<1>2. PICK c \in Conns : c = fds[connfd[t]] /\ At(t) = c /\ c # NoConn
  BY <1>1, OnlyThread
<1>3. PICK label \in {"rev", "ended", "sigpipe"} :
        /\ pc' = [pc EXCEPT ![t] = label]
        /\ label = "sigpipe" => state[c] = "reset" /\ state' = state
  BY <1>2 DEF SckServerSend, Goto
<1>4. /\ \/ state' = state
         \/ state[c] = "fin" /\ \E s \in {"fin", "reset"} : state' = [state EXCEPT ![c] = s]
      /\ UNCHANGED <<fds, connfd, waiting, seen, handled>>
  BY <1>2 DEF SckServerSend
<1>5. \A u \in Threads : pc'[u] = IF u = t THEN label ELSE pc[u]
  BY <1>3 DEF SckInv, ShapeInv
<1>6. \A k \in Conns : /\ k # c => state'[k] = state[k]
                       /\ state'[k] # state[k] => k = c /\ state[k] = "fin" /\ state'[k] = "reset"
  BY <1>4 DEF SckInv, ShapeInv
<1>7. seen[c] < handled[c]
  BY <1>1, <1>2 DEF SckInv, ReplyInv
<1>8. \A k \in Conns : state'[k] \notin {"new", "open"} => k \notin waiting
  BY <1>6 DEF ResetInv
<1>9. \A k \in Conns : state'[k] = "reset" => seen[k] < handled[k]
  BY <1>6, <1>7 DEF ResetInv
<1>10. ASSUME NEW u \in Threads, pc'[u] \in {"send", "sigpipe"}
       PROVE  LET k == fds[connfd[u]]
              IN  /\ state'[k] = "reset" => seen[k] + 2 <= handled[k]
                  /\ pc'[u] = "sigpipe" => state'[k] = "reset"
  <2>1. CASE u = t
    <3>1. label = "sigpipe" /\ state[c] = "reset" /\ state' = state
      BY <1>3, <1>5, <1>10, <2>1
    <3> QED  BY <1>1, <1>2, <2>1, <3>1 DEF ResetInv
  <2>2. CASE u # t
    <3>1. pc[u] = pc'[u] /\ Live(u)
      BY <1>5, <1>10, <2>2 DEF Live
    <3>2. fds[connfd[u]] \in Conns \ {c}
      BY <1>1, <1>2, <2>2, <3>1, OnlyThread
    <3>3. state'[fds[connfd[u]]] = state[fds[connfd[u]]]
      BY <1>6, <3>2
    <3> QED  BY <1>10, <3>1, <3>3 DEF ResetInv
  <2> QED  BY <2>1, <2>2
<1> QED  BY <1>4, <1>8, <1>9, <1>10 DEF ResetInv

LEMMA AcceptResets ==
  ASSUME SckInv, ResetInv, SckServerAccept, Slots <= MaxFd
  PROVE  ResetInv'
<1>1. /\ i \in Threads
      /\ AcceptReturns \in 1..MaxFd /\ fds[AcceptReturns] = NoConn
      /\ fds' = [fds EXCEPT ![AcceptReturns] = Head(backlog)]
      /\ connfd' = [connfd EXCEPT ![i] = AcceptReturns]
      /\ pc' = [pc EXCEPT ![i] = "start"] /\ UNCHANGED <<state, waiting, seen, handled>>
  <2>1. i < Slots /\ i \in 0..Slots
    BY DEF SckServerAccept, SckInv, ShapeInv
  <2>2. i \in Threads
    BY <2>1 DEF Threads
  <2> QED  BY <2>1, <2>2, LowestFree DEF SckServerAccept, Goto, clients
<1>2. ASSUME NEW u \in Threads, u # i, Live(u)
      PROVE  fds'[connfd'[u]] = fds[connfd[u]]
  <2>1. connfd[u] \in 1..MaxFd /\ fds[connfd[u]] # NoConn
    BY <1>2 DEF SckInv, FdInv
  <2> QED  BY <1>1, <1>2, <2>1 DEF SckInv, ShapeInv
<1> QED  BY <1>1, <1>2, ResetKept

LEMMA ThreadResets ==
  ASSUME SckInv, ResetInv, NEW t \in Threads, ThreadStep(t)
  PROVE  ResetInv'
<1>1. CASE Start(t) \/ Rev(t) \/ ReadnEnds(t)
  <2>1. PICK label \in {"rev", "header", "close", "ended"} : pc' = [pc EXCEPT ![t] = label]
    BY <1>1 DEF Start, Rev, ReadnEnds, Goto
  <2>2. UNCHANGED <<fds, connfd, state, waiting, seen, handled>>
    BY <1>1 DEF Start, Rev, ReadnEnds, clients
  <2> QED  BY <2>1, <2>2, ResetKept
<1>2. CASE Close(t)
  <2>1. /\ Live(t) /\ fd[t] = connfd[t] /\ connfd[t] \in 1..MaxFd
        /\ \A u \in Threads : u # t /\ Live(u) => connfd[u] # connfd[t] /\ connfd[u] \in 1..MaxFd
    BY <1>2, OnlyThread DEF Close, Live
  <2>2. /\ pc' = [pc EXCEPT ![t] = "ended"] /\ fds' = [fds EXCEPT ![connfd[t]] = NoConn]
        /\ UNCHANGED <<connfd, state, waiting, seen, handled>>
    BY <1>2, <2>1 DEF Close, Goto, clients
  <2>3. \A u \in Threads : u # t /\ Live(u) => fds'[connfd'[u]] = fds[connfd[u]]
    BY <2>1, <2>2 DEF SckInv, ShapeInv
  <2> QED  BY <2>2, <2>3, ResetKept
<1>3. CASE Readn(t, "header")
  <2>1. /\ pc' = [pc EXCEPT ![t] = "body"]
        /\ UNCHANGED <<fds, connfd, state, waiting, seen, handled>>
    BY <1>3, ReadnTakes
  <2> QED  BY <2>1, ResetKept
<1> QED  BY <1>1, <1>2, <1>3, BodyResets, SendResets DEF ThreadStep

\* A reply is read by a client that has not closed.
LEMMA ClientResets ==
  ASSUME SckInv, ResetInv, NEW c \in Conns, ClientStep(c)
  PROVE  ResetInv'
<1>1. /\ UNCHANGED <<fds, connfd, pc, handled>>
      /\ \A k \in Conns : k # c => state'[k] = state[k] /\ seen'[k] = seen[k]
                                   /\ (k \in waiting' => k \in waiting)
  BY DEF ClientStep, Connect, SckClientSend, SckClientRev, SckClientClose, threads, SckInv, ShapeInv
<1>2. state[c] = "reset" => state'[c] = "reset" /\ seen'[c] = seen[c] /\ c \notin waiting'
  BY DEF ClientStep, Connect, SckClientSend, SckClientRev, SckClientClose, SckInv, ShapeInv, ResetInv
<1>3. state'[c] = "reset" => state[c] = "reset"
  BY DEF ClientStep, Connect, SckClientSend, SckClientRev, SckClientClose, SckInv, ShapeInv
<1>4. state'[c] \notin {"new", "open"} => c \notin waiting'
  BY DEF ClientStep, Connect, SckClientSend, SckClientRev, SckClientClose, SckInv, ShapeInv, ResetInv
<1>5. \A k \in Conns : state'[k] \notin {"new", "open"} => k \notin waiting'
  BY <1>1, <1>4 DEF ResetInv
<1>6. \A k \in Conns : (state'[k] = "reset" <=> state[k] = "reset")
                       /\ (state[k] = "reset" => seen'[k] = seen[k])
  BY <1>1, <1>2, <1>3
<1>7. ASSUME NEW t \in Threads, pc[t] \in {"send", "sigpipe"}
      PROVE  LET k == fds[connfd[t]]
             IN  /\ state'[k] = "reset" => seen'[k] + 2 <= handled[k]
                 /\ pc[t] = "sigpipe" => state'[k] = "reset"
  <2>1. fds[connfd[t]] \in Conns
    BY <1>7, OnlyThread DEF Live
  <2> QED  BY <1>6, <1>7, <2>1 DEF ResetInv
<1> QED  BY <1>1, <1>5, <1>6, <1>7 DEF ResetInv

LEMMA ResetStep ==
  ASSUME Slots <= MaxFd, SckInv, ResetInv, [Next]_vars
  PROVE  ResetInv'
<1>1. CASE UNCHANGED vars
  BY <1>1 DEF vars, threads, clients, ResetInv
<1> QED  BY <1>1, AcceptResets, ThreadResets, ClientResets DEF Next

\* At a connection that has had RST, a thread about to send, or that has raised
\* SIGPIPE, is at the second reply at least that its client will not read.
LEMMA SecondReply ==
  ASSUME SckInv, ResetInv, NEW t \in Threads, pc[t] \in {"send", "sigpipe"},
         state[fds[connfd[t]]] = "reset"
  PROVE  fds[connfd[t]] \in Conns /\ TwoUnanswered(fds[connfd[t]])
<1>1. PICK c \in Conns : c = fds[connfd[t]]
  BY OnlyThread DEF Live
<1>2. seen[c] + 2 <= handled[c]
  BY <1>1 DEF ResetInv
<1>3. handled[c] <= asked[c]
  BY DEF SckInv, StreamInv, Carries
<1>4. seen[c] \in Nat /\ handled[c] \in Nat /\ asked[c] \in Nat
  BY DEF SckInv, ShapeInv
<1> QED  BY <1>1, <1>2, <1>3, <1>4 DEF TwoUnanswered

\* SIGPIPE ends the server only after a client has closed in order with two requests
\* or more whose replies it had not read (sckServer_send, sckClient_closeconn).
THEOREM SigpipeNeedsTwo ==
  ASSUME Slots <= MaxFd
  PROVE  Spec => []SigpipeOnlyAfterTwo
<1>1. Init => SckInv /\ ResetInv
  <2>1. Init => ResetInv
    BY DEF Init, ResetInv
  <2> QED  BY <2>1, SckInit
<1>2. SckInv /\ ResetInv /\ [Next]_vars => SckInv' /\ ResetInv'
  BY SckStep, ResetStep
<1>3. SckInv /\ ResetInv => SigpipeOnlyAfterTwo
  <2> SUFFICES ASSUME SckInv, ResetInv, NEW t \in Threads, pc[t] = "sigpipe"
               PROVE  \E c \in Conns : TwoUnanswered(c)
    BY DEF SigpipeOnlyAfterTwo, Killed
  <2>1. state[fds[connfd[t]]] = "reset"
    BY DEF ResetInv
  <2> QED  BY <2>1, SecondReply
<1> QED  BY <1>1, <1>2, <1>3, PTL DEF Spec

-----------------------------------------------------------------------------
(* Descriptors that outlive their threads *)

\* A descriptor has a thread, or its client has aborted the connection, or closed it
\* with two requests unanswered and reset it since.
Lost(c) == state[c] = "rst" \/ TwoUnanswered(c)
OwnedInv ==
  \A f \in 1..MaxFd : fds[f] # NoConn =>
    (\E t \in Threads : Live(t) /\ connfd[t] = f) \/ Lost(fds[f])

\* Such a connection is never anything else again.
LostStays == \A c \in Conns : Lost(c) => Lost(c)'

LEMMA AcceptOwns ==
  ASSUME SckInv, OwnedInv, SckServerAccept, Slots <= MaxFd
  PROVE  OwnedInv'
<1>1. PICK t \in Threads, new \in 1..MaxFd :
        /\ t = i /\ new = AcceptReturns
        /\ fds' = [fds EXCEPT ![new] = Head(backlog)]
        /\ connfd' = [connfd EXCEPT ![t] = new]
        /\ pc' = [pc EXCEPT ![t] = "start"] /\ UNCHANGED <<state, asked, seen>>
  <2>1. i \in Threads
    BY DEF SckServerAccept, SckInv, ShapeInv, Threads
  <2> QED  BY <2>1, LowestFree DEF SckServerAccept, Goto, clients
<1>2. pc[t] = "none"
  <2>1. t \in Nat
    BY DEF Threads
  <2> QED  BY <1>1, <2>1 DEF SckInv, FdInv
<1>3. \A u \in Threads : Live(u) => Live(u)' /\ connfd'[u] = connfd[u]
  BY <1>1, <1>2 DEF Live, SckInv, ShapeInv
<1>4. Live(t)' /\ connfd'[t] = new
  BY <1>1 DEF Live, SckInv, ShapeInv
<1>5. \A f \in 1..MaxFd : f # new => fds'[f] = fds[f]
  BY <1>1 DEF SckInv, ShapeInv
<1> QED  BY <1>1, <1>3, <1>4, <1>5 DEF OwnedInv, Lost, TwoUnanswered

\* A thread that stays, or that leaves a connection that is lost.
LEMMA PlaceOwns ==
  ASSUME SckInv, OwnedInv, NEW t \in Threads, NEW label, Live(t), Goto(t, label),
         label = "ended" => Lost(fds[connfd[t]]), label # "none",
         UNCHANGED <<fds, connfd>>, LostStays
  PROVE  OwnedInv'
<1>1. \A u \in Threads : pc'[u] = IF u = t THEN label ELSE pc[u]
  BY DEF Goto, SckInv, ShapeInv
<1> SUFFICES ASSUME NEW f \in 1..MaxFd, fds[f] # NoConn
             PROVE  (\E u \in Threads : Live(u)' /\ connfd[u] = f) \/ Lost(fds[f])'
  BY DEF OwnedInv
<1>2. ASSUME NEW u \in Threads, Live(u), connfd[u] = f
      PROVE  Live(u)' \/ Lost(fds[f])
  BY <1>1, <1>2 DEF Live
<1>3. fds[f] \in Conns /\ fds' = fds
  BY DEF SckInv, ShapeInv
<1>4. Lost(fds[f]) => Lost(fds[f])'
  BY <1>3 DEF LostStays, Lost, TwoUnanswered
<1> QED  BY <1>2, <1>4 DEF OwnedInv

LEMMA ReadOwns ==
  ASSUME SckInv, OwnedInv, NEW t \in Threads, NEW part \in {"header", "body"}, Readn(t, part)
  PROVE  OwnedInv'
<1>1. Live(t)
  BY DEF Readn, Live
<1>2. \E label \in {"misframed", "body", "send"} : Goto(t, label)
  BY DEF Readn
<1>3. LostStays
  BY DEF Readn, LostStays, Lost, TwoUnanswered
<1> QED  BY <1>1, <1>2, <1>3, PlaceOwns DEF Readn

LEMMA EndOwns ==
  ASSUME SckInv, ResetInv, OwnedInv, NEW t \in Threads, ReadnEnds(t) \/ SckServerSend(t)
  PROVE  OwnedInv'
<1>1. Live(t) /\ pc[t] # "start"
  BY DEF ReadnEnds, SckServerSend, Live
<1>2. At(t) = fds[connfd[t]] /\ At(t) # NoConn /\ At(t) \in Conns
  BY <1>1, OnlyThread, SckAssumption
<1>3. \E label \in {"ended", "close", "rev", "sigpipe"} :
        Goto(t, label) /\ (label = "ended" => Lost(At(t)))
  <2>1. ASSUME ReadnEnds(t)
        PROVE  \E label \in {"ended", "close"} : Goto(t, label) /\ (label = "ended" => Lost(At(t)))
    <3>1. pc[t] = "header" /\ state[At(t)] \in {"fin", "reset", "rst"}
      BY <2>1, <1>2, NextPart DEF ReadnEnds, SckInv, ShapeInv
    <3> QED  BY <2>1, <1>2, <3>1 DEF ReadnEnds, Lost
  <2>2. ASSUME SckServerSend(t)
        PROVE  \E label \in {"ended", "rev", "sigpipe"} :
                 Goto(t, label) /\ (label = "ended" => Lost(At(t)))
    <3>1. state[At(t)] = "reset" => TwoUnanswered(At(t))
      BY <2>2, <1>2, SecondReply DEF SckServerSend
    <3>2. PICK label \in {"ended", "rev", "sigpipe"} :
            Goto(t, label) /\ (label = "ended" => state[At(t)] \in {"reset", "rst"})
      BY <2>2, <1>2 DEF SckServerSend
    <3> QED  BY <3>1, <3>2 DEF Lost
  <2> QED  BY <2>1, <2>2
<1>4. UNCHANGED <<fds, connfd, asked, seen>>
  BY DEF ReadnEnds, SckServerSend, clients
<1>5. \A c \in Conns : state[c] \in {"rst", "reset"} => state'[c] = state[c]
  BY DEF ReadnEnds, SckServerSend, clients, SckInv, ShapeInv
<1>6. LostStays
  BY <1>4, <1>5 DEF LostStays, Lost, TwoUnanswered
<1> QED  BY <1>1, <1>2, <1>3, <1>4, <1>6, PlaceOwns

LEMMA CloseOwns ==
  ASSUME SckInv, OwnedInv, NEW t \in Threads, Close(t)
  PROVE  OwnedInv'
<1>1. /\ fd[t] = connfd[t] /\ connfd[t] \in 1..MaxFd
      /\ pc' = [pc EXCEPT ![t] = "ended"] /\ UNCHANGED <<state, asked, seen, connfd>>
  BY OnlyThread DEF Close, Live, Goto, clients
<1>2. fds' = [fds EXCEPT ![connfd[t]] = NoConn]
  BY <1>1 DEF Close
<1>3. \A f \in 1..MaxFd : fds'[f] # NoConn => f # connfd[t] /\ fds'[f] = fds[f]
  BY <1>1, <1>2 DEF SckInv, ShapeInv
<1>4. \A u \in Threads : u # t /\ Live(u) => Live(u)'
  BY <1>1 DEF Live, SckInv, ShapeInv
<1> QED  BY <1>1, <1>3, <1>4 DEF OwnedInv, Lost, TwoUnanswered

LEMMA ClientOwns ==
  ASSUME SckInv, ResetInv, OwnedInv, NEW c \in Conns, ClientStep(c)
  PROVE  OwnedInv'
<1>1. UNCHANGED <<fds, connfd, pc>>
  BY DEF ClientStep, Connect, SckClientSend, SckClientRev, SckClientClose, threads
<1>2. LostStays
  <2>1. \A k \in Conns : k # c => state'[k] = state[k] /\ asked'[k] = asked[k] /\ seen'[k] = seen[k]
    BY DEF ClientStep, Connect, SckClientSend, SckClientRev, SckClientClose, SckInv, ShapeInv
  <2>2. state[c] \in {"rst", "reset"} => state'[c] = state[c] /\ UNCHANGED <<asked, seen>>
    BY DEF ClientStep, Connect, SckClientSend, SckClientRev, SckClientClose, SckInv, ShapeInv,
           ResetInv
  <2> QED  BY <2>1, <2>2 DEF LostStays, Lost, TwoUnanswered
<1>3. \A f \in 1..MaxFd : fds[f] # NoConn => fds[f] \in Conns
  BY DEF SckInv, ShapeInv
<1>4. \A f \in 1..MaxFd : fds[f] # NoConn /\ Lost(fds[f]) => Lost(fds[f])'
  BY <1>1, <1>2, <1>3 DEF LostStays, Lost, TwoUnanswered
<1> QED  BY <1>1, <1>4 DEF OwnedInv, Live

LEMMA OwnedStep ==
  ASSUME Slots <= MaxFd, SckInv, ResetInv, OwnedInv, [Next]_vars
  PROVE  OwnedInv'
<1>1. CASE SckServerAccept
  BY <1>1, AcceptOwns
<1>2. ASSUME NEW t \in Threads, Start(t) \/ Rev(t)  PROVE OwnedInv'
  <2>1. Live(t) /\ \E label \in {"rev", "header"} : Goto(t, label)
    BY <1>2 DEF Start, Rev, Live
  <2>2. UNCHANGED <<fds, connfd, clients>>
    BY <1>2 DEF Start, Rev
  <2>3. LostStays
    BY <2>2 DEF LostStays, Lost, TwoUnanswered, clients
  <2> QED  BY <2>1, <2>2, <2>3, PlaceOwns
<1>3. ASSUME NEW t \in Threads, ThreadStep(t)  PROVE OwnedInv'
  BY <1>2, <1>3, ReadOwns, EndOwns, CloseOwns DEF ThreadStep
<1>4. CASE UNCHANGED vars
  BY <1>4 DEF vars, threads, clients, OwnedInv, Live, Lost, TwoUnanswered
<1> QED  BY <1>1, <1>3, <1>4, ClientOwns DEF Next

\* A descriptor that no live thread was started for belongs to a connection that its
\* client has aborted, or closed with two requests or more unanswered: as long as main
\* accepts no more connections than there are descriptors, pthread_func leaves open
\* no other when it returns.
THEOREM LeaksOnlyReset ==
  ASSUME Slots <= MaxFd
  PROVE  Spec => []LeakedOnlyOnReset
<1>1. Init => SckInv /\ ResetInv /\ OwnedInv
  <2>1. Init => ResetInv /\ OwnedInv
    BY DEF Init, ResetInv, OwnedInv
  <2> QED  BY <2>1, SckInit
<1>2. SckInv /\ ResetInv /\ OwnedInv /\ [Next]_vars => SckInv' /\ ResetInv' /\ OwnedInv'
  BY SckStep, ResetStep, OwnedStep
<1>3. OwnedInv => LeakedOnlyOnReset
  BY DEF OwnedInv, LeakedOnlyOnReset, ServedBy, Lost
<1> QED  BY <1>1, <1>2, <1>3, PTL DEF Spec

=============================================================================

--------------------------- MODULE TcpEcho_proofs ---------------------------
(***************************************************************************)
(* Proofs about a client and the server that echoes its requests, for      *)
(* every number of connections, requests and deaths of the server, every   *)
(* length of header and body and every capacity of a stream.  A connection *)
(* is always in one of four phases: no request is under way, one is on its *)
(* way, the server has it, or the answer is on its way.                    *)
(***************************************************************************)
EXTENDS TcpEcho, SequenceTheorems, TLAPS

-----------------------------------------------------------------------------
(* Pieces of a frame *)

\* The pieces of the frame of m after the first a, up to the b-th.
Part(m, a, b) == [p \in 1..(b - a) |-> <<m, a + p>>]

Pieces == Messages \X (1..FrameLen)
Dirs == {"up", "down"}

LEMMA Numbers ==
  /\ MaxConn \in Nat \ {0} /\ Tasks \in Nat \ {0} /\ Exchanges \in Nat \ {0} /\ MaxDeaths \in Nat
  /\ HeaderLen \in Nat \ {0} /\ BodyLen \in Nat \ {0} /\ FrameLen = HeaderLen + BodyLen
  /\ FrameLen \in Nat \ {0} /\ Tasks * Exchanges \in Nat
  /\ Conns = 1..MaxConn /\ Endpoints = {0} \union Conns /\ 0 \notin Conns
  /\ Messages \subseteq Nat \ {0}
<1>1. /\ MaxConn \in Nat \ {0} /\ Tasks \in Nat \ {0} /\ Exchanges \in Nat \ {0}
      /\ MaxDeaths \in Nat /\ HeaderLen \in Nat \ {0} /\ BodyLen \in Nat \ {0}
  BY TcpAssumption
<1>2. Tasks * Exchanges \in Nat
  BY <1>1
<1> QED  BY <1>1, <1>2 DEF FrameLen, Conns, Endpoints, Messages

LEMMA PartSeq ==
  ASSUME NEW m \in Messages, NEW a \in Nat, NEW b \in Nat, a <= b, b <= FrameLen
  PROVE  /\ Part(m, a, b) \in Seq(Pieces) /\ Len(Part(m, a, b)) = b - a
         /\ Part(m, a, b) = <<>> <=> a = b
<1>1. b - a \in Nat /\ FrameLen \in Nat
  BY Numbers
<1>2. \A p \in 1..(b - a) : <<m, a + p>> \in Pieces
  BY <1>1 DEF Pieces
<1>3. Part(m, a, b) \in [1..(b - a) -> Pieces]
  BY <1>2 DEF Part
<1>4. Part(m, a, b) \in Seq(Pieces) /\ Len(Part(m, a, b)) = b - a
  BY <1>1, <1>3
<1>5. Part(m, a, b) = <<>> <=> Len(Part(m, a, b)) = 0
  BY <1>4, EmptySeq
<1> QED  BY <1>1, <1>4, <1>5

\* The pieces of a part, by number.
LEMMA PartPieces == \A m, a, b : \A p \in 1..(b - a) : Part(m, a, b)[p] = <<m, a + p>>
BY DEF Part

LEMMA PartCut ==
  ASSUME NEW m \in Messages, NEW a \in Nat, NEW b \in Nat, a <= b, b <= FrameLen,
         NEW n \in 0..(b - a)
  PROVE  /\ SubSeq(Part(m, a, b), 1, n) = Part(m, a, a + n)
         /\ SubSeq(Part(m, a, b), n + 1, b - a) = Part(m, a + n, b)
<1>1. n \in Nat /\ a + n \in Nat /\ a <= a + n /\ a + n <= b /\ a + n <= FrameLen /\ FrameLen \in Nat
  BY Numbers
<1>2. PICK c \in Nat : c = a + n
  BY <1>1
<1>3. a <= c /\ c <= b /\ c <= FrameLen /\ c - a = n
  BY <1>1, <1>2
<1>4. PICK s : s = Part(m, a, b)
  OBVIOUS
<1>5. PICK t : t = Part(m, a, c)
  OBVIOUS
<1>6. PICK u : u = Part(m, c, b)
  OBVIOUS
<1>7. s \in Seq(Pieces) /\ Len(s) = b - a /\ \A p \in 1..(b - a) : s[p] = <<m, a + p>>
  <2>1. s \in Seq(Pieces) /\ Len(s) = b - a
    BY <1>4, PartSeq
  <2>2. \A p \in 1..(b - a) : s[p] = <<m, a + p>>
    BY <1>4, PartPieces
  <2> QED  BY <2>1, <2>2
<1>8. t \in Seq(Pieces) /\ Len(t) = n /\ \A p \in 1..n : t[p] = <<m, a + p>>
  <2>1. t \in Seq(Pieces) /\ Len(t) = n
    BY <1>3, <1>5, PartSeq
  <2>2. \A p \in 1..n : t[p] = <<m, a + p>>
    BY <1>3, <1>5, PartPieces
  <2> QED  BY <2>1, <2>2
<1>9. u \in Seq(Pieces) /\ Len(u) = b - c /\ \A p \in 1..(b - c) : u[p] = <<m, c + p>>
  <2>1. u \in Seq(Pieces) /\ Len(u) = b - c
    BY <1>3, <1>6, PartSeq
  <2>2. \A p \in 1..(b - c) : u[p] = <<m, c + p>>
    BY <1>3, <1>6, PartPieces
  <2> QED  BY <2>1, <2>2
<1>10. SubSeq(s, 1, n) = t
  <2>1. SubSeq(s, 1, n) = [p \in 1..n |-> s[p]]
    BY <1>1, <1>7
  <2>2. t = [p \in 1..n |-> t[p]]
    BY <1>8
  <2>3. \A p \in 1..n : s[p] = t[p]
    <3> TAKE p \in 1..n
    <3>1. p \in 1..(b - a)
      OBVIOUS
    <3> QED  BY <1>7, <1>8, <3>1
  <2> QED  BY <2>1, <2>2, <2>3
<1>11. SubSeq(s, n + 1, b - a) = u
  <2>1. /\ SubSeq(s, n + 1, b - a) \in Seq(Pieces) /\ Len(SubSeq(s, n + 1, b - a)) = b - c
        /\ \A p \in 1..(b - c) : SubSeq(s, n + 1, b - a)[p] = s[n + p]
    <3>1. n + 1 \in Int /\ b - a \in Int /\ (n + 1 <= b - a => (b - a) - (n + 1) + 1 = b - c)
          /\ (~(n + 1 <= b - a) => b - c = 0) /\ (b - a) - (n + 1) + 1 = b - c
      BY <1>1, <1>2
    <3>2. \A p \in (n + 1)..(b - a) : s[p] \in Pieces
      <4> TAKE p \in (n + 1)..(b - a)
      <4>1. p \in 1..Len(s)
        BY <1>1, <1>7
      <4> QED  BY <1>7, <4>1, ElementOfSeq
    <3>3. /\ SubSeq(s, n + 1, b - a) \in Seq(Pieces)
          /\ Len(SubSeq(s, n + 1, b - a)) = IF n + 1 <= b - a THEN (b - a) - (n + 1) + 1 ELSE 0
          /\ \A p \in 1..((b - a) - (n + 1) + 1) : SubSeq(s, n + 1, b - a)[p] = s[n + 1 + p - 1]
      BY <3>1, <3>2, SubSeqProperties
    <3>4. \A p \in 1..(b - c) : n + 1 + p - 1 = n + p
      BY <1>1
    <3> QED  BY <3>1, <3>3, <3>4
  <2>3. \A p \in 1..(b - c) : s[n + p] = u[p]
    <3> TAKE p \in 1..(b - c)
    <3>1. n + p \in 1..(b - a) /\ a + (n + p) = c + p
      BY <1>1, <1>2
    <3>2. s[n + p] = <<m, a + (n + p)>>
      BY <1>7, <3>1
    <3>3. u[p] = <<m, c + p>>
      BY <1>9
    <3> QED  BY <3>1, <3>2, <3>3
  <2>4. \A p \in 1..(b - c) : SubSeq(s, n + 1, b - a)[p] = u[p]
    BY <2>1, <2>3
  <2>5. Len(SubSeq(s, n + 1, b - a)) = Len(u)
    BY <1>9, <2>1
  <2> QED  BY <1>9, <2>1, <2>4, <2>5, SeqEqual
<1> QED  BY <1>2, <1>4, <1>5, <1>6, <1>10, <1>11

LEMMA PartJoin ==
  ASSUME NEW m \in Messages, NEW a \in Nat, NEW b \in Nat, NEW c \in Nat,
         a <= b, b <= c, c <= FrameLen
  PROVE  Part(m, a, b) \o Part(m, b, c) = Part(m, a, c)
<1>1. FrameLen \in Nat /\ a <= c /\ b <= FrameLen
  BY Numbers
<1>2. PICK s : s = Part(m, a, b)
  OBVIOUS
<1>3. PICK t : t = Part(m, b, c)
  OBVIOUS
<1>4. PICK u : u = Part(m, a, c)
  OBVIOUS
<1>5. s \in Seq(Pieces) /\ Len(s) = b - a /\ \A p \in 1..(b - a) : s[p] = <<m, a + p>>
  <2>1. s \in Seq(Pieces) /\ Len(s) = b - a
    BY <1>1, <1>2, PartSeq
  <2>2. \A p \in 1..(b - a) : s[p] = <<m, a + p>>
    BY <1>1, <1>2, PartPieces
  <2> QED  BY <2>1, <2>2
<1>6. t \in Seq(Pieces) /\ Len(t) = c - b /\ \A p \in 1..(c - b) : t[p] = <<m, b + p>>
  <2>1. t \in Seq(Pieces) /\ Len(t) = c - b
    BY <1>1, <1>3, PartSeq
  <2>2. \A p \in 1..(c - b) : t[p] = <<m, b + p>>
    BY <1>1, <1>3, PartPieces
  <2> QED  BY <2>1, <2>2
<1>7. u \in Seq(Pieces) /\ Len(u) = c - a /\ \A p \in 1..(c - a) : u[p] = <<m, a + p>>
  <2>1. u \in Seq(Pieces) /\ Len(u) = c - a
    BY <1>1, <1>4, PartSeq
  <2>2. \A p \in 1..(c - a) : u[p] = <<m, a + p>>
    BY <1>1, <1>4, PartPieces
  <2> QED  BY <2>1, <2>2
<1>8. /\ s \o t \in Seq(Pieces) /\ Len(s \o t) = c - a
      /\ \A p \in 1..(c - a) : (s \o t)[p] = IF p <= b - a THEN s[p] ELSE t[p - (b - a)]
  <2>1. /\ s \o t \in Seq(Pieces) /\ Len(s \o t) = Len(s) + Len(t)
        /\ \A p \in 1..(Len(s) + Len(t)) : (s \o t)[p] = IF p <= Len(s) THEN s[p] ELSE t[p - Len(s)]
    BY <1>5, <1>6, ConcatProperties
  <2>2. (b - a) + (c - b) = c - a
    OBVIOUS
  <2> QED  BY <1>5, <1>6, <2>1, <2>2
<1>9. \A p \in 1..(c - a) : (s \o t)[p] = u[p]
  <2> TAKE p \in 1..(c - a)
  <2>1. u[p] = <<m, a + p>>
    BY <1>7
  <2>2. CASE p <= b - a
    <3>1. p \in 1..(b - a)
      BY <2>2
    <3> QED  BY <1>5, <1>8, <2>1, <2>2, <3>1
  <2>3. CASE ~(p <= b - a)
    <3>1. p - (b - a) \in 1..(c - b) /\ b + (p - (b - a)) = a + p
      BY <2>3
    <3>2. t[p - (b - a)] = <<m, b + (p - (b - a))>>
      BY <1>6, <3>1
    <3> QED  BY <1>8, <2>1, <2>3, <3>1, <3>2
  <2> QED  BY <2>2, <2>3
<1>10. s \o t = u
  BY <1>7, <1>8, <1>9, SeqEqual
<1> QED  BY <1>2, <1>3, <1>4, <1>10

LEMMA FrameIsPart == \A m : Frame(m) = Part(m, 0, FrameLen)
<1>1. FrameLen - 0 = FrameLen /\ \A p \in 1..FrameLen : 0 + p = p
  BY Numbers
<1> QED  BY <1>1 DEF Frame, Part

\* What recvMsg makes of the frame of m, and of its first pieces.
LEMMA Decoded ==
  ASSUME NEW m \in Messages
  PROVE  /\ Message(Part(m, 0, FrameLen)) = m
         /\ \A a \in HeaderLen..FrameLen : Length(SubSeq(Part(m, 0, a), 1, HeaderLen)) = BodyLen
<1>1. HeaderLen \in Nat \ {0} /\ FrameLen \in Nat \ {0} /\ HeaderLen <= FrameLen
  BY Numbers
<1>2. Message(Part(m, 0, FrameLen)) = m
  <2>1. Part(m, 0, FrameLen)[1] = <<m, 0 + 1>>
    BY <1>1 DEF Part
  <2> QED  BY <2>1, FrameIsPart DEF Message
<1>3. ASSUME NEW a \in HeaderLen..FrameLen
      PROVE  Length(SubSeq(Part(m, 0, a), 1, HeaderLen)) = BodyLen
  <2>1. SubSeq(Part(m, 0, a), 1, HeaderLen) = Part(m, 0, 0 + HeaderLen)
    BY <1>1, PartCut
  <2>2. SubSeq(Part(m, 0, FrameLen), 1, HeaderLen) = Part(m, 0, 0 + HeaderLen)
    BY <1>1, PartCut
  <2> QED  BY <2>1, <2>2, FrameIsPart DEF Length
<1> QED  BY <1>2, <1>3

-----------------------------------------------------------------------------
(* Types and shape *)

Labels == {"none", "connect", "connecting", "working", "request", "send", "writen", "recv",
           "header", "body", "answered", "ended", "done", "killed"}

TypeInv ==
  /\ cap \in Caps /\ cur \in 0..MaxConn /\ nonblock \in BOOLEAN
  /\ num \in Nat /\ task \in 0..Tasks /\ i \in 0..Exchanges
  /\ alive \in BOOLEAN /\ deaths \in 0..MaxDeaths
  /\ chan \in [Conns -> [Dirs -> Seq(Pieces)]]
  /\ sent \in [Conns -> [Dirs -> Seq(Messages)]]
  /\ delivered \in [Conns -> [Dirs -> Seq(Messages)]]
  /\ pc \in [Endpoints -> Labels]
  /\ fate \in [Endpoints -> {"none", "reset", "broken"}]
  /\ todo \in [Endpoints -> Seq(Pieces)] /\ got \in [Endpoints -> Seq(Pieces)]
  /\ res \in [Endpoints -> {0} \union Messages]

\* The requests made and those still to be made.
CountInv ==
  /\ num + i + task * Exchanges <= Tasks * Exchanges
  /\ pc[0] \in {"connect", "connecting", "working"} => i = 0
  /\ pc[0] \in {"send", "writen", "recv", "header", "body", "answered"} => num # 0

\* The client has a connection.
Attached == pc[0] \in {"connecting", "working", "request", "send", "writen", "recv", "header",
                       "body", "answered"}

\* Who has which connection open, and what has happened where one end is gone.
EndInv ==
  /\ served \subseteq srvEnd /\ srvEnd \subseteq 1..cur /\ cliEnd \subseteq 1..cur
  /\ Attached => cur \in cliEnd
  /\ pc[0] \in Labels \ {"none", "ended"}
  /\ nonblock => pc[0] = "connecting"
  /\ fate[0] # "none" => cur \notin srvEnd
  /\ \A k \in Conns :
       /\ k \in srvEnd => (pc[k] = "none" <=> k \notin served)
       /\ k \notin srvEnd => pc[k] \in {"none", "ended"}
       /\ k <= cur /\ (k \notin srvEnd \/ k \notin cliEnd) => k \in trouble
       /\ pc[k] = "ended" => k \in trouble
       /\ fate[k] # "none" => k \notin cliEnd
       /\ k > cur => /\ pc[k] = "none"
                     /\ \A d \in Dirs : chan[k][d] = <<>> /\ sent[k][d] = <<>> /\ delivered[k][d] = <<>>

-----------------------------------------------------------------------------
(* The phases of a connection *)

\* The last request made on a connection.
Current(k) == sent[k]["up"][Len(sent[k]["up"])]

Settled(k, d) == sent[k][d] = delivered[k][d]
Pending(k, d) == sent[k][d] = Append(delivered[k][d], Current(k))
Empty(k, d) == chan[k][d] = <<>>

\* What an endpoint that may be reading has read of the frame of m: a pieces.
HasRead(e, m, a) ==
  IF pc[e] \in {"header", "body"}
    THEN /\ got[e] = Part(m, 0, a)
         /\ IF pc[e] = "header" THEN a < HeaderLen ELSE HeaderLen <= a /\ a < FrameLen
    ELSE a = 0

\* The server's thread waits for a request, or finds out that there will be none.
Waits(k) ==
  \/ pc[k] \in {"none", "recv", "ended"}
  \/ pc[k] = "header" /\ got[k] = <<>> /\ k \notin cliEnd

\* No request is under way.
Calm(k) ==
  /\ Settled(k, "up") /\ Settled(k, "down") /\ Empty(k, "up") /\ Empty(k, "down")
  /\ Waits(k)

\* A request is on its way to the server: read, in the stream, still to be written.
Request1(k, a, b) ==
  /\ chan[k]["up"] = Part(Current(k), a, b)
  /\ HasRead(k, Current(k), a)
  /\ IF cur = k /\ pc[0] = "writen"
       THEN b < FrameLen /\ todo[0] = Part(Current(k), b, FrameLen)
       ELSE b = FrameLen

Asking(k) ==
  /\ Current(k) \in Messages
  /\ Pending(k, "up") /\ Settled(k, "down") /\ Empty(k, "down")
  /\ pc[k] \in {"none", "recv", "header", "body", "ended"}
  /\ k \in srvEnd => \E a \in 0..FrameLen : \E b \in a..FrameLen : Request1(k, a, b)

\* The server has it.
Asked(k) ==
  /\ Current(k) \in Messages
  /\ Settled(k, "up") /\ Settled(k, "down") /\ Empty(k, "up") /\ Empty(k, "down")
  /\ pc[k] = "send" /\ res[k] = Current(k)

\* The reply is on its way to the client, if that still reads.
Reading == pc[0] \in {"recv", "header", "body"}

Reply(k, a, b) ==
  /\ chan[k]["down"] = Part(Current(k), a, b)
  /\ HasRead(0, Current(k), a)
  /\ pc[k] = "writen" => b < FrameLen /\ todo[k] = Part(Current(k), b, FrameLen)

Answering(k) ==
  /\ Current(k) \in Messages
  /\ Settled(k, "up") /\ Pending(k, "down") /\ Empty(k, "up")
  /\ pc[k] = "writen" \/ (pc[k] # "none" /\ Waits(k))
  /\ cur = k /\ Reading => \E a \in 0..FrameLen : \E b \in a..FrameLen : Reply(k, a, b)

PhaseInv == \A k \in 1..cur : Calm(k) \/ Asking(k) \/ Asked(k) \/ Answering(k)

\* Where the client is in an exchange.
ClientInv ==
  /\ pc[0] \in {"connecting", "working", "request", "send"} => Calm(cur) /\ fate[0] # "broken"
  /\ pc[0] = "answered" /\ res[0] # 0 => Calm(cur) /\ fate[0] # "broken" /\ res[0] = num
  /\ pc[0] = "answered" /\ res[0] = 0 => cur \in trouble
  /\ pc[0] = "writen" => /\ Asking(cur) /\ Current(cur) = num
                         /\ Roomy => fate[0] # "broken"
  /\ Reading => /\ Current(cur) = num
                /\ Settled(cur, "down") => pc[0] # "body" /\ (pc[0] = "header" => got[0] = <<>>)
                /\ fate[0] = "broken" => Asking(cur)

\* What a thread of the server whose client is gone may still do.
FateInv ==
  \A k \in Conns :
    /\ fate[k] # "none" => Answering(k)
    /\ Roomy /\ pc[k] = "writen" => fate[k] # "broken"

SizeInv ==
  /\ \A k \in Conns, d \in Dirs : Len(chan[k][d]) <= cap
  /\ \A e \in Endpoints : Len(todo[e]) <= FrameLen /\ Len(got[e]) <= FrameLen

EchoInv == TypeInv /\ CountInv /\ EndInv /\ PhaseInv /\ ClientInv /\ FateInv /\ SizeInv

-----------------------------------------------------------------------------
(* What the invariant says of a step's guard *)

LEMMA ClientEnd ==
  ASSUME TypeInv, EndInv, Attached
  PROVE  /\ cur \in Conns /\ Conn(0) = cur /\ cur \in cliEnd
         /\ PeerGone(0) <=> cur \notin srvEnd
<1>1. cur \in Conns
  BY Numbers DEF EndInv, TypeInv
<1> QED  BY <1>1 DEF EndInv, Conn, PeerGone

LEMMA ServerEnd ==
  ASSUME TypeInv, EndInv, NEW k \in Conns
  PROVE  /\ Conn(k) = k /\ k # 0 /\ Out(k) = "down" /\ In(k) = "up"
         /\ PeerGone(k) <=> k \notin cliEnd
         /\ pc[k] # "none" => k \in 1..cur
         /\ pc[k] \notin {"none", "ended"} => k \in srvEnd
<1>1. k # 0 /\ Conn(k) = k /\ Out(k) = "down" /\ In(k) = "up"
  BY Numbers DEF Conn, Out, In
<1>2. PeerGone(k) <=> k \notin cliEnd
  BY <1>1 DEF PeerGone, EndInv
<1>3. pc[k] # "none" => k \in 1..cur
  BY Numbers DEF EndInv, TypeInv
<1>4. pc[k] \notin {"none", "ended"} => k \in srvEnd
  BY DEF EndInv
<1> QED  BY <1>1, <1>2, <1>3, <1>4

LEMMA AppendDiffers == \A S : \A s \in Seq(S) : \A x : Append(s, x) # s
<1> SUFFICES ASSUME NEW S, NEW s \in Seq(S), NEW x PROVE Append(s, x) # s
  OBVIOUS
<1>1. Len(Append(s, x)) = Len(s) + 1 /\ Len(s) \in Nat
  OBVIOUS
<1> QED  BY <1>1

LEMMA Exclusive ==
  ASSUME TypeInv, NEW k \in Conns, NEW d \in Dirs
  PROVE  ~(Settled(k, d) /\ Pending(k, d))
<1>1. delivered[k][d] \in Seq(Messages)
  BY DEF TypeInv
<1> QED  BY <1>1, AppendDiffers DEF Settled, Pending

LEMMA OnePhase ==
  ASSUME TypeInv, NEW k \in Conns
  PROVE  /\ Asking(k) => ~Calm(k) /\ ~Asked(k) /\ ~Answering(k)
         /\ Answering(k) => ~Calm(k) /\ ~Asked(k) /\ ~Asking(k)
         /\ Asked(k) => ~Calm(k)
<1>1. "up" \in Dirs /\ "down" \in Dirs
  BY DEF Dirs
<1>2. ~(Settled(k, "up") /\ Pending(k, "up")) /\ ~(Settled(k, "down") /\ Pending(k, "down"))
  BY <1>1, Exclusive
<1> QED  BY <1>2 DEF Calm, Asking, Asked, Answering, Waits

\* What tells the phase of a connection.
LEMMA PhaseOf ==
  ASSUME TypeInv, EndInv, PhaseInv, NEW k \in Conns
  PROVE  /\ pc[k] = "send" => Asked(k)
         /\ pc[k] = "writen" => Answering(k)
         /\ pc[k] = "body" => Asking(k)
         /\ k \in 1..cur /\ chan[k]["up"] # <<>> => Asking(k)
         /\ k \in 1..cur /\ chan[k]["down"] # <<>> => Answering(k)
         /\ pc[k] = "recv" => Calm(k) \/ Asking(k) \/ Answering(k)
         /\ pc[k] = "header" => \/ Calm(k) /\ k \notin cliEnd
                                \/ Asking(k)
                                \/ Answering(k) /\ k \notin cliEnd
<1>1. pc[k] # "none" => k \in 1..cur
  BY ServerEnd
<1>2. k \in 1..cur => Calm(k) \/ Asking(k) \/ Asked(k) \/ Answering(k)
  BY DEF PhaseInv
<1> QED  BY <1>1, <1>2 DEF Calm, Asking, Asked, Answering, Waits, Empty

-----------------------------------------------------------------------------
(* What a step leaves alone *)

\* A step that leaves a connection and its server end alone, but for an end that goes away.
Same(k) ==
  /\ sent'[k] = sent[k] /\ delivered'[k] = delivered[k] /\ chan'[k] = chan[k]
  /\ pc'[k] = pc[k] /\ todo'[k] = todo[k] /\ got'[k] = got[k] /\ res'[k] = res[k]
  /\ k \in srvEnd' => k \in srvEnd
  /\ k \in cliEnd' => k \in cliEnd

\* The client writes to the connection before the step and after it, or neither.
SameWriter(k) ==
  \/ (k # cur \/ pc[0] # "writen") /\ (k # cur' \/ pc'[0] # "writen")
  \/ cur' = cur /\ pc'[0] = pc[0] /\ todo'[0] = todo[0]

\* If it reads from it after the step, then as it did before.
SameReader(k) ==
  \/ k # cur'
  \/ pc'[0] \notin {"recv", "header", "body"}
  \/ cur' = cur /\ pc'[0] = pc[0] /\ got'[0] = got[0]

LEMMA CalmKept == ASSUME NEW k, Same(k), Calm(k) PROVE Calm(k)'
BY DEF Same, Calm, Settled, Empty, Waits

LEMMA AskedKept == ASSUME NEW k, Same(k), Asked(k) PROVE Asked(k)'
BY DEF Same, Asked, Settled, Empty, Current

LEMMA AskingKept == ASSUME NEW k, Same(k), SameWriter(k), Asking(k) PROVE Asking(k)'
<1>1. Current(k)' = Current(k)
  BY DEF Same, Current
<1>2. ASSUME k \in srvEnd', NEW a \in 0..FrameLen, NEW b \in a..FrameLen, Request1(k, a, b)
      PROVE  Request1(k, a, b)'
  <2>1. HasRead(k, Current(k), a)' <=> HasRead(k, Current(k), a)
    BY <1>1 DEF Same, HasRead
  <2> QED  BY <1>1, <1>2, <2>1 DEF Same, SameWriter, Request1
<1> QED  BY <1>1, <1>2 DEF Same, Asking, Pending, Settled, Empty

LEMMA AnsweringKept == ASSUME NEW k, Same(k), SameReader(k), Answering(k) PROVE Answering(k)'
<1>1. Current(k)' = Current(k)
  BY DEF Same, Current
<1>2. ASSUME cur' = k, Reading', NEW a \in 0..FrameLen, NEW b \in a..FrameLen, Reply(k, a, b)
      PROVE  Reply(k, a, b)'
  <2>1. pc'[0] = pc[0] /\ got'[0] = got[0]
    BY <1>2 DEF SameReader, Reading
  <2>2. HasRead(0, Current(k), a)' <=> HasRead(0, Current(k), a)
    BY <1>1, <2>1 DEF HasRead
  <2> QED  BY <1>1, <1>2, <2>2 DEF Same, Reply
<1>3. cur' = k /\ Reading' => cur = k /\ Reading
  BY DEF SameReader, Reading
<1> QED  BY <1>1, <1>2, <1>3 DEF Same, Answering, Pending, Settled, Empty, Waits

-----------------------------------------------------------------------------
(* What the reads and writes of an endpoint do *)

LEMMA NumRange ==
  ASSUME TypeInv, CountInv
  PROVE  num \in {0} \union Messages
<1>1. /\ task \in Nat /\ i \in Nat /\ num \in Nat /\ Exchanges \in Nat
  BY Numbers DEF TypeInv
<1>2. task * Exchanges \in Nat
  BY <1>1
<1>3. num + i + task * Exchanges <= Tasks * Exchanges /\ Tasks * Exchanges \in Nat
  BY Numbers DEF CountInv
<1> QED  BY <1>1, <1>2, <1>3 DEF Messages

\* What is sent is a message.
LEMMA OutgoesMessage ==
  ASSUME TypeInv, CountInv, EndInv, PhaseInv, NEW e \in Endpoints, pc[e] = "send"
  PROVE  Outgoes(e) \in Messages /\ (e = 0 => Outgoes(e) = num) /\ (e # 0 => Outgoes(e) = Current(e))
<1>1. CASE e = 0
  BY <1>1, NumRange DEF CountInv, Outgoes
<1>2. CASE e # 0
  <2>1. e \in Conns
    BY <1>2, Numbers
  <2> QED  BY <1>2, <2>1, PhaseOf DEF Asked, Outgoes
<1> QED  BY <1>1, <1>2

\* An endpoint that is in a call of TcpSocket has a connection.
LEMMA Connection ==
  ASSUME TypeInv, EndInv, NEW e \in Endpoints, pc[e] \in {"send", "writen", "recv", "header", "body"}
  PROVE  /\ Conn(e) \in Conns /\ Conn(e) \in 1..cur
         /\ Out(e) \in Dirs /\ In(e) \in Dirs /\ Out(e) # In(e)
         /\ e # 0 => e \in Conns
         /\ e = 0 => Attached
<1>1. CASE e = 0
  <2>1. Attached
    BY <1>1 DEF Attached
  <2> QED  BY <1>1, <2>1, ClientEnd DEF Out, In, Dirs, EndInv
<1>2. CASE e # 0
  <2>1. e \in Conns
    BY <1>2, Numbers
  <2> QED  BY <1>2, <2>1, ServerEnd DEF Dirs
<1> QED  BY <1>1, <1>2

\* Only an endpoint's own variables and those of its connection change.
Alone(e) ==
  /\ cap' = cap /\ UNCHANGED proc /\ UNCHANGED client
  /\ cliEnd' = cliEnd /\ srvEnd' = srvEnd /\ served' = served /\ trouble \subseteq trouble'
  /\ \A x \in Endpoints \ {e} : /\ pc'[x] = pc[x] /\ todo'[x] = todo[x] /\ got'[x] = got[x]
                                /\ res'[x] = res[x] /\ fate'[x] = fate[x]
  /\ \A k \in Conns \ {Conn(e)} : chan'[k] = chan[k] /\ sent'[k] = sent[k] /\ delivered'[k] = delivered[k]

Calls(e) == \/ SendMsg(e) \/ Writen(e) \/ WritenFails(e)
            \/ RecvMsg(e) \/ ReadTimeout(e) \/ Readn(e) \/ ReadnFails(e)

LEMMA CallAlone ==
  ASSUME TypeInv, NEW e \in Endpoints, Calls(e)
  PROVE  Alone(e) /\ pc[e] \in {"send", "writen", "recv", "header", "body"}
<1> USE DEF Alone, TypeInv, net, proc, client, io, Goto
<1>1. CASE SendMsg(e)
  BY <1>1 DEF SendMsg
<1>2. CASE Writen(e)
  BY <1>2 DEF Writen
<1>3. CASE WritenFails(e)
  BY <1>3 DEF WritenFails, Spend
<1>4. CASE RecvMsg(e)
  BY <1>4 DEF RecvMsg
<1>5. CASE ReadTimeout(e)
  BY <1>5 DEF ReadTimeout, Return
<1>6. CASE Readn(e)
  <2>1. /\ pc[e] \in {"header", "body"}
        /\ UNCHANGED <<cap, cliEnd, srvEnd, served, fate, trouble, proc, client, todo, sent>>
    BY <1>6 DEF Readn
  <2>2. \A x \in Endpoints \ {e} : pc'[x] = pc[x] /\ got'[x] = got[x] /\ res'[x] = res[x]
    BY <1>6 DEF Readn, Return
  <2>3. \A k \in Conns \ {Conn(e)} : chan'[k] = chan[k]
    BY <1>6 DEF Readn
  <2>4. \A k \in Conns \ {Conn(e)} : delivered'[k] = delivered[k]
    BY <1>6 DEF Readn, Return
  <2> QED  BY <2>1, <2>2, <2>3, <2>4
<1>7. CASE ReadnFails(e)
  BY <1>7 DEF ReadnFails, Return, Spend
<1> QED  BY <1>1, <1>2, <1>3, <1>4, <1>5, <1>6, <1>7 DEF Calls

\* One read, when what is in the stream belongs to the frame of m.
LEMMA ReadnParts ==
  ASSUME TypeInv, NEW e \in Endpoints, Conn(e) \in Conns, In(e) \in Dirs, NEW m \in Messages,
         NEW a \in 0..FrameLen, NEW b \in a..FrameLen,
         Incoming(e) = Part(m, a, b), HasRead(e, m, a), Readn(e)
  PROVE  \E n \in 1..(b - a) :
           /\ chan' = [chan EXCEPT ![Conn(e)][In(e)] = Part(m, a + n, b)]
           /\ \/ /\ a + n < FrameLen /\ HasRead(e, m, a + n)' /\ pc'[e] \in {"header", "body"}
                 /\ got' = [got EXCEPT ![e] = Part(m, 0, a + n)]
                 /\ pc' = [pc EXCEPT ![e] = pc'[e]]
                 /\ UNCHANGED <<res, delivered>>
              \/ a + n = FrameLen /\ b = FrameLen /\ Return(e, m)
<1>1. /\ a \in Nat /\ b \in Nat /\ a <= b /\ b <= FrameLen /\ FrameLen \in Nat
      /\ HeaderLen \in Nat \ {0} /\ BodyLen \in Nat \ {0} /\ FrameLen = HeaderLen + BodyLen
  BY Numbers
<1>2. pc[e] \in {"header", "body"} /\ got[e] = Part(m, 0, a)
      /\ (pc[e] = "header" => a < HeaderLen)
      /\ (pc[e] = "body" => a \in HeaderLen..FrameLen /\ a < FrameLen)
  BY <1>1 DEF HasRead, Readn
<1>3. Len(Part(m, a, b)) = b - a
  BY <1>1, PartSeq
<1>4. PICK n \in 1..(b - a) :
        /\ Len(got[e] \o SubSeq(Part(m, a, b), 1, n)) <= Wanted(e)
        /\ chan' = [chan EXCEPT ![Conn(e)][In(e)] = SubSeq(@, n + 1, Len(@))]
        /\ IF Len(got[e] \o SubSeq(Part(m, a, b), 1, n)) < Wanted(e) \/ pc[e] = "header"
             THEN /\ got' = [got EXCEPT ![e] = got[e] \o SubSeq(Part(m, a, b), 1, n)]
                  /\ Goto(e, IF Len(got[e] \o SubSeq(Part(m, a, b), 1, n)) < Wanted(e)
                               THEN pc[e] ELSE "body")
                  /\ UNCHANGED <<res, delivered>>
             ELSE Return(e, Message(got[e] \o SubSeq(Part(m, a, b), 1, n)))
  BY <1>3 DEF Readn
<1>5. /\ n \in 0..(b - a) /\ a + n \in Nat /\ 0 <= a /\ a <= a + n /\ a + n <= b /\ a + n <= FrameLen
      /\ (a + n) - 0 = a + n
  BY <1>1
<1>6. got[e] \o SubSeq(Part(m, a, b), 1, n) = Part(m, 0, a + n)
  <2>1. SubSeq(Part(m, a, b), 1, n) = Part(m, a, a + n)
    <3>1. a \in Nat /\ b \in Nat /\ a <= b /\ b <= FrameLen /\ n \in 0..(b - a)
      BY <1>1
    <3> QED  BY <3>1, PartCut
  <2>2. PICK c \in Nat : c = a + n
    BY <1>5
  <2>3. 0 \in Nat /\ 0 <= a /\ a <= c /\ c <= FrameLen
    BY <1>5, <2>2
  <2>4. Part(m, 0, a) \o Part(m, a, c) = Part(m, 0, c)
    <3>1. 0 \in Nat /\ a \in Nat /\ c \in Nat /\ 0 <= a /\ a <= c /\ c <= FrameLen
      BY <1>1, <2>3
    <3> QED  BY <3>1, PartJoin
  <2> QED  BY <1>2, <2>1, <2>2, <2>4
<1>7. Len(Part(m, 0, a + n)) = a + n
  BY <1>1, <1>5, PartSeq
<1>8. Wanted(e) = IF pc[e] = "header" THEN HeaderLen ELSE FrameLen
  <2>1. CASE pc[e] = "header"
    BY <2>1 DEF Wanted
  <2>2. CASE pc[e] = "body"
    BY <1>1, <1>2, <2>2, Decoded DEF Wanted
  <2> QED  BY <1>2, <2>1, <2>2
<1>9. chan' = [chan EXCEPT ![Conn(e)][In(e)] = Part(m, a + n, b)]
  <2>1. SubSeq(Part(m, a, b), n + 1, b - a) = Part(m, a + n, b)
    <3>1. a \in Nat /\ b \in Nat /\ a <= b /\ b <= FrameLen /\ n \in 0..(b - a)
      BY <1>1
    <3> QED  BY <3>1, PartCut
  <2>2. chan[Conn(e)][In(e)] = Part(m, a, b)
    BY DEF Incoming
  <2> QED  BY <1>3, <1>4, <2>1, <2>2
<1>10. CASE a + n < Wanted(e) \/ pc[e] = "header"
  <2>1. /\ got' = [got EXCEPT ![e] = Part(m, 0, a + n)]
        /\ pc' = [pc EXCEPT ![e] = IF a + n < Wanted(e) THEN pc[e] ELSE "body"]
        /\ UNCHANGED <<res, delivered>>
    BY <1>4, <1>6, <1>7, <1>10 DEF Goto
  <2>2. /\ got'[e] = Part(m, 0, a + n)
        /\ pc'[e] = IF a + n < Wanted(e) THEN pc[e] ELSE "body"
    BY <2>1 DEF TypeInv
  <2>3. a + n <= Wanted(e)
    BY <1>4, <1>6, <1>7
  <2>4. a + n < FrameLen
    BY <1>1, <1>8, <1>10, <2>3
  <2>5. HasRead(e, m, a + n)' /\ pc'[e] \in {"header", "body"}
    BY <1>1, <1>2, <1>8, <2>2, <2>3, <2>4 DEF HasRead
  <2>6. pc' = [pc EXCEPT ![e] = pc'[e]]
    BY <2>1, <2>2
  <2> QED  BY <1>9, <2>1, <2>4, <2>5, <2>6
<1>11. CASE ~(a + n < Wanted(e) \/ pc[e] = "header")
  <2>1. Return(e, Message(Part(m, 0, a + n)))
    BY <1>4, <1>6, <1>7, <1>11
  <2>2. a + n = FrameLen /\ b = FrameLen
    BY <1>1, <1>5, <1>8, <1>11
  <2>3. Message(Part(m, 0, a + n)) = m
    BY <2>2, Decoded
  <2> QED  BY <1>9, <2>1, <2>2, <2>3
<1> QED  BY <1>10, <1>11

\* Who reads something reads from the frame of the last request made on the connection.
LEMMA ReadsCurrent ==
  ASSUME TypeInv, EndInv, PhaseInv, NEW e \in Endpoints, Readn(e)
  PROVE  /\ Current(Conn(e)) \in Messages
         /\ e = 0 => Answering(Conn(e))
         /\ e # 0 => Asking(Conn(e))
         /\ \E a \in 0..FrameLen : \E b \in a..FrameLen :
              /\ Incoming(e) = Part(Current(Conn(e)), a, b)
              /\ HasRead(e, Current(Conn(e)), a)
              /\ e = 0 => Reply(Conn(e), a, b)
              /\ e # 0 => Request1(Conn(e), a, b)
<1>1. pc[e] \in {"header", "body"} /\ Incoming(e) # <<>>
  BY DEF Readn
<1>2. CASE e = 0
  <2>1. cur \in Conns /\ cur \in 1..cur /\ Conn(e) = cur /\ In(e) = "down"
    BY <1>1, <1>2, Connection DEF Conn, In
  <2>2. Answering(cur)
    BY <1>1, <2>1, PhaseOf DEF Incoming
  <2>3. \E a \in 0..FrameLen : \E b \in a..FrameLen : Reply(cur, a, b)
    BY <1>1, <1>2, <2>2 DEF Answering, Reading
  <2> QED  BY <1>2, <2>1, <2>2, <2>3 DEF Answering, Reply, Incoming
<1>3. CASE e # 0
  <2>1. e \in Conns /\ Conn(e) = e /\ e \in 1..cur /\ In(e) = "up" /\ e \in srvEnd
    BY <1>1, <1>3, Connection, ServerEnd
  <2>2. Asking(e)
    BY <1>1, <2>1, PhaseOf DEF Incoming
  <2>3. \E a \in 0..FrameLen : \E b \in a..FrameLen : Request1(e, a, b)
    BY <2>1, <2>2 DEF Asking
  <2> QED  BY <1>3, <2>1, <2>2, <2>3 DEF Asking, Request1, Incoming
<1> QED  BY <1>2, <1>3

LEMMA SeqCut ==
  ASSUME NEW S, NEW s \in Seq(S), NEW n \in 0..Len(s)
  PROVE  /\ SubSeq(s, 1, n) \in Seq(S) /\ Len(SubSeq(s, 1, n)) = n
         /\ SubSeq(s, n + 1, Len(s)) \in Seq(S) /\ Len(SubSeq(s, n + 1, Len(s))) = Len(s) - n
<1>1. \A p \in 1..Len(s) : s[p] \in S
  BY ElementOfSeq
<1> QED  BY <1>1

LEMMA ReturnTypes ==
  ASSUME TypeInv, NEW e \in Endpoints, Conn(e) \in Conns, In(e) \in Dirs,
         NEW m \in {0} \union Messages, Return(e, m)
  PROVE  /\ res' \in [Endpoints -> {0} \union Messages] /\ pc' \in [Endpoints -> Labels]
         /\ got' \in [Endpoints -> Seq(Pieces)]
         /\ \A x \in Endpoints : Len(got[x]) <= FrameLen => Len(got'[x]) <= FrameLen
         /\ delivered' \in [Conns -> [Dirs -> Seq(Messages)]]
<1>1. /\ got' \in [Endpoints -> Seq(Pieces)]
      /\ \A x \in Endpoints : Len(got[x]) <= FrameLen => Len(got'[x]) <= FrameLen
  <2>1. <<>> \in Seq(Pieces) /\ Len(<<>>) = 0 /\ FrameLen \in Nat
    BY Numbers
  <2>2. got' = [got EXCEPT ![e] = <<>>] /\ got \in [Endpoints -> Seq(Pieces)]
    BY DEF TypeInv, Return
  <2>3. got' \in [Endpoints -> Seq(Pieces)]
    BY <2>1, <2>2
  <2>4. \A x \in Endpoints : got'[x] = got[x] \/ got'[x] = <<>>
    BY <2>2
  <2> QED  BY <2>1, <2>3, <2>4
<1>2. delivered' \in [Conns -> [Dirs -> Seq(Messages)]]
  <2>1. CASE m = 0
    BY <2>1 DEF TypeInv, Return
  <2>2. CASE m # 0
    <3>1. delivered' = [delivered EXCEPT ![Conn(e)][In(e)] = Append(@, m)]
      BY <2>2 DEF Return
    <3>2. Append(delivered[Conn(e)][In(e)], m) \in Seq(Messages)
      BY <2>2 DEF TypeInv
    <3> QED  BY <3>1, <3>2 DEF TypeInv
  <2> QED  BY <2>1, <2>2
<1> QED  BY <1>1, <1>2 DEF TypeInv, Return, Goto, Labels

\* The kernel holds no more than a stream's capacity, and a program no more than a frame.
LEMMA CallTypes ==
  ASSUME EchoInv, NEW e \in Endpoints, Calls(e)
  PROVE  TypeInv' /\ SizeInv'
<1> DEFINE k == Conn(e)
<1>1. /\ TypeInv /\ CountInv /\ EndInv /\ PhaseInv /\ SizeInv
      /\ Alone(e) /\ pc[e] \in {"send", "writen", "recv", "header", "body"}
  BY CallAlone DEF EchoInv
<1>2. k \in Conns /\ Out(e) \in Dirs /\ In(e) \in Dirs
  BY <1>1, Connection
<1>3. /\ cap' \in Caps /\ cur' \in 0..MaxConn /\ nonblock' \in BOOLEAN
      /\ num' \in Nat /\ task' \in 0..Tasks /\ i' \in 0..Exchanges
      /\ alive' \in BOOLEAN /\ deaths' \in 0..MaxDeaths /\ cap' = cap
  BY <1>1 DEF Alone, TypeInv, proc, client
<1>4. cap \in Nat /\ FrameLen \in Nat /\ \A j \in Conns, d \in Dirs : Len(chan[j][d]) \in Nat
  BY <1>1, Numbers, TcpAssumption DEF TypeInv
<1> DEFINE Streams ==
  /\ chan' \in [Conns -> [Dirs -> Seq(Pieces)]]
  /\ sent' \in [Conns -> [Dirs -> Seq(Messages)]]
  /\ \A j \in Conns, d \in Dirs : Len(chan'[j][d]) <= cap
<1> DEFINE Buffers ==
  /\ pc' \in [Endpoints -> Labels]
  /\ fate' \in [Endpoints -> {"none", "reset", "broken"}]
  /\ todo' \in [Endpoints -> Seq(Pieces)] /\ got' \in [Endpoints -> Seq(Pieces)]
  /\ delivered' \in [Conns -> [Dirs -> Seq(Messages)]]
  /\ res' \in [Endpoints -> {0} \union Messages]
  /\ \A x \in Endpoints : Len(todo'[x]) <= FrameLen /\ Len(got'[x]) <= FrameLen
<1>5. Streams /\ Buffers => TypeInv' /\ SizeInv'
  BY <1>3 DEF TypeInv, SizeInv, Dirs
<1>6. chan' = chan /\ sent' = sent => Streams
  BY <1>1 DEF TypeInv, SizeInv, Dirs
<1> USE DEF TypeInv, SizeInv, Goto, Labels, net, io
<1>7. CASE SendMsg(e)
  <2>1. Outgoes(e) \in Messages
    BY <1>1, <1>7, OutgoesMessage DEF SendMsg
  <2>2. Frame(Outgoes(e)) \in Seq(Pieces) /\ Len(Frame(Outgoes(e))) = FrameLen
    <3>1. 0 \in Nat /\ 0 <= FrameLen /\ FrameLen <= FrameLen /\ FrameLen - 0 = FrameLen
      BY <1>4
    <3>2. /\ Part(Outgoes(e), 0, FrameLen) \in Seq(Pieces)
          /\ Len(Part(Outgoes(e), 0, FrameLen)) = FrameLen - 0
      BY <1>4, <2>1, <3>1, PartSeq
    <3> QED  BY <3>1, <3>2, FrameIsPart
  <2>3. Buffers
    BY <1>1, <1>4, <1>7, <2>2 DEF SendMsg
  <2>4. Streams
    <3>1. sent[k][Out(e)] \in Seq(Messages)
      BY <1>1, <1>2
    <3>2. Append(sent[k][Out(e)], Outgoes(e)) \in Seq(Messages)
      BY <2>1, <3>1
    <3>3. sent' \in [Conns -> [Dirs -> Seq(Messages)]]
      BY <1>1, <1>2, <1>7, <3>2 DEF SendMsg
    <3> QED  BY <1>1, <1>7, <3>3 DEF SendMsg, Dirs
  <2> QED  BY <1>5, <2>3, <2>4
<1>8. CASE Writen(e)
  <2>1. PICK n : n = (LET room == IF PeerGone(e) THEN cap ELSE cap - Len(Outgoing(e))
                      IN IF room < Len(todo[e]) THEN room ELSE Len(todo[e]))
    OBVIOUS
  <2>2. /\ n > 0 /\ todo' = [todo EXCEPT ![e] = SubSeq(@, n + 1, Len(@))]
        /\ IF PeerGone(e)
             THEN fate' = [fate EXCEPT ![e] = "broken"] /\ UNCHANGED chan
             ELSE /\ chan' = [chan EXCEPT ![Conn(e)][Out(e)] = @ \o SubSeq(todo[e], 1, n)]
                  /\ UNCHANGED fate
        /\ IF n = Len(todo[e]) THEN Goto(e, "recv") ELSE UNCHANGED pc
        /\ UNCHANGED <<got, res, sent, delivered>>
    BY <1>8, <2>1 DEF Writen
  <2>3. /\ Outgoing(e) \in Seq(Pieces) /\ Len(Outgoing(e)) <= cap /\ Len(Outgoing(e)) \in Nat
        /\ todo[e] \in Seq(Pieces) /\ Len(todo[e]) \in Nat
    BY <1>1, <1>2 DEF Outgoing, Dirs
  <2>4. n \in 0..Len(todo[e]) /\ (~PeerGone(e) => n <= cap - Len(Outgoing(e)))
    BY <1>4, <2>1, <2>2, <2>3
  <2>5. /\ SubSeq(todo[e], 1, n) \in Seq(Pieces) /\ Len(SubSeq(todo[e], 1, n)) = n
        /\ SubSeq(todo[e], n + 1, Len(todo[e])) \in Seq(Pieces)
        /\ Len(SubSeq(todo[e], n + 1, Len(todo[e]))) = Len(todo[e]) - n
    BY <2>3, <2>4, SeqCut
  <2>6. todo' \in [Endpoints -> Seq(Pieces)] /\ \A x \in Endpoints : Len(todo'[x]) <= FrameLen
    BY <1>1, <1>4, <2>2, <2>3, <2>4, <2>5
  <2>7. Buffers
    BY <1>1, <2>2, <2>6
  <2>8. Streams
    <3>1. CASE PeerGone(e)
      BY <1>6, <2>2, <3>1
    <3>2. CASE ~PeerGone(e)
      <4>1. /\ Outgoing(e) \o SubSeq(todo[e], 1, n) \in Seq(Pieces)
            /\ Len(Outgoing(e) \o SubSeq(todo[e], 1, n)) <= cap
        BY <1>4, <2>3, <2>4, <2>5, <3>2
      <4>2. chan' = [chan EXCEPT ![k][Out(e)] = Outgoing(e) \o SubSeq(todo[e], 1, n)]
        BY <2>2, <3>2 DEF Outgoing
      <4>3. chan' \in [Conns -> [Dirs -> Seq(Pieces)]]
        BY <1>1, <1>2, <4>1, <4>2
      <4>4. \A j \in Conns, d \in Dirs : Len(chan'[j][d]) <= cap
        BY <1>1, <1>2, <4>1, <4>2 DEF Dirs
      <4> QED  BY <1>1, <2>2, <4>3, <4>4
    <3> QED  BY <3>1, <3>2
  <2> QED  BY <1>5, <2>7, <2>8
<1>9. CASE WritenFails(e)
  <2>1. /\ todo' = [todo EXCEPT ![e] = <<>>] /\ <<>> \in Seq(Pieces) /\ Len(<<>>) <= FrameLen
        /\ pc' = [pc EXCEPT ![e] = "recv"]
        /\ fate' \in [Endpoints -> {"none", "reset", "broken"}]
        /\ UNCHANGED <<chan, sent, got, delivered, res>>
    BY <1>1, <1>4, <1>9 DEF WritenFails, Spend
  <2>2. todo' \in [Endpoints -> Seq(Pieces)] /\ \A x \in Endpoints : Len(todo'[x]) <= FrameLen
    BY <1>1, <2>1
  <2> QED  BY <1>1, <1>5, <1>6, <2>1, <2>2
<1>10. CASE RecvMsg(e)
  BY <1>1, <1>4, <1>5, <1>6, <1>10 DEF RecvMsg
<1>11. CASE ReadTimeout(e)
  BY <1>1, <1>2, <1>5, <1>6, <1>11, ReturnTypes DEF ReadTimeout
<1>12. CASE ReadnFails(e)
  <2>1. Return(e, 0) /\ fate' \in [Endpoints -> {"none", "reset", "broken"}]
        /\ UNCHANGED <<chan, sent, todo>>
    BY <1>1, <1>12 DEF ReadnFails, Spend
  <2> QED  BY <1>1, <1>2, <1>5, <1>6, <2>1, ReturnTypes
<1>13. CASE Readn(e)
  <2> PICK m \in Messages, a \in 0..FrameLen :
         \E b \in a..FrameLen : Incoming(e) = Part(m, a, b) /\ HasRead(e, m, a)
    BY <1>1, <1>13, ReadsCurrent
  <2>1. PICK b \in a..FrameLen : Incoming(e) = Part(m, a, b) /\ HasRead(e, m, a)
    OBVIOUS
  <2>2. PICK n \in 1..(b - a) :
           /\ chan' = [chan EXCEPT ![k][In(e)] = Part(m, a + n, b)]
           /\ \/ /\ a + n < FrameLen /\ HasRead(e, m, a + n)' /\ pc'[e] \in {"header", "body"}
                 /\ got' = [got EXCEPT ![e] = Part(m, 0, a + n)]
                 /\ pc' = [pc EXCEPT ![e] = pc'[e]]
                 /\ UNCHANGED <<res, delivered>>
              \/ a + n = FrameLen /\ b = FrameLen /\ Return(e, m)
    BY <1>1, <1>2, <1>13, <2>1, ReadnParts
  <2>3. PICK c \in Nat : c = a + n
    BY <1>4
  <2>4. c <= b /\ b <= FrameLen /\ c <= FrameLen /\ b \in Nat /\ a \in Nat /\ a <= b
    BY <1>4, <2>3
  <2>5. /\ Part(m, c, b) \in Seq(Pieces) /\ Len(Part(m, c, b)) = b - c
        /\ Part(m, a, b) \in Seq(Pieces) /\ Len(Part(m, a, b)) = b - a
        /\ Part(m, 0, c) \in Seq(Pieces) /\ Len(Part(m, 0, c)) = c - 0
    <3>1. Part(m, c, b) \in Seq(Pieces) /\ Len(Part(m, c, b)) = b - c
      BY <2>4, PartSeq
    <3>2. Part(m, a, b) \in Seq(Pieces) /\ Len(Part(m, a, b)) = b - a
      BY <2>4, PartSeq
    <3>3. 0 \in Nat /\ 0 <= c
      OBVIOUS
    <3>4. Part(m, 0, c) \in Seq(Pieces) /\ Len(Part(m, 0, c)) = c - 0
      BY <2>4, <3>3, PartSeq
    <3> QED  BY <3>1, <3>2, <3>4
  <2>6. Streams
    <3>1. Len(Part(m, a, b)) <= cap
      BY <1>1, <1>2, <2>1 DEF Incoming, Dirs
    <3>2. Len(Part(m, c, b)) <= cap
      BY <1>4, <2>3, <2>4, <2>5, <3>1
    <3>3. chan' = [chan EXCEPT ![k][In(e)] = Part(m, c, b)] /\ sent' = sent
      BY <1>13, <2>2, <2>3 DEF Readn
    <3>4. chan' \in [Conns -> [Dirs -> Seq(Pieces)]]
      BY <1>1, <1>2, <2>5, <3>3
    <3>5. \A j \in Conns, d \in Dirs : Len(chan'[j][d]) <= cap
      BY <1>1, <1>2, <3>2, <3>3 DEF Dirs
    <3> QED  BY <1>1, <3>3, <3>4, <3>5
  <2>7. todo' = todo /\ fate' = fate
    BY <1>13 DEF Readn
  <2>8. CASE Return(e, m)
    BY <1>1, <1>2, <1>5, <2>6, <2>7, <2>8, ReturnTypes
  <2>9. CASE /\ got' = [got EXCEPT ![e] = Part(m, 0, a + n)] /\ pc'[e] \in {"header", "body"}
             /\ pc' = [pc EXCEPT ![e] = pc'[e]] /\ UNCHANGED <<res, delivered>>
    <3>1. got' \in [Endpoints -> Seq(Pieces)] /\ \A x \in Endpoints : Len(got'[x]) <= FrameLen
      <4>1. PICK s \in Seq(Pieces) : s = Part(m, 0, c) /\ Len(s) <= FrameLen
        BY <1>4, <2>4, <2>5
      <4>2. got' = [got EXCEPT ![e] = s]
        BY <2>3, <2>9, <4>1
      <4>3. got \in [Endpoints -> Seq(Pieces)] /\ \A x \in Endpoints : Len(got[x]) <= FrameLen
        BY <1>1
      <4> QED  BY <4>1, <4>2, <4>3
    <3>2. pc' \in [Endpoints -> Labels]
      BY <1>1, <2>9
    <3> QED  BY <1>1, <1>5, <2>6, <2>7, <2>9, <3>1, <3>2
  <2> QED  BY <2>2, <2>8, <2>9
<1> QED  BY <1>7, <1>8, <1>9, <1>10, <1>11, <1>12, <1>13 DEF Calls

-----------------------------------------------------------------------------
(* The calls of the server's threads *)

\* What such a call has to keep of its own connection.
LocalStep(k) ==
  /\ pc'[k] # "none" /\ (pc'[k] = "ended" => k \in trouble') /\ (fate'[k] # "none" => k \notin cliEnd)
  /\ Calm(k)' \/ Asking(k)' \/ Asked(k)' \/ Answering(k)'
  /\ fate'[k] # "none" => Answering(k)'
  /\ Roomy /\ pc'[k] = "writen" => fate'[k] # "broken"
  /\ Calm(k) => Calm(k)'
  /\ cur = k /\ pc[0] = "writen" /\ Asking(k) => Asking(k)'
  /\ Settled(k, "down")' => Settled(k, "down")
  /\ Current(k)' = Current(k)

LEMMA OtherConnections ==
  ASSUME TypeInv, NEW k \in Conns, Alone(k), NEW j \in Conns \ {k}
  PROVE  Same(j) /\ SameWriter(j) /\ SameReader(j)
<1>1. j \in Endpoints \ {k} /\ 0 \in Endpoints \ {k} /\ Conn(k) = k
  BY Numbers DEF Conn
<1> QED  BY <1>1 DEF Alone, Same, SameWriter, SameReader, client

LEMMA ServerCall ==
  ASSUME EchoInv, NEW k \in Conns, Alone(k), LocalStep(k), pc[k] \notin {"none", "ended"}
  PROVE  CountInv' /\ EndInv' /\ PhaseInv' /\ ClientInv' /\ FateInv'
<1>1. TypeInv /\ CountInv /\ EndInv /\ PhaseInv /\ ClientInv /\ FateInv
  BY DEF EchoInv
<1>2. k # 0 /\ 0 \in Endpoints \ {k} /\ Conn(k) = k /\ k \in 1..cur /\ k \in srvEnd /\ k \in Endpoints
  BY <1>1, Numbers, ServerEnd
<1>3. /\ cap' = cap /\ cur' = cur /\ nonblock' = nonblock /\ num' = num /\ task' = task /\ i' = i
      /\ cliEnd' = cliEnd /\ srvEnd' = srvEnd /\ served' = served /\ trouble \subseteq trouble'
      /\ pc'[0] = pc[0] /\ todo'[0] = todo[0] /\ got'[0] = got[0] /\ res'[0] = res[0] /\ fate'[0] = fate[0]
  BY <1>2 DEF Alone, client
<1>4. \A j \in Conns \ {k} :
        /\ j \in Endpoints \ {k}
        /\ pc'[j] = pc[j] /\ fate'[j] = fate[j]
        /\ chan'[j] = chan[j] /\ sent'[j] = sent[j] /\ delivered'[j] = delivered[j]
        /\ Current(j)' = Current(j) /\ Settled(j, "down")' = Settled(j, "down")
        /\ Calm(j) => Calm(j)'
        /\ Asking(j) => Asking(j)'
        /\ Asked(j) => Asked(j)'
        /\ Answering(j) => Answering(j)'
  <2> TAKE j \in Conns \ {k}
  <2>1. Same(j) /\ SameWriter(j) /\ SameReader(j)
    BY <1>1, OtherConnections
  <2>2. j \in Endpoints \ {k}
    BY Numbers
  <2>3. /\ Calm(j) => Calm(j)'
        /\ Asking(j) => Asking(j)'
        /\ Asked(j) => Asked(j)'
        /\ Answering(j) => Answering(j)'
    BY <2>1, CalmKept, AskingKept, AskedKept, AnsweringKept
  <2>4. Current(j)' = Current(j) /\ Settled(j, "down")' = Settled(j, "down")
    BY <2>1 DEF Same, Current, Settled
  <2> QED  BY <1>2, <2>2, <2>3, <2>4 DEF Alone
<1>5. CountInv'
  BY <1>1, <1>3 DEF CountInv
<1>6. EndInv'
  <2>1. k \in trouble => k \in trouble'
    BY <1>3
  <2>2. ~(k > cur)
    BY <1>1, <1>2 DEF TypeInv
  <2> QED  BY <1>1, <1>2, <1>3, <1>4, <2>1, <2>2 DEF EndInv, Attached, LocalStep
<1>7. PhaseInv'
  <2> SUFFICES ASSUME NEW j \in 1..cur
               PROVE  Calm(j)' \/ Asking(j)' \/ Asked(j)' \/ Answering(j)'
    BY <1>3 DEF PhaseInv
  <2>1. j \in Conns
    BY <1>1, Numbers DEF TypeInv
  <2> QED  BY <1>1, <1>4, <2>1 DEF LocalStep, PhaseInv
<1>8. ClientInv'
  <2>1. CASE cur = k
    <3>1. fate[0] = "none"
      BY <1>1, <1>2, <2>1 DEF EndInv
    <3>2. Roomy' <=> Roomy
      BY <1>3 DEF Roomy
    <3> QED  BY <1>1, <1>3, <2>1, <3>1, <3>2 DEF ClientInv, LocalStep, Reading
  <2>2. CASE cur # k
    <3>1. Attached => cur \in Conns \ {k}
      BY <1>1, <2>2, ClientEnd
    <3>2. Roomy' <=> Roomy
      BY <1>3 DEF Roomy
    <3>3. CASE Attached
      <4>1. /\ Current(cur)' = Current(cur) /\ Settled(cur, "down")' = Settled(cur, "down")
            /\ Calm(cur) => Calm(cur)'
            /\ Asking(cur) => Asking(cur)'
        BY <1>3, <1>4, <3>1, <3>3
      <4> QED  BY <1>1, <1>3, <3>2, <4>1 DEF ClientInv, Reading
    <3>4. CASE ~Attached
      BY <1>3, <3>4 DEF ClientInv, Attached, Reading
    <3> QED  BY <3>3, <3>4
  <2> QED  BY <2>1, <2>2
<1>9. FateInv'
  <2>1. Roomy' <=> Roomy
    BY <1>3 DEF Roomy
  <2> QED  BY <1>1, <1>4, <2>1 DEF FateInv, LocalStep
<1> QED  BY <1>5, <1>6, <1>7, <1>8, <1>9

\* The server sends its answer.
LEMMA ServerSends ==
  ASSUME EchoInv, NEW k \in Conns, SendMsg(k)
  PROVE  LocalStep(k)
<1>1. TypeInv /\ EndInv /\ PhaseInv /\ FateInv /\ pc[k] = "send" /\ ClientInv
  BY DEF EchoInv, SendMsg
<1>2. /\ Conn(k) = k /\ Out(k) = "down" /\ k # 0 /\ k \in Endpoints
      /\ Outgoes(k) = res[k] /\ "up" \in Dirs /\ "down" \in Dirs
  BY <1>1, ServerEnd, Numbers DEF Outgoes, Dirs
<1>3. Asked(k) /\ ~Calm(k) /\ ~Asking(k) /\ ~Answering(k)
  BY <1>1, PhaseOf, OnePhase
<1>4. fate[k] = "none"
  BY <1>1, <1>3 DEF FateInv, TypeInv
<1>5. PICK m \in Messages : m = Current(k)
  BY <1>3 DEF Asked
<1>6. /\ todo'[k] = Part(m, 0, FrameLen) /\ pc'[k] = "writen" /\ fate' = fate /\ chan' = chan
      /\ delivered' = delivered /\ cur' = cur /\ pc'[0] = pc[0] /\ got'[0] = got[0]
      /\ cliEnd' = cliEnd
  BY <1>1, <1>2, <1>3, <1>5, FrameIsPart DEF SendMsg, Goto, TypeInv, Asked, net, client, io
<1>7. sent'[k]["up"] = sent[k]["up"] /\ sent'[k]["down"] = Append(sent[k]["down"], m)
  BY <1>1, <1>2, <1>3, <1>5 DEF SendMsg, TypeInv, Asked
<1>8. Current(k)' = m
  BY <1>5, <1>7 DEF Current
<1>9. Answering(k)'
  <2>1. Settled(k, "up")' /\ Pending(k, "down")' /\ Empty(k, "up")'
    BY <1>3, <1>6, <1>7, <1>8 DEF Asked, Settled, Pending, Empty
  <2>2. ASSUME cur' = k, Reading' PROVE Reply(k, 0, 0)'
    <3>1. cur = k /\ Reading
      BY <1>6, <2>2 DEF Reading
    <3>2. chan'[k]["down"] = Part(m, 0, 0) /\ <<>> = Part(m, 0, 0) /\ 0 < HeaderLen /\ 0 < FrameLen
      <4>1. 0 \in Nat /\ 0 <= 0 /\ 0 <= FrameLen /\ 0 < HeaderLen /\ 0 < FrameLen
        BY Numbers
      <4> QED  BY <1>3, <1>6, <4>1, PartSeq DEF Asked, Empty
    <3>3. HasRead(0, m, 0)'
      BY <1>1, <1>3, <1>6, <3>1, <3>2 DEF ClientInv, Reading, Asked, HasRead
    <3> QED  BY <1>6, <1>8, <3>2, <3>3 DEF Reply
  <2>3. 0 \in 0..FrameLen /\ 0 \in 0..0 /\ 0..0 \subseteq 0..FrameLen
    BY Numbers
  <2>4. cur' = k /\ Reading' => \E a \in 0..FrameLen : \E b \in a..FrameLen : Reply(k, a, b)'
    BY <2>2, <2>3
  <2> QED  BY <1>6, <1>8, <2>1, <2>4 DEF Answering
<1>10. ~Settled(k, "down")'
  <2>1. sent[k]["down"] \in Seq(Messages) /\ sent[k]["down"] = delivered[k]["down"]
    BY <1>1, <1>2, <1>3 DEF TypeInv, Asked, Settled
  <2> QED  BY <1>6, <1>7, <2>1, AppendDiffers DEF Settled
<1> QED  BY <1>3, <1>4, <1>5, <1>6, <1>8, <1>9, <1>10 DEF LocalStep

\* A call of the server that leaves the histories of its connection alone.
LEMMA SameHistory ==
  ASSUME NEW k, sent'[k] = sent[k], delivered'[k] = delivered[k]
  PROVE  /\ Current(k)' = Current(k)
         /\ \A d \in Dirs : (Settled(k, d)' <=> Settled(k, d)) /\ (Pending(k, d)' <=> Pending(k, d))
         /\ "up" \in Dirs /\ "down" \in Dirs
<1>1. Current(k)' = Current(k)
  BY DEF Current
<1> QED  BY <1>1 DEF Settled, Pending, Dirs

LEMMA ServerWrites ==
  ASSUME EchoInv, NEW k \in Conns, Writen(k)
  PROVE  LocalStep(k)
<1>1. TypeInv /\ EndInv /\ PhaseInv /\ FateInv /\ SizeInv /\ pc[k] = "writen" /\ fate[k] = "none"
  BY DEF EchoInv, Writen
<1>2. /\ Conn(k) = k /\ Out(k) = "down" /\ k # 0 /\ k \in Endpoints /\ "down" \in Dirs /\ "up" \in Dirs
      /\ PeerGone(k) <=> k \notin cliEnd
  BY <1>1, ServerEnd, Numbers DEF Dirs
<1>3. Answering(k) /\ ~Calm(k) /\ ~Asking(k) /\ ~Asked(k)
  BY <1>1, PhaseOf, OnePhase
<1>4. /\ sent' = sent /\ delivered' = delivered /\ cur' = cur /\ cliEnd' = cliEnd
      /\ pc'[0] = pc[0] /\ got'[0] = got[0] /\ got' = got
  BY <1>1, <1>2, Numbers DEF Writen, Goto, TypeInv, client
<1>5. PICK n : n = (LET room == IF PeerGone(k) THEN cap ELSE cap - Len(Outgoing(k))
                    IN IF room < Len(todo[k]) THEN room ELSE Len(todo[k]))
  OBVIOUS
<1>6. /\ n > 0 /\ todo'[k] = SubSeq(todo[k], n + 1, Len(todo[k]))
      /\ pc'[k] = IF n = Len(todo[k]) THEN "recv" ELSE "writen"
      /\ PeerGone(k) => fate'[k] = "broken" /\ chan' = chan
      /\ ~PeerGone(k) => /\ fate'[k] = "none"
                         /\ chan' = [chan EXCEPT ![k]["down"] = @ \o SubSeq(todo[k], 1, n)]
  BY <1>1, <1>2, <1>5 DEF Writen, Goto, TypeInv
<1>7. /\ cap \in Nat /\ Len(Outgoing(k)) \in Nat /\ Len(todo[k]) \in Nat /\ Len(todo[k]) <= FrameLen
      /\ FrameLen \in Nat
  <2>1. cap \in Nat /\ FrameLen \in Nat
    BY <1>1, Numbers, TcpAssumption DEF TypeInv
  <2>2. Outgoing(k) \in Seq(Pieces) /\ todo[k] \in Seq(Pieces) /\ Len(todo[k]) <= FrameLen
    BY <1>1, <1>2 DEF TypeInv, SizeInv, Outgoing
  <2> QED  BY <2>1, <2>2
<1>8. n \in 1..Len(todo[k])
  BY <1>5, <1>6, <1>7
<1>9. Roomy /\ PeerGone(k) => pc'[k] = "recv"
  BY <1>5, <1>6, <1>7 DEF Roomy
<1>10. /\ Current(k)' = Current(k) /\ Settled(k, "up") /\ Pending(k, "down") /\ Empty(k, "up")
       /\ Settled(k, "up")' /\ Pending(k, "down")' /\ ~Settled(k, "down")' /\ Current(k) \in Messages
  BY <1>1, <1>2, <1>3, <1>4, SameHistory, Exclusive DEF Answering, Settled, Pending
<1>11. Empty(k, "up")'
  BY <1>1, <1>2, <1>6, <1>10 DEF Empty, TypeInv
<1>12. Answering(k)'
  <2>1. pc'[k] = "writen" \/ (pc'[k] # "none" /\ Waits(k)')
    BY <1>6 DEF Waits
  <2>2. ASSUME cur' = k, Reading'
        PROVE  \E a \in 0..FrameLen : \E b \in a..FrameLen : Reply(k, a, b)'
    <3>1. cur = k /\ Reading
      BY <1>4, <2>2 DEF Reading
    <3>2. k \in cliEnd /\ ~PeerGone(k)
      BY <1>1, <1>2, <3>1 DEF EndInv, Attached, Reading
    <3>3. PICK a \in 0..FrameLen : \E b \in a..FrameLen : Reply(k, a, b)
      BY <1>3, <3>1 DEF Answering
    <3>4. PICK b \in a..FrameLen : Reply(k, a, b)
      BY <3>3
    <3>5. PICK m \in Messages : m = Current(k)
      BY <1>10
    <3>6. /\ chan[k]["down"] = Part(m, a, b) /\ HasRead(0, m, a)
          /\ b < FrameLen /\ todo[k] = Part(m, b, FrameLen)
      BY <1>1, <3>4, <3>5 DEF Reply
    <3>7. Len(todo[k]) = FrameLen - b /\ a \in Nat /\ b \in Nat /\ a <= b /\ b <= FrameLen
      <4>1. a \in Nat /\ b \in Nat /\ a <= b /\ b <= FrameLen /\ FrameLen <= FrameLen
        BY <1>7
      <4>2. Len(Part(m, b, FrameLen)) = FrameLen - b
        BY <1>7, <4>1, PartSeq
      <4> QED  BY <3>6, <4>1, <4>2
    <3>8. PICK c \in Nat : c = b + n
      BY <1>8, <3>7
    <3>9. c \in a..FrameLen /\ b <= c /\ c <= FrameLen /\ n \in 0..(FrameLen - b)
      BY <1>7, <1>8, <3>7, <3>8
    <3>10. /\ SubSeq(todo[k], 1, n) = Part(m, b, c)
           /\ todo'[k] = Part(m, c, FrameLen)
      <4>1. FrameLen <= FrameLen
        BY <1>7
      <4>2. /\ SubSeq(Part(m, b, FrameLen), 1, n) = Part(m, b, b + n)
            /\ SubSeq(Part(m, b, FrameLen), n + 1, FrameLen - b) = Part(m, b + n, FrameLen)
        <5>1. b \in Nat /\ FrameLen \in Nat /\ b <= FrameLen /\ FrameLen <= FrameLen
              /\ n \in 0..(FrameLen - b)
          BY <1>7, <3>7, <3>9, <4>1
        <5> QED  BY <5>1, PartCut
      <4> QED  BY <1>6, <3>6, <3>7, <3>8, <4>2
    <3>11. chan'[k]["down"] = Part(m, a, c)
      <4>1. Part(m, a, b) \o Part(m, b, c) = Part(m, a, c)
        BY <3>5, <3>7, <3>9, PartJoin
      <4>2. PICK x : x = chan[k]["down"] \o SubSeq(todo[k], 1, n)
        OBVIOUS
      <4>3. chan' = [chan EXCEPT ![k]["down"] = x]
        BY <1>6, <3>2, <4>2
      <4>4. chan'[k]["down"] = x
        BY <1>1, <1>2, <4>3 DEF TypeInv
      <4> QED  BY <3>6, <3>10, <4>1, <4>2, <4>4
    <3>12. pc'[k] = "writen" => c < FrameLen
      <4>1. n # FrameLen - b => c < FrameLen
        BY <1>7, <3>7, <3>8, <3>9
      <4> QED  BY <1>6, <3>7, <4>1
    <3>13. HasRead(0, m, a)'
      BY <1>4, <3>6 DEF HasRead
    <3>14. Reply(k, a, c)'
      BY <1>10, <3>5, <3>10, <3>11, <3>12, <3>13 DEF Reply
    <3> QED  BY <3>9, <3>14
  <2> QED  BY <1>10, <1>11, <2>1, <2>2 DEF Answering
<1> QED  BY <1>2, <1>3, <1>6, <1>9, <1>10, <1>12 DEF LocalStep

\* A call of the server's thread that neither reads nor writes.
Quiet(k) ==
  /\ sent'[k] = sent[k] /\ delivered'[k] = delivered[k] /\ chan'[k] = chan[k]
  /\ cur' = cur /\ cliEnd' = cliEnd /\ srvEnd' = srvEnd
  /\ pc'[0] = pc[0] /\ todo'[0] = todo[0] /\ got'[0] = got[0]

LEMMA QuietKeeps ==
  ASSUME NEW k, Quiet(k)
  PROVE  /\ Current(k)' = Current(k) /\ (Settled(k, "down")' <=> Settled(k, "down"))
         /\ Calm(k) /\ Waits(k)' => Calm(k)'
         /\ Answering(k) /\ pc'[k] # "none" /\ Waits(k)' => Answering(k)'
         /\ Asking(k) /\ pc'[k] \in {"recv", "header", "body", "ended"}
              /\ (\A a \in 0..FrameLen : HasRead(k, Current(k), a) => HasRead(k, Current(k), a)')
            => Asking(k)'
<1>1. Current(k)' = Current(k) /\ (Settled(k, "down")' <=> Settled(k, "down"))
  BY DEF Quiet, Current, Settled
<1>2. Calm(k) /\ Waits(k)' => Calm(k)'
  BY DEF Quiet, Calm, Settled, Empty
<1>3. ASSUME Answering(k), pc'[k] # "none", Waits(k)' PROVE Answering(k)'
  <2>1. pc'[k] # "writen" /\ (Reading' <=> Reading)
    BY <1>3 DEF Waits, Quiet, Reading
  <2>2. \A a \in 0..FrameLen : \A b \in a..FrameLen : Reply(k, a, b) => Reply(k, a, b)'
    BY <1>1, <2>1 DEF Quiet, Reply, HasRead
  <2> QED  BY <1>1, <1>3, <2>1, <2>2 DEF Quiet, Answering, Settled, Pending, Empty
<1>4. ASSUME Asking(k), pc'[k] \in {"recv", "header", "body", "ended"},
             \A a \in 0..FrameLen : HasRead(k, Current(k), a) => HasRead(k, Current(k), a)'
      PROVE  Asking(k)'
  <2>1. \A a \in 0..FrameLen : \A b \in a..FrameLen : Request1(k, a, b) => Request1(k, a, b)'
    BY <1>1, <1>4 DEF Quiet, Request1
  <2> QED  BY <1>1, <1>4, <2>1 DEF Quiet, Asking, Settled, Pending, Empty
<1> QED  BY <1>1, <1>2, <1>3, <1>4

LEMMA CallQuiet ==
  ASSUME TypeInv, NEW k \in Conns, WritenFails(k) \/ RecvMsg(k) \/ ReadTimeout(k) \/ ReadnFails(k)
  PROVE  Quiet(k)
<1>1. Calls(k)
  BY DEF Calls
<1>2. Alone(k) /\ k \in Endpoints
  BY <1>1, Numbers, CallAlone
<1>3. chan' = chan /\ sent' = sent /\ delivered' = delivered
  BY DEF WritenFails, RecvMsg, ReadTimeout, ReadnFails, Return, net
<1>4. 0 \in Endpoints \ {k}
  BY Numbers
<1> QED  BY <1>2, <1>3, <1>4 DEF Quiet, Alone, client

LEMMA ServerWriteFails ==
  ASSUME EchoInv, NEW k \in Conns, WritenFails(k)
  PROVE  LocalStep(k)
<1>1. TypeInv /\ EndInv /\ PhaseInv /\ FateInv /\ pc[k] = "writen" /\ k # 0 /\ k \in Endpoints
  BY Numbers DEF EchoInv, WritenFails
<1>2. Answering(k) /\ ~Calm(k) /\ ~Asking(k) /\ ~Asked(k)
  BY <1>1, PhaseOf, OnePhase
<1>3. fate[k] # "none" /\ pc'[k] = "recv"
  BY <1>1 DEF WritenFails, WouldBlock, Goto, TypeInv
<1>4. Quiet(k) /\ Waits(k)'
  BY <1>1, <1>3, CallQuiet DEF Waits
<1>5. Answering(k)' /\ Current(k)' = Current(k) /\ (Settled(k, "down")' <=> Settled(k, "down"))
  BY <1>2, <1>3, <1>4, QuietKeeps
<1> QED  BY <1>1, <1>2, <1>3, <1>5 DEF LocalStep, EndInv

LEMMA ServerReceives ==
  ASSUME EchoInv, NEW k \in Conns, RecvMsg(k)
  PROVE  LocalStep(k)
<1>1. TypeInv /\ EndInv /\ PhaseInv /\ FateInv /\ pc[k] = "recv" /\ k \in Endpoints /\ Quiet(k)
  BY Numbers, CallQuiet DEF EchoInv, RecvMsg
<1>2. pc'[k] = "header" /\ got'[k] = <<>> /\ fate' = fate /\ cliEnd' = cliEnd
  BY <1>1 DEF RecvMsg, Goto, TypeInv, net
<1>3. k \in 1..cur /\ Incoming(k) = chan[k]["up"] /\ (PeerGone(k) <=> k \notin cliEnd)
  BY <1>1, ServerEnd DEF Incoming
<1>4. Calm(k) \/ Asking(k) \/ Answering(k)
  BY <1>1, PhaseOf
<1>5. ~Asking(k) => Waits(k)'
  <2>1. ~Asking(k) => Incoming(k) = <<>>
    BY <1>3, <1>4 DEF Calm, Answering, Empty
  <2> QED  BY <1>2, <1>3, <2>1 DEF RecvMsg, Readable, Waits
<1>6. ASSUME Asking(k) PROVE Asking(k)'
  <2>1. PICK m \in Messages : m = Current(k)
    BY <1>6 DEF Asking
  <2>2. Part(m, 0, 0) = <<>> /\ 0 < HeaderLen
    <3>1. 0 \in Nat /\ 0 <= 0 /\ 0 <= FrameLen /\ 0 < HeaderLen
      BY Numbers
    <3> QED  BY <3>1, PartSeq
  <2>3. \A a \in 0..FrameLen : HasRead(k, m, a) => HasRead(k, m, a)'
    BY <1>1, <1>2, <2>2 DEF HasRead
  <2> QED  BY <1>1, <1>2, <1>6, <2>1, <2>3, QuietKeeps
<1>7. /\ Calm(k) => Calm(k)'
      /\ Answering(k) => Answering(k)'
      /\ Current(k)' = Current(k) /\ (Settled(k, "down")' <=> Settled(k, "down"))
  BY <1>1, <1>2, <1>5, OnePhase, QuietKeeps
<1> QED  BY <1>1, <1>2, <1>4, <1>6, <1>7 DEF LocalStep, EndInv, FateInv

LEMMA ServerTimesOut ==
  ASSUME EchoInv, NEW k \in Conns, ReadTimeout(k)
  PROVE  LocalStep(k)
<1>1. /\ TypeInv /\ EndInv /\ PhaseInv /\ FateInv /\ pc[k] = "recv" /\ k \in Endpoints /\ Quiet(k)
      /\ k # 0
  BY Numbers, CallQuiet DEF EchoInv, ReadTimeout
<1>2. pc'[k] = "ended" /\ fate' = fate /\ cliEnd' = cliEnd /\ k \in trouble'
  BY <1>1, ServerEnd DEF ReadTimeout, Return, Goto, TypeInv
<1>3. Calm(k) \/ Asking(k) \/ Answering(k)
  BY <1>1, PhaseOf
<1>4. Waits(k)'
  BY <1>2 DEF Waits
<1>5. \A a \in 0..FrameLen : HasRead(k, Current(k), a) => HasRead(k, Current(k), a)'
  BY <1>1, <1>2, QuietKeeps DEF HasRead
<1>6. /\ Calm(k) => Calm(k)'
      /\ Answering(k) => Answering(k)'
      /\ Asking(k) => Asking(k)'
      /\ Current(k)' = Current(k) /\ (Settled(k, "down")' <=> Settled(k, "down"))
  BY <1>1, <1>2, <1>4, <1>5, QuietKeeps
<1> QED  BY <1>1, <1>2, <1>3, <1>6 DEF LocalStep, EndInv, FateInv

\* The client is gone: then no request can be cut off, for all of it is in the stream.
LEMMA ServerReadFails ==
  ASSUME EchoInv, NEW k \in Conns, ReadnFails(k)
  PROVE  LocalStep(k)
<1>1. /\ TypeInv /\ EndInv /\ PhaseInv /\ FateInv /\ pc[k] \in {"header", "body"} /\ k \in Endpoints
      /\ Quiet(k) /\ k # 0
  BY Numbers, CallQuiet DEF EchoInv, ReadnFails
<1>2. /\ k \in 1..cur /\ Incoming(k) = chan[k]["up"] /\ (PeerGone(k) <=> k \notin cliEnd)
      /\ k \in srvEnd
  BY <1>1, ServerEnd DEF Incoming
<1>3. /\ pc'[k] = "ended" /\ k \notin cliEnd /\ cliEnd' = cliEnd /\ trouble' = trouble
      /\ fate[k] = "none" => fate'[k] = "none"
      /\ chan[k]["up"] = <<>>
  BY <1>1, <1>2 DEF ReadnFails, WouldBlock, Return, Spend, Goto, TypeInv, net
<1>4. k \in trouble
  <2>1. k <= cur
    BY <1>1, <1>2 DEF TypeInv
  <2> QED  BY <1>1, <1>3, <2>1 DEF EndInv
<1>5. ~Asking(k)
  <2> SUFFICES ASSUME Asking(k) PROVE FALSE
    OBVIOUS
  <2>1. PICK m \in Messages : m = Current(k)
    BY DEF Asking
  <2>2. PICK a \in 0..FrameLen : \E b \in a..FrameLen : Request1(k, a, b)
    BY <1>2 DEF Asking
  <2>3. PICK b \in a..FrameLen : Request1(k, a, b)
    BY <2>2
  <2>4. ~(cur = k /\ pc[0] = "writen")
    BY <1>1, <1>3 DEF EndInv, Attached
  <2>5. b = FrameLen /\ chan[k]["up"] = Part(m, a, b) /\ HasRead(k, m, a)
    BY <2>1, <2>3, <2>4 DEF Request1
  <2>6. a \in Nat /\ b \in Nat /\ a <= b /\ b <= FrameLen /\ FrameLen = HeaderLen + BodyLen
        /\ HeaderLen \in Nat /\ BodyLen \in Nat
    BY Numbers
  <2>7. a = b
    <3>1. Part(m, a, b) = <<>> <=> a = b
      BY <2>6, PartSeq
    <3> QED  BY <1>3, <2>5, <3>1
  <2> QED  BY <1>1, <2>5, <2>6, <2>7 DEF HasRead
<1>6. Calm(k) \/ Answering(k)
  BY <1>1, <1>5, PhaseOf
<1>7. Waits(k)'
  BY <1>3 DEF Waits
<1>8. /\ Calm(k) => Calm(k)'
      /\ Answering(k) => Answering(k)'
      /\ Current(k)' = Current(k) /\ (Settled(k, "down")' <=> Settled(k, "down"))
  BY <1>1, <1>3, <1>7, QuietKeeps
<1> QED  BY <1>1, <1>3, <1>4, <1>5, <1>6, <1>8 DEF LocalStep, FateInv

LEMMA ServerReads ==
  ASSUME EchoInv, NEW k \in Conns, Readn(k)
  PROVE  LocalStep(k)
<1>1. /\ TypeInv /\ EndInv /\ PhaseInv /\ FateInv /\ pc[k] \in {"header", "body"} /\ k \in Endpoints
      /\ k # 0 /\ "up" \in Dirs /\ "down" \in Dirs
  BY Numbers DEF EchoInv, Readn, Dirs
<1>2. /\ k \in 1..cur /\ Conn(k) = k /\ In(k) = "up" /\ k \in srvEnd
  BY <1>1, ServerEnd
<1>3. Asking(k) /\ ~Calm(k) /\ ~Asked(k) /\ ~Answering(k)
  BY <1>1, <1>2, ReadsCurrent, OnePhase
<1>4. fate[k] = "none"
  BY <1>1, <1>3 DEF FateInv
<1>5. PICK m \in Messages : m = Current(k)
  BY <1>3 DEF Asking
<1>6. PICK a \in 0..FrameLen : \E b \in a..FrameLen :
         Incoming(k) = Part(m, a, b) /\ HasRead(k, m, a) /\ Request1(k, a, b)
  BY <1>1, <1>2, <1>5, ReadsCurrent
<1>7. PICK b \in a..FrameLen : Incoming(k) = Part(m, a, b) /\ HasRead(k, m, a) /\ Request1(k, a, b)
  BY <1>6
<1>8. PICK n \in 1..(b - a) :
        /\ chan' = [chan EXCEPT ![k]["up"] = Part(m, a + n, b)]
        /\ \/ /\ a + n < FrameLen /\ HasRead(k, m, a + n)' /\ pc'[k] \in {"header", "body"}
              /\ UNCHANGED delivered
           \/ a + n = FrameLen /\ b = FrameLen /\ Return(k, m)
  BY <1>1, <1>2, <1>7, ReadnParts
<1>9. PICK c \in Nat : c = a + n
  OBVIOUS
<1>10. c \in 0..FrameLen /\ b \in c..FrameLen /\ m # 0 /\ b \in Nat /\ b <= FrameLen /\ FrameLen \in Nat
  BY <1>9, Numbers
<1>11. Alone(k)
  <2>1. Calls(k)
    BY DEF Calls
  <2> QED  BY <1>1, <2>1, CallAlone
<1>12. /\ sent' = sent /\ cur' = cur /\ pc'[0] = pc[0] /\ todo'[0] = todo[0] /\ got'[0] = got[0]
       /\ srvEnd' = srvEnd /\ cliEnd' = cliEnd /\ fate' = fate /\ trouble' = trouble
  <2>1. 0 \in Endpoints \ {k}
    BY <1>1, Numbers
  <2> QED  BY <1>11, <2>1 DEF Readn, Alone, client
<1>13. chan'[k]["up"] = Part(m, c, b) /\ chan'[k]["down"] = chan[k]["down"] /\ Current(k)' = m
  BY <1>1, <1>5, <1>8, <1>9, <1>12 DEF TypeInv, Current
<1>14. CASE c < FrameLen
  <2>1. /\ HasRead(k, m, c)' /\ pc'[k] \in {"header", "body"} /\ delivered' = delivered
    BY <1>8, <1>9, <1>14
  <2>2. Request1(k, c, b)'
    BY <1>5, <1>7, <1>12, <1>13, <2>1 DEF Request1
  <2>3. Asking(k)'
    BY <1>3, <1>10, <1>12, <1>13, <2>1, <2>2 DEF Asking, Pending, Settled, Empty, Current
  <2> QED  BY <1>3, <1>4, <1>5, <1>12, <1>13, <2>1, <2>3 DEF LocalStep, Settled
<1>15. CASE ~(c < FrameLen)
  <2>1. c = FrameLen /\ b = FrameLen /\ Return(k, m)
    BY <1>8, <1>9, <1>15
  <2>2. ~(cur = k /\ pc[0] = "writen")
    BY <1>7, <1>10, <2>1 DEF Request1
  <2>3. /\ pc'[k] = "send" /\ res'[k] = m
        /\ delivered' = [delivered EXCEPT ![k]["up"] = Append(@, m)]
    BY <1>1, <1>2, <1>10, <2>1 DEF Return, Goto, TypeInv
  <2>4. /\ delivered'[k]["up"] = Append(delivered[k]["up"], m)
        /\ delivered'[k]["down"] = delivered[k]["down"]
    BY <1>1, <2>3 DEF TypeInv
  <2>5. Part(m, c, b) = <<>>
    BY <1>10, <2>1, PartSeq
  <2>6. Asked(k)'
    BY <1>3, <1>5, <1>12, <1>13, <2>3, <2>4, <2>5 DEF Asking, Asked, Settled, Pending, Empty
  <2> QED  BY <1>3, <1>4, <1>5, <1>12, <1>13, <2>2, <2>3, <2>4, <2>6 DEF LocalStep, Settled
<1> QED  BY <1>14, <1>15

LEMMA ServerCallKeeps == ASSUME EchoInv, NEW k \in Conns, Calls(k) PROVE EchoInv'
<1>1. k \in Endpoints /\ TypeInv
  BY Numbers DEF EchoInv
<1>2. Alone(k) /\ pc[k] \notin {"none", "ended"}
  BY <1>1, CallAlone
<1>3. LocalStep(k)
  BY ServerSends, ServerWrites, ServerWriteFails, ServerReceives, ServerTimesOut, ServerReads,
     ServerReadFails DEF Calls
<1>4. TypeInv' /\ SizeInv'
  BY <1>1, CallTypes
<1> QED  BY <1>2, <1>3, <1>4, ServerCall DEF EchoInv

-----------------------------------------------------------------------------
(* The other steps of the server *)

LEMMA AcceptKeeps == ASSUME EchoInv, NEW k \in Conns, AcceptConn(k) PROVE EchoInv'
<1>1. TypeInv /\ CountInv /\ EndInv /\ PhaseInv /\ ClientInv /\ FateInv /\ SizeInv
  BY DEF EchoInv
<1>2. k \in Endpoints /\ k # 0 /\ 0 \in Endpoints
  BY Numbers
<1>3. /\ pc[k] = "none" /\ pc' = [pc EXCEPT ![k] = "recv"] /\ k \in srvEnd
      /\ served' = served \union {k}
      /\ UNCHANGED <<cap, chan, cliEnd, srvEnd, fate, trouble, proc, client, io>>
  BY <1>1 DEF AcceptConn, Goto, EndInv
<1>4. pc'[k] = "recv" /\ \A x \in Endpoints \ {k} : pc'[x] = pc[x]
  BY <1>1, <1>2, <1>3 DEF TypeInv
<1>5. pc'[0] = pc[0] /\ (Attached' <=> Attached) /\ (Roomy' <=> Roomy) /\ (Reading' <=> Reading)
  BY <1>2, <1>3, <1>4 DEF Attached, Roomy, Reading
<1>6. TypeInv'
  BY <1>1, <1>3 DEF TypeInv, Labels, proc, client, io
<1>7. SizeInv'
  BY <1>1, <1>3 DEF SizeInv, io
<1>8. CountInv'
  BY <1>1, <1>3, <1>5 DEF CountInv, client
<1>9. EndInv'
  <2>1. \A j \in Conns \ {k} : pc'[j] = pc[j]
    BY <1>4, Numbers
  <2>2. ~(k > cur)
    BY <1>1, <1>3 DEF EndInv, TypeInv
  <2> QED  BY <1>1, <1>3, <1>4, <1>5, <2>1, <2>2 DEF EndInv, client, io
<1>10. \A j \in Conns :
         /\ Calm(j) => Calm(j)'
         /\ Asking(j) => Asking(j)'
         /\ Answering(j) => Answering(j)'
         /\ Asked(j) => Asked(j)'
         /\ Current(j)' = Current(j) /\ (Settled(j, "down")' <=> Settled(j, "down"))
  <2> TAKE j \in Conns
  <2>1. Current(j)' = Current(j) /\ (Settled(j, "down")' <=> Settled(j, "down"))
    BY <1>3 DEF Current, Settled, io
  <2>2. CASE j # k
    <3>1. j \in Endpoints \ {k}
      BY <2>2, Numbers
    <3>2. Same(j) /\ SameWriter(j) /\ SameReader(j)
      BY <1>3, <1>4, <1>5, <3>1 DEF Same, SameWriter, SameReader, client, io
    <3> QED  BY <2>1, <3>2, CalmKept, AskingKept, AnsweringKept, AskedKept
  <2>3. CASE j = k
    <3>1. Quiet(k)
      BY <1>3, <1>5 DEF Quiet, client, io
    <3>2. Waits(k)'
      BY <1>4 DEF Waits
    <3>3. \A a \in 0..FrameLen : HasRead(k, Current(k), a) => HasRead(k, Current(k), a)'
      BY <1>3, <1>4 DEF HasRead
    <3>4. ~Asked(k) /\ ~Answering(k)
      BY <1>3 DEF Asked, Answering
    <3> QED  BY <1>4, <2>1, <2>3, <3>1, <3>2, <3>3, <3>4, QuietKeeps
  <2> QED  BY <2>2, <2>3
<1>11. PhaseInv'
  <2> SUFFICES ASSUME NEW j \in 1..cur
               PROVE  Calm(j)' \/ Asking(j)' \/ Asked(j)' \/ Answering(j)'
    BY <1>3 DEF PhaseInv, client
  <2>1. j \in Conns
    BY <1>1, Numbers DEF TypeInv
  <2> QED  BY <1>1, <1>10, <2>1 DEF PhaseInv
<1>12. ClientInv'
  <2>1. cur' = cur /\ res' = res /\ got' = got /\ num' = num /\ fate' = fate /\ trouble' = trouble
    BY <1>3 DEF client, io
  <2>2. CASE Attached
    <3>1. cur \in Conns
      BY <1>1, <2>2, ClientEnd
    <3> QED  BY <1>1, <1>5, <1>10, <2>1, <3>1 DEF ClientInv, Reading
  <2>3. CASE ~Attached
    BY <1>5, <2>3 DEF ClientInv, Attached, Reading
  <2> QED  BY <2>2, <2>3
<1>13. FateInv'
  <2>1. \A j \in Conns \ {k} : pc'[j] = pc[j]
    BY <1>4, Numbers
  <2> QED  BY <1>1, <1>3, <1>4, <1>5, <1>10, <2>1 DEF FateInv
<1> QED  BY <1>6, <1>7, <1>8, <1>9, <1>11, <1>12, <1>13 DEF EchoInv

\* The death of the server leaves no request half read: it is lost as a whole.
LEMMA DiesKeeps ==
  ASSUME EchoInv, Dies, deaths' \in 0..MaxDeaths, UNCHANGED <<cap, chan, cliEnd, client, io>>
  PROVE  EchoInv'
<1>1. TypeInv /\ CountInv /\ EndInv /\ PhaseInv /\ ClientInv /\ FateInv /\ SizeInv
  BY DEF EchoInv
<1>2. /\ cur' = cur /\ num' = num /\ task' = task /\ i' = i /\ nonblock' = nonblock
      /\ sent' = sent /\ delivered' = delivered /\ todo' = todo /\ got' = got /\ res' = res
      /\ srvEnd' = {} /\ served' = {} /\ trouble' = trouble \union srvEnd /\ alive' = FALSE
  BY DEF Dies, client, io
<1>3. /\ pc'[0] = pc[0]
      /\ \A k \in Conns : pc'[k] = IF pc[k] = "none" THEN "none" ELSE "ended"
      /\ pc' \in [Endpoints -> Labels]
  BY <1>1, Numbers DEF Dies, TypeInv, Labels
<1>4. /\ fate' \in [Endpoints -> {"none", "reset", "broken"}]
      /\ fate'[0] = "broken" => fate[0] = "broken"
      /\ \A k \in Conns : fate'[k] = fate[k]
  BY <1>1, Numbers DEF Dies, TypeInv
<1>5. (Attached' <=> Attached) /\ (Roomy' <=> Roomy) /\ (Reading' <=> Reading)
  BY <1>3 DEF Attached, Roomy, Reading
<1>6. TypeInv'
  BY <1>1, <1>2, <1>3, <1>4 DEF TypeInv
<1>7. SizeInv'
  BY <1>1, <1>2 DEF SizeInv
<1>8. CountInv'
  BY <1>1, <1>2, <1>3 DEF CountInv
<1>9. EndInv'
  <2>1. \A k \in Conns : pc'[k] = "ended" => k \in trouble'
    BY <1>1, <1>2, <1>3 DEF EndInv
  <2>2. \A k \in Conns : k <= cur => k \in trouble'
    BY <1>1, <1>2 DEF EndInv
  <2> QED  BY <1>1, <1>2, <1>3, <1>4, <1>5, <2>1, <2>2 DEF EndInv
<1>10. \A k \in Conns :
         /\ Calm(k) => Calm(k)'
         /\ Asking(k) => Asking(k)'
         /\ Asked(k) => Calm(k)'
         /\ Answering(k) => Answering(k)'
         /\ Current(k)' = Current(k) /\ (Settled(k, "down")' <=> Settled(k, "down"))
  <2> TAKE k \in Conns
  <2>1. Current(k)' = Current(k) /\ (Settled(k, "down")' <=> Settled(k, "down"))
    BY <1>2 DEF Current, Settled
  <2>2. Waits(k)' /\ pc'[k] \in {"none", "ended"}
    BY <1>3 DEF Waits
  <2>3. (Calm(k) => Calm(k)') /\ (Asked(k) => Calm(k)')
    BY <1>2, <2>2 DEF Calm, Asked, Settled, Empty
  <2>4. Asking(k) => Asking(k)'
    BY <1>2, <2>1, <2>2 DEF Asking, Pending, Settled, Empty
  <2>5. ASSUME Answering(k) PROVE Answering(k)'
    <3>1. \A a \in 0..FrameLen : \A b \in a..FrameLen : Reply(k, a, b) => Reply(k, a, b)'
      BY <1>2, <1>3, <2>1, <2>2 DEF Reply, HasRead
    <3>2. pc'[k] # "none"
      BY <1>3, <2>5 DEF Answering
    <3> QED  BY <1>2, <1>5, <2>1, <2>2, <2>5, <3>1, <3>2 DEF Answering, Pending, Settled, Empty
  <2> QED  BY <2>1, <2>3, <2>4, <2>5
<1>11. PhaseInv'
  <2> SUFFICES ASSUME NEW j \in 1..cur
               PROVE  Calm(j)' \/ Asking(j)' \/ Asked(j)' \/ Answering(j)'
    BY <1>2 DEF PhaseInv
  <2>1. j \in Conns
    BY <1>1, Numbers DEF TypeInv
  <2> QED  BY <1>1, <1>10, <2>1 DEF PhaseInv
<1>12. ClientInv'
  <2>1. CASE Attached
    <3>1. cur \in Conns
      BY <1>1, <2>1, ClientEnd
    <3> QED  BY <1>1, <1>2, <1>3, <1>4, <1>5, <1>10, <3>1 DEF ClientInv, Reading
  <2>2. CASE ~Attached
    BY <1>3, <2>2 DEF ClientInv, Attached, Reading
  <2> QED  BY <2>1, <2>2
<1>13. FateInv'
  BY <1>1, <1>3, <1>4, <1>10 DEF FateInv
<1> QED  BY <1>6, <1>7, <1>8, <1>9, <1>11, <1>12, <1>13 DEF EchoInv

-----------------------------------------------------------------------------
(* The steps of the client *)

\* A step of the client leaves the threads of the server and the other connections alone.
ClientFrame ==
  /\ cur' = cur /\ cap' = cap /\ srvEnd' = srvEnd /\ served' = served /\ trouble \subseteq trouble'
  /\ cliEnd' \subseteq cliEnd /\ cliEnd \ {cur} \subseteq cliEnd'
  /\ \A k \in Conns : pc'[k] = pc[k] /\ todo'[k] = todo[k] /\ got'[k] = got[k] /\ res'[k] = res[k]
  /\ \A k \in Conns \ {cur} : /\ chan'[k] = chan[k] /\ sent'[k] = sent[k] /\ delivered'[k] = delivered[k]
                              /\ fate'[k] = fate[k]

\* What it has to keep of its own connection.
ClientLocal ==
  /\ pc'[0] \in Labels \ {"none", "ended"} /\ (nonblock' => pc'[0] = "connecting")
  /\ Attached' => cur \in cliEnd'
  /\ cur \notin cliEnd' => cur \in trouble'
  /\ fate'[0] # "none" => cur \notin srvEnd
  /\ fate'[cur] # "none" => cur \notin cliEnd' /\ Answering(cur)'
  /\ Roomy /\ pc[cur] = "writen" => fate'[cur] # "broken"
  /\ Calm(cur)' \/ Asking(cur)' \/ Asked(cur)' \/ Answering(cur)'

LEMMA ClientStepKeeps ==
  ASSUME EchoInv, cur \in Conns, ClientFrame, ClientLocal
  PROVE  EndInv' /\ PhaseInv' /\ FateInv'
<1>1. TypeInv /\ EndInv /\ PhaseInv /\ FateInv
  BY DEF EchoInv
<1>2. cur' = cur /\ srvEnd' = srvEnd /\ served' = served /\ trouble \subseteq trouble' /\ (Roomy' <=> Roomy)
  BY DEF ClientFrame, Roomy
<1>3. \A k \in Conns \ {cur} :
        /\ Calm(k) => Calm(k)'
        /\ Asking(k) => Asking(k)'
        /\ Asked(k) => Asked(k)'
        /\ Answering(k) => Answering(k)'
  <2> TAKE k \in Conns \ {cur}
  <2>1. Same(k) /\ SameWriter(k) /\ SameReader(k)
    BY DEF ClientFrame, Same, SameWriter, SameReader
  <2> QED  BY <2>1, CalmKept, AskingKept, AskedKept, AnsweringKept
<1>4. EndInv'
  <2>1. ~(cur > cur)
    BY <1>1 DEF TypeInv
  <2>2. /\ served' \subseteq srvEnd' /\ srvEnd' \subseteq 1..cur' /\ cliEnd' \subseteq 1..cur'
        /\ Attached' => cur' \in cliEnd'
        /\ pc'[0] \in Labels \ {"none", "ended"} /\ (nonblock' => pc'[0] = "connecting")
        /\ fate'[0] # "none" => cur' \notin srvEnd'
    BY <1>1, <1>2 DEF EndInv, ClientFrame, ClientLocal
  <2>3. \A k \in Conns :
          /\ k \in srvEnd' => (pc'[k] = "none" <=> k \notin served')
          /\ k \notin srvEnd' => pc'[k] \in {"none", "ended"}
          /\ pc'[k] = "ended" => k \in trouble'
    BY <1>1, <1>2 DEF EndInv, ClientFrame
  <2>4. \A k \in Conns :
          /\ k <= cur' /\ (k \notin srvEnd' \/ k \notin cliEnd') => k \in trouble'
          /\ fate'[k] # "none" => k \notin cliEnd'
    <3> TAKE k \in Conns
    <3>1. CASE k = cur
      BY <1>1, <1>2, <3>1 DEF EndInv, ClientLocal
    <3>2. CASE k # cur
      BY <1>1, <1>2, <3>2 DEF EndInv, ClientFrame
    <3> QED  BY <3>1, <3>2
  <2>5. \A k \in Conns : k > cur' =>
          /\ pc'[k] = "none"
          /\ \A d \in Dirs : chan'[k][d] = <<>> /\ sent'[k][d] = <<>> /\ delivered'[k][d] = <<>>
    BY <1>1, <1>2, <2>1 DEF EndInv, ClientFrame
  <2> QED  BY <2>2, <2>3, <2>4, <2>5 DEF EndInv
<1>5. PhaseInv'
  <2> SUFFICES ASSUME NEW k \in 1..cur
               PROVE  Calm(k)' \/ Asking(k)' \/ Asked(k)' \/ Answering(k)'
    BY <1>2 DEF PhaseInv
  <2>1. k \in Conns
    BY <1>1, Numbers DEF TypeInv
  <2>2. CASE k = cur
    BY <1>2, <2>2 DEF ClientLocal
  <2>3. CASE k # cur
    BY <1>1, <1>3, <2>1, <2>3 DEF PhaseInv
  <2> QED  BY <2>2, <2>3
<1>6. FateInv'
  BY <1>1, <1>2, <1>3 DEF FateInv, ClientFrame, ClientLocal
<1> QED  BY <1>4, <1>5, <1>6

\* What a call of the client has to keep.
ClientCall ==
  /\ pc'[0] \in {"writen", "recv", "header", "body", "answered"}
  /\ fate'[0] # "none" => cur \notin srvEnd
  /\ Calm(cur)' \/ Asking(cur)' \/ Asked(cur)' \/ Answering(cur)'
  /\ ClientInv'

LEMMA ClientCallKeeps ==
  ASSUME EchoInv, Calls(0), ClientCall
  PROVE  EchoInv'
<1>1. TypeInv /\ CountInv /\ EndInv
  BY DEF EchoInv
<1>2. 0 \in Endpoints /\ Alone(0) /\ pc[0] \in {"send", "writen", "recv", "header", "body"} /\ Attached
  BY <1>1, Numbers, CallAlone DEF Attached
<1>3. cur \in Conns /\ Conn(0) = cur /\ cur \in cliEnd
  BY <1>1, <1>2, ClientEnd
<1>4. \A k \in Conns : k \in Endpoints \ {0}
  BY Numbers
<1>5. ClientFrame
  BY <1>2, <1>3, <1>4 DEF ClientFrame, Alone, client
<1>6. ClientLocal
  <2>1. fate'[cur] = "none"
    BY <1>1, <1>2, <1>3, <1>4 DEF EndInv, Alone
  <2>2. cliEnd' = cliEnd /\ nonblock' = nonblock /\ ~nonblock
    BY <1>1, <1>2 DEF Alone, client, EndInv
  <2> QED  BY <1>3, <2>1, <2>2 DEF ClientLocal, ClientCall, Labels
<1>7. CountInv'
  BY <1>1, <1>2 DEF CountInv, ClientCall, Alone, client
<1>8. TypeInv' /\ SizeInv'
  BY <1>2, CallTypes
<1> QED  BY <1>3, <1>5, <1>6, <1>7, <1>8, ClientStepKeeps DEF EchoInv, ClientCall

LEMMA ClientSends == ASSUME EchoInv, SendMsg(0) PROVE ClientCall
<1>1. TypeInv /\ CountInv /\ EndInv /\ ClientInv /\ pc[0] = "send" /\ Attached /\ PhaseInv
  BY DEF EchoInv, SendMsg, Attached
<1>2. /\ cur \in Conns /\ Conn(0) = cur /\ cur \in cliEnd /\ Out(0) = "up" /\ 0 \in Endpoints
      /\ "up" \in Dirs /\ "down" \in Dirs /\ num \in Messages /\ Outgoes(0) = num /\ cur # 0
  BY <1>1, ClientEnd, Numbers, OutgoesMessage DEF Out, Dirs
<1>3. Calm(cur) /\ fate[0] # "broken"
  BY <1>1 DEF ClientInv
<1>4. /\ todo'[0] = Part(num, 0, FrameLen) /\ pc'[0] = "writen" /\ fate' = fate /\ chan' = chan
      /\ delivered' = delivered /\ cur' = cur /\ got' = got /\ srvEnd' = srvEnd /\ num' = num /\ cap' = cap
      /\ pc'[cur] = pc[cur]
  BY <1>1, <1>2, FrameIsPart, Numbers DEF SendMsg, Goto, TypeInv, net, client
<1>5. sent'[cur]["up"] = Append(sent[cur]["up"], num) /\ sent'[cur]["down"] = sent[cur]["down"]
  BY <1>1, <1>2 DEF SendMsg, TypeInv
<1>6. Current(cur)' = num
  <2>1. sent[cur]["up"] \in Seq(Messages)
    BY <1>1, <1>2 DEF TypeInv
  <2>2. LET s == Append(sent[cur]["up"], num) IN s[Len(s)] = num
    BY <1>2, <2>1
  <2> QED  BY <1>4, <1>5, <2>2 DEF Current
<1>7. Asking(cur)'
  <2>1. /\ Pending(cur, "up")' /\ Settled(cur, "down")' /\ Empty(cur, "down")'
    BY <1>3, <1>4, <1>5, <1>6 DEF Calm, Pending, Settled, Empty
  <2>2. pc'[cur] \in {"none", "recv", "ended"}
    BY <1>2, <1>3, <1>4 DEF Calm, Waits
  <2>3. Part(num, 0, 0) = <<>> /\ 0 < FrameLen /\ 0 \in 0..FrameLen /\ 0 \in 0..0
    <3>1. 0 \in Nat /\ 0 <= 0 /\ 0 <= FrameLen /\ 0 < FrameLen
      BY Numbers
    <3> QED  BY <1>2, <3>1, PartSeq
  <2>4. Request1(cur, 0, 0)'
    BY <1>3, <1>4, <1>6, <2>2, <2>3 DEF Request1, HasRead, Calm, Empty
  <2>5. \E a \in 0..FrameLen : \E b \in a..FrameLen : Request1(cur, a, b)'
    BY <2>3, <2>4
  <2> QED  BY <1>2, <1>4, <1>6, <2>1, <2>2, <2>5 DEF Asking
<1>8. ClientInv'
  BY <1>3, <1>4, <1>6, <1>7 DEF ClientInv, Reading
<1>9. fate'[0] # "none" => cur \notin srvEnd
  BY <1>1, <1>4 DEF EndInv
<1> QED  BY <1>4, <1>7, <1>8, <1>9 DEF ClientCall

\* A call of the client that neither reads nor writes.
LEMMA ClientQuiet ==
  ASSUME EchoInv, WritenFails(0) \/ RecvMsg(0) \/ ReadTimeout(0) \/ ReadnFails(0)
  PROVE  /\ TypeInv /\ EndInv /\ PhaseInv /\ ClientInv /\ Attached /\ 0 \in Endpoints
         /\ cur \in Conns /\ cur \in 1..cur /\ cur \in cliEnd /\ Conn(0) = cur
         /\ PeerGone(0) <=> cur \notin srvEnd
         /\ Same(cur) /\ cur' = cur /\ num' = num /\ cap' = cap /\ srvEnd' = srvEnd
         /\ Current(cur)' = Current(cur) /\ (Settled(cur, "down")' <=> Settled(cur, "down"))
         /\ Calm(cur) \/ Asking(cur) \/ Asked(cur) \/ Answering(cur)
         /\ ~nonblock /\ trouble \subseteq trouble'
<1>1. /\ TypeInv /\ EndInv /\ PhaseInv /\ ClientInv /\ Calls(0) /\ 0 \in Endpoints
  BY Numbers DEF EchoInv, Calls
<1>2. Alone(0) /\ Attached /\ pc[0] # "connecting"
  BY <1>1, CallAlone DEF Attached
<1>3. /\ cur \in Conns /\ cur \in cliEnd /\ Conn(0) = cur /\ (PeerGone(0) <=> cur \notin srvEnd)
      /\ cur \in Endpoints \ {0}
  BY <1>1, <1>2, ClientEnd, Numbers
<1>4. /\ chan' = chan /\ sent' = sent /\ delivered' = delivered
  BY DEF WritenFails, RecvMsg, ReadTimeout, ReadnFails, Return, net
<1>5. Same(cur) /\ cur' = cur /\ num' = num /\ cap' = cap /\ srvEnd' = srvEnd /\ trouble \subseteq trouble'
  BY <1>2, <1>3, <1>4 DEF Same, Alone, client
<1>6. Current(cur)' = Current(cur) /\ (Settled(cur, "down")' <=> Settled(cur, "down"))
  BY <1>4, <1>5 DEF Current, Settled
<1>7. cur \in 1..cur
  BY <1>1, <1>3 DEF EndInv
<1>8. Calm(cur) \/ Asking(cur) \/ Asked(cur) \/ Answering(cur)
  BY <1>1, <1>7 DEF PhaseInv
<1>9. ~nonblock
  BY <1>1, <1>2 DEF EndInv
<1> QED  BY <1>1, <1>2, <1>3, <1>5, <1>6, <1>7, <1>8, <1>9

LEMMA ClientWriteFails == ASSUME EchoInv, WritenFails(0) PROVE ClientCall
<1>1. /\ TypeInv /\ EndInv /\ ClientInv /\ Same(cur) /\ cur' = cur /\ num' = num /\ cur \in Conns
      /\ Current(cur)' = Current(cur) /\ cur' \notin srvEnd' /\ ~nonblock
  BY ClientQuiet DEF WritenFails, WouldBlock, EndInv
<1>2. pc[0] = "writen" /\ pc'[0] = "recv" /\ Asking(cur) /\ Current(cur) = num
  BY <1>1, ClientQuiet DEF WritenFails, Goto, TypeInv, ClientInv
<1>3. Asking(cur)'
  BY <1>1, <1>2 DEF Asking, Same, Pending, Settled, Empty
<1>4. ClientInv'
  BY <1>1, <1>2, <1>3 DEF ClientInv, Reading
<1> QED  BY <1>1, <1>2, <1>3, <1>4, ClientQuiet DEF ClientCall

LEMMA ClientReceives == ASSUME EchoInv, RecvMsg(0) PROVE ClientCall
<1>1. /\ TypeInv /\ EndInv /\ ClientInv /\ Same(cur) /\ cur' = cur /\ num' = num /\ cur \in Conns
      /\ Current(cur)' = Current(cur) /\ (Settled(cur, "down")' <=> Settled(cur, "down"))
      /\ 0 \in Endpoints
  BY ClientQuiet
<1>2. pc[0] = "recv" /\ pc'[0] = "header" /\ got'[0] = <<>> /\ fate' = fate
  BY <1>1 DEF RecvMsg, Goto, TypeInv
<1>3. Calm(cur) => Calm(cur)'
  BY <1>1, CalmKept DEF Calm, Same, Settled, Empty, Waits
<1>4. Asked(cur) => Asked(cur)'
  BY <1>1 DEF Asked, Same, Settled, Empty
<1>5. Asking(cur) => Asking(cur)'
  <2>1. SameWriter(cur)
    BY <1>1, <1>2 DEF SameWriter
  <2>2. PICK k : k = cur
    OBVIOUS
  <2>3. Asking(k) => Asking(k)'
    BY <1>1, <2>1, <2>2, AskingKept
  <2> QED  BY <1>1, <2>2, <2>3
<1>6. ASSUME Answering(cur) PROVE Answering(cur)'
  <2>1. PICK m \in Messages : m = Current(cur)
    BY <1>6 DEF Answering
  <2>2. Part(m, 0, 0) = <<>> /\ 0 < HeaderLen
    <3>1. 0 \in Nat /\ 0 <= 0 /\ 0 <= FrameLen /\ 0 < HeaderLen
      BY Numbers
    <3> QED  BY <3>1, PartSeq
  <2>3. \E a \in 0..FrameLen : \E b \in a..FrameLen : Reply(cur, a, b)
    BY <1>2, <1>6 DEF Answering, Reading
  <2>4. \A a \in 0..FrameLen : HasRead(0, m, a) => HasRead(0, m, a)'
    BY <1>2, <2>2 DEF HasRead
  <2>5. \A a \in 0..FrameLen : \A b \in a..FrameLen : Reply(cur, a, b) => Reply(cur, a, b)'
    BY <1>1, <2>1, <2>4 DEF Reply, Same
  <2>6. \E a \in 0..FrameLen : \E b \in a..FrameLen : Reply(cur, a, b)'
    BY <2>3, <2>5
  <2> QED  BY <1>1, <1>6, <2>6 DEF Answering, Same, Pending, Settled, Empty, Waits
<1>7. ClientInv'
  BY <1>1, <1>2, <1>5 DEF ClientInv, Reading
<1>8. fate'[0] # "none" => cur \notin srvEnd
  BY <1>1, <1>2 DEF EndInv
<1> QED  BY <1>2, <1>3, <1>4, <1>5, <1>6, <1>7, <1>8, ClientQuiet DEF ClientCall

\* An empty answer is accepted in any phase, for the client leaves the connection.
LEMMA ClientGivesUp ==
  ASSUME EchoInv, ReadTimeout(0) \/ ReadnFails(0)
  PROVE  ClientCall
<1>1. /\ TypeInv /\ EndInv /\ Same(cur) /\ cur' = cur /\ 0 \in Endpoints /\ cur \in Conns
      /\ Calm(cur) \/ Asking(cur) \/ Asked(cur) \/ Answering(cur)
  BY ClientQuiet
<1>2. pc[0] # "writen" /\ pc'[0] = "answered" /\ res'[0] = 0
  BY <1>1 DEF ReadTimeout, ReadnFails, Return, Goto, TypeInv
<1>3. SameWriter(cur) /\ SameReader(cur)
  BY <1>1, <1>2 DEF SameWriter, SameReader
<1>4. PICK k : k = cur
  OBVIOUS
<1>5. Calm(k)' \/ Asking(k)' \/ Asked(k)' \/ Answering(k)'
  BY <1>1, <1>3, <1>4, CalmKept, AskingKept, AskedKept, AnsweringKept
<1>6. cur \in trouble'
  <2>1. CASE ReadTimeout(0)
    BY <2>1, ClientQuiet DEF ReadTimeout
  <2>2. CASE ReadnFails(0)
    <3>1. cur \notin srvEnd /\ trouble' = trouble
      BY <2>2, ClientQuiet DEF ReadnFails, WouldBlock, net
    <3>2. cur <= cur
      BY <1>1 DEF TypeInv
    <3> QED  BY <1>1, <3>1, <3>2 DEF EndInv
  <2> QED  BY <2>1, <2>2
<1>7. ClientInv'
  BY <1>1, <1>2, <1>6 DEF ClientInv, Reading
<1>8. fate'[0] # "none" => cur \notin srvEnd
  BY <1>1 DEF ReadTimeout, ReadnFails, Spend, TypeInv, EndInv
<1> QED  BY <1>1, <1>2, <1>4, <1>5, <1>7, <1>8 DEF ClientCall

LEMMA ClientWrites == ASSUME EchoInv, Writen(0) PROVE ClientCall
<1>1. /\ TypeInv /\ EndInv /\ ClientInv /\ SizeInv /\ pc[0] = "writen" /\ fate[0] = "none"
      /\ Attached /\ 0 \in Endpoints
  BY Numbers DEF EchoInv, Writen, Attached
<1>2. /\ cur \in Conns /\ Conn(0) = cur /\ Out(0) = "up" /\ "up" \in Dirs /\ "down" \in Dirs
      /\ PeerGone(0) <=> cur \notin srvEnd
  BY <1>1, ClientEnd DEF Out, Dirs
<1>3. Asking(cur) /\ Current(cur) = num /\ cur # 0
  BY <1>1, <1>2, Numbers DEF ClientInv
<1>4. /\ sent' = sent /\ delivered' = delivered /\ cur' = cur /\ srvEnd' = srvEnd /\ cap' = cap
      /\ num' = num /\ got' = got /\ pc'[cur] = pc[cur] /\ Current(cur)' = Current(cur)
  BY <1>1, <1>2, <1>3, Numbers DEF Writen, Goto, TypeInv, client, Current
<1>5. PICK n : n = (LET room == IF PeerGone(0) THEN cap ELSE cap - Len(Outgoing(0))
                    IN IF room < Len(todo[0]) THEN room ELSE Len(todo[0]))
  OBVIOUS
<1>6. /\ n > 0 /\ todo'[0] = SubSeq(todo[0], n + 1, Len(todo[0]))
      /\ pc'[0] = IF n = Len(todo[0]) THEN "recv" ELSE "writen"
      /\ PeerGone(0) => fate'[0] = "broken" /\ chan' = chan
      /\ ~PeerGone(0) => /\ fate'[0] = "none"
                         /\ chan' = [chan EXCEPT ![cur]["up"] = @ \o SubSeq(todo[0], 1, n)]
  BY <1>1, <1>2, <1>5 DEF Writen, Goto, TypeInv
<1>7. /\ cap \in Nat /\ Len(Outgoing(0)) \in Nat /\ Len(todo[0]) \in Nat /\ Len(todo[0]) <= FrameLen
      /\ FrameLen \in Nat
  <2>1. cap \in Nat /\ FrameLen \in Nat
    BY <1>1, Numbers, TcpAssumption DEF TypeInv
  <2>2. Outgoing(0) \in Seq(Pieces) /\ todo[0] \in Seq(Pieces) /\ Len(todo[0]) <= FrameLen
    BY <1>1, <1>2 DEF TypeInv, SizeInv, Outgoing
  <2> QED  BY <2>1, <2>2
<1>8. n \in 1..Len(todo[0])
  BY <1>5, <1>6, <1>7
<1>9. Roomy' /\ PeerGone(0) => pc'[0] = "recv"
  BY <1>4, <1>5, <1>6, <1>7 DEF Roomy
<1>10. Empty(cur, "down")'
  BY <1>1, <1>2, <1>3, <1>4, <1>6 DEF Asking, Empty, TypeInv
<1>11. Asking(cur)'
  <2>1. ASSUME cur \in srvEnd
        PROVE  \E a \in 0..FrameLen : \E b \in a..FrameLen : Request1(cur, a, b)'
    <3>1. ~PeerGone(0)
      BY <1>2, <2>1
    <3>2. PICK a \in 0..FrameLen : \E b \in a..FrameLen : Request1(cur, a, b)
      BY <1>3, <2>1 DEF Asking
    <3>3. PICK b \in a..FrameLen : Request1(cur, a, b)
      BY <3>2
    <3>4. PICK m \in Messages : m = Current(cur)
      BY <1>3 DEF Asking
    <3>5. /\ chan[cur]["up"] = Part(m, a, b) /\ HasRead(cur, m, a)
          /\ b < FrameLen /\ todo[0] = Part(m, b, FrameLen)
      BY <1>1, <3>3, <3>4 DEF Request1
    <3>6. Len(todo[0]) = FrameLen - b /\ a \in Nat /\ b \in Nat /\ a <= b /\ b <= FrameLen
      <4>1. a \in Nat /\ b \in Nat /\ a <= b /\ b <= FrameLen /\ FrameLen <= FrameLen
        BY <1>7
      <4>2. Len(Part(m, b, FrameLen)) = FrameLen - b
        BY <1>7, <4>1, PartSeq
      <4> QED  BY <3>5, <4>1, <4>2
    <3>7. PICK c \in Nat : c = b + n
      BY <1>8, <3>6
    <3>8. c \in a..FrameLen /\ b <= c /\ c <= FrameLen /\ n \in 0..(FrameLen - b)
      BY <1>7, <1>8, <3>6, <3>7
    <3>9. SubSeq(todo[0], 1, n) = Part(m, b, c) /\ todo'[0] = Part(m, c, FrameLen)
      <4>1. FrameLen <= FrameLen
        BY <1>7
      <4>2. /\ SubSeq(Part(m, b, FrameLen), 1, n) = Part(m, b, b + n)
            /\ SubSeq(Part(m, b, FrameLen), n + 1, FrameLen - b) = Part(m, b + n, FrameLen)
        <5>1. b \in Nat /\ FrameLen \in Nat /\ b <= FrameLen /\ FrameLen <= FrameLen
              /\ n \in 0..(FrameLen - b)
          BY <1>7, <3>6, <3>8, <4>1
        <5> QED  BY <5>1, PartCut
      <4> QED  BY <1>6, <3>5, <3>6, <3>7, <4>2
    <3>10. chan'[cur]["up"] = Part(m, a, c)
      <4>1. Part(m, a, b) \o Part(m, b, c) = Part(m, a, c)
        BY <3>6, <3>8, PartJoin
      <4>2. PICK x : x = chan[cur]["up"] \o SubSeq(todo[0], 1, n)
        OBVIOUS
      <4>3. chan' = [chan EXCEPT ![cur]["up"] = x]
        BY <1>6, <3>1, <4>2
      <4>4. chan'[cur]["up"] = x
        BY <1>1, <1>2, <4>3 DEF TypeInv
      <4> QED  BY <3>5, <3>9, <4>1, <4>2, <4>4
    <3>11. IF pc'[0] = "writen" THEN c < FrameLen ELSE c = FrameLen
      <4>1. IF n # FrameLen - b THEN c < FrameLen ELSE c = FrameLen
        BY <1>7, <3>6, <3>7, <3>8
      <4> QED  BY <1>6, <3>6, <4>1
    <3>12. HasRead(cur, m, a)'
      BY <1>4, <3>5 DEF HasRead
    <3>13. Request1(cur, a, c)'
      BY <1>4, <3>4, <3>9, <3>10, <3>11, <3>12 DEF Request1
    <3> QED  BY <3>8, <3>13
  <2> QED  BY <1>3, <1>4, <1>10, <2>1 DEF Asking, Pending, Settled
<1>12. ClientInv'
  BY <1>2, <1>3, <1>4, <1>6, <1>9, <1>11 DEF ClientInv, Reading
<1> QED  BY <1>2, <1>6, <1>11, <1>12 DEF ClientCall

LEMMA ClientReads == ASSUME EchoInv, Readn(0) PROVE ClientCall
<1>1. /\ TypeInv /\ EndInv /\ PhaseInv /\ ClientInv /\ pc[0] \in {"header", "body"} /\ Attached
      /\ 0 \in Endpoints /\ "up" \in Dirs /\ "down" \in Dirs
  BY Numbers DEF EchoInv, Readn, Attached, Dirs
<1>2. cur \in Conns /\ cur # 0 /\ Conn(0) = cur /\ In(0) = "down"
  BY <1>1, ClientEnd, Numbers DEF In
<1>3. Answering(cur) /\ ~Asking(cur)
  BY <1>1, <1>2, ReadsCurrent, OnePhase
<1>4. PICK m \in Messages : m = Current(cur)
  BY <1>3 DEF Answering
<1>5. m = num /\ fate[0] # "broken" /\ m # 0
  BY <1>1, <1>3, <1>4, Numbers DEF ClientInv, Reading
<1>6. PICK a \in 0..FrameLen : \E b \in a..FrameLen :
         Incoming(0) = Part(m, a, b) /\ HasRead(0, m, a) /\ Reply(cur, a, b)
  BY <1>1, <1>2, <1>4, ReadsCurrent
<1>7. PICK b \in a..FrameLen : Incoming(0) = Part(m, a, b) /\ HasRead(0, m, a) /\ Reply(cur, a, b)
  BY <1>6
<1>8. PICK n \in 1..(b - a) :
        /\ chan' = [chan EXCEPT ![cur]["down"] = Part(m, a + n, b)]
        /\ \/ /\ a + n < FrameLen /\ HasRead(0, m, a + n)' /\ pc'[0] \in {"header", "body"}
              /\ UNCHANGED delivered
           \/ a + n = FrameLen /\ b = FrameLen /\ Return(0, m)
  BY <1>1, <1>2, <1>7, ReadnParts
<1>9. PICK c \in Nat : c = a + n
  OBVIOUS
<1>10. c \in 0..FrameLen /\ b \in c..FrameLen /\ b \in Nat /\ b <= FrameLen /\ FrameLen \in Nat
  BY <1>9, Numbers
<1>11. /\ sent' = sent /\ cur' = cur /\ srvEnd' = srvEnd /\ cliEnd' = cliEnd /\ fate' = fate
       /\ num' = num /\ pc'[cur] = pc[cur] /\ got'[cur] = got[cur] /\ todo'[cur] = todo[cur]
  <2>1. Calls(0)
    BY DEF Calls
  <2>2. Alone(0)
    BY <1>1, <2>1, CallAlone
  <2>3. cur \in Endpoints \ {0}
    BY <1>2, Numbers
  <2> QED  BY <2>2, <2>3 DEF Readn, Alone, client
<1>12. chan'[cur]["down"] = Part(m, c, b) /\ chan'[cur]["up"] = chan[cur]["up"] /\ Current(cur)' = m
  BY <1>1, <1>2, <1>4, <1>8, <1>9, <1>11 DEF TypeInv, Current
<1>13. fate'[0] # "none" => cur \notin srvEnd
  BY <1>1, <1>11 DEF EndInv
<1>14. CASE c < FrameLen
  <2>1. HasRead(0, m, c)' /\ pc'[0] \in {"header", "body"} /\ delivered' = delivered
    BY <1>8, <1>9, <1>14
  <2>2. Reply(cur, c, b)'
    BY <1>4, <1>7, <1>11, <1>12, <2>1 DEF Reply
  <2>3. Answering(cur)'
    BY <1>3, <1>4, <1>10, <1>11, <1>12, <2>1, <2>2 DEF Answering, Pending, Settled, Empty, Waits
  <2>4. ~Settled(cur, "down")'
    <3>1. ~Settled(cur, "down")
      BY <1>1, <1>2, <1>3, Exclusive DEF Answering
    <3> QED  BY <1>11, <2>1, <3>1 DEF Settled
  <2>5. ClientInv'
    BY <1>5, <1>11, <1>12, <2>1, <2>4 DEF ClientInv, Reading
  <2> QED  BY <1>11, <1>13, <2>1, <2>3, <2>5 DEF ClientCall
<1>15. CASE ~(c < FrameLen)
  <2>1. c = FrameLen /\ b = FrameLen /\ Return(0, m)
    BY <1>8, <1>9, <1>15
  <2>2. /\ pc'[0] = "answered" /\ res'[0] = m
        /\ delivered'[cur]["down"] = Append(delivered[cur]["down"], m)
        /\ delivered'[cur]["up"] = delivered[cur]["up"]
    BY <1>1, <1>2, <1>5, <2>1 DEF Return, Goto, TypeInv
  <2>3. Part(m, c, b) = <<>>
    BY <1>10, <2>1, PartSeq
  <2>4. Waits(cur)'
    <3>1. pc[cur] # "writen"
      BY <1>7, <1>10, <2>1 DEF Reply
    <3> QED  BY <1>3, <1>11, <3>1 DEF Answering, Waits
  <2>5. Calm(cur)'
    BY <1>3, <1>4, <1>11, <1>12, <2>2, <2>3, <2>4 DEF Answering, Calm, Settled, Pending, Empty
  <2>6. ClientInv'
    BY <1>5, <1>11, <2>2, <2>5 DEF ClientInv, Reading
  <2> QED  BY <1>11, <1>13, <2>2, <2>5, <2>6 DEF ClientCall
<1> QED  BY <1>14, <1>15

LEMMA ClientCallsKeep == ASSUME EchoInv, Calls(0) PROVE EchoInv'
<1>1. ClientCall
  BY ClientSends, ClientWrites, ClientWriteFails, ClientReceives, ClientGivesUp, ClientReads DEF Calls
<1> QED  BY <1>1, ClientCallKeeps

\* A step of the client between two calls, which leaves its connection alone as well.
Between ==
  /\ pc[0] \in {"connecting", "working", "request"} \/ (pc[0] = "answered" /\ res[0] # 0)
  /\ cur' = cur /\ cap' = cap /\ num' \in Nat
  /\ task' \in 0..Tasks /\ i' \in 0..Exchanges
  /\ UNCHANGED <<chan, cliEnd, srvEnd, served, proc, io>> /\ trouble \subseteq trouble'
  /\ fate' = fate /\ nonblock' = FALSE
  /\ \A k \in Conns : pc'[k] = pc[k]
  /\ pc' \in [Endpoints -> Labels] /\ pc'[0] \in {"working", "request", "send", "connect", "done"}

LEMMA BetweenKeeps == ASSUME EchoInv, Between, CountInv' PROVE EchoInv'
<1>1. TypeInv /\ EndInv /\ PhaseInv /\ ClientInv /\ FateInv /\ SizeInv /\ Attached
  BY DEF EchoInv, Between, Attached
<1>2. cur \in Conns /\ cur \in cliEnd /\ cur \in 1..cur /\ Conn(0) = cur
  BY <1>1, ClientEnd DEF EndInv
<1>3. TypeInv' /\ SizeInv'
  BY <1>1 DEF TypeInv, SizeInv, Between, proc, io
<1>4. ClientFrame
  BY DEF ClientFrame, Between, io
<1>5. Same(cur) /\ SameWriter(cur) /\ SameReader(cur) /\ cur' = cur
  BY <1>2 DEF Same, SameWriter, SameReader, Between, io
<1>6. PICK k : k = cur
  OBVIOUS
<1>7. /\ Calm(k) => Calm(k)'
      /\ Calm(k)' \/ Asking(k)' \/ Asked(k)' \/ Answering(k)'
  BY <1>1, <1>2, <1>5, <1>6, CalmKept, AskingKept, AskedKept, AnsweringKept DEF PhaseInv
<1>8. ClientLocal
  BY <1>1, <1>2, <1>5, <1>6, <1>7 DEF ClientLocal, Between, EndInv, FateInv, Labels
<1>9. ClientInv'
  BY <1>1, <1>5, <1>6, <1>7 DEF ClientInv, Between, Reading
<1> QED  BY <1>2, <1>3, <1>4, <1>8, <1>9, ClientStepKeeps DEF EchoInv

LEMMA Turned ==
  ASSUME TypeInv, NEW l \in Labels, pc' = [pc EXCEPT ![0] = l]
  PROVE  pc' \in [Endpoints -> Labels] /\ pc'[0] = l /\ \A k \in Conns : pc'[k] = pc[k]
<1>1. 0 \in Endpoints /\ \A k \in Conns : k # 0 /\ k \in Endpoints
  BY Numbers
<1> QED  BY <1>1 DEF TypeInv

LEMMA ClientMovesOn ==
  ASSUME EchoInv, Connected \/ ConnectFails \/ Working \/ Request
  PROVE  EchoInv'
<1>1. TypeInv /\ CountInv /\ EndInv /\ 0 \in Endpoints /\ \A k \in Conns : k # 0
  BY Numbers DEF EchoInv
<1>2. /\ num \in Nat /\ i \in Nat /\ task \in Nat /\ Exchanges \in Nat /\ task <= Tasks /\ i <= Exchanges
      /\ Tasks \in Nat /\ Tasks * Exchanges \in Nat
  BY <1>1, Numbers DEF TypeInv
<1> USE DEF Goto, Labels, net, client, proc, io
<1>3. CASE Connected
  <2>1. /\ pc[0] = "connecting" /\ pc' = [pc EXCEPT ![0] = "working"] /\ nonblock' = FALSE
        /\ cur' = cur /\ num' = num /\ task' = task /\ i' = i /\ fate' = fate /\ cap' = cap
        /\ UNCHANGED <<chan, cliEnd, srvEnd, served, proc, io>> /\ trouble' = trouble
    BY <1>3 DEF Connected, SetBlock
  <2>2. Between
    BY <1>1, <2>1, Turned DEF Between, TypeInv
  <2>3. CountInv'
    BY <1>1, <2>1, <2>2 DEF CountInv, Between
  <2> QED  BY <2>2, <2>3, BetweenKeeps
<1>4. CASE ConnectFails
  <2>1. /\ pc[0] = "connecting" /\ nonblock' = FALSE
        /\ pc' = [pc EXCEPT ![0] = IF cur < MaxConn THEN "connect" ELSE "done"]
        /\ cur' = cur /\ num' = num /\ task' = task /\ i' = i /\ fate' = fate /\ cap' = cap
        /\ UNCHANGED <<chan, cliEnd, srvEnd, served, proc, io>> /\ trouble \subseteq trouble'
    BY <1>4 DEF ConnectFails, SetBlock
  <2>2. Between
    BY <1>1, <2>1, Turned DEF Between, TypeInv
  <2>3. i = 0
    BY <1>1, <2>1 DEF CountInv
  <2>4. CountInv'
    BY <1>1, <2>1, <2>3, <2>2 DEF CountInv, Between
  <2> QED  BY <2>2, <2>4, BetweenKeeps
<1>5. CASE Working
  <2>1. ~nonblock /\ i = 0
    BY <1>1, <1>5 DEF Working, EndInv, CountInv
  <2>2. Between
    <3>1. task' \in 0..Tasks /\ i' \in 0..Exchanges
      BY <1>1, <1>2, <1>5 DEF Working, TypeInv
    <3>2. /\ pc[0] = "working" /\ pc' = [pc EXCEPT ![0] = IF task = 0 THEN "done" ELSE "request"]
          /\ cur' = cur /\ num' = num /\ fate' = fate /\ cap' = cap /\ nonblock' = nonblock
          /\ UNCHANGED <<chan, cliEnd, srvEnd, served, proc, io>> /\ trouble' = trouble
      BY <1>5 DEF Working
    <3> QED  BY <1>1, <2>1, <3>1, <3>2, Turned DEF Between, TypeInv
  <2>3. CountInv'
    <3>1. CASE task = 0
      BY <1>1, <1>5, <2>1, <3>1 DEF Working, CountInv, TypeInv
    <3>2. CASE task # 0
      <4>1. task' = task - 1 /\ i' = Exchanges /\ num' = num /\ pc'[0] = "request"
        BY <1>1, <1>5, <3>2 DEF Working, TypeInv
      <4>2. (task - 1) * Exchanges = task * Exchanges - Exchanges /\ task * Exchanges \in Nat
        BY <1>2, <3>2
      <4>3. num + 0 + task * Exchanges <= Tasks * Exchanges
        BY <1>1, <2>1 DEF CountInv
      <4> QED  BY <1>2, <4>1, <4>2, <4>3 DEF CountInv
    <3> QED  BY <3>1, <3>2
  <2> QED  BY <2>2, <2>3, BetweenKeeps
<1>6. CASE Request
  <2>1. ~nonblock
    BY <1>1, <1>6 DEF Request, EndInv
  <2>2. Between
    <3>1. i' \in 0..Exchanges /\ num' \in Nat
      BY <1>1, <1>2, <1>6 DEF Request, TypeInv
    <3>2. /\ pc[0] = "request" /\ pc' = [pc EXCEPT ![0] = IF i = 0 THEN "working" ELSE "send"]
          /\ cur' = cur /\ task' = task /\ fate' = fate /\ cap' = cap /\ nonblock' = nonblock
          /\ UNCHANGED <<chan, cliEnd, srvEnd, served, proc, io>> /\ trouble' = trouble
      BY <1>6 DEF Request
    <3> QED  BY <1>1, <1>2, <2>1, <3>1, <3>2, Turned DEF Between, TypeInv
  <2>3. CountInv'
    <3>1. CASE i = 0
      BY <1>1, <1>6, <3>1 DEF Request, CountInv, TypeInv
    <3>2. CASE i # 0
      <4>1. task' = task /\ i' = i - 1 /\ num' = num + 1 /\ pc'[0] = "send"
        BY <1>1, <1>6, <3>2 DEF Request, TypeInv
      <4>2. (num + 1) + (i - 1) = num + i /\ num + 1 # 0
        BY <1>2, <3>2
      <4> QED  BY <1>1, <4>1, <4>2 DEF CountInv
    <3> QED  BY <3>1, <3>2
  <2> QED  BY <2>2, <2>3, BetweenKeeps
<1> QED  BY <1>3, <1>4, <1>5, <1>6

LEMMA ClientAnswered == ASSUME EchoInv, Answered PROVE EchoInv'
<1>1. /\ TypeInv /\ CountInv /\ EndInv /\ PhaseInv /\ ClientInv /\ FateInv /\ SizeInv
      /\ pc[0] = "answered" /\ Attached
  BY DEF EchoInv, Answered, Attached
<1>2. /\ cur \in Conns /\ cur \in cliEnd /\ cur \in 1..cur /\ Conn(0) = cur /\ cur # 0 /\ In(0) = "down"
      /\ ~nonblock
  BY <1>1, ClientEnd, Numbers DEF EndInv, In
<1>3. /\ cur' = cur /\ cap' = cap /\ num' = num /\ task' = task /\ nonblock' = nonblock
      /\ UNCHANGED proc /\ UNCHANGED io
  BY DEF Answered
<1>4. CASE res[0] # 0
  <2>1. /\ pc' = [pc EXCEPT ![0] = "request"] /\ "request" \in Labels /\ fate' = fate /\ i' = i
        /\ UNCHANGED <<chan, cliEnd, srvEnd, served>> /\ trouble' = trouble
    BY <1>4 DEF Answered, Goto, Labels, net
  <2>2. Between
    BY <1>1, <1>2, <1>3, <1>4, <2>1, Turned DEF Between, TypeInv
  <2>3. CountInv'
    BY <1>1, <1>3, <2>1, <2>2 DEF CountInv, Between
  <2> QED  BY <2>2, <2>3, BetweenKeeps
<1>5. CASE res[0] = 0
  <2>1. /\ cliEnd' = cliEnd \ {cur} /\ trouble' = trouble \union {cur}
        /\ fate' = IF Incoming(0) # <<>> /\ fate[cur] = "none"
                     THEN [fate EXCEPT ![cur] = "reset"] ELSE fate
        /\ i' = 0 /\ pc' = [pc EXCEPT ![0] = IF cur < MaxConn THEN "connect" ELSE "done"]
        /\ chan' = chan /\ srvEnd' = srvEnd /\ served' = served
    BY <1>5 DEF Answered, Goto
  <2>2. /\ pc' \in [Endpoints -> Labels] /\ pc'[0] \in {"connect", "done"}
        /\ \A k \in Conns : pc'[k] = pc[k]
    BY <1>1, <2>1, Turned DEF Labels
  <2>3. fate[cur] = "none"
    BY <1>1, <1>2 DEF EndInv
  <2>4. /\ fate' \in [Endpoints -> {"none", "reset", "broken"}] /\ fate'[0] = fate[0]
        /\ \A k \in Conns \ {cur} : fate'[k] = fate[k]
        /\ fate'[cur] # "broken" /\ (fate'[cur] # "none" => chan[cur]["down"] # <<>>)
    BY <1>1, <1>2, <2>1, <2>3, Numbers DEF TypeInv, Incoming
  <2>5. TypeInv' /\ SizeInv'
    <3>1. i' \in 0..Exchanges
      BY <2>1, Numbers
    <3> QED  BY <1>1, <1>3, <2>1, <2>2, <2>4, <3>1 DEF TypeInv, SizeInv, proc, io
  <2>6. CountInv'
    <3>1. num + i + task * Exchanges <= Tasks * Exchanges /\ num \in Nat /\ i \in Nat
          /\ task * Exchanges \in Nat /\ Tasks * Exchanges \in Nat
      BY <1>1, Numbers DEF CountInv, TypeInv
    <3> QED  BY <1>3, <2>1, <2>2, <3>1 DEF CountInv
  <2>7. ClientFrame
    BY <1>3, <2>1, <2>2, <2>4 DEF ClientFrame, io
  <2>8. Same(cur) /\ SameWriter(cur) /\ SameReader(cur)
    BY <1>1, <1>2, <1>3, <2>1, <2>2 DEF Same, SameWriter, SameReader, io
  <2>9. PICK k : k = cur
    OBVIOUS
  <2>10. /\ Calm(k)' \/ Asking(k)' \/ Asked(k)' \/ Answering(k)'
         /\ Answering(k) => Answering(k)'
    BY <1>1, <1>2, <2>8, <2>9, CalmKept, AskingKept, AskedKept, AnsweringKept DEF PhaseInv
  <2>11. fate'[cur] # "none" => Answering(k)'
    BY <1>1, <1>2, <2>4, <2>9, <2>10, PhaseOf
  <2>12. ClientLocal
    BY <1>1, <1>2, <1>3, <2>1, <2>2, <2>4, <2>9, <2>10, <2>11
       DEF ClientLocal, EndInv, Attached, Labels
  <2>13. ClientInv'
    BY <2>2 DEF ClientInv, Reading
  <2> QED  BY <1>2, <2>5, <2>6, <2>7, <2>12, <2>13, ClientStepKeeps DEF EchoInv
<1> QED  BY <1>4, <1>5

LEMMA ClientKilled == ASSUME EchoInv, Sigpipe(0) PROVE EchoInv'
<1>1. /\ TypeInv /\ CountInv /\ EndInv /\ PhaseInv /\ ClientInv /\ FateInv /\ SizeInv
      /\ pc[0] = "writen" /\ fate[0] = "broken" /\ Attached
  BY DEF EchoInv, Sigpipe, Attached
<1>2. /\ cur \in Conns /\ cur \in cliEnd /\ cur \notin srvEnd /\ ~nonblock
  BY <1>1, ClientEnd DEF EndInv
<1>3. /\ UNCHANGED <<cap, net, fate, proc, client, io>> /\ pc' = [pc EXCEPT ![0] = "killed"]
      /\ "killed" \in Labels
  BY DEF Sigpipe, Goto, Labels
<1>4. pc' \in [Endpoints -> Labels] /\ pc'[0] = "killed" /\ \A k \in Conns : pc'[k] = pc[k]
  BY <1>1, <1>3, Turned
<1>5. TypeInv' /\ SizeInv' /\ CountInv'
  BY <1>1, <1>3, <1>4 DEF TypeInv, SizeInv, CountInv, net, proc, client, io
<1>6. ClientFrame
  BY <1>3, <1>4 DEF ClientFrame, net, client, io
<1>7. Asking(cur)'
  <2>1. Asking(cur)
    BY <1>1 DEF ClientInv
  <2> QED  BY <1>2, <1>3, <1>4, <2>1 DEF Asking, Pending, Settled, Empty, Current, net, client, io
<1>8. ClientLocal
  BY <1>1, <1>2, <1>3, <1>4, <1>7 DEF ClientLocal, EndInv, FateInv, Attached, Labels, net, client
<1>9. ClientInv'
  BY <1>4 DEF ClientInv, Reading
<1> QED  BY <1>2, <1>5, <1>6, <1>8, <1>9, ClientStepKeeps DEF EchoInv

LEMMA ConnectKeeps == ASSUME EchoInv, ConnectToHost PROVE EchoInv'
<1>1. TypeInv /\ CountInv /\ EndInv /\ PhaseInv /\ FateInv /\ SizeInv
  BY DEF EchoInv
<1>2. /\ pc[0] = "connect" /\ cur < MaxConn /\ cur' = cur + 1 /\ nonblock' = TRUE
      /\ cliEnd' = cliEnd \union {cur + 1} /\ srvEnd' = srvEnd \union {cur + 1}
      /\ fate' = [fate EXCEPT ![0] = "none"] /\ pc' = [pc EXCEPT ![0] = "connecting"]
      /\ "connecting" \in Labels
      /\ UNCHANGED <<cap, chan, served, trouble, proc, num, task, i, io>>
  BY DEF ConnectToHost, Goto, Labels
<1>3. /\ cur \in Nat /\ cur + 1 \in Conns /\ cur + 1 \in 0..MaxConn /\ 1..(cur + 1) = (1..cur) \union {cur + 1}
      /\ cur + 1 \notin 1..cur
  BY <1>1, <1>2, Numbers DEF TypeInv
<1>4. pc' \in [Endpoints -> Labels] /\ pc'[0] = "connecting" /\ \A k \in Conns : pc'[k] = pc[k]
  BY <1>1, <1>2, Turned
<1>5. /\ fate' \in [Endpoints -> {"none", "reset", "broken"}] /\ fate'[0] = "none"
      /\ \A k \in Conns : fate'[k] = fate[k]
  BY <1>1, <1>2, Numbers DEF TypeInv
<1>6. TypeInv' /\ SizeInv'
  BY <1>1, <1>2, <1>3, <1>4, <1>5 DEF TypeInv, SizeInv, proc, io
<1>7. CountInv'
  BY <1>1, <1>2, <1>4 DEF CountInv
<1>8. /\ pc[cur + 1] = "none" /\ cur + 1 \notin served /\ fate[cur + 1] = "none"
      /\ \A d \in Dirs : /\ chan[cur + 1][d] = <<>> /\ sent[cur + 1][d] = <<>>
                         /\ delivered[cur + 1][d] = <<>>
  <2>1. cur + 1 > cur
    BY <1>3
  <2>2. /\ pc[cur + 1] = "none" /\ cur + 1 \notin served
        /\ \A d \in Dirs : /\ chan[cur + 1][d] = <<>> /\ sent[cur + 1][d] = <<>>
                           /\ delivered[cur + 1][d] = <<>>
    BY <1>1, <1>3, <2>1 DEF EndInv
  <2> QED  BY <1>1, <1>3, <2>2 DEF FateInv, Answering, Waits
<1>9. \A k \in Conns : k <= cur => k \in 1..cur /\ k # cur + 1
  BY <1>3, Numbers
<1>10. \A k \in Conns : k <= cur + 1 => k <= cur \/ k = cur + 1
  BY <1>3, Numbers
<1>11. \A k \in Conns : k > cur + 1 => k > cur /\ k # cur + 1
  BY <1>3, Numbers
<1>12. EndInv'
  <2>1. /\ served' \subseteq srvEnd' /\ srvEnd' \subseteq 1..cur' /\ cliEnd' \subseteq 1..cur'
        /\ cur' \in cliEnd' /\ fate'[0] = "none" /\ pc'[0] = "connecting"
    BY <1>1, <1>2, <1>3, <1>4, <1>5 DEF EndInv
  <2>2. \A k \in Conns :
          /\ k \in srvEnd' => (pc'[k] = "none" <=> k \notin served')
          /\ k \notin srvEnd' => pc'[k] \in {"none", "ended"}
          /\ pc'[k] = "ended" => k \in trouble'
    BY <1>1, <1>2, <1>4, <1>8 DEF EndInv
  <2>3. \A k \in Conns :
          /\ k <= cur' /\ (k \notin srvEnd' \/ k \notin cliEnd') => k \in trouble'
          /\ fate'[k] # "none" => k \notin cliEnd'
    BY <1>1, <1>2, <1>5, <1>8, <1>10 DEF EndInv
  <2>4. \A k \in Conns : k > cur' =>
          /\ pc'[k] = "none"
          /\ \A d \in Dirs : chan'[k][d] = <<>> /\ sent'[k][d] = <<>> /\ delivered'[k][d] = <<>>
    BY <1>1, <1>2, <1>4, <1>11 DEF EndInv, io
  <2> QED  BY <2>1, <2>2, <2>3, <2>4 DEF EndInv, Labels
<1>13. \A k \in 1..cur :
         /\ Calm(k) => Calm(k)'
         /\ Asking(k) => Asking(k)'
         /\ Asked(k) => Asked(k)'
         /\ Answering(k) => Answering(k)'
  <2> TAKE k \in 1..cur
  <2>1. k \in Conns /\ k # cur + 1
    BY <1>3, <1>1, Numbers DEF TypeInv
  <2>2. Same(k) /\ SameWriter(k) /\ SameReader(k)
    BY <1>2, <1>4, <2>1 DEF Same, SameWriter, SameReader, io
  <2> QED  BY <2>2, CalmKept, AskingKept, AskedKept, AnsweringKept
<1>14. PICK new : new = cur + 1
  OBVIOUS
<1>15. Calm(new)'
  BY <1>2, <1>3, <1>4, <1>8, <1>14 DEF Calm, Settled, Empty, Waits, Dirs, io
<1>16. PhaseInv'
  <2> SUFFICES ASSUME NEW k \in 1..(cur + 1)
               PROVE  Calm(k)' \/ Asking(k)' \/ Asked(k)' \/ Answering(k)'
    BY <1>2 DEF PhaseInv
  <2>1. CASE k = new
    BY <1>15, <2>1
  <2>2. CASE k # new
    <3>1. k \in 1..cur
      BY <1>3, <1>14, <2>2
    <3> QED  BY <1>1, <1>13, <3>1 DEF PhaseInv
  <2> QED  BY <2>1, <2>2
<1>17. ClientInv'
  BY <1>2, <1>4, <1>5, <1>14, <1>15 DEF ClientInv, Reading
<1>18. FateInv'
  <2>1. \A k \in Conns : fate[k] # "none" => k \in 1..cur
    BY <1>1, <1>3, ServerEnd DEF FateInv, Answering
  <2>2. Roomy' <=> Roomy
    BY <1>2 DEF Roomy
  <2> QED  BY <1>1, <1>4, <1>5, <1>13, <2>1, <2>2 DEF FateInv
<1> QED  BY <1>6, <1>7, <1>12, <1>16, <1>17, <1>18 DEF EchoInv

\* The server starts again; and a step that changes nothing.
LEMMA Untouched ==
  ASSUME EchoInv, alive' \in BOOLEAN, deaths' = deaths,
         UNCHANGED <<cap, net, fate, client, pc, io>>
  PROVE  EchoInv'
<1>1. TypeInv /\ CountInv /\ EndInv /\ PhaseInv /\ ClientInv /\ FateInv /\ SizeInv
  BY DEF EchoInv
<1>2. /\ cap' = cap /\ chan' = chan /\ cliEnd' = cliEnd /\ srvEnd' = srvEnd /\ served' = served
      /\ trouble' = trouble /\ fate' = fate /\ cur' = cur /\ nonblock' = nonblock /\ num' = num
      /\ task' = task /\ i' = i /\ pc' = pc /\ todo' = todo /\ got' = got /\ res' = res
      /\ sent' = sent /\ delivered' = delivered
  BY DEF net, client, io
<1>3. TypeInv' /\ SizeInv' /\ CountInv'
  BY <1>1, <1>2 DEF TypeInv, SizeInv, CountInv
<1>4. EndInv'
  BY <1>1, <1>2 DEF EndInv, Attached
<1>5. \A k :
        /\ Calm(k) => Calm(k)'
        /\ Asking(k) => Asking(k)'
        /\ Asked(k) => Asked(k)'
        /\ Answering(k) => Answering(k)'
        /\ Current(k)' = Current(k) /\ (Settled(k, "down")' <=> Settled(k, "down"))
  <2> TAKE k
  <2>1. Same(k) /\ SameWriter(k) /\ SameReader(k)
    BY <1>2 DEF Same, SameWriter, SameReader
  <2>2. Current(k)' = Current(k) /\ (Settled(k, "down")' <=> Settled(k, "down"))
    BY <1>2 DEF Current, Settled
  <2> QED  BY <2>1, <2>2, CalmKept, AskingKept, AskedKept, AnsweringKept
<1>6. PhaseInv'
  BY <1>1, <1>2, <1>5 DEF PhaseInv
<1>7. ClientInv'
  BY <1>1, <1>2, <1>5 DEF ClientInv, Reading, Roomy
<1>8. FateInv'
  BY <1>1, <1>2, <1>5 DEF FateInv, Roomy
<1> QED  BY <1>3, <1>4, <1>6, <1>7, <1>8 DEF EchoInv

-----------------------------------------------------------------------------
(* The invariant holds in every reachable state *)

LEMMA InitEcho == Init => EchoInv
<1> SUFFICES ASSUME Init PROVE EchoInv
  OBVIOUS
<1>1. /\ cap \in Caps /\ cap \in Nat /\ cur = 0 /\ num = 0 /\ task = Tasks /\ i = 0 /\ nonblock = FALSE
      /\ cliEnd = {} /\ srvEnd = {} /\ served = {} /\ alive = TRUE /\ deaths = 0
      /\ pc = [e \in Endpoints |-> IF e = 0 THEN "connect" ELSE "none"]
      /\ fate = [e \in Endpoints |-> "none"]
      /\ todo = [e \in Endpoints |-> <<>>] /\ got = [e \in Endpoints |-> <<>>]
      /\ res = [e \in Endpoints |-> 0]
  BY TcpAssumption DEF Init
<1>2. /\ chan = [k \in Conns |-> [d \in Dirs |-> <<>>]] /\ sent = [k \in Conns |-> [d \in Dirs |-> <<>>]]
      /\ delivered = [k \in Conns |-> [d \in Dirs |-> <<>>]]
  BY DEF Init, Dirs
<1>3. /\ <<>> \in Seq(Pieces) /\ <<>> \in Seq(Messages) /\ Len(<<>>) = 0
      /\ 0 \in 0..MaxConn /\ 0 \in Nat /\ Tasks \in 0..Tasks /\ 0 \in 0..Exchanges /\ 0 \in 0..MaxDeaths
      /\ 0 <= FrameLen /\ 0 + 0 + Tasks * Exchanges = Tasks * Exchanges
      /\ Tasks * Exchanges <= Tasks * Exchanges
  BY Numbers
<1>4. pc[0] = "connect" /\ fate[0] = "none" /\ \A k \in Conns : pc[k] = "none" /\ fate[k] = "none" /\ k > 0
  BY <1>1, Numbers
<1>5. TypeInv
  BY <1>1, <1>2, <1>3 DEF TypeInv, Labels
<1>6. CountInv
  BY <1>1, <1>3, <1>4 DEF CountInv
<1>7. EndInv
  BY <1>1, <1>2, <1>4, Numbers DEF EndInv, Attached, Labels
<1>8. PhaseInv
  BY <1>1 DEF PhaseInv
<1>9. ClientInv /\ FateInv
  BY <1>4 DEF ClientInv, FateInv, Reading
<1>10. SizeInv
  <2>1. 0 <= cap
    BY <1>1
  <2> QED  BY <1>1, <1>2, <1>3, <2>1 DEF SizeInv, Dirs
<1> QED  BY <1>5, <1>6, <1>7, <1>8, <1>9, <1>10 DEF EchoInv

LEMMA NextEcho == EchoInv /\ [Next]_vars => EchoInv'
<1> SUFFICES ASSUME EchoInv, [Next]_vars PROVE EchoInv'
  OBVIOUS
<1>1. TypeInv
  BY DEF EchoInv
<1>2. CASE Step(0)
  BY <1>2, ClientCallsKeep, ClientKilled DEF Step, Calls
<1>3. CASE ConnectToHost \/ Connected \/ ConnectFails \/ Working \/ Request \/ Answered
  BY <1>3, ConnectKeeps, ClientMovesOn, ClientAnswered
<1>4. ASSUME NEW k \in Conns, Step(k) \/ AcceptConn(k) PROVE EchoInv'
  <2>1. CASE Calls(k)
    BY <2>1, ServerCallKeeps
  <2>2. CASE Sigpipe(k)
    <3>1. Dies /\ UNCHANGED <<cap, chan, cliEnd, deaths, client, io>>
      BY <2>2, Numbers DEF Sigpipe
    <3>2. deaths' \in 0..MaxDeaths
      BY <1>1, <3>1 DEF TypeInv
    <3> QED  BY <3>1, <3>2, DiesKeeps
  <2>3. CASE AcceptConn(k)
    BY <2>3, AcceptKeeps
  <2> QED  BY <1>4, <2>1, <2>2, <2>3 DEF Step, Calls
<1>5. CASE ServerDies
  <2>1. Dies /\ UNCHANGED <<cap, chan, cliEnd, client, io>>
    BY <1>5 DEF ServerDies
  <2>2. deaths' \in 0..MaxDeaths
    BY <1>1, <1>5, Numbers DEF ServerDies, TypeInv
  <2> QED  BY <2>1, <2>2, DiesKeeps
<1>6. CASE ServerStarts
  BY <1>6, Untouched DEF ServerStarts
<1>7. CASE UNCHANGED vars
  <2>1. alive' = alive /\ alive \in BOOLEAN
    BY <1>1, <1>7 DEF vars, proc, TypeInv
  <2> QED  BY <1>7, <2>1, Untouched DEF vars, proc
<1> QED  BY <1>2, <1>3, <1>4, <1>5, <1>6, <1>7 DEF Next, ClientStep

LEMMA EchoInvariant == Spec => []EchoInv
BY InitEcho, NextEcho, PTL DEF Spec

-----------------------------------------------------------------------------
(* What follows *)

\* No stream ever holds more than its capacity, neither program more than a frame
\* of the message at hand, and working() makes no request more than it is asked for.
THEOREM EchoTypes == Spec => []TypeOK
<1>1. EchoInv => TypeOK
  <2> SUFFICES ASSUME EchoInv PROVE TypeOK
    OBVIOUS
  <2>1. TypeInv /\ CountInv /\ EndInv /\ SizeInv
    BY DEF EchoInv
  <2>2. num \in {0} \union Messages
    BY <2>1, NumRange
  <2>3. srvEnd \subseteq Conns /\ cliEnd \subseteq Conns /\ cur \in Endpoints
    BY <2>1, Numbers DEF TypeInv, EndInv
  <2> QED  BY <2>1, <2>2, <2>3 DEF TypeOK, TypeInv, EndInv, SizeInv, Dirs
<1> QED  BY <1>1, EchoInvariant, PTL

\* What recvMsg returns is what sendMsg was called with at the other end, each message
\* once and in order: a connection never carries more than the frame of one message.
THEOREM MessagesInOrder == Spec => []DeliveredInOrder
<1>1. EchoInv => DeliveredInOrder
  <2> SUFFICES ASSUME EchoInv, NEW k \in Conns, NEW d \in Dirs
               PROVE  IsPrefix(delivered[k][d], sent[k][d])
    BY DEF DeliveredInOrder, Dirs
  <2>1. TypeInv /\ EndInv /\ PhaseInv
    BY DEF EchoInv
  <2>2. delivered[k][d] \in Seq(Messages)
    BY <2>1 DEF TypeInv
  <2>3. CASE k > cur
    BY <2>1, <2>3 DEF EndInv, IsPrefix
  <2>4. CASE ~(k > cur)
    <3>1. k \in 1..cur
      BY <2>1, <2>4, Numbers DEF TypeInv
    <3>2. \/ Settled(k, d)
          \/ Pending(k, d) /\ Current(k) \in Messages
      BY <2>1, <3>1 DEF PhaseInv, Calm, Asking, Asked, Answering, Dirs
    <3>3. CASE Settled(k, d)
      BY <2>2, <3>3 DEF Settled, IsPrefix
    <3>4. CASE Pending(k, d) /\ Current(k) \in Messages
      <4>1. \A s \in Seq(Messages), m \in Messages : IsPrefix(s, Append(s, m))
        <5> TAKE s \in Seq(Messages), m \in Messages
        <5>1. /\ Len(Append(s, m)) = Len(s) + 1 /\ Len(s) \in Nat /\ Append(s, m) \in Seq(Messages)
              /\ \A p \in 1..Len(s) : Append(s, m)[p] = s[p]
          BY AppendProperties
        <5>2. SubSeq(s, 1, Len(s)) = [p \in 1..Len(s) |-> s[p]]
          BY <5>1
        <5>3. SubSeq(Append(s, m), 1, Len(s)) = [p \in 1..Len(s) |-> Append(s, m)[p]]
          BY <5>1
        <5> QED  BY <5>1, <5>2, <5>3 DEF IsPrefix
      <4> QED  BY <2>2, <3>4, <4>1 DEF Pending
    <3> QED  BY <3>2, <3>3, <3>4
  <2> QED  BY <2>3, <2>4
<1> QED  BY <1>1, EchoInvariant, PTL

\* An answer working() accepts is that of its last request, a message is put into an
\* empty stream only, and an empty string means that somebody gave up, closed or died.
THEOREM AnswersInStep == Spec => []LockStep
<1>1. EchoInv => LockStep
  <2> SUFFICES ASSUME EchoInv PROVE LockStep
    OBVIOUS
  <2>1. TypeInv /\ EndInv /\ PhaseInv /\ ClientInv
    BY DEF EchoInv
  <2>2. ASSUME NEW e \in Endpoints, pc[e] = "send" PROVE Outgoing(e) = <<>>
    <3>1. CASE e = 0
      <4>1. Conn(0) = cur /\ Out(0) = "up" /\ Calm(cur)
        BY <2>1, <2>2, <3>1 DEF Conn, Out, ClientInv
      <4> QED  BY <3>1, <4>1 DEF Calm, Empty, Outgoing
    <3>2. CASE e # 0
      <4>1. e \in Conns
        BY <3>2, Numbers
      <4>2. Conn(e) = e /\ Out(e) = "down" /\ Asked(e)
        BY <2>1, <2>2, <4>1, ServerEnd, PhaseOf
      <4> QED  BY <4>2 DEF Asked, Empty, Outgoing
    <3> QED  BY <3>1, <3>2
  <2> QED  BY <2>1, <2>2 DEF LockStep, ClientInv, EndInv
<1> QED  BY <1>1, EchoInvariant, PTL

\* Neither process is ended by SIGPIPE while a frame fits into one write.
THEOREM SigpipeNever == Spec => []NeverSigpipe
<1>1. EchoInv => NeverSigpipe
  <2> SUFFICES ASSUME EchoInv, Roomy, NEW e \in Endpoints PROVE ~(pc[e] = "writen" /\ fate[e] = "broken")
    BY DEF NeverSigpipe
  <2>1. e = 0 \/ e \in Conns
    BY Numbers
  <2> QED  BY <2>1 DEF EchoInv, ClientInv, FateInv
<1> QED  BY <1>1, EchoInvariant, PTL
=============================================================================

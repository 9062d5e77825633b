------------------------------ MODULE SecKeyShm ------------------------------
(***************************************************************************)
(* The table of secret keys in System V shared memory: BaseShm.cpp,        *)
(* SecKeyShm.cpp and their program main.cpp.  Writers and readers are      *)
(* processes of their own.  They share the table and nothing else: no lock *)
(* guards it, and it outlives them.  A node is copied in and out piece by  *)
(* piece, since memcpy promises neither an order nor atomicity: its ids    *)
(* and its number are a piece each, its key of 128 bytes two, which stand  *)
(* for the bytes before and after whatever byte a copy is seen at.  (Of an *)
(* id that is half there no byte is asked: it equals no name, as an id     *)
(* whose other is missing matches no pair.)                                *)
(***************************************************************************)
EXTENDS Integers, Sequences, FiniteSets

CONSTANTS Writers,   \* processes that run writeShm(), once each
          Readers,   \* processes that run readShm(), again and again
          Overlaps,  \* may two writers be in shmWrite at once? (a set of answers)
          MaxNode,   \* m_maxNode
          NoKey      \* the seckey and seckeyID of an empty node

ASSUME ShmAssumption == /\ MaxNode \in Nat \ {0}
                        /\ Overlaps \subseteq BOOLEAN
                        /\ Writers \intersect (Readers \union {NoKey, "any", "torn"}) = {}
                        /\ NoKey \notin {"any", "torn"}

VARIABLES
  shm,      \* the nodes of the segment
  pc,       \* where each process is
  shmID,    \* FALSE: shmget failed, m_shmID is -1
  shmAddr,  \* m_shmAddr: "NULL", "mapped", "stale" (detached) or "bad" ((void*)-1)
  call,     \* the number of the shmWrite a writer is at
  i,        \* the loop variable of shmWrite and shmRead
  left,     \* the pieces still to copy
  info,     \* the node a reader has copied
  failed,   \* the writers to which a shmWrite has returned -1 (main looks at none)
  overlap,  \* whether writers overlap in this behaviour
  last,     \* history: the writer of a pair's last write, "torn" from its first byte to its last
  begun,    \* history: the writers that have begun to copy a node of a pair
  due       \* history: the seckey a read has to find, or "any"

vars == <<shm, pc, shmID, shmAddr, call, i, left, info, failed, overlap, last, begun, due>>

Procs  == Writers \union Readers
Slots  == 0..(MaxNode - 1)
Fields == {"clientID", "serverID",
           "seckeyID",                    \* status goes with it
           "seckeyHead", "seckeyTail"}    \* the first and the other bytes of seckey

\* the clientID/serverID pairs writeShm() writes, in order, and the one readShm() asks for
Calls == <<<<"kevin", "Alice">>, <<"Bob", "Jack">>>>
Asked == <<"Bob", "Jack">>
Pairs == {Calls[n] : n \in DOMAIN Calls}
Pair(p) == IF p \in Writers THEN Calls[call[p]] ELSE Asked

EmptyNode    == [clientID |-> "", serverID |-> "", seckeyID |-> NoKey,
                 seckeyHead |-> NoKey, seckeyTail |-> NoKey]
NodeOf(w, k) == [clientID |-> k[1], serverID |-> k[2], seckeyID |-> w,
                 seckeyHead |-> w, seckeyTail |-> w]

Init == /\ shm = [s \in Slots |-> EmptyNode]
        /\ pc = [p \in Procs |-> "construct"]
        /\ shmID = [p \in Procs |-> FALSE]
        /\ shmAddr = [p \in Procs |-> "NULL"]
        /\ call = [w \in Writers |-> 1]
        /\ i = [p \in Procs |-> 0]
        /\ left = [p \in Procs |-> {}]
        /\ info = [r \in Readers |-> EmptyNode]
        /\ failed = {}
        /\ overlap \in Overlaps
        /\ last = [k \in Pairs |-> NoKey]
        /\ begun = [k \in Pairs |-> {}]
        /\ due = [r \in Readers |-> "any"]

table   == <<shm, overlap, last, begun>>
cursor  == <<i, left>>
results == <<info, failed, due>>
Goto(p, label) == pc' = [pc EXCEPT ![p] = label]
At(p, label)   == pc[p] = label

-----------------------------------------------------------------------------
GetShmID(p) == \E ok \in BOOLEAN : shmID' = [shmID EXCEPT ![p] = ok]

\* The constructor: getShmID() opens or creates the segment, or shmget fails.
Construct(p) ==
  /\ At(p, "construct") /\ GetShmID(p)
  /\ Goto(p, IF p \in Writers THEN "shmInit" ELSE "call")
  /\ UNCHANGED <<table, cursor, results, shmAddr, call>>

\* shmInit() clears the table only through a non-NULL m_shmAddr: before the first
\* mapShm(), where main calls it, it does nothing; later the address is detached.
ShmInit(w) ==
  /\ At(w, "shmInit")
  /\ Goto(w, IF shmAddr[w] = "NULL" THEN "call" ELSE "killed")
  /\ UNCHANGED <<table, cursor, results, shmID, shmAddr, call>>

NextCall(w) == IF call[w] < Len(Calls)
                 THEN Goto(w, "call") /\ call' = [call EXCEPT ![w] = @ + 1]
                 ELSE Goto(w, "done") /\ UNCHANGED call

Writing(w) == pc[w] \in {"clientID", "serverID", "empty", "copy", "unmap"}

\* mapShm() at the head of shmWrite and shmRead.  A reader must find the last
\* complete write, unless a write is under way.
MapShm(p) ==
  /\ At(p, "call") /\ shmID[p]
  /\ p \in Writers /\ ~overlap => \A w \in Writers : ~Writing(w)
  /\ shmAddr' = [shmAddr EXCEPT ![p] = "mapped"]
  /\ i' = [i EXCEPT ![p] = 0]
  /\ Goto(p, "clientID")
  /\ IF p \in Readers
       THEN /\ info' = [info EXCEPT ![p] = EmptyNode]
            /\ due' = [due EXCEPT ![p] = IF last[Asked] = "torn" THEN "any" ELSE last[Asked]]
       ELSE UNCHANGED <<info, due>>
  /\ UNCHANGED <<table, shmID, call, left, failed>>

\* shmat fails: shmWrite returns -1, shmRead an empty node
MapShmFails(p) ==
  /\ At(p, "call") /\ ~shmID[p]
  /\ shmAddr' = [shmAddr EXCEPT ![p] = "bad"]
  /\ IF p \in Writers
       THEN failed' = failed \union {p} /\ NextCall(p) /\ UNCHANGED info
       ELSE /\ info' = [info EXCEPT ![p] = EmptyNode]
            /\ Goto(p, "done") /\ UNCHANGED <<call, failed>>
  /\ UNCHANGED <<table, cursor, shmID, due>>

\* (mutant) the loop over the existing nodes compares nothing
CompareNothing(p) ==
  /\ At(p, "clientID") /\ i[p] < MaxNode
  /\ i' = [i EXCEPT ![p] = MaxNode] /\ UNCHANGED pc
  /\ UNCHANGED <<table, results, left, shmID, shmAddr, call>>

\* The search for the pair: strcmp of the clientIDs, then of the serverIDs.
CompareClientID(p) ==
  /\ At(p, "clientID") /\ i[p] < MaxNode
  /\ IF shm[i[p]].clientID = Pair(p)[1]
       THEN Goto(p, "serverID") /\ UNCHANGED i
       ELSE i' = [i EXCEPT ![p] = @ + 1] /\ UNCHANGED pc
  /\ UNCHANGED <<table, results, left, shmID, shmAddr, call>>

StartCopy(p) ==
  /\ Goto(p, "copy")
  /\ left' = [left EXCEPT ![p] = Fields]
  /\ IF p \in Writers
       THEN /\ last' = [last EXCEPT ![Pair(p)] = "torn"]
            /\ begun' = [begun EXCEPT ![Pair(p)] = @ \union {p}]
            /\ due' = IF Pair(p) = Asked THEN [r \in Readers |-> "any"] ELSE due
       ELSE UNCHANGED <<last, begun, due>>

\* (mutant) the second strcmp is missing
CompareClientOnly(p) ==
  /\ At(p, "serverID") /\ StartCopy(p) /\ UNCHANGED i
  /\ UNCHANGED <<shm, overlap, info, failed, shmID, shmAddr, call>>

CompareServerID(p) ==
  /\ At(p, "serverID")
  /\ IF shm[i[p]].serverID = Pair(p)[2]
       THEN StartCopy(p) /\ UNCHANGED i
       ELSE /\ i' = [i EXCEPT ![p] = @ + 1] /\ Goto(p, "clientID")
            /\ UNCHANGED <<left, last, begun, due>>
  /\ UNCHANGED <<shm, overlap, info, failed, shmID, shmAddr, call>>

\* No node matches: shmWrite looks for an empty one, shmRead gives up.
NoMatch(p) ==
  /\ At(p, "clientID") /\ i[p] = MaxNode
  /\ IF p \in Writers THEN Goto(p, "empty") /\ i' = [i EXCEPT ![p] = 0]
                      ELSE Goto(p, "unmap") /\ UNCHANGED i
  /\ UNCHANGED <<table, results, left, shmID, shmAddr, call>>

\* (mutant) the result of memcmp is not looked at
FindFirst(w) ==
  /\ At(w, "empty") /\ StartCopy(w)
  /\ UNCHANGED <<shm, overlap, i, info, failed, shmID, shmAddr, call>>

\* memcmp with an empty node, slot after slot; -1 when none is empty
FindEmpty(w) ==
  /\ At(w, "empty")
  /\ \/ /\ i[w] < MaxNode /\ shm[i[w]] = EmptyNode
        /\ StartCopy(w) /\ UNCHANGED <<i, failed>>
     \/ /\ i[w] < MaxNode /\ shm[i[w]] # EmptyNode
        /\ i' = [i EXCEPT ![w] = @ + 1]
        /\ UNCHANGED <<pc, left, last, begun, due, failed>>
     \/ /\ i[w] = MaxNode
        /\ failed' = failed \union {w} /\ Goto(w, "unmap")
        /\ UNCHANGED <<i, left, last, begun, due>>
  /\ UNCHANGED <<shm, overlap, info, shmID, shmAddr, call>>

\* memcpy(pNode, pNodeInfo), one piece
WriteField(w, f) ==
  /\ At(w, "copy") /\ f \in left[w]
  /\ shm' = [shm EXCEPT ![i[w]][f] = NodeOf(w, Pair(w))[f]]
  /\ left' = [left EXCEPT ![w] = @ \ {f}]
  /\ IF left[w] = {f}
       THEN Goto(w, "unmap") /\ last' = [last EXCEPT ![Pair(w)] = w]
       ELSE UNCHANGED <<pc, last>>
  /\ UNCHANGED <<overlap, begun, results, i, shmID, shmAddr, call>>

\* info = *pNode, one piece
ReadField(r, f) ==
  /\ At(r, "copy") /\ f \in left[r]
  /\ info' = [info EXCEPT ![r][f] = shm[i[r]][f]]
  /\ left' = [left EXCEPT ![r] = @ \ {f}]
  /\ IF left[r] = {f} THEN Goto(r, "unmap") ELSE UNCHANGED pc
  /\ UNCHANGED <<table, failed, due, i, shmID, shmAddr, call>>

\* unmapShm(): shmdt, and m_shmAddr keeps the address
UnmapShm(p) ==
  /\ At(p, "unmap")
  /\ shmAddr' = [shmAddr EXCEPT ![p] = "stale"]
  /\ i' = [i EXCEPT ![p] = 0]
  /\ IF p \in Writers THEN NextCall(p) ELSE Goto(p, "done") /\ UNCHANGED call
  /\ UNCHANGED <<table, left, results, shmID>>

\* the program is started again and reads again, in a process of its own
ReadAgain(r) ==
  /\ At(r, "done") /\ Goto(r, "construct")
  /\ shmID' = [shmID EXCEPT ![r] = FALSE]
  /\ shmAddr' = [shmAddr EXCEPT ![r] = "NULL"]
  /\ UNCHANGED <<table, cursor, results, call>>

\* a writer may be killed anywhere; what it has copied stays
Killed(w) ==
  /\ pc[w] \notin {"done", "killed"} /\ Goto(w, "killed")
  /\ UNCHANGED <<table, cursor, results, shmID, shmAddr, call>>

Next == \/ \E p \in Procs : \/ Construct(p) \/ MapShm(p) \/ MapShmFails(p)
                            \/ CompareClientID(p) \/ CompareServerID(p) \/ NoMatch(p)
                            \/ UnmapShm(p)
        \/ \E w \in Writers : \/ ShmInit(w) \/ FindEmpty(w) \/ Killed(w)
                              \/ \E f \in Fields : WriteField(w, f)
        \/ \E r \in Readers : ReadAgain(r) \/ \E f \in Fields : ReadField(r, f)

Spec == Init /\ [][Next]_vars

-----------------------------------------------------------------------------
NodeValues == [clientID : {""} \union {k[1] : k \in Pairs},
               serverID : {""} \union {k[2] : k \in Pairs},
               seckeyID : Writers \union {NoKey},
               seckeyHead : Writers \union {NoKey}, seckeyTail : Writers \union {NoKey}]
Holds(s, k) == shm[s].clientID = k[1] /\ shm[s].serverID = k[2]

\* Type invariant of the table and of the processes (SecKeyShm.h, BaseShm.h).
TypeOK ==
  /\ shm \in [Slots -> NodeValues] /\ info \in [Readers -> NodeValues]
  /\ pc \in [Procs -> {"construct", "shmInit", "call", "clientID", "serverID", "empty",
                       "copy", "unmap", "done", "killed"}]
  /\ shmID \in [Procs -> BOOLEAN]
  /\ shmAddr \in [Procs -> {"NULL", "mapped", "stale", "bad"}]
  /\ call \in [Writers -> DOMAIN Calls] /\ i \in [Procs -> 0..MaxNode]
  /\ left \in [Procs -> SUBSET Fields] /\ failed \in SUBSET Writers /\ overlap \in BOOLEAN
  /\ last \in [Pairs -> Writers \union {NoKey, "torn"}] /\ begun \in [Pairs -> SUBSET Writers]
  /\ due \in [Readers -> Writers \union {NoKey, "any"}]
  /\ \A p \in Procs : At(p, "copy") => i[p] \in Slots

\* When writers take turns, the last complete write of a pair stands: exactly one
\* node carries the pair, with the key of that write in all of its fields, whatever
\* writers were killed on the way, half a node written, and wherever they were.
LastWriteStands ==
  ~overlap => \A k \in Pairs : last[k] \in Writers =>
    \E s \in Slots : /\ shm[s] = NodeOf(last[k], k)
                     /\ \A t \in Slots \ {s} : ~Holds(t, k)

\* The pieces of a key.
KeyOf(node) == {node.seckeyHead, node.seckeyTail}

\* When writers take turns, a read during which its pair is not written returns
\* what the last write before it stored, with the whole of its key, and an empty
\* node if there was none.  A read that a write overlaps, or that comes after one
\* that was killed halfway, may return a number and a key put together from
\* several writes; but never the node of another pair, nor a piece that no write
\* of its own pair has put there.
AnswerOfOnePair ==
  ~overlap => \A r \in Readers : At(r, "done") =>
    /\ info[r] # EmptyNode =>
         /\ info[r].clientID = Asked[1] /\ info[r].serverID = Asked[2]
         /\ {info[r].seckeyID} \union KeyOf(info[r]) \subseteq begun[Asked] \union {NoKey}
    /\ shmID[r] /\ due[r] # "any" =>
         info[r] = IF due[r] = NoKey THEN EmptyNode ELSE NodeOf(due[r], Asked)

\* Writers that do overlap can undo each other's writes, mix the pieces of their
\* keys and leave two nodes for a pair; but once all have ended, none killed and
\* none refused, every pair is in the table with a key no piece of which is
\* missing: nobody's undoing outlives its own writes.
RaceConverges ==
  (\A w \in Writers : At(w, "done")) /\ failed = {} =>
    \A k \in Pairs : \E s \in Slots : /\ Holds(s, k) /\ KeyOf(shm[s]) \subseteq Writers
                                      /\ \A t \in 0..(s - 1) : ~Holds(t, k)

==============================================================================

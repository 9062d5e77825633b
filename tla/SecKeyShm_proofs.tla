-------------------------- MODULE SecKeyShm_proofs --------------------------
(***************************************************************************)
(* Proofs about the table of keys in shared memory, for every number of    *)
(* writers, readers and nodes: what a reader gets and what a write leaves  *)
(* when writers take turns, some of them killed, and what the table holds  *)
(* once writers that raced have all ended.                                 *)
(***************************************************************************)
EXTENDS SecKeyShm, WellFoundedInduction, TLAPS

-----------------------------------------------------------------------------
(* The inductive invariant when writers take turns *)

IDs    == {"clientID", "serverID"}
Pieces == {"seckeyHead", "seckeyTail"}

\* A node that carries part of the pair k, or nothing, with pieces of its writers.
Of(node, k) ==
  /\ node.clientID \in {"", k[1]} /\ node.serverID \in {"", k[2]}
  /\ {node.seckeyID} \union KeyOf(node) \subseteq begun[k] \union {NoKey}

PlaceInv ==
  /\ TypeOK
  /\ \A p \in Procs : At(p, "serverID") => i[p] \in Slots
  /\ \A r \in Readers : pc[r] \notin {"shmInit", "empty", "killed"}

TurnsInv == \A v, w \in Writers : Writing(v) /\ Writing(w) => v = w

\* No node holds two pairs, and no two nodes one pair; a pair that was written to
\* the end is in the table, and one that was not begun has left no trace there.
TableInv ==
  /\ \A s \in Slots : \E k \in Pairs : Of(shm[s], k)
  /\ \A k \in Pairs : \A s, t \in Slots : Holds(s, k) /\ Holds(t, k) => s = t
  /\ \A k \in Pairs : last[k] \in Writers => \E s \in Slots : shm[s] = NodeOf(last[k], k)
  /\ \A k \in Pairs : last[k] = NoKey => \A s \in Slots : shm[s].clientID # k[1]

\* What a writer has found out about the table, and what it has copied.
WriterOk(w) ==
  /\ pc[w] \in {"clientID", "serverID"} =>
       \A s \in Slots : s < i[w] => ~Holds(s, Pair(w))
  /\ At(w, "serverID") => shm[i[w]].clientID = Pair(w)[1]
  /\ At(w, "empty") => \A s \in Slots : ~Holds(s, Pair(w))
  /\ At(w, "copy") =>
       /\ last[Pair(w)] = "torn" /\ w \in begun[Pair(w)]
       /\ \A s \in Slots \ {i[w]} : ~Holds(s, Pair(w))
       /\ Of(shm[i[w]], Pair(w))
       /\ \A f \in Fields \ left[w] : shm[i[w]][f] = NodeOf(w, Pair(w))[f]

WriterInv == \A w \in Writers : WriterOk(w)

\* What a reader knows of the node it has found, and what it has copied of it.
Searching(r) == pc[r] \in {"clientID", "serverID"}
Reading(r) == Searching(r) \/ pc[r] \in {"copy", "unmap"}

Copied(r, f) ==
  /\ f = "clientID" => info[r][f] = Asked[1]
  /\ f = "serverID" => info[r][f] = Asked[2]
  /\ f \notin IDs => info[r][f] \in begun[Asked] \union {NoKey}
  /\ due[r] # "any" => info[r][f] = NodeOf(due[r], Asked)[f]

Answered(r) ==
  /\ info[r] # EmptyNode =>
       /\ info[r].clientID = Asked[1] /\ info[r].serverID = Asked[2]
       /\ {info[r].seckeyID} \union KeyOf(info[r]) \subseteq begun[Asked] \union {NoKey}
  /\ shmID[r] /\ due[r] # "any" =>
       info[r] = IF due[r] = NoKey THEN EmptyNode ELSE NodeOf(due[r], Asked)

ReaderOk(r) ==
  /\ Reading(r) \/ (At(r, "done") /\ shmID[r]) => due[r] \in {"any", last[Asked]}
  /\ Searching(r) => /\ info[r] = EmptyNode
                     /\ due[r] \in Writers => \A s \in Slots : s < i[r] => ~Holds(s, Asked)
  /\ At(r, "serverID") => shm[i[r]].clientID = Asked[1]
  /\ At(r, "copy") => /\ Holds(i[r], Asked)
                      /\ \A f \in Fields \ left[r] : Copied(r, f)
  /\ pc[r] \in {"unmap", "done"} => Answered(r)

ReaderInv == \A r \in Readers : ReaderOk(r)

ShmInv == PlaceInv /\ (~overlap => TurnsInv /\ TableInv /\ WriterInv /\ ReaderInv)

-----------------------------------------------------------------------------
(* The inductive invariant of writers that may overlap *)

First == Calls[1]
Second == Calls[2]
NoneKilled == \A w \in Writers : ~At(w, "killed")

\* A node with the first pair that no writer of the second is at.
Safe(s) ==
  /\ Holds(s, First) /\ \A q \in Pieces : shm[s][q] \in Writers
  /\ \A w \in Writers : call[w] = 2 /\ pc[w] \in {"serverID", "copy"} => i[w] # s

\* As long as all writers are at the first pair, what one has copied stays.
FirstInv ==
  failed = {} /\ (\A w \in Writers : call[w] = 1) =>
    \A w \in Writers : pc[w] \in {"copy", "unmap"} =>
      /\ \A f \in IDs \ left[w] : shm[i[w]][f] = NodeOf(w, First)[f]
      /\ \A q \in Pieces \ left[w] : shm[i[w]][q] \in Writers

\* The writer that came last to the second pair is still to write it, or is doing
\* so undisturbed, or has done so.
SecondInv ==
  failed = {} /\ NoneKilled /\ Writers # {} /\ (\A w \in Writers : call[w] = 2) =>
    \/ \E w \in Writers : pc[w] \notin {"copy", "unmap", "done"}
    \/ \E w \in Writers : /\ At(w, "copy")
                          /\ \A f \in IDs \ left[w] : shm[i[w]][f] = NodeOf(w, Second)[f]
    \/ \E s \in Slots : Holds(s, Second)

UnmapInv ==
  \A w \in Writers : /\ At(w, "unmap") /\ failed = {} => i[w] \in Slots /\ left[w] = {}
                     /\ At(w, "done") => call[w] = 2

SafeInv == failed = {} /\ (\E w \in Writers : call[w] = 2) => \E s \in Slots : Safe(s)

\* Unless a writer was killed, every node that is not empty has or will get a key.
KeyInv ==
  /\ \A w \in Writers : At(w, "copy") =>
       \A q \in Pieces \ left[w] : shm[i[w]][q] \in Writers
  /\ NoneKilled => \A s \in Slots, q \in Pieces :
       \/ shm[s] = EmptyNode \/ shm[s][q] \in Writers
       \/ \E w \in Writers : At(w, "copy") /\ i[w] = s /\ q \in left[w]

RaceInv == UnmapInv /\ FirstInv /\ SafeInv /\ SecondInv /\ KeyInv

-----------------------------------------------------------------------------
USE ShmAssumption

(* Pairs, nodes and fields *)

LEMMA PairFacts ==
  /\ Pairs = {First, Second} /\ Asked = Second
  /\ First[1] = "kevin" /\ First[2] = "Alice" /\ Second[1] = "Bob" /\ Second[2] = "Jack"
  /\ Len(Calls) = 2 /\ DOMAIN Calls = {1, 2}
BY DEF Pairs, Calls, First, Second, Asked

LEMMA PairsDiffer ==
  /\ \A k \in Pairs : k[1] # "" /\ k[2] # ""
  /\ \A k, l \in Pairs : k # l => k[1] # l[1] /\ k[2] # l[2]
  /\ Asked \in Pairs
BY PairFacts

LEMMA PairOf ==
  ASSUME TypeOK
  PROVE  /\ \A w \in Writers : Pair(w) = Calls[call[w]] /\ Pair(w) \in Pairs /\ call[w] \in {1, 2}
         /\ \A r \in Readers : Pair(r) = Asked
BY PairFacts DEF Pair, TypeOK, Pairs

LEMMA NodeFields ==
  /\ EmptyNode \in NodeValues
  /\ \A w \in Writers, k \in Pairs : NodeOf(w, k) \in NodeValues
  /\ \A m, n \in NodeValues : (\A f \in Fields : m[f] = n[f]) => m = n
  /\ \A n \in NodeValues : /\ n.clientID = n["clientID"] /\ n.serverID = n["serverID"]
                           /\ n.seckeyID = n["seckeyID"]
                           /\ n.seckeyHead = n["seckeyHead"] /\ n.seckeyTail = n["seckeyTail"]
<1>1. EmptyNode \in NodeValues
  BY DEF EmptyNode, NodeValues
<1>2. \A w \in Writers, k \in Pairs : NodeOf(w, k) \in NodeValues
  BY DEF NodeOf, NodeValues
<1>3. \A m, n \in NodeValues : (\A f \in Fields : m[f] = n[f]) => m = n
  <2>1. ASSUME NEW A, NEW B, NEW C,
               NEW m \in [clientID : A, serverID : B, seckeyID : C, seckeyHead : C, seckeyTail : C],
               NEW n \in [clientID : A, serverID : B, seckeyID : C, seckeyHead : C, seckeyTail : C],
               \A f \in Fields : m[f] = n[f]
        PROVE  m = n
    BY <2>1 DEF Fields
  <2> QED  BY <2>1 DEF NodeValues
<1>4. \A n \in NodeValues : /\ n.clientID = n["clientID"] /\ n.serverID = n["serverID"]
                            /\ n.seckeyID = n["seckeyID"]
                            /\ n.seckeyHead = n["seckeyHead"] /\ n.seckeyTail = n["seckeyTail"]
  BY DEF NodeValues
<1> QED  BY <1>1, <1>2, <1>3, <1>4

LEMMA NodeParts ==
  \A w, k : /\ NodeOf(w, k)["clientID"] = k[1] /\ NodeOf(w, k)["serverID"] = k[2]
            /\ \A f \in Fields \ IDs : NodeOf(w, k)[f] = w
            /\ \A q \in Pieces : NodeOf(w, k)[q] = w
BY DEF NodeOf, Fields, IDs, Pieces

\* Setting one field of a node.
LEMMA SetField ==
  ASSUME NEW n \in NodeValues, NEW w \in Writers, NEW k \in Pairs, NEW f \in Fields,
         NEW m, m = [n EXCEPT ![f] = NodeOf(w, k)[f]]
  PROVE  /\ m \in NodeValues /\ m[f] = NodeOf(w, k)[f]
         /\ \A g \in Fields \ {f} : m[g] = n[g]
<1>1. CASE f = "clientID"
  BY <1>1 DEF NodeValues, NodeOf, Fields
<1>2. CASE f = "serverID"
  BY <1>2 DEF NodeValues, NodeOf, Fields
<1>3. CASE f = "seckeyID"
  BY <1>3 DEF NodeValues, NodeOf, Fields
<1>4. CASE f = "seckeyHead"
  BY <1>4 DEF NodeValues, NodeOf, Fields
<1>5. CASE f = "seckeyTail"
  BY <1>5 DEF NodeValues, NodeOf, Fields
<1> QED  BY <1>1, <1>2, <1>3, <1>4, <1>5 DEF Fields

-----------------------------------------------------------------------------
(* Types and places *)

Labels == {"construct", "shmInit", "call", "clientID", "serverID", "empty", "copy", "unmap",
           "done", "killed"}

\* A step of p leaves the other processes where they are, with what they have.
Alone(p) ==
  /\ pc' \in [Procs -> Labels] /\ i' \in [Procs -> 0..MaxNode] /\ left' \in [Procs -> SUBSET Fields]
  /\ shmID' \in [Procs -> BOOLEAN] /\ call' \in [Writers -> {1, 2}]
  /\ \A q \in Procs \ {p} : /\ pc'[q] = pc[q] /\ i'[q] = i[q] /\ left'[q] = left[q]
                            /\ shmID'[q] = shmID[q]
                            /\ q \in Writers => call'[q] = call[q]
                            /\ q \in Readers => info'[q] = info[q]

StepOf(p) ==
  \/ Construct(p) \/ MapShm(p) \/ MapShmFails(p) \/ CompareClientID(p) \/ NoMatch(p)
  \/ CompareServerID(p) \/ UnmapShm(p)
  \/ p \in Writers /\ (ShmInit(p) \/ Killed(p) \/ FindEmpty(p) \/ \E f \in Fields : WriteField(p, f))
  \/ p \in Readers /\ (ReadAgain(p) \/ \E f \in Fields : ReadField(p, f))

LEMMA StepsAreOf == Next => \E p \in Procs : StepOf(p)
BY DEF Next, StepOf, Procs

LEMMA StepIsAlone == ASSUME PlaceInv, NEW p \in Procs, StepOf(p)  PROVE Alone(p)
<1> USE DEF Goto, table, cursor, results, NextCall, Labels
<1>1. /\ pc \in [Procs -> Labels] /\ i \in [Procs -> 0..MaxNode] /\ left \in [Procs -> SUBSET Fields]
      /\ shmID \in [Procs -> BOOLEAN] /\ call \in [Writers -> {1, 2}]
      /\ info \in [Readers -> NodeValues]
  BY PairFacts DEF PlaceInv, TypeOK
<1>2. 0 \in 0..MaxNode /\ \A n \in 0..MaxNode : n < MaxNode => n + 1 \in 0..MaxNode
  OBVIOUS
<1>3. CASE Construct(p) \/ NoMatch(p) \/ CompareClientID(p)
  BY <1>1, <1>2, <1>3 DEF Construct, GetShmID, NoMatch, CompareClientID, Alone
<1>4. CASE MapShm(p)
  BY <1>1, <1>2, <1>4 DEF MapShm, Alone
<1>5. CASE MapShmFails(p)
  BY <1>1, <1>5, PairFacts DEF MapShmFails, Alone
<1>6. CASE CompareServerID(p)
  <2>1. i[p] < MaxNode
    BY <1>6 DEF PlaceInv, CompareServerID, At, Slots
  <2> QED  BY <1>1, <1>2, <1>6, <2>1 DEF CompareServerID, StartCopy, Alone
<1>7. CASE UnmapShm(p)
  BY <1>1, <1>2, <1>7, PairFacts DEF UnmapShm, Alone
<1>8. CASE p \in Writers /\ (ShmInit(p) \/ Killed(p))
  BY <1>1, <1>8 DEF ShmInit, Killed, Alone
<1>9. CASE p \in Writers /\ FindEmpty(p)
  BY <1>1, <1>2, <1>9 DEF FindEmpty, StartCopy, Alone
<1>10. CASE p \in Writers /\ \E f \in Fields : WriteField(p, f)
  BY <1>1, <1>10 DEF WriteField, Alone
<1>11. CASE p \in Readers /\ ReadAgain(p)
  BY <1>1, <1>11 DEF ReadAgain, Alone
<1>12. ASSUME p \in Readers, NEW f \in Fields, ReadField(p, f)  PROVE Alone(p)
  <2>1. \A q \in Readers : q # p => info'[q] = info[q]
    BY <1>1, <1>12 DEF ReadField
  <2> QED  BY <1>1, <1>12, <2>1 DEF ReadField, Alone
<1> QED  BY <1>3, <1>4, <1>5, <1>6, <1>7, <1>8, <1>9, <1>10, <1>11, <1>12 DEF StepOf

LEMMA PlaceInit == Init => PlaceInv
<1> SUFFICES ASSUME Init  PROVE PlaceInv
  OBVIOUS
<1>1. \A p \in Procs : pc[p] = "construct"
  BY DEF Init
<1>2. shm \in [Slots -> NodeValues] /\ info \in [Readers -> NodeValues]
  BY NodeFields DEF Init
<1>3. /\ last \in [Pairs -> Writers \union {NoKey, "torn"}] /\ begun \in [Pairs -> SUBSET Writers]
      /\ call \in [Writers -> DOMAIN Calls] /\ i \in [Procs -> 0..MaxNode]
      /\ left \in [Procs -> SUBSET Fields]
  BY PairFacts DEF Init
<1>4. /\ shmID \in [Procs -> BOOLEAN]
      /\ shmAddr \in [Procs -> {"NULL", "mapped", "stale", "bad"}]
      /\ due \in [Readers -> Writers \union {NoKey, "any"}]
      /\ failed \in SUBSET Writers /\ overlap \in BOOLEAN
      /\ pc \in [Procs -> Labels]
  BY DEF Init, Labels
<1>5. TypeOK
  BY <1>1, <1>2, <1>3, <1>4 DEF TypeOK, At, Labels
<1> QED  BY <1>1, <1>5 DEF PlaceInv, At, Procs

\* What else a step may touch.
Shared ==
  /\ shm' \in [Slots -> NodeValues] /\ info' \in [Readers -> NodeValues]
  /\ shmAddr' \in [Procs -> {"NULL", "mapped", "stale", "bad"}]
  /\ failed' \in SUBSET Writers /\ overlap' = overlap
  /\ last' \in [Pairs -> Writers \union {NoKey, "torn"}] /\ begun' \in [Pairs -> SUBSET Writers]
  /\ due' \in [Readers -> Writers \union {NoKey, "any"}]

LEMMA StepShared == ASSUME PlaceInv, NEW p \in Procs, StepOf(p)  PROVE Shared
<1> USE DEF Shared, table, cursor, results
<1>1. /\ shm \in [Slots -> NodeValues] /\ info \in [Readers -> NodeValues]
      /\ shmAddr \in [Procs -> {"NULL", "mapped", "stale", "bad"}]
      /\ failed \in SUBSET Writers
      /\ last \in [Pairs -> Writers \union {NoKey, "torn"}] /\ begun \in [Pairs -> SUBSET Writers]
      /\ due \in [Readers -> Writers \union {NoKey, "any"}]
      /\ EmptyNode \in NodeValues
      /\ p \in Writers => Pair(p) \in Pairs
  BY PairOf, NodeFields DEF PlaceInv, TypeOK
<1>2. CASE Construct(p) \/ NoMatch(p) \/ CompareClientID(p) \/ UnmapShm(p)
  BY <1>1, <1>2 DEF Construct, NoMatch, CompareClientID, UnmapShm
<1>3. CASE MapShm(p)
  <2>1. last[Asked] # "torn" => last[Asked] \in Writers \union {NoKey, "any"}
    BY <1>1, PairsDiffer
  <2> QED  BY <1>1, <1>3, <2>1 DEF MapShm
<1>4. CASE MapShmFails(p)
  BY <1>1, <1>4 DEF MapShmFails
<1>5. StartCopy(p) => /\ last' \in [Pairs -> Writers \union {NoKey, "torn"}]
                      /\ begun' \in [Pairs -> SUBSET Writers]
                      /\ due' \in [Readers -> Writers \union {NoKey, "any"}]
  BY <1>1 DEF StartCopy
<1>6. CASE CompareServerID(p)
  BY <1>1, <1>5, <1>6 DEF CompareServerID
<1>7. CASE p \in Writers /\ FindEmpty(p)
  BY <1>1, <1>5, <1>7 DEF FindEmpty
<1>8. CASE p \in Writers /\ (ShmInit(p) \/ Killed(p))
  BY <1>1, <1>8 DEF ShmInit, Killed
<1>9. ASSUME p \in Writers, NEW f \in Fields, WriteField(p, f)  PROVE Shared
  <2>1. i[p] \in Slots /\ shm[i[p]] \in NodeValues
    BY <1>9 DEF WriteField, PlaceInv, TypeOK
  <2>2. [shm[i[p]] EXCEPT ![f] = NodeOf(p, Pair(p))[f]] \in NodeValues
    BY <1>1, <1>9, <2>1, SetField
  <2> QED  BY <1>1, <1>9, <2>1, <2>2 DEF WriteField
<1>10. CASE p \in Readers /\ ReadAgain(p)
  BY <1>1, <1>10 DEF ReadAgain
<1>11. ASSUME p \in Readers, NEW f \in Fields, ReadField(p, f)  PROVE Shared
  <2>1. i[p] \in Slots /\ shm[i[p]] \in NodeValues /\ info[p] \in NodeValues
    BY <1>11 DEF ReadField, PlaceInv, TypeOK
  <2>2. [info[p] EXCEPT ![f] = shm[i[p]][f]] \in NodeValues
    BY <2>1 DEF NodeValues, Fields
  <2> QED  BY <1>1, <1>11, <2>1, <2>2 DEF ReadField
<1> QED  BY <1>2, <1>3, <1>4, <1>6, <1>7, <1>8, <1>9, <1>10, <1>11 DEF StepOf

\* Where a step may take the process.
LEMMA StepPlaces ==
  ASSUME PlaceInv, NEW p \in Procs, StepOf(p)
  PROVE  /\ pc'[p] \in {"copy", "serverID"} => i'[p] \in Slots
         /\ p \in Readers => pc'[p] \notin {"shmInit", "empty", "killed"}
<1> USE DEF At, Goto
<1>1. /\ pc \in [Procs -> Labels] /\ i \in [Procs -> 0..MaxNode] /\ i[p] \in 0..MaxNode
      /\ p \in Readers => p \notin Writers
  BY DEF PlaceInv, TypeOK, Labels
<1>2. /\ At(p, "copy") \/ At(p, "serverID") => i[p] \in Slots
      /\ i[p] < MaxNode => i[p] \in Slots
  BY <1>1 DEF PlaceInv, TypeOK, Slots
<1>3. CASE Construct(p) \/ NoMatch(p) \/ UnmapShm(p) \/ MapShm(p)
  BY <1>1, <1>2, <1>3 DEF Construct, NoMatch, UnmapShm, NextCall, MapShm
<1>4. CASE MapShmFails(p)
  BY <1>1, <1>2, <1>4 DEF MapShmFails, NextCall
<1>5. CASE CompareClientID(p) \/ CompareServerID(p)
  BY <1>1, <1>2, <1>5 DEF CompareClientID, CompareServerID, StartCopy, PlaceInv
<1>6. CASE p \in Writers /\ (ShmInit(p) \/ Killed(p) \/ FindEmpty(p))
  BY <1>1, <1>2, <1>6 DEF ShmInit, Killed, FindEmpty, StartCopy
<1>7. CASE p \in Writers /\ \E f \in Fields : WriteField(p, f)
  BY <1>1, <1>2, <1>7 DEF WriteField
<1>8. CASE p \in Readers /\ (ReadAgain(p) \/ \E f \in Fields : ReadField(p, f))
  BY <1>1, <1>2, <1>8 DEF ReadAgain, ReadField, PlaceInv
<1> QED  BY <1>3, <1>4, <1>5, <1>6, <1>7, <1>8 DEF StepOf

LEMMA PlaceStep == ASSUME PlaceInv, [Next]_vars  PROVE PlaceInv'
<1>1. CASE UNCHANGED vars
  BY <1>1 DEF vars, PlaceInv, TypeOK, At
<1>2. CASE Next
  <2>1. PICK p \in Procs : StepOf(p)
    BY <1>2, StepsAreOf
  <2>2. Alone(p) /\ Shared
    BY <2>1, StepIsAlone, StepShared
  <2>3. \A q \in Procs : pc'[q] \in {"copy", "serverID"} => i'[q] \in Slots
    BY <2>1, <2>2, StepPlaces DEF Alone, PlaceInv, TypeOK, At
  <2>4. \A r \in Readers : pc'[r] \notin {"shmInit", "empty", "killed"}
    BY <2>1, <2>2, StepPlaces DEF Alone, PlaceInv, Procs
  <2>5. overlap' \in BOOLEAN
    BY <2>2 DEF Shared, PlaceInv, TypeOK
  <2>6. call' \in [Writers -> DOMAIN Calls]
    BY <2>2, PairFacts DEF Alone
  <2>7. TypeOK'
    BY <2>2, <2>3, <2>5, <2>6 DEF TypeOK, Alone, Shared, At, Labels
  <2> QED  BY <2>3, <2>4, <2>7 DEF PlaceInv, At
<1> QED  BY <1>1, <1>2

-----------------------------------------------------------------------------
(* Steps that leave the table alone *)

Quiet(p) ==
  /\ UNCHANGED <<shm, last, begun>>
  /\ \A r \in Readers \ {p} : due'[r] = due[r]

QuietStep(p) ==
  \/ Construct(p) \/ MapShm(p) \/ MapShmFails(p) \/ CompareClientID(p) \/ NoMatch(p) \/ UnmapShm(p)
  \/ CompareServerID(p) /\ (p \in Readers \/ ~StartCopy(p))
  \/ p \in Writers /\ (ShmInit(p) \/ Killed(p) \/ (FindEmpty(p) /\ ~StartCopy(p)))
  \/ p \in Readers /\ (ReadAgain(p) \/ \E f \in Fields : ReadField(p, f))

LEMMA QuietIsQuiet == ASSUME PlaceInv, NEW p \in Procs, QuietStep(p)  PROVE Quiet(p)
<1> USE DEF Quiet, table, cursor, results
<1>1. p \in Readers => p \notin Writers
  OBVIOUS
<1>2. CASE Construct(p) \/ MapShmFails(p) \/ CompareClientID(p) \/ NoMatch(p) \/ UnmapShm(p)
  BY <1>2 DEF Construct, MapShmFails, CompareClientID, NoMatch, UnmapShm
<1>3. CASE MapShm(p)
  BY <1>3 DEF MapShm, PlaceInv, TypeOK
<1>4. CASE CompareServerID(p) /\ (p \in Readers \/ ~StartCopy(p))
  BY <1>1, <1>4 DEF CompareServerID, StartCopy
<1>5. CASE p \in Writers /\ (ShmInit(p) \/ Killed(p) \/ (FindEmpty(p) /\ ~StartCopy(p)))
  BY <1>5 DEF ShmInit, Killed, FindEmpty
<1>6. CASE p \in Readers /\ (ReadAgain(p) \/ \E f \in Fields : ReadField(p, f))
  BY <1>6 DEF ReadAgain, ReadField
<1> QED  BY <1>2, <1>3, <1>4, <1>5, <1>6 DEF QuietStep

\* A step that changes neither the table nor a process changes nothing about them.
LEMMA TableKept ==
  ASSUME TableInv, UNCHANGED <<shm, last, begun>>
  PROVE  TableInv'
<1>1. \A t \in Slots : \E k \in Pairs : Of(shm[t], k)'
  <2> TAKE t \in Slots
  <2>1. PICK k \in Pairs : Of(shm[t], k)
    BY DEF TableInv
  <2>2. Of(shm[t], k)'
    BY <2>1 DEF Of
  <2> QED  BY <2>2
<1>2. \A k \in Pairs : \A t, u \in Slots : Holds(t, k)' /\ Holds(u, k)' => t = u
  BY DEF TableInv, Holds
<1>3. \A k \in Pairs : last'[k] \in Writers => \E t \in Slots : shm'[t] = NodeOf(last'[k], k)
  BY DEF TableInv
<1>4. \A k \in Pairs : last'[k] = NoKey => \A t \in Slots : shm'[t].clientID # k[1]
  BY DEF TableInv
<1> QED  BY <1>1, <1>2, <1>3, <1>4 DEF TableInv

LEMMA WriterKept ==
  ASSUME NEW w \in Writers, WriterOk(w), UNCHANGED <<shm, last, begun>>,
         UNCHANGED <<pc[w], i[w], left[w], call[w]>>
  PROVE  WriterOk(w)'
<1>1. PICK k : k = Pair(w) /\ k = Pair(w)'
  BY DEF Pair
<1>2. PICK n : n = shm[i[w]] /\ n = shm'[i'[w]]
  OBVIOUS
<1>3. Of(n, k)' <=> Of(n, k)
  BY DEF Of
<1>4. \A t : Holds(t, k)' <=> Holds(t, k)
  BY DEF Holds
<1>5. /\ pc'[w] \in {"clientID", "serverID"} =>
           \A t \in Slots : t < i'[w] => ~Holds(t, k)'
      /\ pc'[w] = "serverID" => n.clientID = k[1]
      /\ pc'[w] = "empty" => \A t \in Slots : ~Holds(t, k)'
  BY <1>1, <1>2, <1>4 DEF WriterOk, At
<1>6. pc'[w] = "copy" =>
         /\ last'[k] = "torn" /\ w \in begun'[k]
         /\ \A t \in Slots \ {i'[w]} : ~Holds(t, k)'
         /\ Of(n, k)'
         /\ \A f \in Fields \ left'[w] : n[f] = NodeOf(w, k)[f]
  BY <1>1, <1>2, <1>3, <1>4 DEF WriterOk, At
<1>7. Of(shm[i[w]], Pair(w))' <=> Of(n, k)'
  BY <1>1, <1>2 DEF Of
<1>8. \A t : Holds(t, Pair(w))' <=> Holds(t, k)'
  BY <1>1 DEF Holds
<1> QED  BY <1>1, <1>2, <1>5, <1>6, <1>7, <1>8 DEF WriterOk, At

LEMMA ReaderKept ==
  ASSUME NEW r \in Readers, ReaderOk(r), UNCHANGED <<shm, last, begun>>,
         UNCHANGED <<pc[r], i[r], left[r], shmID[r], info[r], due[r]>>
  PROVE  ReaderOk(r)'
BY DEF ReaderOk, Reading, Searching, Answered, Copied, Holds, At

\* Such a step shows nothing to anyone else.
LEMMA OthersOk ==
  ASSUME NEW p \in Procs, Alone(p), Quiet(p)
  PROVE  /\ \A w \in Writers \ {p} : WriterOk(w) => WriterOk(w)'
         /\ \A r \in Readers \ {p} : ReaderOk(r) => ReaderOk(r)'
BY WriterKept, ReaderKept DEF Quiet, Alone, Procs

\* What a writer finds out.
LEMMA WriterLooks ==
  ASSUME PlaceInv, NEW w \in Writers, WriterOk(w), QuietStep(w), Quiet(w)
  PROVE  WriterOk(w)'
<1> USE DEF At, Goto
<1>1. w \in Procs /\ w \notin Readers
  BY DEF Procs
<1>2. pc \in [Procs -> Labels] /\ i \in [Procs -> 0..MaxNode] /\ call \in [Writers -> {1, 2}]
  BY PairFacts DEF PlaceInv, TypeOK, Labels
<1>3. Pair(w) = Calls[call[w]] /\ Pair(w)' = Calls[call'[w]]
  BY DEF Pair
<1>4. CASE pc'[w] \notin {"clientID", "serverID", "empty", "copy"}
  BY <1>4 DEF WriterOk
<1>5. CASE MapShm(w)
  BY <1>1, <1>2, <1>5 DEF MapShm, WriterOk, Slots
<1>6. CASE CompareClientID(w)
  <2>1. CASE shm[i[w]].clientID = Pair(w)[1]
    BY <1>1, <1>2, <1>3, <1>6, <2>1 DEF CompareClientID, WriterOk, Quiet, Holds
  <2>2. CASE shm[i[w]].clientID # Pair(w)[1]
    <3>1. ~Holds(i[w], Pair(w)) /\ pc'[w] = "clientID" /\ i'[w] = i[w] + 1 /\ call' = call
      BY <1>1, <1>2, <1>6, <2>2 DEF CompareClientID, Holds
    <3>2. \A s \in Slots : s < i[w] + 1 => s < i[w] \/ s = i[w]
      BY <1>1, <1>2 DEF Slots
    <3> QED  BY <1>3, <1>6, <3>1, <3>2 DEF CompareClientID, WriterOk, Quiet, Holds
  <2> QED  BY <2>1, <2>2
<1>7. CASE CompareServerID(w) /\ ~StartCopy(w)
  <2>1. ~Holds(i[w], Pair(w)) /\ pc'[w] = "clientID" /\ i'[w] = i[w] + 1 /\ call' = call
    BY <1>1, <1>2, <1>7 DEF CompareServerID, Holds
  <2>2. \A s \in Slots : s < i[w] + 1 => s < i[w] \/ s = i[w]
    BY <1>1, <1>2 DEF Slots
  <2> QED  BY <1>3, <1>7, <2>1, <2>2 DEF CompareServerID, WriterOk, Quiet, Holds
<1>8. CASE NoMatch(w)
  <2>1. pc'[w] = "empty" /\ call' = call /\ i[w] = MaxNode /\ pc[w] = "clientID"
    BY <1>1, <1>2, <1>8 DEF NoMatch
  <2>2. \A s \in Slots : s < MaxNode
    BY DEF Slots
  <2> QED  BY <1>3, <2>1, <2>2 DEF WriterOk, Quiet, Holds
<1>9. CASE FindEmpty(w) /\ ~StartCopy(w)
  <2>1. pc'[w] \in {"empty", "unmap"} /\ call' = call /\ pc[w] = "empty"
    BY <1>1, <1>2, <1>9 DEF FindEmpty
  <2> QED  BY <1>3, <2>1 DEF WriterOk, Quiet, Holds
<1>10. CASE Construct(w) \/ MapShmFails(w) \/ UnmapShm(w) \/ ShmInit(w) \/ Killed(w)
  <2>1. pc'[w] \in {"shmInit", "call", "done", "killed"}
    BY <1>1, <1>2, <1>10 DEF Construct, MapShmFails, UnmapShm, ShmInit, Killed, NextCall
  <2> QED  BY <1>4, <2>1
<1> QED  BY <1>1, <1>5, <1>6, <1>7, <1>8, <1>9, <1>10 DEF QuietStep

\* What a reader finds, and what it copies.
LEMMA ReaderLooks ==
  ASSUME PlaceInv, TableInv, NEW r \in Readers, ReaderOk(r), QuietStep(r), Quiet(r)
  PROVE  ReaderOk(r)'
<1> USE DEF At, Goto
<1>1. r \in Procs /\ r \notin Writers /\ Pair(r) = Asked
  BY DEF Procs, Pair
<1>2. /\ pc \in [Procs -> Labels] /\ i \in [Procs -> 0..MaxNode]
      /\ shmID \in [Procs -> BOOLEAN] /\ info \in [Readers -> NodeValues]
      /\ left \in [Procs -> SUBSET Fields] /\ due[r] \in Writers \union {NoKey, "any"}
      /\ due \in [Readers -> Writers \union {NoKey, "any"}]
      /\ last[Asked] \in Writers \union {NoKey, "torn"}
  BY PairsDiffer DEF PlaceInv, TypeOK, Labels
<1>3. shm' = shm /\ last' = last /\ begun' = begun
  BY DEF Quiet
<1>4. CASE Construct(r) \/ ReadAgain(r)
  <2>1. pc'[r] \in {"call", "construct"}
    BY <1>1, <1>2, <1>4 DEF Construct, ReadAgain
  <2> QED  BY <2>1 DEF ReaderOk, Reading, Searching
<1>5. CASE MapShm(r)
  <2>1. /\ pc'[r] = "clientID" /\ i'[r] = 0 /\ info'[r] = EmptyNode
        /\ due'[r] \in {"any", last[Asked]}
    BY <1>1, <1>2, <1>5 DEF MapShm
  <2>2. \A t \in Slots : ~(t < 0)
    BY DEF Slots
  <2> QED  BY <1>3, <2>1, <2>2 DEF ReaderOk, Reading, Searching
<1>6. CASE MapShmFails(r)
  <2>1. pc'[r] = "done" /\ info'[r] = EmptyNode /\ ~shmID'[r]
    BY <1>1, <1>2, <1>6 DEF MapShmFails
  <2> QED  BY <2>1 DEF ReaderOk, Reading, Searching, Answered
<1>7. CASE CompareClientID(r) \/ CompareServerID(r)
  <2>1. /\ Searching(r) /\ Reading(r) /\ info[r] = EmptyNode
        /\ info' = info /\ due' = due /\ shmID' = shmID
    BY <1>1, <1>7 DEF CompareClientID, CompareServerID, StartCopy, results, Reading, Searching, ReaderOk
  <2>2. CASE /\ pc'[r] = "clientID" /\ i'[r] = i[r] + 1 /\ ~Holds(i[r], Asked)
    <3>1. \A t \in Slots : t < i[r] + 1 => t < i[r] \/ t = i[r]
      BY <1>1, <1>2 DEF Slots
    <3> QED  BY <1>3, <2>1, <2>2, <3>1 DEF ReaderOk, Reading, Searching, Holds
  <2>3. CASE pc'[r] = "serverID" /\ i'[r] = i[r] /\ shm[i[r]].clientID = Asked[1]
    BY <1>3, <2>1, <2>3 DEF ReaderOk, Reading, Searching, Holds
  <2>4. CASE pc'[r] = "copy" /\ i'[r] = i[r] /\ left'[r] = Fields /\ Holds(i[r], Asked)
    BY <1>3, <2>1, <2>4 DEF ReaderOk, Reading, Searching, Holds
  <2>5. CASE CompareClientID(r)
    BY <1>1, <1>2, <2>2, <2>3, <2>5 DEF CompareClientID, Holds
  <2>6. CASE CompareServerID(r)
    <3>1. shm[i[r]].clientID = Asked[1]
      BY <2>6 DEF CompareServerID, ReaderOk
    <3> QED  BY <1>1, <1>2, <2>2, <2>4, <2>6, <3>1 DEF CompareServerID, StartCopy, Holds
  <2> QED  BY <1>7, <2>5, <2>6
\* the search has gone past every node: none is there that a write had to leave
<1>8. CASE NoMatch(r)
  <2>1. /\ pc[r] = "clientID" /\ pc'[r] = "unmap" /\ i[r] = MaxNode /\ info[r] = EmptyNode
        /\ info' = info /\ due' = due /\ shmID' = shmID
    BY <1>1, <1>2, <1>8 DEF NoMatch, results, ReaderOk, Searching
  <2>2. due[r] \notin Writers
    <3> SUFFICES ASSUME due[r] \in Writers  PROVE FALSE
      OBVIOUS
    <3>1. due[r] = last[Asked]
      BY <2>1 DEF ReaderOk, Reading, Searching
    <3>2. PICK t \in Slots : shm[t] = NodeOf(last[Asked], Asked)
      BY <3>1, PairsDiffer DEF TableInv
    <3>3. Holds(t, Asked) /\ t < MaxNode
      BY <3>2 DEF Holds, NodeOf, Slots
    <3> QED  BY <2>1, <3>3 DEF ReaderOk, Searching
  <2> QED  BY <1>2, <1>3, <2>1, <2>2 DEF ReaderOk, Reading, Searching, Answered
<1>9. ASSUME NEW f \in Fields, ReadField(r, f)  PROVE ReaderOk(r)'
  <2>1. PICK n \in NodeValues : n = shm[i[r]]
    BY <1>1, <1>9 DEF PlaceInv, TypeOK, ReadField
  <2>2. /\ pc[r] = "copy" /\ f \in left[r] /\ due' = due /\ shmID' = shmID
        /\ left'[r] = left[r] \ {f} /\ info'[r] = [info[r] EXCEPT ![f] = n[f]]
        /\ info[r] \in NodeValues /\ i' = i
        /\ pc'[r] = IF left[r] = {f} THEN "unmap" ELSE "copy"
    BY <1>1, <1>2, <1>9, <2>1 DEF ReadField
  <2>3. info'[r][f] = n[f] /\ \A g \in Fields \ {f} : info'[r][g] = info[r][g]
    BY <2>2 DEF NodeValues, Fields
  <2>4. Holds(i[r], Asked) /\ i[r] \in Slots
    BY <1>1, <2>2 DEF ReaderOk, PlaceInv, TypeOK
  <2>5. due[r] \in {"any", last[Asked]}
    BY <2>2 DEF ReaderOk, Reading
  <2>6. due[r] # NoKey
    BY <1>2, <2>4, <2>5, PairsDiffer DEF TableInv, Holds
  <2>7. due[r] # "any" => n = NodeOf(due[r], Asked)
    <3> SUFFICES ASSUME due[r] # "any"  PROVE n = NodeOf(due[r], Asked)
      OBVIOUS
    <3>1. due[r] \in Writers /\ due[r] = last[Asked]
      BY <1>2, <2>5, <2>6
    <3>2. PICK t \in Slots : shm[t] = NodeOf(last[Asked], Asked)
      BY <3>1, PairsDiffer DEF TableInv
    <3>3. Holds(t, Asked)
      BY <3>2 DEF Holds, NodeOf
    <3>4. t = i[r]
      BY <2>4, <3>3, PairsDiffer DEF TableInv
    <3> QED  BY <2>1, <3>1, <3>2, <3>4
  <2>8. /\ n["clientID"] = Asked[1] /\ n["serverID"] = Asked[2]
        /\ \A g \in Fields \ IDs : n[g] \in begun[Asked] \union {NoKey}
    <3>1. PICK k \in Pairs : Of(n, k)
      BY <2>1, <2>4 DEF TableInv
    <3>2. n.clientID = Asked[1] /\ n.serverID = Asked[2]
      BY <2>1, <2>4 DEF Holds
    <3>3. k = Asked
      BY <3>1, <3>2, PairsDiffer DEF Of
    <3>4. \A g \in Fields \ IDs : n[g] \in {n.seckeyID} \union KeyOf(n)
      BY NodeFields DEF Fields, IDs, KeyOf
    <3> QED  BY <3>1, <3>2, <3>3, <3>4, NodeFields DEF Of
  <2>9. \A g \in Fields \ left'[r] : Copied(r, g)'
    <3> TAKE g \in Fields \ left'[r]
    <3>1. CASE g = f
      BY <1>3, <2>2, <2>3, <2>7, <2>8, <3>1 DEF Copied, IDs
    <3>2. CASE g # f
      <4>1. Copied(r, g)
        BY <2>2, <3>2 DEF ReaderOk
      <4> QED  BY <1>3, <2>2, <2>3, <3>2, <4>1 DEF Copied
    <3> QED  BY <3>1, <3>2
  <2>10. CASE pc'[r] = "copy"
    BY <1>3, <2>2, <2>4, <2>5, <2>9, <2>10 DEF ReaderOk, Reading, Searching, Holds
  <2>11. CASE pc'[r] = "unmap"
    <3>1. left'[r] = {}
      BY <2>2, <2>11
    <3>2. \A g \in Fields : Copied(r, g)'
      BY <2>9, <3>1
    <3>3. info'[r] \in NodeValues
      BY <1>1, <1>9, StepShared DEF Shared, StepOf
    <3>4. /\ info'[r].clientID = Asked[1] /\ info'[r].serverID = Asked[2]
          /\ {info'[r].seckeyID} \union KeyOf(info'[r]) \subseteq begun'[Asked] \union {NoKey}
      BY <3>2, <3>3, NodeFields DEF Copied, Fields, IDs, KeyOf
    <3>5. due'[r] # "any" => info'[r] = NodeOf(due'[r], Asked)
      <4> SUFFICES ASSUME due'[r] # "any"  PROVE info'[r] = NodeOf(due'[r], Asked)
        OBVIOUS
      <4>1. due[r] \in Writers /\ due'[r] = due[r]
        BY <1>2, <2>2, <2>6
      <4>2. NodeOf(due'[r], Asked) \in NodeValues
        BY <4>1, NodeFields, PairsDiffer
      <4>3. \A g \in Fields : info'[r][g] = NodeOf(due'[r], Asked)[g]
        BY <3>2 DEF Copied
      <4> QED  BY <3>3, <4>2, <4>3, NodeFields
    <3>6. Answered(r)'
      BY <2>2, <2>6, <3>4, <3>5 DEF Answered
    <3> QED  BY <1>3, <2>2, <2>5, <2>11, <3>6 DEF ReaderOk, Reading, Searching
  <2> QED  BY <2>2, <2>10, <2>11
<1>10. CASE UnmapShm(r)
  <2>1. pc[r] = "unmap" /\ pc'[r] = "done" /\ info' = info /\ due' = due /\ shmID' = shmID
    BY <1>1, <1>2, <1>10 DEF UnmapShm, results
  <2> QED  BY <1>3, <2>1 DEF ReaderOk, Reading, Searching, Answered
<1> QED  BY <1>1, <1>4, <1>5, <1>6, <1>7, <1>8, <1>9, <1>10 DEF QuietStep

-----------------------------------------------------------------------------
(* Writes *)

\* The writers other than the one in the table are nowhere in it.
LEMMA OthersAway ==
  ASSUME TurnsInv, NEW w \in Writers, Writing(w), NEW v \in Writers \ {w}
  PROVE  pc[v] \notin {"clientID", "serverID", "empty", "copy"}
BY DEF TurnsInv, Writing

\* A writer begins to copy, to the node of its pair or to an empty one.
Begins(w) ==
  /\ StartCopy(w) /\ i[w] \in Slots /\ Writing(w)
  /\ UNCHANGED <<shm, overlap, i, info, failed, shmID, shmAddr, call>>
  /\ \/ Holds(i[w], Pair(w))
     \/ shm[i[w]] = EmptyNode /\ \A s \in Slots : ~Holds(s, Pair(w))

LEMMA StartsBegin ==
  ASSUME PlaceInv, NEW w \in Writers, WriterOk(w), StartCopy(w), CompareServerID(w) \/ FindEmpty(w)
  PROVE  Begins(w)
<1> USE DEF At, Goto
<1>1. w \in Procs
  BY DEF Procs
<1>2. pc'[w] = "copy"
  BY <1>1 DEF StartCopy, PlaceInv, TypeOK
<1>3. CASE CompareServerID(w)
  <2>1. shm[i[w]].serverID = Pair(w)[2] /\ pc[w] = "serverID"
    BY <1>1, <1>2, <1>3 DEF CompareServerID, PlaceInv, TypeOK
  <2>2. Holds(i[w], Pair(w))
    BY <2>1 DEF WriterOk, Holds
  <2> QED  BY <1>1, <1>3, <2>1, <2>2 DEF CompareServerID, Begins, Writing, PlaceInv
<1>4. CASE FindEmpty(w)
  <2>1. shm[i[w]] = EmptyNode /\ i[w] < MaxNode /\ pc[w] = "empty" /\ UNCHANGED <<i, failed>>
    BY <1>1, <1>2, <1>4 DEF FindEmpty, PlaceInv, TypeOK
  <2>2. i[w] \in Slots
    BY <1>1, <2>1 DEF Slots, PlaceInv, TypeOK
  <2> QED  BY <1>4, <2>1, <2>2 DEF FindEmpty, Begins, Writing, WriterOk
<1> QED  BY <1>3, <1>4

LEMMA BeginKeeps ==
  ASSUME PlaceInv, TurnsInv, TableInv, WriterInv, ReaderInv, NEW w \in Writers, Begins(w), Alone(w)
  PROVE  TableInv' /\ WriterInv' /\ ReaderInv'
<1>1. PICK k \in Pairs : k = Pair(w) /\ k = Pair(w)'
  BY PairOf DEF PlaceInv, Begins, Pair
<1>2. /\ shm' = shm /\ i' = i /\ info' = info /\ shmID' = shmID /\ call' = call /\ i[w] \in Slots
      /\ last' = [last EXCEPT ![k] = "torn"] /\ begun' = [begun EXCEPT ![k] = @ \union {w}]
      /\ due' = IF k = Asked THEN [r \in Readers |-> "any"] ELSE due
      /\ left' = [left EXCEPT ![w] = Fields] /\ pc' = [pc EXCEPT ![w] = "copy"]
  BY <1>1 DEF Begins, StartCopy, Goto
<1>3. /\ last \in [Pairs -> Writers \union {NoKey, "torn"}] /\ begun \in [Pairs -> SUBSET Writers]
      /\ pc \in [Procs -> Labels] /\ left \in [Procs -> SUBSET Fields] /\ shm \in [Slots -> NodeValues]
      /\ w \in Procs /\ due \in [Readers -> Writers \union {NoKey, "any"}]
  BY DEF PlaceInv, TypeOK, Labels, Procs
<1>4. /\ \A l \in Pairs : begun[l] \subseteq begun'[l] /\ (l # k => last'[l] = last[l])
      /\ last'[k] = "torn" /\ w \in begun'[k] /\ pc'[w] = "copy" /\ left'[w] = Fields
  BY <1>2, <1>3
<1>5. /\ \A s \in Slots \ {i[w]} : ~Holds(s, k)
      /\ Of(shm[i[w]], k)
  <2>1. CASE Holds(i[w], k)
    <3>1. PICK l \in Pairs : Of(shm[i[w]], l)
      BY <1>2 DEF TableInv
    <3>2. l = k
      BY <2>1, <3>1, PairsDiffer DEF Holds, Of
    <3>3. \A s \in Slots \ {i[w]} : ~Holds(s, k)
      BY <1>2, <2>1 DEF TableInv
    <3> QED  BY <3>1, <3>2, <3>3
  <2>2. CASE shm[i[w]] = EmptyNode /\ \A s \in Slots : ~Holds(s, k)
    <3>1. Of(EmptyNode, k)
      BY DEF Of, EmptyNode, KeyOf
    <3> QED  BY <2>2, <3>1
  <2> QED  BY <1>1, <2>1, <2>2 DEF Begins
<1>6. TableInv'
  <2>1. \A s \in Slots : \E l \in Pairs : Of(shm[s], l)'
    <3> TAKE s \in Slots
    <3>1. PICK l \in Pairs : Of(shm[s], l)
      BY DEF TableInv
    <3>2. Of(shm[s], l)'
      BY <1>2, <1>4, <3>1 DEF Of
    <3> QED  BY <3>2
  <2>2. \A l \in Pairs : \A s, t \in Slots : Holds(s, l)' /\ Holds(t, l)' => s = t
    BY <1>2 DEF TableInv, Holds
  <2>3. \A l \in Pairs : last'[l] \in Writers => \E s \in Slots : shm'[s] = NodeOf(last'[l], l)
    BY <1>2, <1>4 DEF TableInv
  <2>4. \A l \in Pairs : last'[l] = NoKey => \A s \in Slots : shm'[s].clientID # l[1]
    BY <1>2, <1>4 DEF TableInv
  <2> QED  BY <2>1, <2>2, <2>3, <2>4 DEF TableInv
<1>7. WriterInv'
  <2>1. WriterOk(w)'
    <3>1. Of(shm[i[w]], Pair(w))'
      BY <1>1, <1>2, <1>4, <1>5 DEF Of
    <3>2. \A s \in Slots \ {i[w]} : ~Holds(s, Pair(w))'
      BY <1>1, <1>2, <1>5 DEF Holds
    <3> QED  BY <1>1, <1>2, <1>4, <3>1, <3>2 DEF WriterOk, At
  <2>2. \A v \in Writers \ {w} : WriterOk(v)'
    <3> TAKE v \in Writers \ {w}
    <3>1. pc'[v] = pc[v]
      BY DEF Alone, Procs
    <3>2. pc[v] \notin {"clientID", "serverID", "empty", "copy"}
      BY OthersAway DEF Begins
    <3> QED  BY <3>1, <3>2 DEF WriterOk, At
  <2> QED  BY <2>1, <2>2 DEF WriterInv
<1>8. ReaderInv'
  <2> SUFFICES ASSUME NEW r \in Readers  PROVE ReaderOk(r)'
    BY DEF ReaderInv
  <2>1. /\ pc'[r] = pc[r] /\ left'[r] = left[r] /\ r \in Procs
        /\ ReaderOk(r)
    BY DEF Alone, Procs, ReaderInv
  <2>2. due'[r] # "any" => due'[r] = due[r] /\ last'[Asked] = last[Asked]
    BY <1>2, <1>4, PairsDiffer
  <2>3. due'[r] \in Writers => due'[r] # "any"
    OBVIOUS
  <2>4. begun[Asked] \subseteq begun'[Asked]
    BY <1>4, PairsDiffer
  <2>5. \A f : Copied(r, f) => Copied(r, f)'
    BY <1>2, <2>2, <2>4 DEF Copied
  <2>6. Answered(r) => Answered(r)'
    BY <1>2, <2>2, <2>4 DEF Answered
  <2>7. \A t : Holds(t, Asked)' <=> Holds(t, Asked)
    BY <1>2 DEF Holds
  <2>8. Reading(r) \/ (At(r, "done") /\ shmID[r]) => due'[r] \in {"any", last'[Asked]}
    BY <2>1, <2>2 DEF ReaderOk
  <2>9. Searching(r) => /\ info[r] = EmptyNode
                        /\ due'[r] \in Writers => \A s \in Slots : s < i[r] => ~Holds(s, Asked)
    BY <2>1, <2>2, <2>3 DEF ReaderOk
  <2>10. At(r, "copy") => /\ Holds(i[r], Asked)
                          /\ \A f \in Fields \ left[r] : Copied(r, f)
    BY <2>1 DEF ReaderOk
  <2> QED  BY <1>2, <2>1, <2>5, <2>6, <2>7, <2>8, <2>9, <2>10 DEF ReaderOk, Reading, Searching, At, Holds
<1> QED  BY <1>6, <1>7, <1>8

LEMMA WriteKeeps ==
  ASSUME PlaceInv, TurnsInv, TableInv, WriterInv, ReaderInv,
         NEW w \in Writers, NEW f \in Fields, WriteField(w, f), Alone(w)
  PROVE  TableInv' /\ WriterInv' /\ ReaderInv'
<1>1. PICK k \in Pairs : k = Pair(w) /\ k = Pair(w)' /\ call' = call
  BY PairOf DEF PlaceInv, WriteField, Pair
<1>2. PICK s \in Slots : s = i[w] /\ s = i'[w] /\ i' = i
  BY DEF WriteField, PlaceInv, TypeOK, Procs
<1>3. /\ last \in [Pairs -> Writers \union {NoKey, "torn"}] /\ begun' = begun
      /\ shm \in [Slots -> NodeValues] /\ shm[s] \in NodeValues /\ w \in Procs
      /\ pc \in [Procs -> Labels] /\ left \in [Procs -> SUBSET Fields]
      /\ due \in [Readers -> Writers \union {NoKey, "any"}] /\ due' = due
      /\ info' = info /\ shmID' = shmID
  BY DEF PlaceInv, TypeOK, Procs, WriteField, Labels, results
<1>4. /\ pc[w] = "copy" /\ f \in left[w] /\ left'[w] = left[w] \ {f}
      /\ shm' = [shm EXCEPT ![s][f] = NodeOf(w, k)[f]]
      /\ IF left[w] = {f} THEN pc'[w] = "unmap" /\ last' = [last EXCEPT ![k] = w]
                          ELSE pc'[w] = "copy" /\ last' = last
  BY <1>1, <1>2, <1>3 DEF WriteField, At, Goto
<1>5. PICK n \in NodeValues :
        /\ n = shm'[s] /\ n[f] = NodeOf(w, k)[f] /\ \A g \in Fields \ {f} : n[g] = shm[s][g]
        /\ \A t \in Slots \ {s} : shm'[t] = shm[t]
  <2>1. PICK n : n = [shm[s] EXCEPT ![f] = NodeOf(w, k)[f]]
    OBVIOUS
  <2>2. /\ n \in NodeValues /\ n[f] = NodeOf(w, k)[f]
        /\ \A g \in Fields \ {f} : n[g] = shm[s][g]
    <3>1. PICK o \in NodeValues : o = shm[s] /\ n = [o EXCEPT ![f] = NodeOf(w, k)[f]]
      BY <1>3, <2>1
    <3>2. n \in NodeValues /\ n[f] = NodeOf(w, k)[f] /\ \A g \in Fields \ {f} : n[g] = o[g]
      <4>1. CASE f = "clientID"
        BY <3>1, <4>1 DEF NodeValues, NodeOf, Fields
      <4>2. CASE f = "serverID"
        BY <3>1, <4>2 DEF NodeValues, NodeOf, Fields
      <4>3. CASE f = "seckeyID"
        BY <3>1, <4>3 DEF NodeValues, NodeOf, Fields
      <4>4. CASE f = "seckeyHead"
        BY <3>1, <4>4 DEF NodeValues, NodeOf, Fields
      <4>5. CASE f = "seckeyTail"
        BY <3>1, <4>5 DEF NodeValues, NodeOf, Fields
      <4> QED  BY <4>1, <4>2, <4>3, <4>4, <4>5 DEF Fields
    <3> QED  BY <3>1, <3>2
  <2>3. shm'[s] = n /\ \A t \in Slots \ {s} : shm'[t] = shm[t]
    BY <1>3, <1>4, <2>1
  <2> QED  BY <2>2, <2>3
<1>6. /\ last[k] = "torn" /\ w \in begun[k] /\ Of(shm[s], k)
      /\ \A t \in Slots \ {s} : ~Holds(t, k)
      /\ \A g \in Fields \ left[w] : shm[s][g] = NodeOf(w, k)[g]
  BY <1>1, <1>2, <1>4 DEF WriterInv, WriterOk, At
<1>7. Of(n, k) /\ \A g \in Fields \ left'[w] : n[g] = NodeOf(w, k)[g]
  <2>1. \A g \in Fields \ left'[w] : n[g] = NodeOf(w, k)[g]
    BY <1>4, <1>5, <1>6
  <2>2. /\ shm[s]["clientID"] \in {"", k[1]} /\ shm[s]["serverID"] \in {"", k[2]}
        /\ \A g \in Fields \ IDs : shm[s][g] \in begun[k] \union {NoKey}
    <3>1. PICK o \in NodeValues : o = shm[s] /\ Of(o, k)
      BY <1>3, <1>6
    <3>2. \A g \in Fields \ IDs : o[g] \in {o.seckeyID} \union KeyOf(o)
      BY NodeFields DEF Fields, IDs, KeyOf
    <3> QED  BY <3>1, <3>2, NodeFields DEF Of
  <2>3. /\ n["clientID"] \in {"", k[1]} /\ n["serverID"] \in {"", k[2]}
        /\ \A g \in Fields \ IDs : n[g] \in begun[k] \union {NoKey}
    <3>1. \A g \in Fields : n[g] = shm[s][g] \/ n[g] = NodeOf(w, k)[g]
      BY <1>5
    <3>2. n["clientID"] \in {"", k[1]} /\ n["serverID"] \in {"", k[2]}
      <4>1. n["clientID"] = shm[s]["clientID"] \/ n["clientID"] = k[1]
        BY <3>1, NodeParts DEF Fields
      <4>2. n["serverID"] = shm[s]["serverID"] \/ n["serverID"] = k[2]
        BY <3>1, NodeParts DEF Fields
      <4> QED  BY <2>2, <4>1, <4>2
    <3>3. \A g \in Fields \ IDs : n[g] \in begun[k] \union {NoKey}
      <4>1. \A g \in Fields \ IDs : n[g] = shm[s][g] \/ n[g] = w
        BY <3>1, NodeParts
      <4> QED  BY <1>6, <2>2, <4>1
    <3> QED  BY <3>2, <3>3
  <2>4. {n.seckeyID} \union KeyOf(n) \subseteq begun[k] \union {NoKey}
    BY <2>3, NodeFields DEF Fields, IDs, KeyOf
  <2> QED  BY <2>1, <2>3, <2>4, NodeFields DEF Of
\* the node is of this pair before and after, and of no other
<1>8. \A l \in Pairs \ {k} : ~Holds(s, l) /\ ~Holds(s, l)' /\ n.clientID # l[1] /\ shm[s].clientID # l[1]
  <2> TAKE l \in Pairs \ {k}
  <2>1. l[1] # k[1] /\ l[1] # ""
    BY PairsDiffer
  <2>2. n.clientID # l[1] /\ shm[s].clientID # l[1]
    BY <1>6, <1>7, <2>1 DEF Of
  <2>3. shm'[s] = n
    BY <1>5
  <2> QED  BY <2>2, <2>3 DEF Holds
<1>9. \A l \in Pairs, t \in Slots : ~(t = s /\ l = k) => (Holds(t, l)' <=> Holds(t, l))
  BY <1>5, <1>8 DEF Holds
<1>10. TableInv'
  <2>1. \A t \in Slots : \E l \in Pairs : Of(shm[t], l)'
    <3> TAKE t \in Slots
    <3>1. CASE t = s
      <4>1. Of(shm[t], k)'
        BY <1>3, <1>5, <1>7, <3>1 DEF Of
      <4> QED  BY <4>1
    <3>2. CASE t # s
      <4>1. PICK l \in Pairs : Of(shm[t], l)
        BY DEF TableInv
      <4>2. Of(shm[t], l)'
        <5>1. shm'[t] = shm[t] /\ begun' = begun
          BY <1>3, <1>5, <3>2
        <5> QED  BY <4>1, <5>1 DEF Of
      <4> QED  BY <4>2
    <3> QED  BY <3>1, <3>2
  <2>2. \A l \in Pairs : \A t, u \in Slots : Holds(t, l)' /\ Holds(u, l)' => t = u
    <3> SUFFICES ASSUME NEW l \in Pairs, NEW t \in Slots, NEW u \in Slots, Holds(t, l)', Holds(u, l)'
                 PROVE  t = u
      OBVIOUS
    <3>1. CASE l = k
      BY <1>6, <1>9, <3>1
    <3>2. CASE l # k
      BY <1>9, <3>2 DEF TableInv
    <3> QED  BY <3>1, <3>2
  <2>3. \A l \in Pairs : last'[l] \in Writers => \E t \in Slots : shm'[t] = NodeOf(last'[l], l)
    <3> SUFFICES ASSUME NEW l \in Pairs, last'[l] \in Writers
                 PROVE  \E t \in Slots : shm'[t] = NodeOf(last'[l], l)
      OBVIOUS
    <3>1. CASE l = k
      <4>1. left[w] = {f} /\ last'[k] = w
        BY <1>3, <1>4, <1>6, <3>1
      <4>2. n = NodeOf(w, k)
        BY <1>4, <1>7, <4>1, NodeFields
      <4> QED  BY <1>5, <3>1, <4>1, <4>2
    <3>2. CASE l # k
      <4>1. last'[l] = last[l]
        BY <1>3, <1>4, <3>2
      <4>2. PICK t \in Slots : shm[t] = NodeOf(last[l], l)
        BY <4>1 DEF TableInv
      <4>3. Holds(t, l)
        BY <4>2 DEF Holds, NodeOf
      <4>4. t # s
        BY <1>8, <3>2, <4>3
      <4> QED  BY <1>5, <4>1, <4>2, <4>4
    <3> QED  BY <3>1, <3>2
  <2>4. \A l \in Pairs : last'[l] = NoKey => \A t \in Slots : shm'[t].clientID # l[1]
    <3> SUFFICES ASSUME NEW l \in Pairs, last'[l] = NoKey, NEW t \in Slots
                 PROVE  shm'[t].clientID # l[1]
      OBVIOUS
    <3>1. l # k /\ last[l] = NoKey
      BY <1>3, <1>4, <1>6
    <3> QED  BY <1>5, <1>8, <3>1 DEF TableInv
  <2> QED  BY <2>1, <2>2, <2>3, <2>4 DEF TableInv
<1>11. WriterInv'
  <2>1. WriterOk(w)'
    <3>1. CASE pc'[w] = "unmap"
      BY <3>1 DEF WriterOk, At
    <3>2. CASE pc'[w] = "copy" /\ last' = last
      <4>1. Of(shm[i[w]], Pair(w))'
        <5>1. shm'[i'[w]] = n /\ begun' = begun /\ k = Pair(w)'
          BY <1>1, <1>2, <1>3, <1>5
        <5> QED  BY <1>7, <5>1 DEF Of
      <4>2. \A t \in Slots \ {s} : ~Holds(t, Pair(w))'
        BY <1>1, <1>5, <1>6 DEF Holds
      <4> QED  BY <1>1, <1>2, <1>3, <1>5, <1>6, <1>7, <3>2, <4>1, <4>2 DEF WriterOk, At
    <3> QED  BY <1>4, <3>1, <3>2
  <2>2. \A v \in Writers \ {w} : WriterOk(v)'
    <3> TAKE v \in Writers \ {w}
    <3>1. pc'[v] = pc[v] /\ Writing(w)
      BY <1>4 DEF Alone, Procs, Writing
    <3>2. pc[v] \notin {"clientID", "serverID", "empty", "copy"}
      BY <3>1, OthersAway
    <3> QED  BY <3>1, <3>2 DEF WriterOk, At
  <2> QED  BY <2>1, <2>2 DEF WriterInv
<1>12. ReaderInv'
  <2> SUFFICES ASSUME NEW r \in Readers  PROVE ReaderOk(r)'
    BY DEF ReaderInv
  <2>1. /\ pc'[r] = pc[r] /\ left'[r] = left[r] /\ i'[r] = i[r] /\ r \in Procs /\ ReaderOk(r)
        /\ due'[r] = due[r] /\ due[r] # "torn" /\ begun' = begun
    BY <1>2, <1>3 DEF Alone, Procs, ReaderInv
  \* no read depends on the outcome of this write
  <2>2. Reading(r) \/ (At(r, "done") /\ shmID[r]) => due[r] = "any" \/ (k # Asked /\ due[r] = last[Asked])
    BY <1>6, <2>1 DEF ReaderOk
  <2>3. k # Asked => last'[Asked] = last[Asked]
    BY <1>3, <1>4, PairsDiffer
  <2>4. k # Asked => \A t \in Slots : Holds(t, Asked)' <=> Holds(t, Asked)
    BY <1>9, PairsDiffer
  \* a field that names the pair Asked is not changed any more
  <2>5. \A t \in Slots : shm[t].clientID = Asked[1] => shm'[t].clientID = Asked[1]
    <3> SUFFICES ASSUME shm[s].clientID = Asked[1]  PROVE n.clientID = Asked[1]
      BY <1>5
    <3>1. k = Asked
      BY <1>8, PairsDiffer
    <3>2. shm[s]["clientID"] = Asked[1]
      BY <1>3, NodeFields
    <3>3. n["clientID"] = Asked[1]
      BY <1>5, <3>1, <3>2, NodeParts DEF Fields
    <3> QED  BY <3>3, NodeFields
  <2>6. \A t \in Slots : Holds(t, Asked) => Holds(t, Asked)'
    <3> SUFFICES ASSUME Holds(s, Asked)  PROVE Holds(s, Asked)'
      BY <1>5 DEF Holds
    <3>1. k = Asked
      BY <1>8, PairsDiffer
    <3>2. shm[s]["serverID"] = Asked[2]
      BY <1>3, NodeFields DEF Holds
    <3>3. n["serverID"] = Asked[2]
      BY <1>5, <3>1, <3>2, NodeParts DEF Fields
    <3> QED  BY <1>5, <2>5, <3>3, NodeFields DEF Holds
  <2>7. \A g : Copied(r, g) => Copied(r, g)'
    BY <1>3, <2>1 DEF Copied
  <2>8. Answered(r) => Answered(r)'
    BY <1>3, <2>1 DEF Answered
  <2>9. Reading(r) \/ (At(r, "done") /\ shmID[r]) => due'[r] \in {"any", last'[Asked]}
    BY <2>1, <2>2, <2>3
  <2>10. Searching(r) => /\ info[r] = EmptyNode
                         /\ due'[r] \in Writers => \A t \in Slots : t < i[r] => ~Holds(t, Asked)'
    BY <2>1, <2>2, <2>4 DEF ReaderOk, Reading
  <2>11. At(r, "serverID") => shm'[i[r]].clientID = Asked[1]
    BY <2>1, <2>5 DEF ReaderOk, PlaceInv
  <2>12. At(r, "copy") => Holds(i[r], Asked)' /\ \A g \in Fields \ left[r] : Copied(r, g)'
    <3> SUFFICES ASSUME At(r, "copy")
                 PROVE  Holds(i[r], Asked)' /\ \A g \in Fields \ left[r] : Copied(r, g)'
      OBVIOUS
    <3>1. PICK t \in Slots : t = i[r] /\ t = i'[r]
      BY <2>1 DEF PlaceInv, TypeOK
    <3>2. Holds(t, Asked)'
      BY <2>1, <2>6, <3>1 DEF ReaderOk
    <3>3. Holds(i[r], Asked)'
      BY <3>1, <3>2 DEF Holds
    <3> QED  BY <2>1, <2>7, <3>3 DEF ReaderOk
  <2> QED  BY <1>3, <2>1, <2>8, <2>9, <2>10, <2>11, <2>12 DEF ReaderOk, Reading, Searching, At
<1> QED  BY <1>10, <1>11, <1>12

-----------------------------------------------------------------------------
(* Writers that take turns: the invariant *)

LEMMA StepKinds ==
  ASSUME NEW p \in Procs, StepOf(p)
  PROVE  \/ QuietStep(p)
         \/ p \in Writers /\ StartCopy(p) /\ (CompareServerID(p) \/ FindEmpty(p))
         \/ p \in Writers /\ \E f \in Fields : WriteField(p, f)
BY DEF StepOf, QuietStep, Procs

LEMMA TurnsStep ==
  ASSUME PlaceInv, ~overlap, TurnsInv, NEW p \in Procs, StepOf(p), Alone(p)
  PROVE  TurnsInv'
<1> USE DEF At, Goto, Writing
<1>1. pc \in [Procs -> Labels] /\ \A q \in Procs \ {p} : pc'[q] = pc[q]
  BY DEF PlaceInv, TypeOK, Labels, Alone
<1>2. \A w \in Writers : w # p => (Writing(w)' <=> Writing(w))
  BY <1>1 DEF Procs
<1>3. CASE p \in Writers /\ Writing(p)' /\ ~Writing(p)
  <2>1. MapShm(p)
    <3>1. p \notin Readers
      BY <1>3
    <3>2. pc[p] \in {"construct", "shmInit", "call", "done", "killed"}
      BY <1>1, <1>3 DEF Labels
    <3>3. pc'[p] \in {"clientID", "serverID", "empty", "copy", "unmap"}
      BY <1>3
    <3>4. CASE Construct(p) \/ MapShmFails(p) \/ ShmInit(p) \/ Killed(p)
      BY <1>1, <1>3, <3>3, <3>4 DEF Construct, MapShmFails, NextCall, ShmInit, Killed
    <3> QED
      BY <3>1, <3>2, <3>4 DEF StepOf, CompareClientID, NoMatch, CompareServerID, UnmapShm,
         FindEmpty, WriteField
  <2>2. \A w \in Writers : ~Writing(w)
    BY <1>3, <2>1 DEF MapShm
  <2> QED  BY <1>2, <2>2 DEF TurnsInv
<1>4. CASE p \in Writers => (Writing(p)' => Writing(p))
  BY <1>2, <1>4 DEF TurnsInv
<1> QED  BY <1>3, <1>4

LEMMA QuietKeeps ==
  ASSUME PlaceInv, TableInv, WriterInv, ReaderInv, NEW p \in Procs, QuietStep(p), Alone(p)
  PROVE  TableInv' /\ WriterInv' /\ ReaderInv'
<1>1. Quiet(p)
  BY QuietIsQuiet
<1>2. TableInv'
  BY <1>1, TableKept DEF Quiet
<1>3. WriterInv'
  BY <1>1, OthersOk, WriterLooks DEF WriterInv
<1>4. ReaderInv'
  BY <1>1, OthersOk, ReaderLooks DEF ReaderInv
<1> QED  BY <1>2, <1>3, <1>4

LEMMA InitHolds == Init => ShmInv
<1> SUFFICES ASSUME Init  PROVE ShmInv
  OBVIOUS
<1>1. PlaceInv
  BY PlaceInit
<1>2. \A p \in Procs : pc[p] = "construct"
  BY DEF Init
<1>3. TurnsInv /\ WriterInv /\ ReaderInv
  BY <1>2 DEF TurnsInv, WriterInv, WriterOk, ReaderInv, ReaderOk, Reading, Searching, Writing, At, Procs
<1>4. \A s \in Slots : shm[s] = EmptyNode
  BY DEF Init
<1>5. \A k : Of(EmptyNode, k)
  BY DEF Of, EmptyNode, KeyOf
<1>6. \A k \in Pairs : EmptyNode.clientID # k[1] /\ last[k] = NoKey
  BY PairsDiffer DEF EmptyNode, Init
<1>7. TableInv
  BY <1>4, <1>5, <1>6, PairsDiffer DEF TableInv, Holds
<1> QED  BY <1>1, <1>3, <1>7 DEF ShmInv

LEMMA ShmStep == ASSUME ShmInv, [Next]_vars  PROVE ShmInv'
<1>1. PlaceInv /\ PlaceInv'
  BY PlaceStep DEF ShmInv
<1>2. CASE UNCHANGED vars
  <2>1. UNCHANGED <<shm, pc, shmID, call, i, left, info, overlap, last, begun, due>>
    BY <1>2 DEF vars
  <2>2. ASSUME TurnsInv, TableInv, WriterInv, ReaderInv
        PROVE  TurnsInv' /\ TableInv' /\ WriterInv' /\ ReaderInv'
    <3>1. TurnsInv'
      BY <2>1, <2>2 DEF TurnsInv, Writing
    <3>2. TableInv'
      BY <2>1, <2>2, TableKept
    <3>3. WriterInv' /\ ReaderInv'
      BY <2>1, <2>2, WriterKept, ReaderKept DEF WriterInv, ReaderInv
    <3> QED  BY <3>1, <3>2, <3>3
  <2> QED  BY <1>1, <2>1, <2>2 DEF ShmInv
<1>3. CASE Next
  <2>1. PICK p \in Procs : StepOf(p)
    BY <1>3, StepsAreOf
  <2>2. Alone(p) /\ overlap' = overlap
    BY <1>1, <2>1, StepIsAlone, StepShared DEF Shared
  <2>3. ASSUME ~overlap  PROVE TurnsInv' /\ TableInv' /\ WriterInv' /\ ReaderInv'
    <3>1. TurnsInv /\ TableInv /\ WriterInv /\ ReaderInv
      BY <2>3 DEF ShmInv
    <3>2. TurnsInv'
      BY <1>1, <2>1, <2>2, <2>3, <3>1, TurnsStep
    <3>3. CASE QuietStep(p)
      BY <1>1, <2>2, <3>1, <3>2, <3>3, QuietKeeps
    <3>4. CASE p \in Writers /\ StartCopy(p) /\ (CompareServerID(p) \/ FindEmpty(p))
      <4>1. Begins(p)
        BY <1>1, <3>1, <3>4, StartsBegin DEF WriterInv
      <4> QED  BY <1>1, <2>2, <3>1, <3>2, <3>4, <4>1, BeginKeeps
    <3>5. CASE p \in Writers /\ \E f \in Fields : WriteField(p, f)
      BY <1>1, <2>2, <3>1, <3>2, <3>5, WriteKeeps
    <3> QED  BY <2>1, <3>3, <3>4, <3>5, StepKinds
  <2> QED  BY <1>1, <2>2, <2>3 DEF ShmInv
<1> QED  BY <1>2, <1>3

THEOREM ShmInvariant == Spec => []ShmInv
BY InitHolds, ShmStep, PTL DEF Spec

\* Every variable keeps its type: a node is copied only to or from a slot of the table.
THEOREM ShmTypes == Spec => []TypeOK
<1>1. ShmInv => TypeOK
  BY DEF ShmInv, PlaceInv
<1> QED  BY <1>1, ShmInvariant, PTL

\* When writers take turns, shmWrite leaves each pair it has finished in exactly one
\* node, whole, whatever writers were killed halfway through another.
THEOREM FinishedWriteStands == Spec => []LastWriteStands
<1>1. ShmInv => LastWriteStands
  <2> SUFFICES ASSUME ShmInv, ~overlap, NEW k \in Pairs, last[k] \in Writers
               PROVE  \E s \in Slots : /\ shm[s] = NodeOf(last[k], k)
                                       /\ \A t \in Slots \ {s} : ~Holds(t, k)
    BY DEF LastWriteStands
  <2>1. PICK s \in Slots : shm[s] = NodeOf(last[k], k)
    BY DEF ShmInv, TableInv
  <2>2. Holds(s, k)
    BY <2>1 DEF Holds, NodeOf
  <2>3. \A t \in Slots \ {s} : ~Holds(t, k)
    BY <2>2 DEF ShmInv, TableInv
  <2> QED  BY <2>1, <2>3
<1> QED  BY <1>1, ShmInvariant, PTL

\* When writers take turns, shmRead answers with one pair's node and with keys of
\* its writers, and with the last write if none came in between.
THEOREM ReadersGetOnePair == Spec => []AnswerOfOnePair
<1>1. ShmInv => AnswerOfOnePair
  BY DEF ShmInv, ReaderInv, ReaderOk, Answered, AnswerOfOnePair, At
<1> QED  BY <1>1, ShmInvariant, PTL

-----------------------------------------------------------------------------
(* Writers that overlap *)

\* What a step of a writer does, as far as the others see it.
LEMMA FieldWritten ==
  ASSUME PlaceInv, NEW w \in Writers, NEW f \in Fields, WriteField(w, f)
  PROVE  /\ pc[w] = "copy" /\ i[w] \in Slots /\ i' = i /\ call' = call /\ failed' = failed
         /\ f \in left[w] /\ left'[w] = left[w] \ {f}
         /\ pc'[w] = IF left[w] = {f} THEN "unmap" ELSE "copy"
         /\ shm'[i[w]][f] = NodeOf(w, Pair(w))[f]
         /\ \A g \in Fields \ {f} : shm'[i[w]][g] = shm[i[w]][g]
         /\ \A t \in Slots \ {i[w]} : shm'[t] = shm[t]
<1>1. /\ shm \in [Slots -> NodeValues] /\ w \in Procs /\ pc \in [Procs -> Labels]
      /\ left \in [Procs -> SUBSET Fields]
  BY DEF PlaceInv, TypeOK, Procs, Labels
<1>2. /\ pc[w] = "copy" /\ i[w] \in Slots /\ i' = i /\ call' = call /\ failed' = failed
      /\ f \in left[w] /\ left'[w] = left[w] \ {f}
      /\ pc'[w] = IF left[w] = {f} THEN "unmap" ELSE "copy"
  BY <1>1 DEF WriteField, PlaceInv, TypeOK, At, Goto, results
<1> PICK v : v = NodeOf(w, Pair(w))[f]
  OBVIOUS
<1>3. PICK s \in Slots, n \in NodeValues :
        s = i[w] /\ n = shm[s] /\ shm' = [shm EXCEPT ![s][f] = v]
  BY <1>1, <1>2 DEF WriteField
<1>4. shm'[s] = [n EXCEPT ![f] = v] /\ \A t \in Slots \ {s} : shm'[t] = shm[t]
  BY <1>1, <1>3
<1>5. shm'[s][f] = v /\ \A g \in Fields \ {f} : shm'[s][g] = n[g]
  <2>1. PICK m : m = shm'[s] /\ m = [n EXCEPT ![f] = v]
    BY <1>4
  <2>2. m[f] = v /\ \A g \in Fields \ {f} : m[g] = n[g]
    BY <2>1 DEF NodeValues, Fields
  <2> QED  BY <2>1, <2>2
<1> QED  BY <1>2, <1>3, <1>4, <1>5

\* What a writer does in a step that writes nothing.
Looks(p) ==
  /\ call'[p] = call[p] /\ pc[p] \notin {"copy", "unmap"}
  /\ pc'[p] \in {"shmInit", "call", "clientID", "serverID", "empty"}
  /\ pc'[p] = "serverID" => i'[p] = i[p] /\ shm[i[p]].clientID = Pair(p)[1]

Copies(p) ==
  /\ call'[p] = call[p] /\ pc[p] \in {"serverID", "empty"} /\ pc'[p] = "copy"
  /\ i'[p] = i[p] /\ left'[p] = Fields /\ (pc[p] = "empty" => shm[i[p]] = EmptyNode)

Passes(p) == call[p] = 1 /\ call'[p] = 2 /\ pc[p] = "unmap" /\ pc'[p] = "call"

Ends(p) == call'[p] = call[p] /\ (pc'[p] = "killed" \/ (call[p] = 2 /\ pc[p] = "unmap" /\ pc'[p] = "done"))

LEMMA StepOfWriter ==
  ASSUME PlaceInv, NEW p \in Procs, StepOf(p), \A f \in Fields : p \in Writers => ~WriteField(p, f)
  PROVE  /\ shm' = shm /\ (failed' = {} => failed = {})
         /\ p \in Writers /\ failed' = {} => Looks(p) \/ Copies(p) \/ Passes(p) \/ Ends(p)
<1> USE DEF At, Goto, table, cursor, results
<1>1. /\ pc \in [Procs -> Labels] /\ left \in [Procs -> SUBSET Fields] /\ i \in [Procs -> 0..MaxNode]
      /\ call \in [Writers -> {1, 2}] /\ Len(Calls) = 2
      /\ failed \in SUBSET Writers
  BY PairFacts DEF PlaceInv, TypeOK, Labels
<1>2. shm' = shm /\ (failed' = {} => failed = {})
  BY DEF StepOf, Construct, MapShm, MapShmFails, CompareClientID, NoMatch, CompareServerID, UnmapShm,
     ShmInit, Killed, FindEmpty, ReadAgain, ReadField
<1>3. ASSUME p \in Writers, failed' = {}, Construct(p) \/ MapShm(p) \/ ShmInit(p) \/ NoMatch(p)
      PROVE  /\ call'[p] = call[p] /\ pc[p] \notin {"copy", "unmap"}
             /\ pc'[p] \in {"shmInit", "call", "clientID", "empty"} \/ pc'[p] = "killed"
  BY <1>1, <1>3 DEF Construct, MapShm, ShmInit, NoMatch
<1>4. ASSUME p \in Writers, failed' = {}, CompareClientID(p)
      PROVE  /\ call'[p] = call[p] /\ pc[p] \notin {"copy", "unmap"}
             /\ pc'[p] \in {"clientID", "serverID"}
             /\ pc'[p] = "serverID" => i'[p] = i[p] /\ shm[i[p]].clientID = Pair(p)[1]
  BY <1>1, <1>4 DEF CompareClientID
<1>5. ASSUME p \in Writers, failed' = {}, CompareServerID(p)
      PROVE  /\ call'[p] = call[p] /\ pc[p] = "serverID"
             /\ \/ pc'[p] = "clientID"
                \/ pc'[p] = "copy" /\ i'[p] = i[p] /\ left'[p] = Fields
  BY <1>1, <1>5 DEF CompareServerID, StartCopy
<1>6. ASSUME p \in Writers, failed' = {}, FindEmpty(p)
      PROVE  /\ call'[p] = call[p] /\ pc[p] = "empty"
             /\ \/ pc'[p] = "empty"
                \/ pc'[p] = "copy" /\ i'[p] = i[p] /\ left'[p] = Fields /\ shm[i[p]] = EmptyNode
  BY <1>1, <1>6 DEF FindEmpty, StartCopy
<1>7. ASSUME p \in Writers, failed' = {}, UnmapShm(p)
      PROVE  /\ pc[p] = "unmap" /\ call'[p] = 2
             /\ \/ call[p] = 1 /\ pc'[p] = "call"
                \/ call[p] = 2 /\ pc'[p] = "done"
  BY <1>1, <1>7 DEF UnmapShm, NextCall
<1>8. ASSUME p \in Writers, failed' = {}, MapShmFails(p)  PROVE FALSE
  BY <1>1, <1>8 DEF MapShmFails
<1>9. ASSUME p \in Writers, failed' = {}, Killed(p)  PROVE call'[p] = call[p] /\ pc'[p] = "killed"
  BY <1>1, <1>9 DEF Killed
<1>10. p \in Writers => p \notin Readers
  OBVIOUS
<1> QED
  BY <1>2, <1>3, <1>4, <1>5, <1>6, <1>7, <1>8, <1>9, <1>10 DEF StepOf, Looks, Copies, Passes, Ends

\* One lemma per part of RaceInv; each of them for a step of one process.
LEMMA UnmapStep ==
  ASSUME PlaceInv, UnmapInv, NEW p \in Procs, StepOf(p), Alone(p)
  PROVE  UnmapInv'
<1> SUFFICES ASSUME NEW w \in Writers
             PROVE  /\ pc'[w] = "unmap" /\ failed' = {} => i'[w] \in Slots /\ left'[w] = {}
                    /\ pc'[w] = "done" => call'[w] = 2
  BY DEF UnmapInv, At
<1>1. CASE w # p
  <2>1. pc'[w] = pc[w] /\ i'[w] = i[w] /\ left'[w] = left[w] /\ call'[w] = call[w]
    BY <1>1 DEF Alone, Procs
  <2>2. failed' = {} => failed = {}
    <3>1. ASSUME p \in Writers, NEW f \in Fields, WriteField(p, f)  PROVE failed' = failed
      BY <3>1, FieldWritten
    <3> QED  BY <3>1, StepOfWriter
  <2> QED  BY <2>1, <2>2 DEF UnmapInv, At
<1>2. ASSUME w = p, NEW f \in Fields, WriteField(p, f)
      PROVE  /\ pc'[w] = "unmap" => i'[w] \in Slots /\ left'[w] = {}
             /\ pc'[w] # "done"
  BY <1>2, FieldWritten
<1>3. CASE w = p /\ \A f \in Fields : ~WriteField(p, f)
  <2>1. failed' = {} => Looks(p) \/ Copies(p) \/ Passes(p) \/ Ends(p)
    BY <1>3, StepOfWriter
  <2>2. pc'[w] = "done" => call'[w] = 2
    <3> SUFFICES ASSUME pc'[w] = "done"  PROVE call'[w] = 2
      OBVIOUS
    <3>1. pc \in [Procs -> Labels] /\ call \in [Writers -> {1, 2}] /\ Len(Calls) = 2 /\ w \notin Readers
      BY PairFacts DEF PlaceInv, TypeOK, Labels
    <3>2. UnmapShm(p) \/ MapShmFails(p)
      BY <1>3, <3>1 DEF StepOf, Construct, MapShm, CompareClientID, NoMatch, CompareServerID, StartCopy,
         ShmInit, Killed, FindEmpty, Goto, At
    <3> QED  BY <1>3, <3>1, <3>2 DEF UnmapShm, MapShmFails, NextCall, Goto, At
  <2> QED  BY <1>3, <2>1, <2>2 DEF Looks, Copies, Passes, Ends
<1> QED  BY <1>1, <1>2, <1>3

LEMMA KeyStep ==
  ASSUME PlaceInv, KeyInv, NEW p \in Procs, StepOf(p), Alone(p)
  PROVE  KeyInv'
<1>1. \A w \in Writers \ {p} : pc'[w] = pc[w] /\ i'[w] = i[w] /\ left'[w] = left[w] /\ w \in Procs
  BY DEF Alone, Procs
<1>2. \A w \in Writers : pc[w] = "copy" => i[w] \in Slots
  BY DEF PlaceInv, TypeOK, At, Procs
<1>3. shm \in [Slots -> NodeValues] /\ Pieces \subseteq Fields
  BY DEF PlaceInv, TypeOK, Fields, Pieces
<1>4. ASSUME p \in Writers, NEW f \in Fields, WriteField(p, f)  PROVE KeyInv'
  <2>1. PICK s \in Slots : s = i[p] /\ s = i'[p]
    BY <1>4, FieldWritten
  <2>2. /\ pc[p] = "copy" /\ f \in left[p] /\ left'[p] = left[p] \ {f}
        /\ pc'[p] = IF left[p] = {f} THEN "unmap" ELSE "copy"
        /\ shm'[s][f] = NodeOf(p, Pair(p))[f] /\ \A g \in Fields \ {f} : shm'[s][g] = shm[s][g]
        /\ \A t \in Slots \ {s} : shm'[t] = shm[t]
    BY <1>4, <2>1, FieldWritten
  <2>3. \A q \in Pieces : f = q => shm'[s][q] = p
    BY <2>2, NodeParts
  <2>4. \A t \in Slots, q \in Pieces : shm[t][q] \in Writers => shm'[t][q] \in Writers
    <3> TAKE t \in Slots, q \in Pieces
    <3>1. f # q => shm'[s][q] = shm[s][q]
      BY <1>3, <2>2
    <3> QED  BY <1>4, <2>2, <2>3, <3>1
  <2>5. \A q \in Pieces \ left'[p] : shm'[s][q] \in Writers
    <3> TAKE q \in Pieces \ left'[p]
    <3>1. CASE f = q
      BY <1>4, <2>3, <3>1
    <3>2. CASE f # q
      <4>1. q \notin left[p] /\ s \in Slots
        BY <1>2, <1>4, <2>1, <2>2, <3>2
      <4> QED  BY <1>4, <2>1, <2>2, <2>4, <4>1 DEF KeyInv, At
    <3> QED  BY <3>1, <3>2
  <2>6. \A q \in Pieces : q \in left'[p] => pc'[p] = "copy"
    BY <2>2
  <2>7. \A w \in Writers : pc'[w] = "copy" => \A q \in Pieces \ left'[w] : shm'[i'[w]][q] \in Writers
    <3> TAKE w \in Writers
    <3>1. CASE w = p
      BY <2>1, <2>5, <3>1
    <3>2. CASE w # p
      BY <1>1, <1>2, <2>4, <3>2 DEF KeyInv, At
    <3> QED  BY <3>1, <3>2
  <2>8. ASSUME NoneKilled', NEW t \in Slots, NEW q \in Pieces
        PROVE  \/ shm'[t] = EmptyNode \/ shm'[t][q] \in Writers
               \/ \E w \in Writers : pc'[w] = "copy" /\ i'[w] = t /\ q \in left'[w]
    <3>1. CASE t = s
      BY <1>4, <2>1, <2>5, <2>6, <3>1
    <3>2. CASE t # s
      <4>1. NoneKilled
        BY <1>1, <2>2, <2>8 DEF NoneKilled, At
      <4>2. CASE \E w \in Writers : pc[w] = "copy" /\ i[w] = t /\ q \in left[w]
        <5>1. PICK w \in Writers : pc[w] = "copy" /\ i[w] = t /\ q \in left[w]
          BY <4>2
        <5>2. w # p
          BY <2>1, <3>2, <5>1
        <5> QED  BY <1>1, <5>1, <5>2
      <4> QED  BY <2>2, <2>4, <3>2, <4>1, <4>2 DEF KeyInv, At
    <3> QED  BY <3>1, <3>2
  <2> QED  BY <2>7, <2>8 DEF KeyInv, At
<1>5. CASE \A f \in Fields : p \in Writers => ~WriteField(p, f)
  <2>1. shm' = shm
    BY <1>5, StepOfWriter
  <2>2. p \in Writers => \/ pc'[p] # "copy" /\ (pc[p] # "copy" \/ pc'[p] = "killed")
                         \/ pc'[p] = "copy" /\ i'[p] = i[p] /\ left'[p] = Fields
    <3>1. pc \in [Procs -> Labels] /\ left \in [Procs -> SUBSET Fields]
      BY DEF PlaceInv, TypeOK, Labels
    <3>2. p \in Writers => p \notin Readers
      OBVIOUS
    <3> QED
      BY <1>5, <3>1, <3>2 DEF StepOf, Construct, MapShm, MapShmFails, CompareClientID, NoMatch,
         CompareServerID, StartCopy, UnmapShm, NextCall, ShmInit, Killed, FindEmpty, Goto, At
  <2>3. \A w \in Writers : pc'[w] = "copy" => \A q \in Pieces \ left'[w] : shm'[i'[w]][q] \in Writers
    BY <1>1, <1>3, <2>1, <2>2 DEF KeyInv, At
  <2>4. ASSUME NoneKilled'
        PROVE  /\ NoneKilled
               /\ \A w \in Writers, q \in Pieces : pc[w] = "copy" /\ q \in left[w] =>
                    pc'[w] = "copy" /\ q \in left'[w] /\ i'[w] = i[w]
    <3>1. p \in Writers => pc[p] # "killed"
      <4>1. p \in Writers => p \notin Readers /\ pc'[p] # "killed"
        BY <2>4 DEF NoneKilled, At
      <4> QED  BY <1>5, <4>1 DEF StepOf, Construct, MapShm, MapShmFails, CompareClientID, NoMatch,
         CompareServerID, StartCopy, UnmapShm, NextCall, ShmInit, Killed, FindEmpty, Goto, At
    <3>2. NoneKilled
      BY <1>1, <2>4, <3>1 DEF NoneKilled, At
    <3>3. p \in Writers => pc'[p] # "killed"
      BY <2>4 DEF NoneKilled, At
    <3> QED  BY <1>1, <1>3, <2>2, <3>2, <3>3
  <2> QED  BY <2>1, <2>3, <2>4 DEF KeyInv, At
<1> QED  BY <1>4, <1>5

\* Nobody leaves "killed", and once a shmWrite has failed it has failed.
LEMMA OneWayOnly ==
  ASSUME PlaceInv, NEW p \in Procs, StepOf(p)
  PROVE  /\ failed' = {} => failed = {}
         /\ p \in Writers => pc[p] # "killed"
<1>1. ASSUME p \in Writers, NEW f \in Fields, WriteField(p, f)  PROVE failed' = failed
  BY <1>1, FieldWritten
<1>2. failed' = {} => failed = {}
  BY <1>1, StepOfWriter
<1>3. p \in Writers => p \notin Readers
  OBVIOUS
<1>4. p \in Writers => pc[p] # "killed"
  BY <1>3 DEF StepOf, Construct, MapShm, MapShmFails, CompareClientID, NoMatch, CompareServerID,
     UnmapShm, ShmInit, Killed, FindEmpty, WriteField, At
<1> QED  BY <1>2, <1>4

\* A writer of the pair k writes the same identifiers as any other, and a key.
LEMMA SameIDs ==
  ASSUME PlaceInv, NEW p \in Writers, NEW f \in Fields, WriteField(p, f)
  PROVE  /\ \A s \in Slots : \A w : \A g \in IDs :
              shm[s][g] = NodeOf(w, Pair(p))[g] => shm'[s][g] = NodeOf(w, Pair(p))[g]
         /\ f \in IDs => \A w : shm'[i[p]][f] = NodeOf(w, Pair(p))[f]
         /\ \A s \in Slots, q \in Pieces : shm[s][q] \in Writers => shm'[s][q] \in Writers
         /\ f \in Pieces => shm'[i[p]][f] \in Writers
<1>1. /\ i[p] \in Slots /\ shm'[i[p]][f] = NodeOf(p, Pair(p))[f]
      /\ \A g \in Fields \ {f} : shm'[i[p]][g] = shm[i[p]][g]
      /\ \A t \in Slots \ {i[p]} : shm'[t] = shm[t]
  BY FieldWritten
<1>2. \A w, k : \A g \in IDs : NodeOf(w, k)[g] = NodeOf(p, k)[g]
  BY NodeParts DEF IDs
<1>3. IDs \subseteq Fields /\ Pieces \subseteq Fields
  BY DEF IDs, Pieces, Fields
<1>5. f \in Pieces => shm'[i[p]][f] \in Writers
  BY <1>1, NodeParts
<1>6. \A s \in Slots : \A w : \A g \in IDs :
        shm[s][g] = NodeOf(w, Pair(p))[g] => shm'[s][g] = NodeOf(w, Pair(p))[g]
  <2> TAKE s \in Slots
  <2> TAKE w
  <2> TAKE g \in IDs
  <2>1. CASE s = i[p] /\ g = f
    BY <1>1, <1>2, <2>1
  <2>2. CASE s = i[p] /\ g # f
    BY <1>1, <1>3, <2>2
  <2> QED  BY <1>1, <2>1, <2>2
<1>7. \A s \in Slots, q \in Pieces : shm[s][q] \in Writers => shm'[s][q] \in Writers
  <2> TAKE s \in Slots, q \in Pieces
  <2>1. CASE s = i[p] /\ f # q
    BY <1>1, <1>3, <2>1
  <2> QED  BY <1>1, <1>5, <2>1
<1> QED  BY <1>1, <1>2, <1>5, <1>6, <1>7

LEMMA FirstStep ==
  ASSUME PlaceInv, UnmapInv, FirstInv, NEW p \in Procs, StepOf(p), Alone(p)
  PROVE  FirstInv'
<1> SUFFICES ASSUME failed' = {}, \A w \in Writers : call'[w] = 1,
                    NEW w \in Writers, pc'[w] \in {"copy", "unmap"}
             PROVE  /\ \A f \in IDs \ left'[w] : shm'[i'[w]][f] = NodeOf(w, First)[f]
                    /\ \A q \in Pieces \ left'[w] : shm'[i'[w]][q] \in Writers
  BY DEF FirstInv
<1>1. \A v \in Writers \ {p} : pc'[v] = pc[v] /\ i'[v] = i[v] /\ left'[v] = left[v] /\ call'[v] = call[v]
  BY DEF Alone, Procs
<1>2. failed = {}
  BY OneWayOnly
<1>3. ASSUME p \in Writers, NEW f \in Fields, WriteField(p, f)
      PROVE  /\ \A g \in IDs \ left'[w] : shm'[i'[w]][g] = NodeOf(w, First)[g]
             /\ \A q \in Pieces \ left'[w] : shm'[i'[w]][q] \in Writers
  <2>1. /\ pc[p] = "copy" /\ i' = i /\ call' = call /\ f \in left[p] /\ left'[p] = left[p] \ {f}
    BY <1>3, FieldWritten
  <2>2. Pair(p) = First
    BY <1>3, <2>1, PairOf DEF PlaceInv, First
  <2>3. pc[w] \in {"copy", "unmap"}
    BY <1>1, <2>1
  <2>4. i[w] \in Slots
    BY <1>2, <2>3 DEF UnmapInv, PlaceInv, TypeOK, At, Procs
  <2>5. /\ \A g \in IDs \ left[w] : shm[i[w]][g] = NodeOf(w, First)[g]
        /\ \A q \in Pieces \ left[w] : shm[i[w]][q] \in Writers
    BY <1>2, <2>1, <2>3 DEF FirstInv
  <2>6. w = p => left'[w] = left[w] \ {f}
    BY <2>1
  <2>7. w # p => left'[w] = left[w]
    BY <1>1
  <2>8. ASSUME NEW g \in IDs \ left'[w]  PROVE shm'[i[w]][g] = NodeOf(w, First)[g]
    <3>1. CASE g \notin left[w]
      BY <1>3, <2>2, <2>4, <2>5, <3>1, SameIDs
    <3>2. CASE g \in left[w]
      <4>1. w = p /\ g = f
        BY <2>6, <2>7, <2>8, <3>2
      <4> QED  BY <1>3, <2>2, <2>8, <4>1, SameIDs
    <3> QED  BY <3>1, <3>2
  <2>9. ASSUME NEW q \in Pieces \ left'[w]  PROVE shm'[i[w]][q] \in Writers
    <3>1. CASE q \notin left[w]
      BY <1>3, <2>4, <2>5, <3>1, SameIDs
    <3>2. CASE q \in left[w]
      <4>1. w = p /\ f = q
        BY <2>6, <2>7, <2>9, <3>2
      <4> QED  BY <1>3, <4>1, SameIDs
    <3> QED  BY <3>1, <3>2
  <2> QED  BY <2>1, <2>8, <2>9
<1>4. CASE \A f \in Fields : p \in Writers => ~WriteField(p, f)
  <2>1. shm' = shm /\ (p \in Writers => Looks(p) \/ Copies(p) \/ Passes(p) \/ Ends(p))
    BY <1>4, StepOfWriter
  <2>2. CASE w = p
    <3>1. left'[p] = Fields
      BY <2>1, <2>2 DEF Looks, Copies, Passes, Ends
    <3> QED  BY <2>2, <3>1 DEF Fields, IDs, Pieces
  <2>3. CASE w # p
    <3>1. \A v \in Writers : call[v] = 1
      BY <1>1, <2>1 DEF Looks, Copies, Passes, Ends
    <3> QED  BY <1>1, <1>2, <2>1, <2>3, <3>1 DEF FirstInv
  <2> QED  BY <2>2, <2>3
<1> QED  BY <1>3, <1>4

LEMMA SafeStep ==
  ASSUME PlaceInv, UnmapInv, FirstInv, SafeInv, NEW p \in Procs, StepOf(p), Alone(p)
  PROVE  SafeInv'
<1> SUFFICES ASSUME failed' = {}, NEW v \in Writers, call'[v] = 2
             PROVE  \E s \in Slots : Safe(s)'
  BY DEF SafeInv, Safe
<1>1. \A w \in Writers \ {p} : pc'[w] = pc[w] /\ i'[w] = i[w] /\ left'[w] = left[w] /\ call'[w] = call[w]
  BY DEF Alone, Procs
<1>2. failed = {}
  BY OneWayOnly
<1>3. shm \in [Slots -> NodeValues] /\ shm' \in [Slots -> NodeValues] /\ call \in [Writers -> {1, 2}]
  BY StepShared, PairFacts DEF Shared, PlaceInv, TypeOK
<1>4. \A t \in Slots : \A w :
        /\ Holds(t, First) <=> \A g \in IDs : shm[t][g] = NodeOf(w, First)[g]
        /\ Holds(t, First)' <=> \A g \in IDs : shm'[t][g] = NodeOf(w, First)[g]
  BY <1>3, NodeFields, NodeParts DEF Holds, IDs
<1>5. CASE \E w \in Writers : call[w] = 2
  <2>1. PICK s \in Slots : Safe(s)
    BY <1>2, <1>5 DEF SafeInv
  <2>2. ASSUME p \in Writers, NEW f \in Fields, WriteField(p, f)  PROVE Safe(s)'
    <3>1. /\ pc[p] = "copy" /\ i' = i /\ call' = call
          /\ \A t \in Slots \ {i[p]} : shm'[t] = shm[t]
      BY <2>2, FieldWritten
    <3>2. \A w \in Writers : call'[w] = 2 /\ pc'[w] \in {"serverID", "copy"} => i'[w] # s
      BY <1>1, <2>1, <3>1 DEF Safe
    <3>3. CASE i[p] = s
      <4>1. Pair(p) = First
        BY <1>3, <2>1, <2>2, <3>1, <3>3, PairOf DEF PlaceInv, Safe, First
      <4>2. \A g \in IDs : shm[s][g] = NodeOf(p, First)[g]
        BY <1>4, <2>1 DEF Safe
      <4>3. Holds(s, First)'
        BY <1>4, <2>2, <4>1, <4>2, SameIDs
      <4>4. \A q \in Pieces : shm'[s][q] \in Writers
        BY <2>1, <2>2, SameIDs DEF Safe
      <4> QED  BY <3>2, <4>3, <4>4 DEF Safe
    <3>4. CASE i[p] # s
      BY <2>1, <3>1, <3>2, <3>4 DEF Safe, Holds
    <3> QED  BY <3>3, <3>4
  <2>3. CASE \A f \in Fields : p \in Writers => ~WriteField(p, f)
    <3>1. shm' = shm /\ (p \in Writers => Looks(p) \/ Copies(p) \/ Passes(p) \/ Ends(p))
      BY <2>3, StepOfWriter
    <3>2. shm[s].clientID = "kevin"
      BY <2>1, PairFacts DEF Safe, Holds
    <3>3. ASSUME p \in Writers, call'[p] = 2, pc'[p] \in {"serverID", "copy"}  PROVE i'[p] # s
      <4>1. CASE Looks(p)
        <5>1. pc'[p] = "serverID" /\ call[p] = 2
          BY <3>3, <4>1 DEF Looks
        <5>2. shm[i[p]].clientID = "Bob" /\ i'[p] = i[p]
          BY <3>3, <4>1, <5>1, PairOf, PairFacts DEF Looks, PlaceInv, Second
        <5> QED  BY <3>2, <5>2
      <4>2. CASE Copies(p)
        <5>1. pc[p] = "serverID" \/ shm[i[p]] = EmptyNode
          BY <4>2 DEF Copies
        <5>2. shm[i[p]] = EmptyNode => i[p] # s
          <6>1. EmptyNode.clientID = ""
            BY DEF EmptyNode
          <6> QED  BY <3>2, <6>1
        <5> QED  BY <2>1, <3>3, <4>2, <5>1, <5>2 DEF Copies, Safe
      <4>3. CASE Passes(p) \/ Ends(p)
        BY <3>3, <4>3 DEF Passes, Ends
      <4> QED  BY <3>1, <3>3, <4>1, <4>2, <4>3
    <3>4. \A w \in Writers : call'[w] = 2 /\ pc'[w] \in {"serverID", "copy"} => i'[w] # s
      BY <1>1, <2>1, <3>3 DEF Safe
    <3> QED  BY <2>1, <3>1, <3>4 DEF Safe, Holds
  <2> QED  BY <2>1, <2>2, <2>3
<1>6. CASE \A w \in Writers : call[w] # 2
  <2>1. \A w \in Writers : call[w] = 1
    BY <1>3, <1>6
  <2>2. v = p /\ p \in Writers
    BY <1>1, <1>6
  <2>3. \A f \in Fields : ~WriteField(p, f)
    BY <2>1, <2>2, FieldWritten
  <2>4. Passes(p) /\ shm' = shm
    <3>1. shm' = shm /\ (Looks(p) \/ Copies(p) \/ Passes(p) \/ Ends(p))
      BY <2>2, <2>3, StepOfWriter
    <3> QED  BY <2>1, <2>2, <3>1 DEF Looks, Copies, Ends
  <2>5. PICK s \in Slots : s = i[p] /\ left[p] = {}
    BY <1>2, <2>2, <2>4 DEF Passes, UnmapInv, At
  <2>6. (\A g \in IDs : shm[s][g] = NodeOf(p, First)[g]) /\ \A q \in Pieces : shm[s][q] \in Writers
    BY <1>2, <2>1, <2>2, <2>4, <2>5 DEF Passes, FirstInv
  <2>7. Holds(s, First)'
    BY <1>4, <2>4, <2>6
  <2>8. \A w \in Writers : call'[w] = 2 => pc'[w] = "call"
    BY <1>1, <2>1, <2>4 DEF Passes
  <2> QED  BY <2>4, <2>6, <2>7, <2>8 DEF Safe
<1> QED  BY <1>5, <1>6

LEMMA SecondStep ==
  ASSUME PlaceInv, UnmapInv, SecondInv, NEW p \in Procs, StepOf(p), Alone(p)
  PROVE  SecondInv'
<1> DEFINE Before(w) == pc[w] \notin {"copy", "unmap", "done"}
           At2(w) == pc[w] = "copy" /\ \A f \in IDs \ left[w] : shm[i[w]][f] = NodeOf(w, Second)[f]
           Goal == \/ \E w \in Writers : Before(w)'
                   \/ \E w \in Writers : At2(w)'
                   \/ \E s \in Slots : Holds(s, Second)'
<1> SUFFICES ASSUME failed' = {}, NoneKilled', Writers # {}, \A w \in Writers : call'[w] = 2
             PROVE  Goal
  BY DEF SecondInv, At
<1>1. \A w \in Writers \ {p} : pc'[w] = pc[w] /\ i'[w] = i[w] /\ left'[w] = left[w] /\ call'[w] = call[w]
  BY DEF Alone, Procs
<1>2. failed = {} /\ \A w \in Writers : pc[w] # "killed" /\ pc'[w] # "killed"
  BY <1>1, OneWayOnly DEF NoneKilled, At
<1>3. shm \in [Slots -> NodeValues] /\ shm' \in [Slots -> NodeValues]
  BY StepShared DEF Shared, PlaceInv, TypeOK
<1>4. \A t \in Slots : \A w :
        /\ Holds(t, Second) <=> \A g \in IDs : shm[t][g] = NodeOf(w, Second)[g]
        /\ Holds(t, Second)' <=> \A g \in IDs : shm'[t][g] = NodeOf(w, Second)[g]
  BY <1>3, NodeFields, NodeParts DEF Holds, IDs
<1>5. CASE \A w \in Writers : call[w] = 2
  <2>1. \/ \E w \in Writers : Before(w)
        \/ \E w \in Writers : At2(w)
        \/ \E s \in Slots : Holds(s, Second)
    BY <1>2, <1>5 DEF SecondInv, NoneKilled, At
  <2>2. ASSUME p \in Writers, NEW f \in Fields, WriteField(p, f)  PROVE Goal
    <3>1. /\ pc[p] = "copy" /\ i' = i /\ left'[p] = left[p] \ {f} /\ i[p] \in Slots
          /\ pc'[p] = IF left[p] = {f} THEN "unmap" ELSE "copy"
      BY <2>2, FieldWritten
    <3>2. Pair(p) = Second
      BY <1>5, <2>2, PairOf DEF PlaceInv, Second
    <3>3. ASSUME NEW w \in Writers, Before(w)  PROVE Goal
      BY <1>1, <3>1, <3>3
    <3>4. ASSUME NEW s \in Slots, Holds(s, Second)  PROVE Goal
      <4>1. Holds(s, Second)'
        BY <1>4, <2>2, <3>2, <3>4, SameIDs
      <4> QED  BY <4>1
    <3>5. ASSUME NEW w \in Writers, At2(w)  PROVE Goal
      <4>1. PICK s \in Slots : s = i[w]
        BY <3>5 DEF PlaceInv, TypeOK, At, Procs
      <4>2. \A g \in IDs \ left'[w] : shm'[s][g] = NodeOf(w, Second)[g]
        <5> TAKE g \in IDs \ left'[w]
        <5>1. CASE g \notin left[w]
          BY <2>2, <3>2, <3>5, <4>1, <5>1, SameIDs
        <5>2. CASE g \in left[w]
          <6>1. w = p /\ g = f
            BY <1>1, <3>1, <5>2
          <6> QED  BY <2>2, <3>2, <4>1, <6>1, SameIDs
        <5> QED  BY <5>1, <5>2
      <4>3. CASE pc'[w] = "copy"
        BY <3>1, <4>1, <4>2, <4>3
      <4>4. CASE pc'[w] # "copy"
        <5>1. left'[w] = {}
          BY <1>1, <3>1, <3>5, <4>4
        <5>2. Holds(s, Second)'
          BY <1>4, <4>2, <5>1
        <5> QED  BY <5>2
      <4> QED  BY <4>3, <4>4
    <3> QED  BY <2>1, <3>3, <3>4, <3>5
  <2>3. CASE \A f \in Fields : p \in Writers => ~WriteField(p, f)
    <3>1. shm' = shm /\ (p \in Writers => Looks(p) \/ Copies(p) \/ Passes(p) \/ Ends(p))
      BY <2>3, StepOfWriter
    <3>2. ASSUME NEW w \in Writers, Before(w)  PROVE Goal
      <4>1. CASE w # p
        BY <1>1, <3>2, <4>1
      <4>2. CASE w = p /\ Looks(p)
        <5>1. Before(w)'
          BY <4>2 DEF Looks
        <5> QED  BY <5>1
      <4>3. CASE w = p /\ Copies(p)
        <5>1. pc'[w] = "copy" /\ left'[w] = Fields
          BY <4>3 DEF Copies
        <5> QED  BY <5>1 DEF Fields, IDs
      <4>4. CASE w = p /\ (Passes(p) \/ Ends(p))
        BY <1>2, <3>2, <4>4 DEF Passes, Ends
      <4> QED  BY <3>1, <4>1, <4>2, <4>3, <4>4
    <3>3. ASSUME NEW w \in Writers, At2(w)  PROVE Goal
      <4>1. w # p
        BY <1>2, <3>1, <3>3 DEF Looks, Copies, Passes, Ends
      <4> QED  BY <1>1, <3>1, <3>3, <4>1
    <3>4. ASSUME NEW s \in Slots, Holds(s, Second)  PROVE Goal
      BY <3>1, <3>4 DEF Holds
    <3> QED  BY <2>1, <3>2, <3>3, <3>4
  <2> QED  BY <2>2, <2>3
<1>6. CASE \E w \in Writers : call[w] # 2
  <2>1. p \in Writers /\ call[p] # 2
    BY <1>1, <1>6
  <2>2. \A f \in Fields : ~WriteField(p, f)
    BY <2>1, FieldWritten
  <2>3. Looks(p) \/ Copies(p) \/ Passes(p) \/ Ends(p)
    BY <2>1, <2>2, StepOfWriter
  <2>4. pc'[p] = "call"
    BY <2>1, <2>3 DEF Looks, Copies, Passes, Ends
  <2> QED  BY <2>1, <2>4
<1> QED  BY <1>5, <1>6

LEMMA RaceInit == Init => RaceInv
<1> SUFFICES ASSUME Init  PROVE RaceInv
  OBVIOUS
<1>1. /\ \A w \in Writers : pc[w] = "construct" /\ call[w] = 1
      /\ \A s \in Slots : shm[s] = EmptyNode
  BY DEF Init, Procs
<1>2. UnmapInv /\ FirstInv /\ KeyInv
  BY <1>1 DEF UnmapInv, FirstInv, KeyInv, At
<1>3. SafeInv /\ SecondInv
  BY <1>1 DEF SafeInv, SecondInv
<1> QED  BY <1>2, <1>3 DEF RaceInv

LEMMA RaceStep == ASSUME PlaceInv, RaceInv, [Next]_vars  PROVE RaceInv'
<1>1. CASE UNCHANGED vars
  <2>1. UNCHANGED <<shm, pc, call, i, left, failed>>
    BY <1>1 DEF vars
  <2>2. UnmapInv'
    BY <2>1 DEF RaceInv, UnmapInv, At
  <2>3. FirstInv'
    BY <2>1 DEF RaceInv, FirstInv
  <2>4. SafeInv'
    BY <2>1 DEF RaceInv, SafeInv, Safe, Holds
  <2>5. SecondInv'
    BY <2>1 DEF RaceInv, SecondInv, NoneKilled, Holds, At
  <2>6. KeyInv'
    BY <2>1 DEF RaceInv, KeyInv, NoneKilled, At
  <2> QED  BY <2>2, <2>3, <2>4, <2>5, <2>6 DEF RaceInv
<1>2. CASE Next
  <2>1. PICK p \in Procs : StepOf(p)
    BY <1>2, StepsAreOf
  <2>2. Alone(p)
    BY <2>1, StepIsAlone
  <2>3. UnmapInv' /\ FirstInv'
    BY <2>1, <2>2, UnmapStep, FirstStep DEF RaceInv
  <2>4. SafeInv' /\ SecondInv'
    BY <2>1, <2>2, SafeStep, SecondStep DEF RaceInv
  <2>5. KeyInv'
    BY <2>1, <2>2, KeyStep DEF RaceInv
  <2> QED  BY <2>3, <2>4, <2>5 DEF RaceInv
<1> QED  BY <1>1, <1>2

\* The node at which a search for the pair k ends.
LEMMA FirstToHold ==
  ASSUME NEW k, NEW s \in Slots, Holds(s, k)
  PROVE  \E t \in Slots : Holds(t, k) /\ \A u \in 0..(t - 1) : ~Holds(u, k)
<1> DEFINE Less == OpToRel(<, Nat)
           Held == {t \in Slots : Holds(t, k)}
<1>1. s \in Held /\ Held \subseteq Nat
  BY DEF Slots
<1>2. \E t \in Held : \A u \in Held : <<u, t>> \notin Less
  <2>1. IsWellFoundedOn(Less, Nat)
    BY NatLessThanWellFounded, Zenon
  <2> HIDE DEF Less, Held
  <2> QED  BY <1>1, <2>1, WFMin, Zenon
<1>3. PICK t \in Held : \A u \in Held : <<u, t>> \notin Less
  BY <1>2
<1>4. \A x, y \in Nat : x < y => <<x, y>> \in Less
  BY Zenon DEF OpToRel
<1> HIDE DEF Less
<1>5. ASSUME NEW u \in 0..(t - 1), Holds(u, k)  PROVE FALSE
  <2>1. u \in Slots /\ u \in Nat /\ t \in Nat /\ u < t
    BY <1>1, <1>5 DEF Slots
  <2>2. u \in Held
    BY <1>5, <2>1
  <2>3. <<u, t>> \in Less
    BY <1>4, <2>1, Zenon
  <2> QED  BY <1>3, <2>2, <2>3, Zenon
<1> QED  BY <1>5

\* Writers that race may each undo what another wrote; once all have ended, none of
\* them killed or refused, a search still finds every pair, with a key whose pieces are all some writer's.
THEOREM RacesConverge == ASSUME Writers # {}  PROVE Spec => []RaceConverges
<1>1. ASSUME PlaceInv, RaceInv  PROVE RaceConverges
  <2> SUFFICES ASSUME \A w \in Writers : At(w, "done"), failed = {}, NEW k \in Pairs
               PROVE  \E s \in Slots : /\ Holds(s, k) /\ KeyOf(shm[s]) \subseteq Writers
                                       /\ \A t \in 0..(s - 1) : ~Holds(t, k)
    BY DEF RaceConverges
  <2>1. \A w \in Writers : pc[w] = "done" /\ call[w] = 2
    BY <1>1 DEF RaceInv, UnmapInv, At
  <2>2. NoneKilled
    BY <2>1 DEF NoneKilled, At
  <2>3. \E s \in Slots : Holds(s, k)
    <3>1. CASE k = First
      BY <1>1, <2>1, <3>1 DEF RaceInv, SafeInv, Safe
    <3>2. CASE k = Second
      <4>1. \E s \in Slots : Holds(s, Second)
        BY <1>1, <2>1, <2>2 DEF RaceInv, SecondInv, At
      <4> QED  BY <3>2, <4>1
    <3> QED  BY <3>1, <3>2, PairFacts
  <2>4. PICK s \in Slots : Holds(s, k) /\ \A t \in 0..(s - 1) : ~Holds(t, k)
    BY <2>3, FirstToHold
  <2>5. shm[s] # EmptyNode
    <3>1. EmptyNode.clientID = ""
      BY DEF EmptyNode
    <3>2. k[1] # ""
      BY PairsDiffer
    <3> QED  BY <2>4, <3>1, <3>2 DEF Holds
  <2>6. KeyOf(shm[s]) \subseteq Writers
    <3>1. \A q \in Pieces : shm[s][q] \in Writers
      BY <1>1, <2>1, <2>2, <2>5 DEF RaceInv, KeyInv, At
    <3>2. shm[s] \in NodeValues
      BY <1>1 DEF PlaceInv, TypeOK
    <3> QED  BY <3>1, <3>2, NodeFields DEF KeyOf, Pieces
  <2> QED  BY <2>4, <2>6
<1>2. ShmInv => PlaceInv
  BY DEF ShmInv
<1>3. Init => RaceInv
  BY RaceInit
<1>4. PlaceInv /\ RaceInv /\ [Next]_vars => RaceInv'
  BY RaceStep
<1>5. PlaceInv /\ RaceInv => RaceConverges
  BY <1>1
<1> QED  BY <1>2, <1>3, <1>4, <1>5, ShmInvariant, PTL DEF Spec

=============================================================================

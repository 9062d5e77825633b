-------------------------- MODULE SocketPool_proofs --------------------------
(***************************************************************************)
(* Proofs about SocketPool, for any number of callers and connections: its *)
(* connections are accounted for, and up to an undefined step it           *)
(* implements ConnectionPool.                                              *)
(***************************************************************************)
EXTENDS SocketPool, SequenceTheorems, FiniteSetTheorems, TLAPS

-----------------------------------------------------------------------------
(* Queues: sequences whose elements are all different *)

Elements(s) == {s[i] : i \in 1 .. Len(s)}

Injective(s) == \A i, j \in 1 .. Len(s) : s[i] = s[j] => i = j

\* Appending a new element to a sequence without repetitions.
LEMMA AppendNew ==
  ASSUME NEW S, NEW s \in Seq(S), NEW e \in S,
         Injective(s), e \notin Elements(s)
  PROVE  /\ Append(s, e) \in Seq(S)
         /\ Len(Append(s, e)) = Len(s) + 1
         /\ Elements(Append(s, e)) = Elements(s) \cup {e}
         /\ Injective(Append(s, e))
<1> DEFINE t == Append(s, e)
<1>1. /\ t \in Seq(S)
      /\ Len(t) = Len(s) + 1
      /\ \A i \in 1 .. Len(s) : t[i] = s[i]
      /\ t[Len(s) + 1] = e
  OBVIOUS
<1>2. Len(s) \in Nat
  OBVIOUS
<1> HIDE DEF t
<1>3. Elements(t) \subseteq Elements(s) \cup {e}
  BY <1>1, <1>2 DEF Elements
<1>4. Elements(s) \subseteq Elements(t)
  <2> SUFFICES ASSUME NEW i \in 1 .. Len(s) PROVE s[i] \in Elements(t)
    BY DEF Elements
  <2> QED  BY <1>1, <1>2 DEF Elements
<1>5. e \in Elements(t)
  BY <1>1, <1>2 DEF Elements
<1>6. Injective(t)
  BY <1>1, <1>2 DEF Injective, Elements
<1> QED  BY <1>1, <1>3, <1>4, <1>5, <1>6 DEF t

\* Taking the first element off a sequence without repetitions.
LEMMA TailRest ==
  ASSUME NEW S, NEW s \in Seq(S), s # <<>>, Injective(s)
  PROVE  /\ Tail(s) \in Seq(S)
         /\ Len(Tail(s)) = Len(s) - 1
         /\ Head(s) \in Elements(s)
         /\ Elements(Tail(s)) = Elements(s) \ {Head(s)}
         /\ Injective(Tail(s))
<1> DEFINE t == Tail(s)
<1>1. /\ t \in Seq(S)
      /\ Len(t) = Len(s) - 1
      /\ \A i \in 1 .. Len(s) - 1 : t[i] = s[i + 1]
      /\ Head(s) = s[1]
  OBVIOUS
<1>2. Len(s) \in Nat \ {0}
  OBVIOUS
<1> HIDE DEF t
<1>3. Head(s) \in Elements(s)
  BY <1>1, <1>2 DEF Elements
<1>4. Elements(t) \subseteq Elements(s) \ {Head(s)}
  BY <1>1, <1>2 DEF Elements, Injective
<1>5. Elements(s) \ {Head(s)} \subseteq Elements(t)
  <2> SUFFICES ASSUME NEW i \in 1 .. Len(s), s[i] # Head(s)
               PROVE  s[i] \in Elements(t)
    BY DEF Elements
  <2>1. i # 1
    BY <1>1
  <2>2. i - 1 \in 1 .. Len(t) /\ t[i - 1] = s[i]
    BY <1>1, <1>2, <2>1
  <2> QED  BY <2>2 DEF Elements
<1>6. Injective(t)
  BY <1>1, <1>2 DEF Injective
<1> QED  BY <1>1, <1>3, <1>4, <1>5, <1>6 DEF t

Lent == {tcp[c] : c \in Callers} \ {NULL}

-----------------------------------------------------------------------------
(* The inductive invariant *)

\* A caller has a connection exactly between getConnect and putConnect, and the
\* mutex exactly while it creates one; nobody runs before the constructor has
\* returned.
ThreadInv ==
  /\ pc[Main] \in MainPC
  /\ \A c \in Callers :
       /\ pc[c] \in CallerPC
       /\ tcp[c] # NULL <=> pc[c] \in {"using", "valid", "invalid"}
       /\ mutex = c <=> pc[c] = "creating"
       /\ pc[Main] = "creating" => pc[c] = "idle"

\* No connection is twice in the list, with two callers, or in both places, and
\* the objects that exist are those in one of them.
OwnInv ==
  /\ \A i, j \in 1 .. Len(list) : list[i] = list[j] => i = j
  /\ \A c, d \in Callers : tcp[c] = tcp[d] /\ tcp[c] # NULL => c = d
  /\ \A c \in Callers : tcp[c] \notin Pooled
  /\ objs = Pooled \cup Lent

\* How many connections createConnect still has to create.
Missing ==
  IF pc[Main] = "creating" \/ mutex # NoOne THEN nodeNumber - Len(list) ELSE 0

CountInv ==
  /\ IsFiniteSet(objs)
  /\ Cardinality(Pooled) = Len(list)
  /\ Cardinality(objs) <= Capacity
  /\ ~Gone => /\ Missing \in Nat
              /\ Cardinality(objs) + Missing = Capacity

SockInv == TypeOK /\ ThreadInv /\ OwnInv /\ CountInv

-----------------------------------------------------------------------------
(* What the parts of the invariant say of the sizes *)

USE SizesAssumption, NamesAssumption, ObjectsAssumption

\* The cardinalities are numbers, and the list has no repetitions.
LEMMA Sizes ==
  ASSUME SockInv
  PROVE  /\ Pooled = Elements(list) /\ Injective(list)
         /\ Pooled \subseteq objs /\ Pooled \subseteq Objects
         /\ IsFiniteSet(Pooled)
         /\ Cardinality(objs) \in Nat /\ Len(list) \in Nat
         /\ list = <<>> <=> Len(list) = 0
<1>1. Pooled = Elements(list) /\ Injective(list)
  BY DEF SockInv, OwnInv, Pooled, Elements, Injective
<1>2. Pooled \subseteq objs
  BY DEF SockInv, OwnInv
<1>3. objs \subseteq Objects /\ list \in Seq(Objects)
  BY DEF SockInv, TypeOK
<1>4. IsFiniteSet(objs)
  BY DEF SockInv, CountInv
<1>5. IsFiniteSet(Pooled) /\ Cardinality(objs) \in Nat
  BY <1>2, <1>4, FS_Subset, FS_CardinalityType
<1> QED  BY <1>1, <1>2, <1>3, <1>5

\* One connection more, or fewer, with the callers.
LEMMA LentTake ==
  ASSUME NEW c \in Callers, NEW o, o # NULL, tcp \in [Callers -> Objects \cup {NULL}],
         tcp[c] = NULL, tcp' = [tcp EXCEPT ![c] = o]
  PROVE  Lent' = Lent \cup {o}
<1>1. tcp'[c] = o /\ \A d \in Callers \ {c} : tcp'[d] = tcp[d]
  OBVIOUS
<1> QED  BY <1>1 DEF Lent

LEMMA LentGive ==
  ASSUME NEW c \in Callers, tcp \in [Callers -> Objects \cup {NULL}],
         \A d, e \in Callers : tcp[d] = tcp[e] /\ tcp[d] # NULL => d = e,
         tcp[c] # NULL, tcp' = [tcp EXCEPT ![c] = NULL]
  PROVE  Lent' = Lent \ {tcp[c]}
<1>1. tcp'[c] = NULL /\ \A d \in Callers \ {c} : tcp'[d] = tcp[d]
  OBVIOUS
<1>2. \A d \in Callers \ {c} : tcp[d] # tcp[c]
  OBVIOUS
<1> QED  BY <1>1, <1>2 DEF Lent

-----------------------------------------------------------------------------
(* The invariant holds at first *)

LEMMA SockInit == Init => SockInv
<1> SUFFICES ASSUME Init PROVE SockInv
  OBVIOUS
<1> USE DEF Init
<1>1. Pooled = {} /\ Lent = {} /\ list = <<>> /\ Len(list) = 0
  BY DEF Pooled, Lent
<1>2. IsFiniteSet({}) /\ Cardinality({}) = 0
  BY FS_EmptySet
<1>3. TypeOK
  BY <1>1, <1>2 DEF TypeOK, Open, CallerPC, MainPC, Faults, Threads
<1>4. ThreadInv
  BY DEF ThreadInv, MainPC, CallerPC, Threads
<1>5. OwnInv
  BY <1>1 DEF OwnInv
<1>6. CountInv
  <2>1. Missing = Capacity
    BY <1>1 DEF Missing, Threads
  <2> QED  BY <1>1, <1>2, <2>1 DEF CountInv
<1> QED  BY <1>3, <1>4, <1>5, <1>6 DEF SockInv

-----------------------------------------------------------------------------
(* Steps of createConnect *)

\* A thread in createConnect still has nodeNumber - Len(list) to create.
LEMMA Creating ==
  ASSUME SockInv, NEW t \in Threads, pc[t] = "creating", ~Gone
  PROVE  /\ Missing = nodeNumber - Len(list) /\ Missing \in Nat
         /\ Cardinality(objs) + Missing = Capacity
         /\ ListIsFull <=> Missing = 0
<1>1. t = Main \/ (mutex = t /\ t # NoOne)
  BY DEF SockInv, ThreadInv, Threads
<1>2. Missing = nodeNumber - Len(list)
  BY <1>1 DEF Missing
<1>3. nodeNumber \in Nat /\ Len(list) \in Nat
  BY Sizes DEF SockInv, TypeOK
<1>4. Missing \in Nat /\ Cardinality(objs) + Missing = Capacity
  BY DEF SockInv, CountInv
<1> QED  BY <1>2, <1>3, <1>4 DEF ListIsFull

LEMMA SuccessKeeps ==
  ASSUME SockInv, NEW t \in Threads, CreateSucceeds(t), ~Gone
  PROVE  SockInv'
<1> USE DEF CreateSucceeds
<1>1. PICK o \in Objects \ objs : objs' = objs \cup {o} /\ list' = Append(list, o)
  OBVIOUS
<1>2. /\ list' \in Seq(Objects) /\ Len(list') = Len(list) + 1
      /\ Elements(list') = Pooled \cup {o} /\ Injective(list')
  BY <1>1, Sizes, AppendNew DEF SockInv, TypeOK
<1>3. Pooled' = Pooled \cup {o}
  BY <1>2 DEF Pooled, Elements
<1>4. /\ IsFiniteSet(objs') /\ Cardinality(objs') = Cardinality(objs) + 1
      /\ Cardinality(Pooled') = Cardinality(Pooled) + 1
  BY <1>1, <1>3, Sizes, FS_AddElement DEF SockInv, CountInv
<1>5. /\ Missing = nodeNumber - Len(list) /\ Missing \in Nat \ {0}
      /\ Cardinality(objs) + Missing = Capacity
  BY Creating
<1>6. TypeOK'
  <2>1. Open' <= FdLimit
    BY <1>4, Sizes DEF Open, SockInv, TypeOK
  <2>2. Len(list') <= Capacity
    BY <1>2, <1>5, Sizes DEF SockInv, TypeOK
  <2> QED  BY <1>1, <1>2, <2>1, <2>2 DEF SockInv, TypeOK
<1>7. ThreadInv'
  BY DEF SockInv, ThreadInv
<1>8. OwnInv'
  <2>1. Lent' = Lent
    BY DEF Lent
  <2>2. \A c \in Callers : tcp[c] # o
    BY <1>1 DEF SockInv, OwnInv, Lent
  <2>3. \A i, j \in 1 .. Len(list') : list'[i] = list'[j] => i = j
    BY <1>2 DEF Injective
  <2> QED  BY <1>1, <1>3, <2>1, <2>2, <2>3 DEF SockInv, OwnInv
<1>9. CountInv'
  <2>1. Missing' = Missing - 1
    BY <1>2, <1>5, Creating, Sizes DEF Missing, SockInv, ThreadInv, TypeOK, Threads
  <2> QED  BY <1>2, <1>4, <1>5, <2>1, Sizes DEF SockInv, CountInv, Gone
<1> QED  BY <1>6, <1>7, <1>8, <1>9 DEF SockInv

LEMMA RefusalKeeps ==
  ASSUME SockInv, NEW t \in Threads, CreateRefused(t)
  PROVE  SockInv'
<1> USE DEF CreateRefused
<1>1. TypeOK'
  <2>1. Open' <= FdLimit
    BY Sizes DEF Open, SockInv, TypeOK
  <2> QED  BY <2>1 DEF SockInv, TypeOK
<1>2. ThreadInv'
  BY DEF SockInv, ThreadInv
<1>3. OwnInv'
  BY DEF SockInv, OwnInv, Pooled, Lent
<1>4. CountInv'
  BY DEF SockInv, CountInv, Pooled, Missing, Gone
<1> QED  BY <1>1, <1>2, <1>3, <1>4 DEF SockInv

LEMMA ReturnKeeps ==
  ASSUME SockInv, NEW t \in Threads, CreateReturns(t), ~Gone
  PROVE  SockInv'
<1> USE DEF CreateReturns
<1>1. Missing = 0 /\ Cardinality(objs) = Capacity
  BY Creating, Sizes
<1>2. TypeOK'
  BY DEF SockInv, TypeOK, CallerPC, MainPC, Open
<1>3. ThreadInv'
  BY DEF SockInv, ThreadInv, CallerPC, MainPC, Threads, TypeOK
<1>4. OwnInv'
  BY DEF SockInv, OwnInv, Pooled, Lent
<1>5. CountInv'
  <2>1. Missing' = 0
    <3>1. pc'[Main] # "creating"
      BY DEF SockInv, ThreadInv, Threads, TypeOK
    <3> QED  BY <3>1 DEF Missing
  <2> QED  BY <1>1, <2>1 DEF SockInv, CountInv, Pooled
<1> QED  BY <1>2, <1>3, <1>4, <1>5 DEF SockInv

-----------------------------------------------------------------------------
(* Steps of working *)

\* Steps that only move a caller on, between two places with the same claim to
\* a connection, or only record a fault.
LEMMA MoveKeeps ==
  ASSUME SockInv, NEW c \in Callers,
         pc[Main] # "creating",
         UNCHANGED <<mutex, list, nodeNumber, objs, leaked, tcp>>,
         \/ /\ pc[c] = "idle" /\ pc' = [pc EXCEPT ![c] = "wants"]
            /\ calls' \in 0 .. Calls /\ UNCHANGED fault
         \/ /\ pc[c] = "wants" /\ pc' = [pc EXCEPT ![c] = "popping"]
            /\ UNCHANGED <<calls, fault>>
         \/ /\ pc[c] = "using"
            /\ \E o \in {"valid", "invalid"} : pc' = [pc EXCEPT ![c] = o]
            /\ UNCHANGED <<calls, fault>>
         \/ fault' \in Faults /\ UNCHANGED <<pc, calls>>
  PROVE  SockInv'
<1>1. TypeOK'
  BY DEF SockInv, TypeOK, CallerPC, MainPC, Open
<1>2. ThreadInv'
  BY DEF SockInv, ThreadInv, CallerPC, MainPC, Threads, TypeOK
<1>3. OwnInv'
  BY DEF SockInv, OwnInv, Pooled, Lent
<1>4. CountInv'
  <2>1. pc'[Main] = pc[Main]
    BY DEF SockInv, TypeOK, Threads
  <2> QED  BY <2>1 DEF SockInv, CountInv, Pooled, Missing, Gone
<1> QED  BY <1>1, <1>2, <1>3, <1>4 DEF SockInv

LEMMA PopKeeps ==
  ASSUME SockInv, NEW c \in Callers, GetPop(c), list # <<>>
  PROVE  SockInv'
<1> DEFINE o == Head(list)
<1>1. /\ tcp' = [tcp EXCEPT ![c] = o] /\ list' = Tail(list)
      /\ pc[c] = "popping" /\ pc' = [pc EXCEPT ![c] = "using"]
      /\ mutex = NoOne /\ ~Gone
      /\ UNCHANGED <<mutex, nodeNumber, objs, leaked, calls, fault>>
  BY DEF GetPop
<1>2. /\ list' \in Seq(Objects) /\ Len(list') = Len(list) - 1
      /\ o \in Pooled
      /\ Elements(list') = Pooled \ {o} /\ Injective(list')
  BY <1>1, Sizes, TailRest DEF SockInv, TypeOK
<1> HIDE DEF o
<1>3. Pooled' = Pooled \ {o}
  BY <1>2 DEF Pooled, Elements
<1>4. o \in Objects /\ o # NULL
  BY <1>2, Sizes
<1>5. pc[Main] # "creating" /\ tcp[c] = NULL
  BY <1>1 DEF SockInv, ThreadInv
<1>6. Lent' = Lent \cup {o}
  BY <1>1, <1>4, <1>5, LentTake DEF SockInv, TypeOK
<1>7. TypeOK'
  <2>1. Len(list') <= Capacity
    BY <1>2, Sizes DEF SockInv, TypeOK
  <2>2. Open' <= FdLimit
    BY <1>1 DEF SockInv, TypeOK, Open
  <2>3. tcp' \in [Callers -> Objects \cup {NULL}]
    BY <1>1, <1>4 DEF SockInv, TypeOK
  <2> QED  BY <1>1, <1>2, <2>1, <2>2, <2>3 DEF SockInv, TypeOK, CallerPC
<1>8. ThreadInv'
  BY <1>1, <1>4, <1>5 DEF SockInv, ThreadInv, CallerPC, MainPC, Threads, TypeOK
<1>9. OwnInv'
  <2>1. \A i, j \in 1 .. Len(list') : list'[i] = list'[j] => i = j
    BY <1>2 DEF Injective
  <2>2. tcp'[c] = o /\ \A d \in Callers \ {c} : tcp'[d] = tcp[d]
    BY <1>1 DEF SockInv, TypeOK
  <2>3. \A d \in Callers : tcp[d] # o
    BY <1>2 DEF SockInv, OwnInv
  <2>4. objs' = Pooled' \cup Lent'
    BY <1>1, <1>2, <1>3, <1>6 DEF SockInv, OwnInv
  <2>5. \A d \in Callers : tcp'[d] \notin Pooled'
    BY <1>3, <2>2 DEF SockInv, OwnInv
  <2>6. \A d, e \in Callers : tcp'[d] = tcp'[e] /\ tcp'[d] # NULL => d = e
    BY <2>2, <2>3 DEF SockInv, OwnInv
  <2> QED  BY <2>1, <2>4, <2>5, <2>6 DEF OwnInv
<1>10. CountInv'
  <2>1. Cardinality(Pooled') = Len(list')
    BY <1>2, <1>3, Sizes, FS_RemoveElement DEF SockInv, CountInv
  <2>2. Missing = 0 /\ Missing' = 0
    BY <1>1, <1>5 DEF Missing, SockInv, TypeOK, Threads
  <2> QED  BY <1>1, <2>1, <2>2 DEF SockInv, CountInv, Gone
<1> QED  BY <1>7, <1>8, <1>9, <1>10 DEF SockInv

\* What a caller with a connection means for the sizes.
LEMMA Holding ==
  ASSUME SockInv, NEW c \in Callers, pc[c] \in {"valid", "invalid"}
  PROVE  /\ tcp[c] # NULL /\ tcp[c] \in objs \ Pooled /\ tcp[c] \in Objects
         /\ pc[Main] # "creating"
         /\ Len(list) + 1 <= Cardinality(objs) /\ Len(list) + 1 <= Capacity
<1>1. tcp[c] # NULL /\ pc[Main] # "creating"
  BY DEF SockInv, ThreadInv
<1>2. tcp[c] \in objs \ Pooled
  BY <1>1 DEF SockInv, OwnInv, Lent
<1>3. Pooled \cup {tcp[c]} \in SUBSET objs
  BY <1>2, Sizes
<1>4. Cardinality(Pooled \cup {tcp[c]}) = Len(list) + 1
  BY <1>2, Sizes, FS_AddElement DEF SockInv, CountInv
<1>5. Cardinality(Pooled \cup {tcp[c]}) <= Cardinality(objs)
  BY <1>3, FS_Subset DEF SockInv, CountInv
<1> QED  BY <1>1, <1>2, <1>4, <1>5, Sizes DEF SockInv, TypeOK, CountInv

LEMMA PutValidKeeps ==
  ASSUME SockInv, NEW c \in Callers, PutValid(c)
  PROVE  SockInv'
<1> DEFINE o == tcp[c]
<1>1. /\ pc[c] = "valid" /\ ~Gone /\ mutex = NoOne
      /\ list' = Append(list, o) /\ tcp' = [tcp EXCEPT ![c] = NULL]
      /\ pc' = [pc EXCEPT ![c] = "idle"]
      /\ UNCHANGED <<mutex, nodeNumber, objs, leaked, calls, fault>>
  BY DEF PutValid
<1>2. /\ o # NULL /\ o \in objs \ Pooled /\ o \in Objects
      /\ pc[Main] # "creating" /\ Len(list) + 1 <= Capacity
  BY <1>1, Holding
<1>3. Lent' = Lent \ {o}
  BY <1>1, <1>2, LentGive DEF SockInv, TypeOK, OwnInv
<1> HIDE DEF o
<1>4. /\ list' \in Seq(Objects) /\ Len(list') = Len(list) + 1
      /\ Elements(list') = Pooled \cup {o} /\ Injective(list')
  BY <1>1, <1>2, Sizes, AppendNew DEF SockInv, TypeOK
<1>5. Pooled' = Pooled \cup {o}
  BY <1>4 DEF Pooled, Elements
<1>6. TypeOK'
  <2>1. Open' <= FdLimit
    BY <1>1 DEF SockInv, TypeOK, Open
  <2>2. tcp' \in [Callers -> Objects \cup {NULL}]
    BY <1>1 DEF SockInv, TypeOK
  <2> QED  BY <1>1, <1>2, <1>4, <2>1, <2>2 DEF SockInv, TypeOK, CallerPC
<1>7. ThreadInv'
  BY <1>1, <1>2 DEF SockInv, ThreadInv, CallerPC, MainPC, Threads, TypeOK
<1>8. OwnInv'
  <2>1. \A i, j \in 1 .. Len(list') : list'[i] = list'[j] => i = j
    BY <1>4 DEF Injective
  <2>2. tcp'[c] = NULL /\ \A d \in Callers \ {c} : tcp'[d] = tcp[d]
    BY <1>1 DEF SockInv, TypeOK
  <2>3. \A d \in Callers \ {c} : tcp[d] # o
    BY <1>2 DEF SockInv, OwnInv, o
  <2>4. objs' = Pooled' \cup Lent'
    BY <1>1, <1>2, <1>3, <1>5 DEF SockInv, OwnInv
  <2>5. \A d \in Callers : tcp'[d] \notin Pooled'
    BY <1>2, <1>5, <2>2, <2>3, Sizes DEF SockInv, OwnInv
  <2>6. \A d, e \in Callers : tcp'[d] = tcp'[e] /\ tcp'[d] # NULL => d = e
    BY <2>2 DEF SockInv, OwnInv
  <2> QED  BY <2>1, <2>4, <2>5, <2>6 DEF OwnInv
<1>9. CountInv'
  <2>1. Cardinality(Pooled') = Len(list')
    BY <1>2, <1>4, <1>5, Sizes, FS_AddElement DEF SockInv, CountInv
  <2>2. Missing = 0 /\ Missing' = 0
    BY <1>1, <1>2 DEF Missing, SockInv, TypeOK, Threads
  <2> QED  BY <1>1, <2>1, <2>2 DEF SockInv, CountInv, Gone
<1> QED  BY <1>6, <1>7, <1>8, <1>9 DEF SockInv

LEMMA PutInvalidKeeps ==
  ASSUME SockInv, NEW c \in Callers, PutInvalid(c)
  PROVE  SockInv'
<1> DEFINE o == tcp[c]
<1>1. /\ pc[c] = "invalid" /\ ~Gone /\ mutex = NoOne /\ mutex' = c
      /\ objs' = objs \ {o} /\ tcp' = [tcp EXCEPT ![c] = NULL]
      /\ nodeNumber' = Len(list) + 1
      /\ pc' = [pc EXCEPT ![c] = "creating"]
      /\ UNCHANGED <<list, leaked, calls, fault>>
  BY DEF PutInvalid, Wanted
<1>2. /\ o # NULL /\ o \in objs \ Pooled /\ o \in Objects
      /\ pc[Main] # "creating" /\ Len(list) + 1 <= Capacity
  BY <1>1, Holding
<1>3. Lent' = Lent \ {o}
  BY <1>1, <1>2, LentGive DEF SockInv, TypeOK, OwnInv
<1>4. /\ IsFiniteSet(objs') /\ Cardinality(objs') = Cardinality(objs) - 1
  BY <1>1, <1>2, FS_RemoveElement DEF SockInv, CountInv
<1>5. Pooled' = Pooled
  BY <1>1 DEF Pooled
<1>6. TypeOK'
  <2>1. Open' <= FdLimit
    BY <1>1, <1>4, Sizes DEF SockInv, TypeOK, Open
  <2>2. tcp' \in [Callers -> Objects \cup {NULL}]
    BY <1>1 DEF SockInv, TypeOK
  <2>3. nodeNumber' \in 1 .. Capacity
    BY <1>1, <1>2, Sizes
  <2> QED  BY <1>1, <2>1, <2>2, <2>3 DEF SockInv, TypeOK, CallerPC
<1>7. ThreadInv'
  BY <1>1, <1>2 DEF SockInv, ThreadInv, CallerPC, MainPC, Threads, TypeOK
<1>8. OwnInv'
  <2>1. tcp'[c] = NULL /\ \A d \in Callers \ {c} : tcp'[d] = tcp[d]
    BY <1>1 DEF SockInv, TypeOK
  <2>2. objs' = Pooled' \cup Lent'
    BY <1>1, <1>2, <1>3, <1>5 DEF SockInv, OwnInv
  <2>3. \A d \in Callers : tcp'[d] \notin Pooled'
    BY <1>5, <2>1, Sizes DEF SockInv, OwnInv
  <2>4. \A d, e \in Callers : tcp'[d] = tcp'[e] /\ tcp'[d] # NULL => d = e
    BY <2>1 DEF SockInv, OwnInv
  <2> QED  BY <1>1, <2>2, <2>3, <2>4 DEF SockInv, OwnInv
<1>9. CountInv'
  <2>1. Missing = 0 /\ Missing' = 1
    BY <1>1, <1>2, Sizes DEF Missing, SockInv, TypeOK, Threads
  <2> QED  BY <1>1, <1>4, <1>5, <2>1, Sizes DEF SockInv, CountInv, Gone
<1> QED  BY <1>6, <1>7, <1>8, <1>9 DEF SockInv

-----------------------------------------------------------------------------
(* Steps of the destructor *)

\* The destructor starts, or the process ends.
LEMMA MainMoveKeeps ==
  ASSUME SockInv, DestroyStarts \/ Exit
  PROVE  SockInv'
<1>1. /\ pc[Main] # "creating" /\ pc'[Main] \in {"destroying", "exited"}
      /\ \A c \in Callers : pc'[c] = pc[c]
      /\ UNCHANGED <<mutex, list, nodeNumber, objs, leaked, tcp, calls, fault>>
  BY DEF DestroyStarts, Exit, SockInv, TypeOK, Threads
<1>2. pc' \in [Threads -> CallerPC \cup MainPC]
  BY DEF DestroyStarts, Exit, SockInv, TypeOK, MainPC
<1>3. TypeOK'
  BY <1>1, <1>2 DEF SockInv, TypeOK, Open
<1>4. ThreadInv'
  BY <1>1 DEF SockInv, ThreadInv, MainPC
<1>5. OwnInv'
  BY <1>1 DEF SockInv, OwnInv, Pooled, Lent
<1>6. CountInv'
  BY <1>1 DEF SockInv, CountInv, Pooled, Gone
<1> QED  BY <1>3, <1>4, <1>5, <1>6 DEF SockInv

LEMMA DestroyKeeps ==
  ASSUME SockInv, DestroyOne
  PROVE  SockInv'
<1> DEFINE o == Head(list)
<1>1. /\ pc[Main] = "destroying" /\ list # <<>>
      /\ objs' = objs \ {o} /\ list' = Tail(list)
      /\ UNCHANGED <<mutex, nodeNumber, leaked, pc, tcp, calls, fault>>
  BY DEF DestroyOne
<1>2. /\ list' \in Seq(Objects) /\ Len(list') = Len(list) - 1
      /\ o \in Pooled
      /\ Elements(list') = Pooled \ {o} /\ Injective(list')
  BY <1>1, Sizes, TailRest DEF SockInv, TypeOK
<1> HIDE DEF o
<1>3. Pooled' = Pooled \ {o}
  BY <1>2 DEF Pooled, Elements
<1>4. /\ IsFiniteSet(objs') /\ Cardinality(objs') = Cardinality(objs) - 1
      /\ Cardinality(Pooled') = Cardinality(Pooled) - 1
  BY <1>1, <1>2, <1>3, Sizes, FS_RemoveElement DEF SockInv, CountInv
<1>5. TypeOK'
  <2>1. Len(list') <= Capacity
    BY <1>2, Sizes DEF SockInv, TypeOK
  <2>2. Open' <= FdLimit
    BY <1>1, <1>4, Sizes DEF SockInv, TypeOK, Open
  <2> QED  BY <1>1, <1>2, <2>1, <2>2 DEF SockInv, TypeOK
<1>6. ThreadInv'
  BY <1>1 DEF SockInv, ThreadInv
<1>7. OwnInv'
  <2>1. \A i, j \in 1 .. Len(list') : list'[i] = list'[j] => i = j
    BY <1>2 DEF Injective
  <2>2. Lent' = Lent /\ o \notin Lent
    BY <1>1, <1>2 DEF SockInv, OwnInv, Lent
  <2> QED  BY <1>1, <1>3, <2>1, <2>2 DEF SockInv, OwnInv
<1>8. CountInv'
  BY <1>1, <1>2, <1>4, Sizes DEF SockInv, CountInv, Gone
<1> QED  BY <1>5, <1>6, <1>7, <1>8 DEF SockInv

-----------------------------------------------------------------------------
(* The theorems *)

\* Every step keeps the invariant.
LEMMA SockNext == SockInv /\ [Next]_vars => SockInv'
<1> SUFFICES ASSUME SockInv, [Next]_vars PROVE SockInv'
  OBVIOUS
<1>1. CASE Create(Main)
  <2>1. ~Gone
    BY <1>1 DEF Create, CreateSucceeds, CreateRefused, CreateReturns, Gone
  <2> QED
    BY <1>1, <2>1, SuccessKeeps, RefusalKeeps, ReturnKeeps DEF Create, Threads
<1>2. ASSUME NEW c \in Callers, ~Gone, Create(c) PROVE SockInv'
  BY <1>2, SuccessKeeps, RefusalKeeps, ReturnKeeps DEF Create, Threads
<1>3. ASSUME NEW c \in Callers, WorkingStarts(c) PROVE SockInv'
  <2>1. calls' \in 0 .. Calls
    BY <1>3 DEF WorkingStarts, SockInv, TypeOK
  <2> QED  BY <1>3, <2>1, MoveKeeps DEF WorkingStarts
<1>4. ASSUME NEW c \in Callers, Working(c) PROVE SockInv'
  <2>1. CASE GetLook(c)
    BY <1>4, <2>1, MoveKeeps DEF GetLook, SockInv, ThreadInv
  <2>2. CASE GetPop(c) /\ list # <<>>
    BY <1>4, <2>2, PopKeeps
  <2>3. CASE GetPop(c) /\ list = <<>>
    BY <1>4, <2>3, MoveKeeps DEF GetPop, SockInv, ThreadInv, Faults
  <2>4. CASE Converse(c)
    BY <1>4, <2>4, MoveKeeps DEF Converse, SockInv, ThreadInv
  <2>5. CASE PutValid(c)
    BY <1>4, <2>5, PutValidKeeps
  <2>6. CASE PutInvalid(c)
    BY <1>4, <2>6, PutInvalidKeeps
  <2>7. CASE UseAfterDestroy(c)
    BY <1>4, <2>7, MoveKeeps DEF UseAfterDestroy, Faults
  <2> QED  BY <1>4, <2>1, <2>2, <2>3, <2>4, <2>5, <2>6, <2>7 DEF Working
<1>5. CASE DestroyStarts \/ Exit
  BY <1>5, MainMoveKeeps
<1>6. CASE DestroyOne
  BY <1>6, DestroyKeeps
<1>7. CASE UNCHANGED vars
  <2> USE <1>7 DEF vars
  <2>1. TypeOK'
    BY DEF SockInv, TypeOK, Open
  <2>2. ThreadInv'
    BY DEF SockInv, ThreadInv
  <2>3. OwnInv'
    BY DEF SockInv, OwnInv, Pooled, Lent
  <2>4. CountInv'
    BY DEF SockInv, CountInv, Pooled, Missing, Gone
  <2> QED  BY <2>1, <2>2, <2>3, <2>4 DEF SockInv
<1> QED  BY <1>1, <1>2, <1>3, <1>4, <1>5, <1>6, <1>7 DEF Next

\* The conjunction of the parts above holds in every state of the pool.
THEOREM SockInvariant == Spec => []SockInv
<1>1. Init => SockInv
  BY SockInit
<1>2. SockInv /\ [Next]_vars => SockInv'
  BY SockNext
<1> QED  BY <1>1, <1>2, PTL DEF Spec

\* TypeOK: every variable keeps to its range; the list is never longer than the
\* capacity and the descriptors never more than the limit.
THEOREM SockTypeCorrect == Spec => []TypeOK
<1>1. SockInv => TypeOK
  BY DEF SockInv
<1> QED  BY <1>1, SockInvariant, PTL

\* NoneLost: whatever the number of callers, a connection closed as broken is
\* replaced before the mutex is released, and every TcpSocket object there is
\* belongs to the list or to a caller.
THEOREM NoConnectionLost == Spec => []NoneLost
<1>1. SockInv => NoneLost
  <2> SUFFICES ASSUME SockInv PROVE NoneLost
    OBVIOUS
  <2>1. pc[Main] = "sleeping" /\ mutex = NoOne => Cardinality(objs) = Capacity
    BY Sizes DEF SockInv, CountInv, Missing, Gone
  <2>2. objs = Pooled \cup ({tcp[c] : c \in Callers} \ {NULL})
    BY DEF SockInv, OwnInv, Lent
  <2> QED  BY <2>1, <2>2 DEF NoneLost
<1> QED  BY <1>1, SockInvariant, PTL

-----------------------------------------------------------------------------
(* The refinement *)

LEMMA AbstractInit == Init => Abstract!Init
<1> SUFFICES ASSUME Init PROVE Abstract!Init
  OBVIOUS
<1>1. Pooled = {}
  BY DEF Init, Pooled
<1> QED  BY <1>1 DEF Init, Abstract!Init

\* The instance has its own name for the operator of FiniteSets.
LEMMA SameCardinality ==
  ASSUME NEW S PROVE Abstract!Cardinality(S) = Cardinality(S)
BY DEF Abstract!Cardinality, Cardinality

LEMMA AbstractCreate ==
  ASSUME SockInv, NEW t \in Threads, CreateSucceeds(t), ~Gone
  PROVE  Abstract!Create
<1> USE DEF CreateSucceeds
<1>1. PICK o \in Objects \ objs : objs' = objs \cup {o} /\ list' = Append(list, o)
  OBVIOUS
<1>2. Elements(list') = Pooled \cup {o}
  BY <1>1, Sizes, AppendNew DEF SockInv, TypeOK
<1>3. Pooled' = Pooled \cup {o}
  BY <1>2 DEF Pooled, Elements
<1>4. Cardinality(objs) < Capacity
  BY Creating, Sizes
<1>5. objs = Pooled \cup Abstract!Lent
  BY DEF SockInv, OwnInv, Lent, Abstract!Lent
<1>6. Abstract!Cardinality(Pooled \cup Abstract!Lent) < Capacity
  BY <1>4, <1>5, SameCardinality
<1>7. o \in Objects \ (Pooled \cup Abstract!Lent)
  BY <1>1, <1>5
<1>8. UNCHANGED tcp
  OBVIOUS
<1> HIDE DEF CreateSucceeds
<1> QED  BY <1>3, <1>6, <1>7, <1>8 DEF Abstract!Create

LEMMA AbstractStep ==
  ASSUME SockInv, [Next]_vars
  PROVE  [Abstract!Next]_(Abstract!vars)
<1>1. CASE UNCHANGED <<list, tcp>>
  BY <1>1 DEF Abstract!vars, Pooled
<1>2. ASSUME NEW t \in Threads, CreateSucceeds(t), ~Gone PROVE Abstract!Next
  BY <1>2, AbstractCreate DEF Abstract!Next
<1>3. ASSUME NEW c \in Callers, GetPop(c), list # <<>> PROVE Abstract!Next
  <2>1. /\ Head(list) \in Pooled
        /\ Elements(Tail(list)) = Pooled \ {Head(list)}
    BY <1>3, Sizes, TailRest DEF SockInv, TypeOK
  <2>2. list' = Tail(list) /\ tcp' = [tcp EXCEPT ![c] = Head(list)]
    BY <1>3 DEF GetPop
  <2>3. tcp[c] = NULL
    BY <1>3 DEF GetPop, SockInv, ThreadInv
  <2>4. Pooled' = Pooled \ {Head(list)}
    BY <2>1, <2>2 DEF Pooled, Elements
  <2> QED  BY <2>1, <2>2, <2>3, <2>4 DEF Abstract!Next, Abstract!Lend
<1>4. ASSUME NEW c \in Callers, PutValid(c) PROVE Abstract!Next
  <2>1. tcp[c] # NULL /\ tcp[c] \in Objects /\ tcp[c] \notin Pooled
    BY <1>4, Holding DEF PutValid
  <2>2. Elements(list') = Pooled \cup {tcp[c]}
    BY <1>4, <2>1, Sizes, AppendNew DEF PutValid, SockInv, TypeOK
  <2>3. Pooled' = Pooled \cup {tcp[c]}
    BY <2>2 DEF Pooled, Elements
  <2> QED  BY <1>4, <2>1, <2>3 DEF PutValid, Abstract!Next, Abstract!GiveBack
<1>5. ASSUME NEW c \in Callers, PutInvalid(c) PROVE Abstract!Next
  <2>1. tcp[c] # NULL
    BY <1>5, Holding DEF PutInvalid
  <2> QED
    BY <1>5, <2>1 DEF PutInvalid, Pooled, Abstract!Next, Abstract!Discard
<1>6. CASE DestroyOne
  <2>1. /\ Head(list) \in Pooled
        /\ Elements(Tail(list)) = Pooled \ {Head(list)}
    BY <1>6, Sizes, TailRest DEF DestroyOne, SockInv, TypeOK
  <2>2. Pooled' = Pooled \ {Head(list)} /\ UNCHANGED tcp
    BY <1>6, <2>1 DEF DestroyOne, Pooled, Elements
  <2> QED  BY <2>1, <2>2 DEF Abstract!Next, Abstract!Close
<1> QED
  BY <1>1, <1>2, <1>3, <1>4, <1>5, <1>6 DEF Next, vars, Threads, Create,
     CreateSucceeds, CreateRefused, CreateReturns, Gone, WorkingStarts, Working,
     GetLook, GetPop, Converse, UseAfterDestroy, DestroyStarts, Exit

\* ImplementsConnectionPool: for any sizes and any number of callers, every
\* connection is in the list or with a single caller, and there are never more
\* than the capacity.
THEOREM SockPoolRefines == Spec => ImplementsConnectionPool
<1>1. Init => Abstract!Init
  BY AbstractInit
<1>2. SockInv /\ [Next]_vars => [Abstract!Next]_(Abstract!vars)
  BY AbstractStep
<1> QED
  BY <1>1, <1>2, SockInvariant, PTL
  DEF Spec, ImplementsConnectionPool, Abstract!Spec

=============================================================================

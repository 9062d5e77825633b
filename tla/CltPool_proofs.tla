--------------------------- MODULE CltPool_proofs ---------------------------
(***************************************************************************)
(* Proofs about CltPool: descriptors of a live pool are accounted for, it  *)
(* implements ConnectionPool, and no thread reads an answer to another     *)
(* one's request on a connection that was in order when it was put back.   *)
(***************************************************************************)
EXTENDS CltPool, FiniteSetTheorems, WellFoundedInduction, TLAPS

Lent == {connfd[c] : c \in Callers} \ {NoFd}

Held == {"send", "sending", "recv", "put"}

-----------------------------------------------------------------------------
(* The inductive invariant *)

\* A thread has a connection exactly between getting and putting one, and the
\* mutex exactly while it reconnects.  Without a live pool nobody is under way.
PhaseInv ==
  /\ \A c \in Callers :
       /\ connfd[c] # NoFd <=> pc[c] \in Held
       /\ mutex = c <=> pc[c] = "reconnect"
       /\ pc[c] \in {"send", "sending", "recv"} => round[c] \in 1 .. Rounds
       /\ handle # "live" => pc[c] \in {"start", "ended"}
       /\ mpc = "init" => pc[c] = "start"
  /\ mpc = "init" => handle = "none"
  /\ handle = "live" => mpc = "running"
  /\ mpc = "init" \/ handle = "live" \/ valid = 0

\* No descriptor is twice in the pool, with two threads, or in both places, and
\* all of these are open: so the kernel does not give them out again.
OwnInv ==
  /\ \A i, j \in 0 .. valid - 1 : fdArray[i] = fdArray[j] => i = j
  /\ Pooled \subseteq open
  /\ \A c \in Callers : connfd[c] # NoFd => connfd[c] \in open \ Pooled
  /\ \A c, d \in Callers : connfd[c] = connfd[d] /\ connfd[c] # NoFd => c = d

\* The connection that is closed and not replaced yet.
Missing == IF mutex = NoOne THEN 0 ELSE 1

CountInv ==
  /\ Cardinality(Pooled) = valid
  /\ handle = "live" => Cardinality(open) + Missing = Bounds
  /\ mpc = "init" => open = Pooled

CltInv == TypeOK /\ PhaseInv /\ OwnInv /\ CountInv

-----------------------------------------------------------------------------
(* What the parts of the invariant say of the sizes *)

USE SizesAssumption, NamesAssumption, ValuesAssumption

LEMMA Sizes ==
  ASSUME CltInv
  PROVE  /\ open \subseteq Fds /\ IsFiniteSet(open) /\ Cardinality(open) \in Nat
         /\ IsFiniteSet(Pooled) /\ Pooled \subseteq Fds /\ valid \in Nat
         /\ Bounds <= MaxFd /\ Cardinality(Fds) = MaxFd
         /\ 0 \notin Fds
<1>1. open \subseteq Fds /\ Pooled \subseteq open /\ valid \in Nat
  BY DEF CltInv, TypeOK, OwnInv
<1>2. IsFiniteSet(Fds) /\ Cardinality(Fds) = MaxFd
  <2>1. IsFiniteSet(1 .. MaxFd) /\ Cardinality(1 .. MaxFd) = IF 1 > MaxFd THEN 0 ELSE MaxFd - 1 + 1
    BY FS_Interval
  <2> QED  BY <2>1 DEF Fds
<1>3. IsFiniteSet(open) /\ IsFiniteSet(Pooled)
  BY <1>1, <1>2, FS_Subset
<1>4. Cardinality(open) \in Nat /\ Cardinality(Callers) \in Nat
  BY <1>3, FS_CardinalityType
<1> QED  BY <1>1, <1>2, <1>3, <1>4 DEF Fds

\* The lowest free descriptor exists, as long as not all are open.
LEMMA NewFdIsFree ==
  ASSUME CltInv, Cardinality(open) < Bounds
  PROVE  NewFd \in Fds \ open
<1> DEFINE Free == Fds \ open
           Less == OpToRel(<, Nat)
<1>1. Free # {} /\ Free \subseteq Nat
  <2>1. Cardinality(open) < MaxFd /\ Cardinality(Fds) = MaxFd
    BY Sizes
  <2>2. Fds # open /\ open \subseteq Fds
    BY <2>1, Sizes
  <2>3. Free # {}
    BY <2>2
  <2>4. Free \subseteq Nat
    BY DEF Fds
  <2> QED  BY <2>3, <2>4
<1> HIDE DEF Free
<1>2. \E f \in Free : \A g \in Free : <<g, f>> \notin Less
  <2>1. IsWellFoundedOn(Less, Nat)
    BY NatLessThanWellFounded, Zenon
  <2> HIDE DEF Less
  <2> QED  BY <1>1, <2>1, WFMin, Zenon
<1>3. \E f \in Free : \A g \in Free : f <= g
  <2>1. PICK f \in Free : \A g \in Free : <<g, f>> \notin Less
    BY <1>2
  <2>2. \A x, y \in Nat : x < y => <<x, y>> \in Less
    BY Zenon DEF OpToRel
  <2> HIDE DEF Less
  <2>3. ASSUME NEW g \in Free  PROVE f <= g
    <3>1. f \in Nat /\ g \in Nat
      BY <1>1
    <3>2. ~(g < f)
      BY <2>1, <2>2, <3>1, Zenon
    <3> QED  BY <3>1, <3>2
  <2> QED  BY <2>3
<1>4. NewFd = CHOOSE f \in Free : \A g \in Free : f <= g
  BY DEF NewFd, Free
<1> QED  BY <1>3, <1>4 DEF Free

\* What is pooled or lent is open, so there is room for what was lent.
LEMMA RoomForLent ==
  ASSUME CltInv, NEW c \in Callers, connfd[c] # NoFd
  PROVE  /\ handle = "live" /\ mpc = "running"
         /\ connfd[c] \in open \ Pooled /\ connfd[c] \in Fds /\ valid < Bounds
<1>1. handle = "live" /\ mpc = "running"
  BY DEF CltInv, PhaseInv, Held
<1>2. connfd[c] \in open \ Pooled /\ Pooled \subseteq open
  BY DEF CltInv, OwnInv
<1>3. Cardinality(Pooled) <= Cardinality(open) /\ Cardinality(Pooled) # Cardinality(open)
  BY <1>2, Sizes, FS_Subset
<1>4. Cardinality(open) <= Bounds /\ Cardinality(Pooled) = valid
  <2>1. Missing \in {0, 1} /\ Cardinality(open) + Missing = Bounds /\ Cardinality(Pooled) = valid
    BY <1>1 DEF CltInv, CountInv, Missing
  <2> QED  BY <2>1, Sizes
<1> QED  BY <1>1, <1>2, <1>3, <1>4, Sizes

\* One descriptor more in the pool ...
LEMMA PushAdds ==
  ASSUME CltInv, NEW f \in Fds \ Pooled, valid < Bounds, Push(f)
  PROVE  /\ Pooled' = Pooled \cup {f}
         /\ fdArray' \in [Slots -> Fds \cup {0}] /\ valid' \in 1 .. Bounds
         /\ \A i, j \in 0 .. valid' - 1 : fdArray'[i] = fdArray'[j] => i = j
         /\ Cardinality(Pooled') = valid'
<1>1. /\ fdArray \in [Slots -> Fds \cup {0}] /\ valid \in 0 .. Bounds
      /\ \A i, j \in 0 .. valid - 1 : fdArray[i] = fdArray[j] => i = j
      /\ Cardinality(Pooled) = valid
  BY DEF CltInv, TypeOK, OwnInv, CountInv
<1>2. valid \in Slots /\ valid' = valid + 1 /\ fdArray' = [fdArray EXCEPT ![valid] = f]
  BY <1>1 DEF Push, Slots
<1>3. /\ fdArray'[valid] = f
      /\ \A i \in 0 .. valid - 1 : i \in Slots /\ fdArray'[i] = fdArray[i] /\ fdArray[i] # f
  BY <1>1, <1>2 DEF Slots, Pooled
<1>4. \A i : i \in 0 .. valid' - 1 <=> i \in 0 .. valid - 1 \/ i = valid
  BY <1>1, <1>2
<1>5. Pooled' = Pooled \cup {f}
  BY <1>3, <1>4 DEF Pooled
<1>6. fdArray' \in [Slots -> Fds \cup {0}] /\ valid' \in 1 .. Bounds
  BY <1>1, <1>2
<1>7. \A i, j \in 0 .. valid' - 1 : fdArray'[i] = fdArray'[j] => i = j
  BY <1>1, <1>3, <1>4
<1>8. Cardinality(Pooled') = valid'
  <2>1. Cardinality(Pooled \cup {f}) = Cardinality(Pooled) + 1
    BY Sizes, FS_AddElement
  <2> QED  BY <1>1, <1>2, <1>5, <2>1
<1> QED  BY <1>5, <1>6, <1>7, <1>8

\* ... and one less.
LEMMA PopTakes ==
  ASSUME CltInv, valid > 0, valid' = valid - 1, fdArray' = fdArray
  PROVE  /\ GetTop \in Pooled /\ Pooled' = Pooled \ {GetTop}
         /\ valid' \in 0 .. Bounds
         /\ \A i, j \in 0 .. valid' - 1 : fdArray'[i] = fdArray'[j] => i = j
         /\ Cardinality(Pooled') = valid'
<1>1. /\ valid \in 0 .. Bounds
      /\ \A i, j \in 0 .. valid - 1 : fdArray[i] = fdArray[j] => i = j
      /\ Cardinality(Pooled) = valid
  BY DEF CltInv, TypeOK, OwnInv, CountInv
<1>2. /\ valid - 1 \in 0 .. valid - 1
      /\ \A i : i \in 0 .. valid' - 1 <=> i \in 0 .. valid - 1 /\ i # valid - 1
  BY <1>1
<1>3. GetTop \in Pooled
  BY <1>2 DEF GetTop, Pooled
<1>4. Pooled' = Pooled \ {GetTop}
  BY <1>1, <1>2 DEF GetTop, Pooled
<1>5. Cardinality(Pooled \ {GetTop}) = Cardinality(Pooled) - 1
  BY <1>3, Sizes, FS_RemoveElement
<1> QED  BY <1>1, <1>2, <1>3, <1>4, <1>5

-----------------------------------------------------------------------------
(* The invariant holds at first *)

LEMMA CltInit == Init => CltInv
<1> SUFFICES ASSUME Init PROVE CltInv
  OBVIOUS
<1> USE DEF Init
<1>1. Pooled = {}
  BY DEF Pooled
<1>2. Cardinality({}) = 0
  BY FS_EmptySet
<1>3. TypeOK
  BY DEF TypeOK, CallerPC, MainPC, Slots
<1>4. PhaseInv
  BY DEF PhaseInv, Held
<1>5. OwnInv
  BY <1>1 DEF OwnInv
<1>6. CountInv
  BY <1>1, <1>2 DEF CountInv
<1> QED  BY <1>3, <1>4, <1>5, <1>6 DEF CltInv

-----------------------------------------------------------------------------
(* Steps of main *)

LEMMA InitConnectsKeeps == ASSUME CltInv, InitConnects  PROVE CltInv'
<1>1. /\ mpc = "init" /\ valid < Bounds /\ Push(NewFd) /\ open' = open \cup {NewFd}
      /\ UNCHANGED <<handle, mutex, terminated, refused, mpc, pc, connfd, round, asked, answers, partial, stray>>
  BY DEF InitConnects, Push, threadVars, streamVars
<1>2. /\ open = Pooled /\ handle = "none" /\ \A c \in Callers : pc[c] = "start"
      /\ Cardinality(open) = valid
  BY <1>1 DEF CltInv, CountInv, PhaseInv
<1>3. NewFd \in Fds \ open
  BY <1>1, <1>2, NewFdIsFree
<1>4. /\ Pooled' = Pooled \cup {NewFd}
      /\ fdArray' \in [Slots -> Fds \cup {0}] /\ valid' \in 1 .. Bounds
      /\ \A i, j \in 0 .. valid' - 1 : fdArray'[i] = fdArray'[j] => i = j
      /\ Cardinality(Pooled') = valid'
  BY <1>1, <1>2, <1>3, PushAdds
<1>5. \A c \in Callers : connfd[c] = NoFd
  BY <1>2 DEF CltInv, PhaseInv, Held
<1>6. TypeOK'
  BY <1>1, <1>3, <1>4 DEF CltInv, TypeOK
<1>7. PhaseInv'
  BY <1>1, <1>2 DEF CltInv, PhaseInv
<1>8. OwnInv'
  BY <1>1, <1>2, <1>4, <1>5 DEF OwnInv
<1>9. CountInv'
  BY <1>1, <1>2, <1>4 DEF CountInv
<1> QED  BY <1>6, <1>7, <1>8, <1>9 DEF CltInv

LEMMA InitRefusedKeeps == ASSUME CltInv, InitRefused  PROVE CltInv'
<1>1. /\ mpc = "init" /\ refused < MaxRefused /\ refused' = refused + 1
      /\ open' \in {{}, {NewFd}} /\ valid' = 0 /\ mpc' = "running" /\ valid < Bounds
      /\ UNCHANGED <<handle, mutex, fdArray, terminated, pc, connfd, round, asked, answers, partial, stray>>
  BY DEF InitRefused, MayRefuse, threadVars, streamVars
<1>2. /\ handle = "none" /\ \A c \in Callers : pc[c] = "start"
      /\ Cardinality(open) = valid
  BY <1>1 DEF CltInv, CountInv, PhaseInv
<1>3. NewFd \in Fds
  BY <1>1, <1>2, NewFdIsFree
<1>4. \A c \in Callers : connfd[c] = NoFd
  BY <1>2 DEF CltInv, PhaseInv, Held
<1>5. Pooled' = {}
  BY <1>1 DEF Pooled
<1>6. TypeOK'
  BY <1>1, <1>3 DEF CltInv, TypeOK, MainPC
<1>7. PhaseInv'
  BY <1>1, <1>2 DEF CltInv, PhaseInv
<1>8. OwnInv'
  BY <1>1, <1>4, <1>5 DEF OwnInv
<1>9. CountInv'
  BY <1>1, <1>2, <1>5, FS_EmptySet DEF CountInv
<1> QED  BY <1>6, <1>7, <1>8, <1>9 DEF CltInv

LEMMA InitReturnsKeeps == ASSUME CltInv, InitReturns  PROVE CltInv'
<1>1. /\ mpc = "init" /\ valid = Bounds /\ handle' = "live" /\ mpc' = "running"
      /\ UNCHANGED <<mutex, fdArray, valid, terminated, open, refused, pc, connfd, round,
                     asked, answers, partial, stray>>
  BY DEF InitReturns, kernelVars, threadVars, streamVars
<1>2. Pooled' = Pooled
  BY <1>1 DEF Pooled
<1>3. TypeOK'
  BY <1>1 DEF CltInv, TypeOK, MainPC
<1>4. PhaseInv'
  BY <1>1 DEF CltInv, PhaseInv
<1>5. OwnInv'
  BY <1>1, <1>2 DEF CltInv, OwnInv
<1>6. CountInv'
  <2>1. mutex = NoOne
    BY <1>1 DEF CltInv, PhaseInv, TypeOK
  <2>2. open = Pooled /\ Cardinality(Pooled) = Bounds
    BY <1>1 DEF CltInv, CountInv
  <2> QED  BY <1>1, <1>2, <2>1, <2>2 DEF CountInv, Missing
<1> QED  BY <1>3, <1>4, <1>5, <1>6 DEF CltInv

\* What destroy closes holds what is pooled.
LEMMA RememberedHoldsPooled == ASSUME CltInv  PROVE Pooled \subseteq Remembered
<1>1. valid \in 0 .. Bounds /\ Pooled \subseteq Fds /\ 0 \notin Fds
  BY Sizes DEF CltInv, TypeOK
<1> QED  BY <1>1 DEF Pooled, Remembered, Slots

LEMMA DestroyKeeps == ASSUME CltInv, Destroy  PROVE CltInv'
<1>1. /\ mpc = "running" /\ mpc' = "done" /\ \A c \in Callers : pc[c] = "ended"
      /\ UNCHANGED <<mutex, fdArray, refused, pc, connfd, round>>
  BY DEF Destroy, threadVars
<1>2. \A c \in Callers : connfd[c] = NoFd
  BY <1>1 DEF CltInv, PhaseInv, Held
<1>3. /\ valid' = 0 /\ handle' \in {"none", "freed"} /\ terminated' \in {0, 1}
      /\ open' \subseteq open
      /\ asked' \in [Fds -> Seq(Messages)] /\ answers' \in [Fds -> Seq(Messages)]
      /\ partial' \subseteq Fds /\ stray' \subseteq Fds
  <2>1. CASE handle = "live"
    <3>1. /\ valid' = 0 /\ handle' = "freed" /\ terminated' = 1
          /\ open' = open \ Remembered
          /\ asked' = [f \in Fds |-> IF f \in Remembered THEN <<>> ELSE asked[f]]
          /\ answers' = [f \in Fds |-> IF f \in Remembered THEN <<>> ELSE answers[f]]
          /\ partial' = partial \ Remembered /\ stray' = stray \ Remembered
      BY <2>1 DEF Destroy, CloseFds
    <3> QED  BY <3>1 DEF CltInv, TypeOK
  <2>2. CASE handle # "live"
    <3>1. UNCHANGED <<handle, terminated, valid, open, asked, answers, partial, stray>>
      BY <2>2 DEF Destroy, streamVars
    <3> QED  BY <1>1, <2>2, <3>1 DEF CltInv, TypeOK, PhaseInv
  <2> QED  BY <2>1, <2>2
<1>4. Pooled' = {}
  BY <1>3 DEF Pooled
<1>5. TypeOK'
  BY <1>1, <1>3 DEF CltInv, TypeOK, MainPC
<1>6. PhaseInv'
  BY <1>1, <1>3 DEF CltInv, PhaseInv
<1>7. OwnInv'
  BY <1>1, <1>2, <1>3, <1>4 DEF OwnInv
<1>8. CountInv'
  BY <1>1, <1>3, <1>4, FS_EmptySet DEF CountInv
<1> QED  BY <1>5, <1>6, <1>7, <1>8 DEF CltInv

-----------------------------------------------------------------------------
(* Steps that leave the pool and the descriptors alone *)

LEMMA MoveKeeps ==
  ASSUME CltInv, TypeOK',
         UNCHANGED <<handle, mutex, fdArray, valid, open, mpc, connfd>>,
         \A c \in Callers :
           \/ pc'[c] = pc[c] /\ round'[c] = round[c]
           \/ /\ pc[c] \in Held /\ pc'[c] \in Held
              /\ pc'[c] \in {"send", "sending", "recv"} => round'[c] \in 1 .. Rounds
           \/ pc[c] = "start" /\ pc'[c] = "ended" /\ mpc # "init"
  PROVE  CltInv'
<1>1. Pooled' = Pooled
  BY DEF Pooled
<1>2. PhaseInv'
  <2>1. ASSUME NEW c \in Callers
        PROVE  /\ connfd'[c] # NoFd <=> pc'[c] \in Held
               /\ mutex' = c <=> pc'[c] = "reconnect"
               /\ pc'[c] \in {"send", "sending", "recv"} => round'[c] \in 1 .. Rounds
               /\ handle' # "live" => pc'[c] \in {"start", "ended"}
               /\ mpc' = "init" => pc'[c] = "start"
    <3>1. /\ connfd[c] # NoFd <=> pc[c] \in Held
          /\ mutex = c <=> pc[c] = "reconnect"
          /\ pc[c] \in {"send", "sending", "recv"} => round[c] \in 1 .. Rounds
          /\ handle # "live" => pc[c] \in {"start", "ended"}
          /\ mpc = "init" => pc[c] = "start"
      BY DEF CltInv, PhaseInv
    <3>2. CASE pc'[c] = pc[c] /\ round'[c] = round[c]
      BY <3>1, <3>2
    <3>3. CASE /\ pc[c] \in Held /\ pc'[c] \in Held
               /\ pc'[c] \in {"send", "sending", "recv"} => round'[c] \in 1 .. Rounds
      BY <3>1, <3>3 DEF Held
    <3>4. CASE pc[c] = "start" /\ pc'[c] = "ended" /\ mpc # "init"
      BY <3>1, <3>4 DEF Held
    <3> QED  BY <3>2, <3>3, <3>4
  <2> QED  BY <2>1 DEF CltInv, PhaseInv
<1>3. OwnInv'
  BY <1>1 DEF CltInv, OwnInv
<1>4. CountInv'
  BY <1>1 DEF CltInv, CountInv, Missing
<1> QED  BY <1>2, <1>3, <1>4 DEF CltInv

LEMMA GetFailsKeeps == ASSUME CltInv, NEW c \in Callers, GetFails(c)  PROVE CltInv'
<1>1. /\ mpc = "running" /\ pc[c] = "start" /\ pc' = [pc EXCEPT ![c] = "ended"]
      /\ UNCHANGED <<handle, mutex, fdArray, valid, terminated, open, refused, mpc, connfd,
                     round, asked, answers, partial, stray>>
  BY DEF GetFails, poolVars, kernelVars, streamVars
<1>2. TypeOK'
  BY <1>1 DEF CltInv, TypeOK, CallerPC
<1>3. pc'[c] = "ended" /\ \A d \in Callers : d # c => pc'[d] = pc[d]
  BY <1>1 DEF CltInv, TypeOK
<1> QED  BY <1>1, <1>2, <1>3, MoveKeeps

LEMMA SendKeeps ==
  ASSUME CltInv, NEW c \in Callers, Send(c) \/ SendEnds(c)
  PROVE  CltInv'
<1>1. /\ pc[c] \in {"send", "sending"} /\ pc' = [pc EXCEPT ![c] = "recv"]
      /\ asked' = [asked EXCEPT ![connfd[c]] = Append(@, <<c, round[c]>>)]
      /\ UNCHANGED <<handle, mutex, fdArray, valid, terminated, open, refused, mpc, connfd,
                     round, answers, partial, stray>>
  BY DEF Send, SendEnds, Ask, poolVars, kernelVars
<1>2. round[c] \in 1 .. Rounds /\ connfd[c] # NoFd
  BY <1>1 DEF CltInv, PhaseInv, Held
<1>3. connfd[c] \in Fds
  BY <1>2, RoomForLent
<1>4. asked' \in [Fds -> Seq(Messages)]
  <2>1. asked[connfd[c]] \in Seq(Messages) /\ <<c, round[c]>> \in Messages
    BY <1>2, <1>3 DEF CltInv, TypeOK, Messages
  <2>2. Append(asked[connfd[c]], <<c, round[c]>>) \in Seq(Messages)
    BY <2>1
  <2> QED  BY <1>1, <2>2 DEF CltInv, TypeOK
<1>5. TypeOK'
  BY <1>1, <1>4 DEF CltInv, TypeOK, CallerPC
<1>6. pc'[c] = "recv" /\ \A d \in Callers : d # c => pc'[d] = pc[d]
  BY <1>1 DEF CltInv, TypeOK
<1> QED  BY <1>1, <1>2, <1>5, <1>6, MoveKeeps DEF Held

LEMMA SendBlocksKeeps == ASSUME CltInv, NEW c \in Callers, SendBlocks(c)  PROVE CltInv'
<1>1. /\ pc[c] = "send" /\ pc' = [pc EXCEPT ![c] = "sending"]
      /\ UNCHANGED <<handle, mutex, fdArray, valid, terminated, open, refused, mpc, connfd,
                     round, asked, answers, partial, stray>>
  BY DEF SendBlocks, poolVars, kernelVars, streamVars
<1>2. round[c] \in 1 .. Rounds
  BY <1>1 DEF CltInv, PhaseInv
<1>3. TypeOK'
  BY <1>1 DEF CltInv, TypeOK, CallerPC
<1>4. pc'[c] = "sending" /\ \A d \in Callers : d # c => pc'[d] = pc[d]
  BY <1>1 DEF CltInv, TypeOK
<1> QED  BY <1>1, <1>2, <1>3, <1>4, MoveKeeps DEF Held

LEMMA ContinueKeeps ==
  ASSUME CltInv, NEW c \in Callers, Receive(c) \/ TimesOut(c)
  PROVE  CltInv'
<1>1. /\ pc[c] \in {"send", "recv"} /\ Continue(c)
      /\ UNCHANGED <<handle, mutex, fdArray, valid, terminated, open, refused, mpc, connfd,
                     asked, partial, stray>>
      /\ \/ answers' = answers
         \/ /\ answers[connfd[c]] # <<>>
            /\ answers' = [answers EXCEPT ![connfd[c]] = Tail(@)]
  BY DEF Receive, TimesOut, Whole, poolVars, kernelVars, streamVars
<1>2. round[c] \in 1 .. Rounds /\ connfd[c] # NoFd
  BY <1>1 DEF CltInv, PhaseInv, Held
<1>3. connfd[c] \in Fds
  BY <1>2, RoomForLent
<1>4. answers' \in [Fds -> Seq(Messages)]
  <2>1. answers[connfd[c]] \in Seq(Messages)
    BY <1>3 DEF CltInv, TypeOK
  <2>2. answers[connfd[c]] # <<>> => Tail(answers[connfd[c]]) \in Seq(Messages)
    BY <2>1
  <2> QED  BY <1>1, <2>2 DEF CltInv, TypeOK
<1>5. PICK p \in {"put", "send"}, n \in 0 .. Rounds :
        /\ pc' = [pc EXCEPT ![c] = p] /\ round' = [round EXCEPT ![c] = n]
        /\ p = "send" => n \in 1 .. Rounds
  <2>1. CASE round[c] = Rounds
    <3>1. pc' = [pc EXCEPT ![c] = "put"] /\ round' = [round EXCEPT ![c] = 0]
      BY <1>1, <2>1 DEF Continue
    <3> WITNESS "put" \in {"put", "send"}, 0 \in 0 .. Rounds
    <3> QED  BY <3>1
  <2>2. CASE round[c] # Rounds
    <3>1. pc' = [pc EXCEPT ![c] = "send"] /\ round' = [round EXCEPT ![c] = round[c] + 1]
      BY <1>1, <2>2 DEF Continue
    <3>2. round[c] + 1 \in 1 .. Rounds
      BY <1>2, <2>2
    <3>3. round[c] + 1 \in 0 .. Rounds
      BY <3>2
    <3> WITNESS "send" \in {"put", "send"}, round[c] + 1 \in 0 .. Rounds
    <3> QED  BY <3>1, <3>2
  <2> QED  BY <2>1, <2>2
<1>6. TypeOK'
  <2>1. pc' \in [Callers -> CallerPC]
    BY <1>5 DEF CltInv, TypeOK, CallerPC
  <2>2. round' \in [Callers -> 0 .. Rounds]
    BY <1>5 DEF CltInv, TypeOK
  <2> QED  BY <1>1, <1>4, <2>1, <2>2 DEF CltInv, TypeOK
<1>7. /\ pc'[c] = p /\ round'[c] = n
      /\ \A d \in Callers : d # c => pc'[d] = pc[d] /\ round'[d] = round[d]
  BY <1>5 DEF CltInv, TypeOK
<1>8. pc[c] \in Held /\ pc'[c] \in Held /\ (pc'[c] \in {"send", "sending", "recv"} => round'[c] \in 1 .. Rounds)
  BY <1>1, <1>5, <1>7 DEF Held
<1> QED  BY <1>1, <1>6, <1>7, <1>8, MoveKeeps

LEMMA ServerKeeps == ASSUME CltInv, NEW f \in Fds, ServerAnswers(f)  PROVE CltInv'
<1>1. /\ asked[f] # <<>> /\ asked' = [asked EXCEPT ![f] = Tail(@)]
      /\ \/ answers' = [answers EXCEPT ![f] = Append(@, Head(asked[f]))]
         \/ answers' = answers
      /\ partial' \in {partial, partial \cup {f}}
      /\ UNCHANGED <<handle, mutex, fdArray, valid, terminated, open, refused, mpc, pc, connfd,
                     round, stray>>
  BY DEF ServerAnswers, poolVars, kernelVars, threadVars
<1>2. asked[f] \in Seq(Messages) /\ answers[f] \in Seq(Messages)
  BY DEF CltInv, TypeOK
<1>3. Tail(asked[f]) \in Seq(Messages) /\ Head(asked[f]) \in Messages
  BY <1>1, <1>2
<1>4. Append(answers[f], Head(asked[f])) \in Seq(Messages)
  BY <1>2, <1>3
<1>5. asked' \in [Fds -> Seq(Messages)]
  BY <1>1, <1>3 DEF CltInv, TypeOK
<1>6. answers' \in [Fds -> Seq(Messages)] /\ partial' \subseteq Fds
  <2>1. answers' = answers \/ answers' = [answers EXCEPT ![f] = Append(@, Head(asked[f]))]
    BY <1>1
  <2>2. answers' \in [Fds -> Seq(Messages)]
    BY <1>4, <2>1 DEF CltInv, TypeOK
  <2>3. partial' \subseteq Fds
    BY <1>1 DEF CltInv, TypeOK
  <2> QED  BY <2>2, <2>3
<1>7. TypeOK'
  BY <1>1, <1>5, <1>6 DEF CltInv, TypeOK
<1> QED  BY <1>1, <1>7, MoveKeeps

LEMMA ServerFinishesKeeps == ASSUME CltInv, NEW f \in Fds, ServerFinishes(f)  PROVE CltInv'
<1>1. /\ partial' = partial \ {f}
      /\ UNCHANGED <<handle, mutex, fdArray, valid, terminated, open, refused, mpc, pc, connfd,
                     round, asked, answers, stray>>
  BY DEF ServerFinishes, poolVars, kernelVars, threadVars
<1>2. TypeOK'
  BY <1>1 DEF CltInv, TypeOK
<1> QED  BY <1>1, <1>2, MoveKeeps

-----------------------------------------------------------------------------
(* Getting a connection, losing it, and putting it back *)

LEMMA GetKeeps == ASSUME CltInv, NEW c \in Callers, Get(c)  PROVE CltInv'
<1>1. /\ mpc = "running" /\ handle = "live" /\ valid > 0 /\ mutex = NoOne
      /\ pc[c] = "start" /\ pc' = [pc EXCEPT ![c] = "send"]
      /\ connfd' = [connfd EXCEPT ![c] = GetTop] /\ valid' = valid - 1
      /\ round' = [round EXCEPT ![c] = 1]
      /\ UNCHANGED <<handle, mutex, fdArray, terminated, open, refused, mpc, asked, answers, partial, stray>>
  BY DEF Get, MayGet, kernelVars, streamVars
<1>2. /\ GetTop \in Pooled /\ Pooled' = Pooled \ {GetTop} /\ valid' \in 0 .. Bounds
      /\ \A i, j \in 0 .. valid' - 1 : fdArray'[i] = fdArray'[j] => i = j
      /\ Cardinality(Pooled') = valid'
  BY <1>1, PopTakes
<1>3. GetTop \in Fds /\ GetTop # NoFd /\ GetTop \in open
  BY <1>2, Sizes DEF CltInv, OwnInv
<1>4. /\ connfd'[c] = GetTop /\ pc'[c] = "send" /\ round'[c] = 1
      /\ \A d \in Callers : d # c => connfd'[d] = connfd[d] /\ pc'[d] = pc[d] /\ round'[d] = round[d]
  BY <1>1 DEF CltInv, TypeOK
<1>5. \A d \in Callers : connfd[d] # NoFd => connfd[d] # GetTop
  BY <1>2 DEF CltInv, OwnInv
<1> HIDE DEF GetTop
<1>6. TypeOK'
  BY <1>1, <1>2, <1>3 DEF CltInv, TypeOK, CallerPC
<1>7. PhaseInv'
  BY <1>1, <1>3, <1>4 DEF CltInv, PhaseInv, Held
<1>8. OwnInv'
  BY <1>1, <1>2, <1>3, <1>4, <1>5 DEF CltInv, OwnInv
<1>9. CountInv'
  BY <1>1, <1>2 DEF CltInv, CountInv, Missing
<1> QED  BY <1>6, <1>7, <1>8, <1>9 DEF CltInv

LEMMA FailsKeeps == ASSUME CltInv, NEW c \in Callers, Fails(c)  PROVE CltInv'
<1>1. /\ pc[c] \in {"send", "sending", "recv"} /\ pc' = [pc EXCEPT ![c] = "ended"]
      /\ connfd' = [connfd EXCEPT ![c] = NoFd] /\ round' = [round EXCEPT ![c] = 0]
      /\ UNCHANGED <<handle, mutex, fdArray, valid, terminated, open, refused, mpc, asked, answers, partial, stray>>
  BY DEF Fails, poolVars, kernelVars, streamVars
<1>2. /\ connfd'[c] = NoFd /\ pc'[c] = "ended"
      /\ \A d \in Callers : d # c => connfd'[d] = connfd[d] /\ pc'[d] = pc[d] /\ round'[d] = round[d]
  BY <1>1 DEF CltInv, TypeOK
<1>3. Pooled' = Pooled
  BY <1>1 DEF Pooled
<1>4. TypeOK'
  BY <1>1 DEF CltInv, TypeOK, CallerPC
<1>5. PhaseInv'
  BY <1>1, <1>2 DEF CltInv, PhaseInv, Held
<1>6. OwnInv'
  BY <1>1, <1>2, <1>3 DEF CltInv, OwnInv
<1>7. CountInv'
  BY <1>1, <1>3 DEF CltInv, CountInv, Missing
<1> QED  BY <1>4, <1>5, <1>6, <1>7 DEF CltInv

LEMMA PutKeepsKeeps == ASSUME CltInv, NEW c \in Callers, PutKeeps(c)  PROVE CltInv'
<1>1. /\ pc[c] = "put" /\ mutex = NoOne /\ valid < Bounds /\ Push(connfd[c])
      /\ connfd' = [connfd EXCEPT ![c] = NoFd] /\ pc' = [pc EXCEPT ![c] = "ended"]
      /\ stray' \in {stray, stray \cup {connfd[c]}}
      /\ UNCHANGED <<handle, mutex, terminated, open, refused, mpc, round, asked, answers, partial>>
  BY DEF PutKeeps, MayPut, kernelVars
<1>2. connfd[c] # NoFd
  BY <1>1 DEF CltInv, PhaseInv, Held
<1>3. connfd[c] \in Fds \ Pooled /\ connfd[c] \in open /\ handle = "live" /\ mpc = "running"
  BY <1>2, RoomForLent
<1>4. /\ Pooled' = Pooled \cup {connfd[c]}
      /\ fdArray' \in [Slots -> Fds \cup {0}] /\ valid' \in 1 .. Bounds
      /\ \A i, j \in 0 .. valid' - 1 : fdArray'[i] = fdArray'[j] => i = j
      /\ Cardinality(Pooled') = valid'
  BY <1>1, <1>3, PushAdds
<1>5. /\ connfd'[c] = NoFd /\ pc'[c] = "ended"
      /\ \A d \in Callers : d # c => connfd'[d] = connfd[d] /\ pc'[d] = pc[d]
  BY <1>1 DEF CltInv, TypeOK
<1>6. \A d \in Callers : d # c /\ connfd[d] # NoFd => connfd[d] # connfd[c]
  BY DEF CltInv, OwnInv
<1>7. TypeOK'
  BY <1>1, <1>3, <1>4 DEF CltInv, TypeOK, CallerPC
<1>8. PhaseInv'
  BY <1>1, <1>3, <1>5 DEF CltInv, PhaseInv, Held
<1>9. OwnInv'
  <2>1. Pooled' \subseteq open'
    BY <1>1, <1>3, <1>4 DEF CltInv, OwnInv
  <2>2. \A d \in Callers : connfd'[d] # NoFd => connfd'[d] \in open' \ Pooled'
    BY <1>1, <1>4, <1>5, <1>6 DEF CltInv, OwnInv
  <2>3. \A d, e \in Callers : connfd'[d] = connfd'[e] /\ connfd'[d] # NoFd => d = e
    BY <1>5 DEF CltInv, OwnInv
  <2> QED  BY <1>4, <2>1, <2>2, <2>3 DEF OwnInv
<1>10. CountInv'
  BY <1>1, <1>3, <1>4 DEF CltInv, CountInv, Missing
<1> QED  BY <1>7, <1>8, <1>9, <1>10 DEF CltInv

LEMMA PutClosesKeeps == ASSUME CltInv, NEW c \in Callers, PutCloses(c)  PROVE CltInv'
<1>1. /\ pc[c] = "put" /\ mutex = NoOne /\ mutex' = c /\ CloseFds({connfd[c]})
      /\ connfd' = [connfd EXCEPT ![c] = NoFd] /\ pc' = [pc EXCEPT ![c] = "reconnect"]
      /\ UNCHANGED <<handle, fdArray, valid, terminated, refused, mpc, round>>
  BY DEF PutCloses, MayPut
<1>2. connfd[c] # NoFd
  BY <1>1 DEF CltInv, PhaseInv, Held
<1>3. connfd[c] \in open \ Pooled /\ handle = "live" /\ mpc = "running"
  BY <1>2, RoomForLent
<1>4. open' = open \ {connfd[c]} /\ Cardinality(open') = Cardinality(open) - 1
  <2>1. Cardinality(open \ {connfd[c]}) = Cardinality(open) - 1
    BY <1>3, Sizes, FS_RemoveElement
  <2> QED  BY <1>1, <2>1 DEF CloseFds
<1>5. /\ asked' \in [Fds -> Seq(Messages)] /\ answers' \in [Fds -> Seq(Messages)]
      /\ partial' \subseteq Fds /\ stray' \subseteq Fds
  BY <1>1 DEF CloseFds, CltInv, TypeOK
<1>6. /\ connfd'[c] = NoFd /\ pc'[c] = "reconnect"
      /\ \A d \in Callers : d # c => connfd'[d] = connfd[d] /\ pc'[d] = pc[d]
  BY <1>1 DEF CltInv, TypeOK
<1>7. \A d \in Callers : d # c /\ connfd[d] # NoFd => connfd[d] # connfd[c]
  BY DEF CltInv, OwnInv
<1>8. Pooled' = Pooled
  BY <1>1 DEF Pooled
<1>9. TypeOK'
  BY <1>1, <1>4, <1>5 DEF CltInv, TypeOK, CallerPC
<1>10. PhaseInv'
  BY <1>1, <1>3, <1>6 DEF CltInv, PhaseInv, Held
<1>11. OwnInv'
  BY <1>1, <1>3, <1>4, <1>6, <1>7, <1>8 DEF CltInv, OwnInv
<1>12. CountInv'
  <2>1. Missing = 0 /\ Missing' = 1
    BY <1>1 DEF Missing
  <2> QED  BY <1>1, <1>3, <1>4, <1>8, <2>1, Sizes DEF CltInv, CountInv
<1> QED  BY <1>9, <1>10, <1>11, <1>12 DEF CltInv

\* A thread that reconnects has closed a descriptor of a live pool.
LEMMA Reconnecting ==
  ASSUME CltInv, NEW c \in Callers, pc[c] = "reconnect"
  PROVE  /\ handle = "live" /\ mpc = "running" /\ mutex = c /\ connfd[c] = NoFd
         /\ Cardinality(open) + 1 = Bounds /\ valid < Bounds
         /\ NewFd \in Fds \ open /\ Cardinality(open \cup {NewFd}) = Bounds
<1>1. handle = "live" /\ mpc = "running" /\ mutex = c /\ connfd[c] = NoFd
  BY DEF CltInv, PhaseInv, Held
<1>2. Cardinality(open) + 1 = Bounds /\ Cardinality(open) < Bounds
  BY <1>1, Sizes DEF CltInv, CountInv, Missing
<1>3. valid < Bounds
  <2>1. Pooled \subseteq open /\ Cardinality(Pooled) = valid
    BY DEF CltInv, OwnInv, CountInv
  <2>2. Cardinality(Pooled) <= Cardinality(open)
    BY <2>1, Sizes, FS_Subset
  <2> QED  BY <1>2, <2>1, <2>2, Sizes
<1>4. NewFd \in Fds \ open
  BY <1>2, NewFdIsFree
<1>5. Cardinality(open \cup {NewFd}) = Cardinality(open) + 1
  BY <1>4, Sizes, FS_AddElement
<1> QED  BY <1>1, <1>2, <1>3, <1>4, <1>5

LEMMA ReconnectsKeeps == ASSUME CltInv, NEW c \in Callers, Reconnects(c)  PROVE CltInv'
<1>1. /\ pc[c] = "reconnect" /\ Push(NewFd) /\ open' = open \cup {NewFd} /\ mutex' = NoOne
      /\ pc' = [pc EXCEPT ![c] = "ended"]
      /\ UNCHANGED <<handle, terminated, refused, mpc, connfd, round, asked, answers, partial, stray>>
  BY DEF Reconnects, streamVars
<1>2. /\ handle = "live" /\ mpc = "running" /\ mutex = c /\ connfd[c] = NoFd /\ valid < Bounds
      /\ NewFd \in Fds \ open /\ Cardinality(open \cup {NewFd}) = Bounds
  BY <1>1, Reconnecting
<1>3. NewFd \in Fds \ Pooled
  BY <1>2 DEF CltInv, OwnInv
<1>4. /\ Pooled' = Pooled \cup {NewFd}
      /\ fdArray' \in [Slots -> Fds \cup {0}] /\ valid' \in 1 .. Bounds
      /\ \A i, j \in 0 .. valid' - 1 : fdArray'[i] = fdArray'[j] => i = j
      /\ Cardinality(Pooled') = valid'
  BY <1>1, <1>2, <1>3, PushAdds
<1>5. pc'[c] = "ended" /\ \A d \in Callers : d # c => pc'[d] = pc[d]
  BY <1>1 DEF CltInv, TypeOK
<1>6. TypeOK'
  BY <1>1, <1>2, <1>4 DEF CltInv, TypeOK, CallerPC
<1>7. PhaseInv'
  BY <1>1, <1>2, <1>5 DEF CltInv, PhaseInv, Held
<1>8. OwnInv'
  BY <1>1, <1>2, <1>4 DEF CltInv, OwnInv
<1>9. CountInv'
  BY <1>1, <1>2, <1>4 DEF CountInv, Missing
<1> QED  BY <1>6, <1>7, <1>8, <1>9 DEF CltInv

LEMMA ReconnectRefusedKeeps ==
  ASSUME CltInv, NEW c \in Callers, ReconnectRefused(c)
  PROVE  CltInv'
<1>1. /\ pc[c] = "reconnect" /\ refused < MaxRefused /\ refused' = refused + 1
      /\ open' = open \cup {NewFd} /\ mutex' = NoOne /\ pc' = [pc EXCEPT ![c] = "ended"]
      /\ UNCHANGED <<handle, fdArray, valid, terminated, mpc, connfd, round, asked, answers, partial, stray>>
  BY DEF ReconnectRefused, Refused, MayRefuse, streamVars
<1>2. /\ handle = "live" /\ mpc = "running" /\ mutex = c /\ connfd[c] = NoFd
      /\ NewFd \in Fds \ open /\ Cardinality(open \cup {NewFd}) = Bounds
  BY <1>1, Reconnecting
<1>3. Pooled' = Pooled
  BY <1>1 DEF Pooled
<1>4. pc'[c] = "ended" /\ \A d \in Callers : d # c => pc'[d] = pc[d]
  BY <1>1 DEF CltInv, TypeOK
<1>5. TypeOK'
  BY <1>1, <1>2 DEF CltInv, TypeOK, CallerPC
<1>6. PhaseInv'
  BY <1>1, <1>2, <1>4 DEF CltInv, PhaseInv, Held
<1>7. OwnInv'
  BY <1>1, <1>2, <1>3 DEF CltInv, OwnInv
<1>8. CountInv'
  BY <1>1, <1>2, <1>3 DEF CltInv, CountInv, Missing
<1> QED  BY <1>5, <1>6, <1>7, <1>8 DEF CltInv

-----------------------------------------------------------------------------
(* The invariant is one *)

LEMMA CltStep == ASSUME CltInv, [Next]_vars  PROVE CltInv'
<1>1. CASE MainStep
  BY <1>1, InitConnectsKeeps, InitRefusedKeeps, InitReturnsKeeps, DestroyKeeps DEF MainStep
<1>2. ASSUME NEW c \in Callers, Thread(c)  PROVE CltInv'
  BY <1>2, GetKeeps, GetFailsKeeps, SendKeeps, SendBlocksKeeps, ContinueKeeps, FailsKeeps,
     PutKeepsKeeps, PutClosesKeeps, ReconnectsKeeps, ReconnectRefusedKeeps DEF Thread, Runs
<1>3. ASSUME NEW f \in Fds, ServerAnswers(f) \/ ServerFinishes(f)  PROVE CltInv'
  BY <1>3, ServerKeeps, ServerFinishesKeeps
<1>4. CASE UNCHANGED vars
  <2>1. UNCHANGED <<handle, mutex, fdArray, valid, terminated, open, refused, mpc, pc, connfd,
                    round, asked, answers, partial, stray>>
    BY <1>4 DEF vars, poolVars, kernelVars, threadVars, streamVars
  <2>2. TypeOK'
    BY <2>1 DEF CltInv, TypeOK
  <2> QED  BY <2>1, <2>2, MoveKeeps
<1> QED  BY <1>1, <1>2, <1>3, <1>4 DEF Next

\* The parts of the invariant hold in every state the client and the server reach.
THEOREM CltInvariant == Spec => []CltInv
<1>1. Init => CltInv
  BY CltInit
<1>2. CltInv /\ [Next]_vars => CltInv'
  BY CltStep
<1> QED  BY <1>1, <1>2, PTL DEF Spec

\* Every variable of the pool, the descriptors and the threads keeps its type: the
\* position in fdArray never leaves the array.
THEOREM CltTypeCorrect == Spec => []TypeOK
<1>1. CltInv => TypeOK
  BY DEF CltInv
<1> QED  BY <1>1, CltInvariant, PTL

\* sckCltPool_putConnet never tells a thread that its connection is in the pool
\* already or that the pool is full, for any number of threads and connections.
THEOREM PutAccepted == Spec => []PutNeverRefused
<1>1. CltInv => PutNeverRefused
  <2> SUFFICES ASSUME CltInv, NEW c \in Callers, pc[c] = "put"
               PROVE  connfd[c] \notin Pooled /\ valid < Bounds
    BY DEF PutNeverRefused
  <2>1. connfd[c] # NoFd
    BY DEF CltInv, PhaseInv, Held
  <2> QED  BY <2>1, RoomForLent
<1> QED  BY <1>1, CltInvariant, PTL

\* Of a live pool exactly bounds descriptors are open or about to be, whatever
\* attempts to connect were refused and whatever threads failed.
THEOREM DescriptorsCounted == Spec => []DescriptorsBounded
<1>1. CltInv => DescriptorsBounded
  <2> SUFFICES ASSUME CltInv, handle = "live"  PROVE DescriptorsBounded
    BY DEF DescriptorsBounded
  <2> DEFINE R == {c \in Callers : pc[c] = "reconnect"}
  <2>1. \A c \in Callers : c \in R <=> mutex = c
    BY DEF CltInv, PhaseInv
  <2>2. Cardinality(R) = Missing
    <3>1. CASE mutex = NoOne
      <4>1. R = {}
        BY <2>1, <3>1
      <4> QED  BY <3>1, <4>1, FS_EmptySet DEF Missing
    <3>2. CASE mutex \in Callers
      <4>1. R = {mutex} /\ mutex # NoOne
        BY <2>1, <3>2
      <4>2. Cardinality({mutex}) = 1
        BY FS_Singleton
      <4> QED  BY <4>1, <4>2 DEF Missing
    <3> QED  BY <3>1, <3>2 DEF CltInv, TypeOK
  <2>3. Cardinality(open) + Cardinality(R) = Bounds
    BY <2>2 DEF CltInv, CountInv
  <2>4. Pooled \cup ({connfd[c] : c \in Callers} \ {NoFd}) \subseteq open
    BY DEF CltInv, OwnInv
  <2> QED  BY <2>3, <2>4 DEF DescriptorsBounded
<1> QED  BY <1>1, CltInvariant, PTL

\* sckCltPool_destroy closes every connection in the pool: what stays open are
\* those the pool had lost before.
THEOREM DestroyClosesPooled == Spec => DestroyLeavesOnlyLost
<1>1. ASSUME CltInv, [Next]_vars
      PROVE  [Destroy /\ handle = "live" => Cardinality(open') <= Bounds - valid]_vars
  <2> SUFFICES ASSUME Destroy, handle = "live"
               PROVE  Cardinality(open') <= Bounds - valid
    OBVIOUS
  <2>1. open' = open \ Remembered /\ \A c \in Callers : pc[c] = "ended"
    BY DEF Destroy, CloseFds
  <2>2. mutex = NoOne
    BY <1>1, <2>1 DEF CltInv, PhaseInv, TypeOK
  <2>3. Cardinality(open) = Bounds /\ Cardinality(Pooled) = valid
    BY <1>1, <2>2, Sizes DEF CltInv, CountInv, Missing
  <2>4. open \cap Pooled = Pooled
    BY <1>1 DEF CltInv, OwnInv
  <2>5. IsFiniteSet(open \ Pooled) /\ Cardinality(open \ Pooled) = Bounds - valid
    BY <1>1, <2>3, <2>4, Sizes, FS_Difference
  <2>6. open \ Remembered \subseteq open \ Pooled
    BY <1>1, RememberedHoldsPooled
  <2>7. Cardinality(open \ Remembered) <= Cardinality(open \ Pooled)
    BY <2>5, <2>6, FS_Subset
  <2> QED  BY <2>1, <2>5, <2>7
<1> QED  BY <1>1, CltInvariant, PTL DEF Spec, DestroyLeavesOnlyLost

-----------------------------------------------------------------------------
(* The pool implements ConnectionPool *)

\* The instance's operators of FiniteSets are ours.
LEMMA SameCardinality == \A S : Abstract!Cardinality(S) = Cardinality(S)
BY DEF Abstract!Cardinality, Cardinality

LEMMA AbstractInit == Init => Abstract!Init
<1> SUFFICES ASSUME Init PROVE Abstract!Init
  OBVIOUS
<1>1. Pooled = {}
  BY DEF Init, Pooled
<1> QED  BY <1>1 DEF Init, Abstract!Init

\* A new connection, in the pool from the start.
LEMMA AbstractCreate ==
  ASSUME CltInv, Cardinality(open) < Bounds, valid < Bounds, Push(NewFd), connfd' = connfd
  PROVE  Abstract!Create
<1>1. NewFd \in Fds \ open
  BY NewFdIsFree
<1>2. Pooled \cup Lent \subseteq open
  BY DEF CltInv, OwnInv, Lent
<1>3. Pooled' = Pooled \cup {NewFd}
  BY <1>1, <1>2, PushAdds
<1>4. Cardinality(Pooled \cup Lent) < Bounds
  <2>1. Cardinality(Pooled \cup Lent) <= Cardinality(open) /\ IsFiniteSet(Pooled \cup Lent)
    BY <1>2, Sizes, FS_Subset
  <2>2. Cardinality(Pooled \cup Lent) \in Nat
    BY <2>1, FS_CardinalityType
  <2> QED  BY <2>1, <2>2, Sizes
<1>5. Lent = Abstract!Lent
  BY DEF Abstract!Lent, Lent
<1>6. Abstract!Cardinality(Pooled \cup Abstract!Lent) < Bounds
  BY <1>4, <1>5, SameCardinality
<1>7. NewFd \in Fds \ (Pooled \cup Abstract!Lent)
  BY <1>1, <1>2, <1>5
<1> QED  BY <1>3, <1>6, <1>7 DEF Abstract!Create

LEMMA AbstractStep == ASSUME CltInv, [Next]_vars  PROVE [Abstract!Next]_(Abstract!vars)
<1>1. CASE UNCHANGED <<fdArray, valid, connfd>>
  <2>1. UNCHANGED <<Pooled, connfd>>
    BY <1>1 DEF Pooled
  <2> QED  BY <2>1 DEF Abstract!vars
<1>2. CASE InitConnects
  <2>1. mpc = "init" /\ valid < Bounds /\ Push(NewFd) /\ connfd' = connfd
    BY <1>2 DEF InitConnects, Push, threadVars
  <2>2. Cardinality(open) < Bounds
    BY <2>1 DEF CltInv, CountInv
  <2> QED  BY <2>1, <2>2, AbstractCreate DEF Abstract!Next
<1>3. CASE InitRefused \/ Destroy
  <2>1. connfd' = connfd /\ (valid' = 0 \/ UNCHANGED <<fdArray, valid>>)
    BY <1>3 DEF InitRefused, Destroy, threadVars
  <2>2. Pooled' = {} \/ Pooled' = Pooled
    BY <2>1 DEF Pooled
  <2>3. Abstract!Close
    BY <2>1, <2>2 DEF Abstract!Close
  <2> QED  BY <2>3 DEF Abstract!Next
<1>4. ASSUME NEW c \in Callers, Get(c)  PROVE Abstract!Lend(c)
  <2>1. /\ valid > 0 /\ valid' = valid - 1 /\ fdArray' = fdArray /\ pc[c] = "start"
        /\ connfd' = [connfd EXCEPT ![c] = GetTop]
    BY <1>4 DEF Get, MayGet
  <2>2. connfd[c] = NoFd
    BY <2>1 DEF CltInv, PhaseInv, Held
  <2>3. GetTop \in Pooled /\ Pooled' = Pooled \ {GetTop}
    BY <2>1, PopTakes
  <2> QED  BY <2>1, <2>2, <2>3 DEF Abstract!Lend
<1>5. ASSUME NEW c \in Callers, Fails(c) \/ PutCloses(c)  PROVE Abstract!Discard(c)
  <2>1. /\ pc[c] \in Held /\ connfd' = [connfd EXCEPT ![c] = NoFd]
        /\ UNCHANGED <<fdArray, valid>>
    BY <1>5 DEF Fails, PutCloses, MayPut, poolVars, Held
  <2>2. connfd[c] # NoFd
    BY <2>1 DEF CltInv, PhaseInv
  <2>3. Pooled' = Pooled
    BY <2>1 DEF Pooled
  <2> QED  BY <2>1, <2>2, <2>3 DEF Abstract!Discard
<1>6. ASSUME NEW c \in Callers, PutKeeps(c)  PROVE Abstract!GiveBack(c)
  <2>1. /\ pc[c] \in Held /\ connfd' = [connfd EXCEPT ![c] = NoFd]
        /\ valid < Bounds /\ Push(connfd[c])
    BY <1>6 DEF PutKeeps, MayPut, Held
  <2>2. connfd[c] # NoFd
    BY <2>1 DEF CltInv, PhaseInv
  <2>3. connfd[c] \in Fds \ Pooled
    BY <2>2, RoomForLent
  <2>4. Pooled' = Pooled \cup {connfd[c]}
    BY <2>1, <2>3, PushAdds
  <2> QED  BY <2>1, <2>2, <2>4 DEF Abstract!GiveBack
<1>7. ASSUME NEW c \in Callers, Reconnects(c)  PROVE Abstract!Create
  <2>1. pc[c] = "reconnect" /\ Push(NewFd) /\ connfd' = connfd
    BY <1>7 DEF Reconnects
  <2>2. Cardinality(open) < Bounds /\ valid < Bounds
    BY <2>1, Reconnecting, Sizes
  <2> QED  BY <2>1, <2>2, AbstractCreate
<1>8. ASSUME NEW c \in Callers, Thread(c)
      PROVE  \/ Get(c) \/ Fails(c) \/ PutCloses(c) \/ PutKeeps(c) \/ Reconnects(c)
             \/ UNCHANGED <<fdArray, valid, connfd>>
  BY <1>8 DEF Thread, Runs, GetFails, Send, SendBlocks, SendEnds, Receive, TimesOut,
       ReconnectRefused, poolVars
<1>9. CASE UNCHANGED vars \/ InitReturns \/ \E f \in Fds : ServerAnswers(f) \/ ServerFinishes(f)
  <2>1. UNCHANGED <<fdArray, valid, connfd>>
    BY <1>9 DEF vars, InitReturns, ServerAnswers, ServerFinishes, poolVars, threadVars
  <2> QED  BY <1>1, <2>1
<1>10. ASSUME NEW c \in Callers, Thread(c)  PROVE [Abstract!Next]_(Abstract!vars)
  BY <1>1, <1>4, <1>5, <1>6, <1>7, <1>8, <1>10 DEF Abstract!Next
<1> QED  BY <1>2, <1>3, <1>9, <1>10 DEF Next, MainStep

\* The C connection pool implements the abstract pool: although the numbers of
\* closed connections come back, none is lent twice, or lent and in the pool.
THEOREM CltPoolRefines == Spec => ImplementsConnectionPool
<1>1. Init => Abstract!Init
  BY AbstractInit
<1>2. CltInv /\ [Next]_vars => [Abstract!Next]_(Abstract!vars)
  BY AbstractStep
<1> QED
  BY <1>1, <1>2, CltInvariant, PTL DEF Spec, ImplementsConnectionPool, Abstract!Spec

-----------------------------------------------------------------------------
(* What the connections carry that are in order *)

Owned(c, s) == \A i \in 1 .. Len(s) : s[i][1] = c

\* Closed and pooled connections carry nothing; those of a thread, its messages;
\* except for the stray ones.
StreamInv ==
  /\ \A f \in Fds \ stray : f \notin open \/ f \in Pooled => asked[f] = <<>> /\ answers[f] = <<>>
  /\ \A c \in Callers : connfd[c] # NoFd /\ connfd[c] \notin stray =>
       Owned(c, asked[connfd[c]]) /\ Owned(c, answers[connfd[c]])

LEMMA OwnedRest ==
  ASSUME NEW s \in Seq(Messages), s # <<>>, NEW c, Owned(c, s)
  PROVE  Owned(c, Tail(s)) /\ Head(s)[1] = c
<1>1. /\ Len(s) \in Nat /\ 1 \in 1 .. Len(s) /\ Head(s) = s[1] /\ Len(Tail(s)) = Len(s) - 1
      /\ \A i \in 1 .. Len(Tail(s)) : i + 1 \in 1 .. Len(s) /\ Tail(s)[i] = s[i + 1]
  OBVIOUS
<1> QED  BY <1>1 DEF Owned

LEMMA OwnedMore ==
  ASSUME NEW s \in Seq(Messages), NEW m \in Messages, NEW c, Owned(c, s), m[1] = c
  PROVE  Owned(c, Append(s, m))
<1>1. /\ Len(s) \in Nat /\ Len(Append(s, m)) = Len(s) + 1 /\ Append(s, m)[Len(s) + 1] = m
      /\ \A i \in 1 .. Len(s) : Append(s, m)[i] = s[i]
      /\ \A i \in 1 .. Len(s) + 1 : i \in 1 .. Len(s) \/ i = Len(s) + 1
  OBVIOUS
<1> QED  BY <1>1 DEF Owned

\* Steps that touch no stream and lend nothing.
LEMMA QuietKeeps ==
  ASSUME StreamInv, UNCHANGED <<asked, answers, stray>>,
         \A c \in Callers : connfd'[c] \in {connfd[c], NoFd},
         \A f \in Fds : f \notin open' \/ f \in Pooled' => f \notin open \/ f \in Pooled
  PROVE  StreamInv'
BY DEF StreamInv, Owned

LEMMA StreamMain ==
  ASSUME CltInv, StreamInv, MainStep
  PROVE  StreamInv'
<1>1. connfd' = connfd
  BY DEF MainStep, InitConnects, InitRefused, InitReturns, Destroy, threadVars
<1>2. CASE InitConnects
  <2>1. mpc = "init" /\ valid < Bounds /\ Push(NewFd) /\ open' = open \cup {NewFd}
    BY <1>2 DEF InitConnects, Push
  <2>2. Cardinality(open) < Bounds
    BY <2>1 DEF CltInv, CountInv
  <2>3. NewFd \in Fds \ open /\ NewFd \in Fds \ Pooled
    BY <2>2, NewFdIsFree DEF CltInv, OwnInv
  <2>4. Pooled' = Pooled \cup {NewFd}
    BY <2>1, <2>3, PushAdds
  <2> QED  BY <1>1, <1>2, <2>1, <2>3, <2>4, QuietKeeps DEF InitConnects, streamVars
<1>3. CASE InitRefused
  <2>1. open = Pooled
    BY <1>3 DEF InitRefused, CltInv, CountInv
  <2> QED  BY <1>1, <1>3, <2>1, QuietKeeps DEF InitRefused, streamVars
<1>4. CASE InitReturns
  <2>1. UNCHANGED <<fdArray, valid, open, asked, answers, partial, stray>>
    BY <1>4 DEF InitReturns, kernelVars, streamVars
  <2>2. Pooled' = Pooled
    BY <2>1 DEF Pooled
  <2> QED  BY <1>1, <2>1, <2>2, QuietKeeps
<1>5. CASE Destroy
  <2>1. \A c \in Callers : connfd'[c] = NoFd
    BY <1>1, <1>5 DEF Destroy, CltInv, PhaseInv, Held
  <2>2. CASE handle = "live"
    <3>1. /\ open' = open \ Remembered /\ valid' = 0
          /\ asked' = [f \in Fds |-> IF f \in Remembered THEN <<>> ELSE asked[f]]
          /\ answers' = [f \in Fds |-> IF f \in Remembered THEN <<>> ELSE answers[f]]
          /\ stray' = stray \ Remembered
      BY <1>5, <2>2 DEF Destroy, CloseFds
    <3>2. Pooled' = {}
      BY <3>1 DEF Pooled
    <3> QED  BY <2>1, <3>1, <3>2 DEF StreamInv
  <2>3. CASE handle # "live"
    <3>1. UNCHANGED <<fdArray, valid, open, asked, answers, partial, stray>>
      BY <1>5, <2>3 DEF Destroy, streamVars
    <3>2. Pooled' = Pooled
      BY <3>1 DEF Pooled
    <3> QED  BY <1>1, <3>1, <3>2, QuietKeeps
  <2> QED  BY <2>2, <2>3
<1> QED  BY <1>2, <1>3, <1>4, <1>5 DEF MainStep

LEMMA StreamGet == ASSUME CltInv, StreamInv, NEW c \in Callers, Get(c)  PROVE StreamInv'
<1>1. /\ valid > 0 /\ valid' = valid - 1 /\ fdArray' = fdArray
      /\ connfd' = [connfd EXCEPT ![c] = GetTop]
      /\ UNCHANGED <<open, asked, answers, partial, stray>>
  BY DEF Get, MayGet, kernelVars, streamVars
<1>2. GetTop \in Pooled /\ Pooled' \subseteq Pooled /\ GetTop \in Fds
  BY <1>1, PopTakes, Sizes
<1>3. GetTop \notin stray => asked[GetTop] = <<>> /\ answers[GetTop] = <<>>
  BY <1>2 DEF StreamInv
<1>4. connfd'[c] = GetTop /\ \A d \in Callers : d # c => connfd'[d] = connfd[d]
  BY <1>1 DEF CltInv, TypeOK
<1> HIDE DEF GetTop
<1>5. \A d \in Callers : connfd'[d] # NoFd /\ connfd'[d] \notin stray' =>
        Owned(d, asked'[connfd'[d]]) /\ Owned(d, answers'[connfd'[d]])
  <2>1. Owned(c, <<>>)
    BY DEF Owned
  <2> QED  BY <1>1, <1>3, <1>4, <2>1 DEF StreamInv
<1> QED  BY <1>1, <1>2, <1>5 DEF StreamInv, Owned

\* A thread's steps on the connection it has.
LEMMA StreamOwn ==
  ASSUME CltInv, StreamInv, NEW c \in Callers, connfd[c] # NoFd,
         NEW a \in Seq(Messages), NEW b \in Seq(Messages),
         connfd[c] \notin stray => Owned(c, a) /\ Owned(c, b),
         asked' = [asked EXCEPT ![connfd[c]] = a],
         answers' = [answers EXCEPT ![connfd[c]] = b],
         UNCHANGED <<fdArray, valid, open, connfd, stray>>
  PROVE  StreamInv'
<1>1. connfd[c] \in open \ Pooled /\ connfd[c] \in Fds
  BY RoomForLent
<1>2. Pooled' = Pooled
  BY DEF Pooled
<1>3. /\ asked'[connfd[c]] = a /\ answers'[connfd[c]] = b
      /\ \A f \in Fds : f # connfd[c] => asked'[f] = asked[f] /\ answers'[f] = answers[f]
  BY <1>1 DEF CltInv, TypeOK
<1>4. \A d \in Callers : d # c /\ connfd[d] # NoFd => connfd[d] # connfd[c] /\ connfd[d] \in Fds
  BY DEF CltInv, OwnInv, TypeOK
<1>5. \A d \in Callers : connfd'[d] # NoFd /\ connfd'[d] \notin stray' =>
        Owned(d, asked'[connfd'[d]]) /\ Owned(d, answers'[connfd'[d]])
  BY <1>3, <1>4 DEF StreamInv
<1>6. \A f \in Fds \ stray' : f \notin open' \/ f \in Pooled' => asked'[f] = <<>> /\ answers'[f] = <<>>
  BY <1>1, <1>2, <1>3 DEF StreamInv
<1> QED  BY <1>5, <1>6 DEF StreamInv, Owned

LEMMA StreamSend ==
  ASSUME CltInv, StreamInv, NEW c \in Callers, Send(c) \/ SendEnds(c) \/ Receive(c)
  PROVE  StreamInv'
<1>1. pc[c] \in {"send", "sending", "recv"} /\ UNCHANGED <<fdArray, valid, open, connfd, stray>>
  BY DEF Send, SendEnds, Receive, poolVars, kernelVars
<1>2. connfd[c] # NoFd /\ round[c] \in 1 .. Rounds
  BY <1>1 DEF CltInv, PhaseInv, Held
<1>3. connfd[c] \in Fds
  BY <1>2, RoomForLent
<1>4. PICK a \in Seq(Messages) : a = asked[connfd[c]]
  BY <1>3 DEF CltInv, TypeOK
<1>5. PICK b \in Seq(Messages) : b = answers[connfd[c]]
  BY <1>3 DEF CltInv, TypeOK
<1>6. /\ connfd[c] \notin stray => Owned(c, a) /\ Owned(c, b)
      /\ asked = [asked EXCEPT ![connfd[c]] = a] /\ answers = [answers EXCEPT ![connfd[c]] = b]
  BY <1>2, <1>4, <1>5 DEF StreamInv, CltInv, TypeOK
<1>7. CASE Send(c) \/ SendEnds(c)
  <2>1. /\ asked' = [asked EXCEPT ![connfd[c]] = Append(a, <<c, round[c]>>)]
        /\ answers' = [answers EXCEPT ![connfd[c]] = b]
    BY <1>4, <1>6, <1>7 DEF Send, SendEnds, Ask
  <2>2. <<c, round[c]>> \in Messages
    BY <1>2 DEF Messages
  <2>3. Append(a, <<c, round[c]>>) \in Seq(Messages)
    BY <2>2
  <2>4. connfd[c] \notin stray => Owned(c, Append(a, <<c, round[c]>>)) /\ Owned(c, b)
    BY <1>6, <2>2, OwnedMore
  <2> QED  BY <1>1, <1>2, <2>1, <2>3, <2>4, StreamOwn
<1>8. CASE Receive(c)
  <2>1. /\ asked' = [asked EXCEPT ![connfd[c]] = a] /\ b # <<>>
        /\ answers' = [answers EXCEPT ![connfd[c]] = Tail(b)]
    BY <1>5, <1>6, <1>8 DEF Receive, Whole
  <2>2. Tail(b) \in Seq(Messages)
    BY <2>1
  <2>3. connfd[c] \notin stray => Owned(c, a) /\ Owned(c, Tail(b))
    BY <1>6, <2>1, OwnedRest
  <2> QED  BY <1>1, <1>2, <2>1, <2>2, <2>3, StreamOwn
<1> QED  BY <1>7, <1>8

LEMMA StreamServer ==
  ASSUME CltInv, StreamInv, NEW f \in Fds, ServerAnswers(f)
  PROVE  StreamInv'
<1>1. /\ f \in open /\ asked[f] # <<>> /\ asked' = [asked EXCEPT ![f] = Tail(@)]
      /\ \/ answers' = [answers EXCEPT ![f] = Append(@, Head(asked[f]))]
         \/ answers' = answers
      /\ UNCHANGED <<fdArray, valid, open, connfd, stray>>
  BY DEF ServerAnswers, poolVars, kernelVars, threadVars
<1>2. Pooled' = Pooled /\ (f \in stray \/ f \notin Pooled)
  BY <1>1 DEF Pooled, StreamInv
<1>3. asked[f] \in Seq(Messages) /\ answers[f] \in Seq(Messages)
  BY DEF CltInv, TypeOK
<1>4. \A g \in Fds : g # f => asked'[g] = asked[g] /\ answers'[g] = answers[g]
  BY <1>1 DEF CltInv, TypeOK
<1>5. /\ asked'[f] = Tail(asked[f])
      /\ answers'[f] = Append(answers[f], Head(asked[f])) \/ answers'[f] = answers[f]
  BY <1>1 DEF CltInv, TypeOK
<1>6. ASSUME NEW c \in Callers, connfd'[c] # NoFd, connfd'[c] \notin stray'
      PROVE  Owned(c, asked'[connfd'[c]]) /\ Owned(c, answers'[connfd'[c]])
  <2>1. /\ connfd'[c] = connfd[c] /\ connfd[c] \in Fds
        /\ Owned(c, asked[connfd[c]]) /\ Owned(c, answers[connfd[c]])
    BY <1>1, <1>6 DEF StreamInv, CltInv, TypeOK
  <2>2. CASE connfd[c] # f
    BY <1>4, <2>1, <2>2
  <2>3. CASE connfd[c] = f
    <3>1. Owned(c, Tail(asked[f])) /\ Head(asked[f])[1] = c
      BY <1>1, <1>3, <2>1, <2>3, OwnedRest
    <3>2. Head(asked[f]) \in Messages
      BY <1>1, <1>3
    <3>3. Owned(c, Append(answers[f], Head(asked[f])))
      BY <1>3, <2>1, <2>3, <3>1, <3>2, OwnedMore
    <3> QED  BY <1>5, <2>1, <2>3, <3>1, <3>3
  <2> QED  BY <2>2, <2>3
<1>7. \A g \in Fds \ stray' : g \notin open' \/ g \in Pooled' => asked'[g] = <<>> /\ answers'[g] = <<>>
  BY <1>1, <1>2, <1>4 DEF StreamInv
<1> QED  BY <1>6, <1>7 DEF StreamInv, Owned

LEMMA StreamFinishes ==
  ASSUME CltInv, StreamInv, NEW f \in Fds, ServerFinishes(f)
  PROVE  StreamInv'
<1>1. UNCHANGED <<fdArray, valid, open, connfd, asked, answers, stray>>
  BY DEF ServerFinishes, poolVars, kernelVars, threadVars
<1>2. Pooled' = Pooled
  BY <1>1 DEF Pooled
<1> QED  BY <1>1, <1>2, QuietKeeps

LEMMA StreamThread ==
  ASSUME CltInv, StreamInv, NEW c \in Callers, Thread(c)
  PROVE  StreamInv'
<1>1. CASE GetFails(c) \/ SendBlocks(c) \/ TimesOut(c) \/ Fails(c)
  <2>1. /\ UNCHANGED <<fdArray, valid, open, asked, answers, partial, stray>>
        /\ connfd' \in {connfd, [connfd EXCEPT ![c] = NoFd]}
    BY <1>1 DEF GetFails, SendBlocks, TimesOut, Fails, poolVars, kernelVars, streamVars
  <2>2. Pooled' = Pooled /\ \A d \in Callers : connfd'[d] \in {connfd[d], NoFd}
    BY <2>1 DEF Pooled, CltInv, TypeOK
  <2> QED  BY <2>1, <2>2, QuietKeeps
<1>2. CASE PutKeeps(c)
  <2>1. /\ pc[c] = "put" /\ valid < Bounds /\ Push(connfd[c])
        /\ connfd' = [connfd EXCEPT ![c] = NoFd]
        /\ stray' = IF UnderWay(connfd[c]) THEN stray \cup {connfd[c]} ELSE stray
        /\ UNCHANGED <<open, asked, answers>>
    BY <1>2 DEF PutKeeps, MayPut, kernelVars
  <2>2. connfd[c] \in Fds \ Pooled
    <3>1. connfd[c] # NoFd
      BY <2>1 DEF CltInv, PhaseInv, Held
    <3> QED  BY <3>1, RoomForLent
  <2>3. Pooled' = Pooled \cup {connfd[c]}
    BY <2>1, <2>2, PushAdds
  <2>4. \A f \in Fds \ stray' : f \notin open' \/ f \in Pooled' => asked'[f] = <<>> /\ answers'[f] = <<>>
    BY <2>1, <2>2, <2>3 DEF StreamInv, UnderWay
  <2>5. \A d \in Callers : connfd'[d] \in {connfd[d], NoFd}
    BY <2>1 DEF CltInv, TypeOK
  <2>6. stray \subseteq stray'
    BY <2>1
  <2> QED  BY <2>1, <2>4, <2>5, <2>6 DEF StreamInv, Owned
<1>3. CASE PutCloses(c)
  <2>1. /\ pc[c] = "put" /\ open' = open \ {connfd[c]} /\ UNCHANGED <<fdArray, valid>>
        /\ connfd' = [connfd EXCEPT ![c] = NoFd]
        /\ asked' = [f \in Fds |-> IF f \in {connfd[c]} THEN <<>> ELSE asked[f]]
        /\ answers' = [f \in Fds |-> IF f \in {connfd[c]} THEN <<>> ELSE answers[f]]
        /\ stray' = stray \ {connfd[c]}
    BY <1>3 DEF PutCloses, MayPut, CloseFds
  <2>2. Pooled' = Pooled
    BY <2>1 DEF Pooled
  <2>3. \A f \in Fds \ stray' : f \notin open' \/ f \in Pooled' => asked'[f] = <<>> /\ answers'[f] = <<>>
    BY <2>1, <2>2 DEF StreamInv
  <2>4. ASSUME NEW d \in Callers, connfd'[d] # NoFd, connfd'[d] \notin stray'
        PROVE  Owned(d, asked'[connfd'[d]]) /\ Owned(d, answers'[connfd'[d]])
    <3>1. d # c /\ connfd'[d] = connfd[d] /\ connfd[d] \in Fds
      BY <2>1, <2>4 DEF CltInv, TypeOK
    <3>2. connfd[d] # connfd[c]
      BY <2>4, <3>1 DEF CltInv, OwnInv
    <3>3. Owned(d, asked[connfd[d]]) /\ Owned(d, answers[connfd[d]])
      BY <2>1, <2>4, <3>1, <3>2 DEF StreamInv
    <3> QED  BY <2>1, <3>1, <3>2, <3>3
  <2> QED  BY <2>3, <2>4 DEF StreamInv, Owned
<1>4. CASE Reconnects(c)
  <2>1. /\ pc[c] = "reconnect" /\ Push(NewFd) /\ open' = open \cup {NewFd}
        /\ UNCHANGED <<connfd, asked, answers, partial, stray>>
    BY <1>4 DEF Reconnects, streamVars
  <2>2. NewFd \in Fds \ open /\ NewFd \in Fds \ Pooled /\ valid < Bounds
    BY <2>1, Reconnecting DEF CltInv, OwnInv
  <2>3. Pooled' = Pooled \cup {NewFd}
    BY <2>1, <2>2, PushAdds
  <2> QED  BY <2>1, <2>2, <2>3, QuietKeeps
<1>5. CASE ReconnectRefused(c)
  <2>1. /\ open' = open \cup {NewFd} /\ UNCHANGED <<fdArray, valid, connfd, asked, answers, partial, stray>>
    BY <1>5 DEF ReconnectRefused, Refused, streamVars
  <2>2. Pooled' = Pooled
    BY <2>1 DEF Pooled
  <2> QED  BY <2>1, <2>2, QuietKeeps
<1> QED  BY <1>1, <1>2, <1>3, <1>4, <1>5, StreamGet, StreamSend DEF Thread, Runs

\* What is under way on a thread's connection belongs to the thread, however many
\* threads used it before, unless one of them put it back with 1 too early: answers
\* that come after sckClient_rev has timed out are never read by another thread.
THEOREM AnswersStayApart == Spec => []NoForeignAnswer
<1>1. Init => StreamInv
  BY DEF Init, StreamInv
<1>2. CltInv /\ StreamInv /\ [Next]_vars => StreamInv'
  <2> SUFFICES ASSUME CltInv, StreamInv, [Next]_vars  PROVE StreamInv'
    OBVIOUS
  <2>1. CASE UNCHANGED vars
    <3>1. UNCHANGED <<fdArray, valid, open, connfd, asked, answers, partial, stray>>
      BY <2>1 DEF vars, poolVars, kernelVars, threadVars, streamVars
    <3>2. Pooled' = Pooled
      BY <3>1 DEF Pooled
    <3> QED  BY <3>1, <3>2, QuietKeeps
  <2> QED  BY <2>1, StreamMain, StreamThread, StreamServer, StreamFinishes DEF Next
<1>3. StreamInv => NoForeignAnswer
  BY DEF StreamInv, Owned, NoForeignAnswer
<1> QED  BY <1>1, <1>2, <1>3, CltInvariant, PTL DEF Spec

=============================================================================

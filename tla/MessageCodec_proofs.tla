------------------------ MODULE MessageCodec_proofs ------------------------
(***************************************************************************)
(* Proofs about MessageCodec: what the codecs encode is decoded again,     *)
(* whole, cut short or joined, whatever the texts and the numbers are: a   *)
(* text may hold any bytes, the zero byte too, at which recvMsg cuts.      *)
(*                                                                         *)
(* The argument follows the bytes.  A varint ends where it was written to  *)
(* end, and what is before its end does not end; so a field that was       *)
(* written is read back, and the beginning of one is read as the beginning *)
(* of its text or as no field at all.  A message is five pieces, each a    *)
(* field or nothing, and reading goes over them one after the other; for   *)
(* the number of fields is not bounded, the two recursive functions of     *)
(* FieldsOf and ReadFields are followed by induction.  The invariant of    *)
(* the specification only says which message each string was written of.   *)
(***************************************************************************)
EXTENDS MessageCodec, SequenceTheorems, WellFoundedInduction, TLAPS

-----------------------------------------------------------------------------
(* Varints *)

\* The range of an int32, as the provers need it.
LEMMA Range32 ==
  /\ \A n \in Int32 : n \in Int /\ n >= -2147483648 /\ n <= 2147483647
  /\ \A n \in Int : n >= -2147483648 /\ n <= 2147483647 => n \in Int32
<1>1. INT_MAX \in Int /\ INT_MAX = 2147483647
  BY SMT DEF INT_MAX
<1>2. INT_MAX \in Int
  BY <1>1, SMT
<1>3. \A n : n \in Int32 <=> n \in Int /\ -INT_MAX - 1 <= n /\ n <= INT_MAX
  BY <1>2, SMT DEF Int32
<1> QED  BY <1>1, <1>3, SMT

\* The groups of seven bits of a number, the fifth of four bits and a sign.
LEMMA Groups ==
  ASSUME NEW n \in Int32
  PROVE  /\ n = (n % 128) + 128 * ((n \div 128) % 128) + 16384 * ((n \div 16384) % 128)
                + 2097152 * ((n \div 2097152) % 128) + 268435456 * (n \div 268435456)
         /\ n \div 268435456 \in -8 .. 7
         /\ n \div 1 = n
<1>1. n \in Int /\ n >= -2147483648 /\ n <= 2147483647
  BY Range32, SMT
<1> DEFINE a == n \div 128  b == a \div 128  c == b \div 128  d == c \div 128
<1>2. n = (n % 128) + 128 * a /\ a \in Int
  BY <1>1, SMT
<1>3. a = (a % 128) + 128 * b /\ b \in Int
  BY <1>2, SMT
<1>4. b = (b % 128) + 128 * c /\ c \in Int
  BY <1>3, SMT
<1>5. c = (c % 128) + 128 * d /\ d \in Int
  BY <1>4, SMT
<1>6. b = n \div 16384
  BY <1>1, SMT
<1>7. c = n \div 2097152
  BY <1>1, SMT
<1>8. d = n \div 268435456
  BY <1>1, SMT
<1>9. d \in -8 .. 7
  BY <1>1, <1>8, SMT
<1>10. n \div 1 = n
  BY <1>1, SMT
<1> HIDE DEF a, b, c, d
<1>11. n = (n % 128) + 128 * (a % 128) + 16384 * (b % 128) + 2097152 * (c % 128) + 268435456 * d
  BY <1>1, <1>2, <1>3, <1>4, <1>5, <1>9, SMT
<1> USE DEF a
<1> QED  BY <1>6, <1>7, <1>8, <1>9, <1>10, <1>11, SMT

\* All bytes of a varint but the last have the highest bit, none is zero unless
\* the number is, and it has the size computed for it.
LEMMA VarintShape ==
  ASSUME NEW n \in Int32
  PROVE  /\ Varint(n) \in Bytes /\ Len(Varint(n)) \in 1 .. 10 /\ Len(Varint(n)) = Int32Size(n)
         /\ \A i \in 1 .. Len(Varint(n)) :
              /\ Varint(n)[i] \in 0 .. 255
              /\ (Varint(n)[i] < 128 <=> i = Len(Varint(n)))
              /\ (n # 0 => Varint(n)[i] # 0)
         /\ VarintValue(Varint(n), Len(Varint(n))) = n
<1>1. n \in Int /\ n >= -2147483648 /\ n <= 2147483647
  BY Range32, SMT
<1> DEFINE a == n % 128  b == (n \div 128) % 128  c == (n \div 16384) % 128
           d == (n \div 2097152) % 128  e == n \div 268435456
<1>2. a \in 0 .. 127 /\ b \in 0 .. 127 /\ c \in 0 .. 127 /\ d \in 0 .. 127 /\ e \in -8 .. 7
  BY <1>1, Groups, SMT
<1>3. n = a + 128 * b + 16384 * c + 2097152 * d + 268435456 * e
  BY Groups, SMT
<1>4. n \div 1 = n
  BY Groups, SMT
<1> HIDE DEF a, b, c, d, e
<1>5. CASE 0 <= n /\ n < 128
  <2>1. PICK s : s = Varint(n)
    OBVIOUS
  <2>2. s = <<a>>
    BY <1>1, <1>5, <2>1, SMT DEF Varint, a, b, c, d, e
  <2>3. Int32Size(n) = 1
    BY <1>1, <1>5, SMT DEF Int32Size
  <2>4. n = a /\ b = 0 /\ c = 0 /\ d = 0 /\ e = 0
    BY <1>1, <1>2, <1>3, <1>5, SMT
  <2>5. s \in Bytes /\ Len(s) = 1
    BY <1>2, <2>2, <2>4 DEF Bytes, Byte
  <2>6. \A i \in 1 .. Len(s) : s[i] \in 0 .. 255 /\ (s[i] < 128 <=> i = Len(s)) /\ (n # 0 => s[i] # 0)
    BY <1>2, <2>2, <2>4
  <2>7. s[1] % 128 = a
    BY <1>2, <2>2, <2>4
  <2>8. VarintValue(s, 1) = n
    BY <1>2, <1>3, <2>2, <2>4, <2>7, SMT DEF VarintValue
  <2> QED  BY <2>1, <2>3, <2>5, <2>6, <2>8
<1>6. CASE 128 <= n /\ n < 16384
  <2>1. PICK s : s = Varint(n)
    OBVIOUS
  <2>2. s = <<128 + a, b>>
    BY <1>1, <1>6, <2>1, SMT DEF Varint, a, b, c, d, e
  <2>3. Int32Size(n) = 2
    BY <1>1, <1>6, SMT DEF Int32Size
  <2>4. b # 0 /\ c = 0 /\ d = 0 /\ e = 0
    BY <1>1, <1>2, <1>3, <1>6, SMT
  <2>5. s \in Bytes /\ Len(s) = 2
    BY <1>2, <2>2, <2>4 DEF Bytes, Byte
  <2>6. \A i \in 1 .. Len(s) : s[i] \in 0 .. 255 /\ (s[i] < 128 <=> i = Len(s)) /\ (n # 0 => s[i] # 0)
    BY <1>2, <2>2, <2>4
  <2>7. s[1] % 128 = a /\ s[2] % 128 = b
    BY <1>2, <2>2, <2>4
  <2>8. VarintValue(s, 2) = n
    BY <1>2, <1>3, <2>2, <2>4, <2>7, SMT DEF VarintValue
  <2> QED  BY <2>1, <2>3, <2>5, <2>6, <2>8
<1>7. CASE 16384 <= n /\ n < 2097152
  <2>1. PICK s : s = Varint(n)
    OBVIOUS
  <2>2. s = <<128 + a, 128 + b, c>>
    BY <1>1, <1>7, <2>1, SMT DEF Varint, a, b, c, d, e
  <2>3. Int32Size(n) = 3
    BY <1>1, <1>7, SMT DEF Int32Size
  <2>4. c # 0 /\ d = 0 /\ e = 0
    BY <1>1, <1>2, <1>3, <1>7, SMT
  <2>5. s \in Bytes /\ Len(s) = 3
    BY <1>2, <2>2, <2>4 DEF Bytes, Byte
  <2>6. \A i \in 1 .. Len(s) : s[i] \in 0 .. 255 /\ (s[i] < 128 <=> i = Len(s)) /\ (n # 0 => s[i] # 0)
    BY <1>2, <2>2, <2>4
  <2>7. s[1] % 128 = a /\ s[2] % 128 = b /\ s[3] % 128 = c
    BY <1>2, <2>2, <2>4
  <2>8. VarintValue(s, 3) = n
    BY <1>2, <1>3, <2>2, <2>4, <2>7, SMT DEF VarintValue
  <2> QED  BY <2>1, <2>3, <2>5, <2>6, <2>8
<1>8. CASE 2097152 <= n /\ n < 268435456
  <2>1. PICK s : s = Varint(n)
    OBVIOUS
  <2>2. s = <<128 + a, 128 + b, 128 + c, d>>
    BY <1>1, <1>8, <2>1, SMT DEF Varint, a, b, c, d, e
  <2>3. Int32Size(n) = 4
    BY <1>1, <1>8, SMT DEF Int32Size
  <2>4. d # 0 /\ e = 0
    BY <1>1, <1>2, <1>3, <1>8, SMT
  <2>5. s \in Bytes /\ Len(s) = 4
    BY <1>2, <2>2, <2>4 DEF Bytes, Byte
  <2>6. \A i \in 1 .. Len(s) : s[i] \in 0 .. 255 /\ (s[i] < 128 <=> i = Len(s)) /\ (n # 0 => s[i] # 0)
    BY <1>2, <2>2, <2>4
  <2>7. s[1] % 128 = a /\ s[2] % 128 = b /\ s[3] % 128 = c /\ s[4] % 128 = d
    BY <1>2, <2>2, <2>4
  <2>8. VarintValue(s, 4) = n
    BY <1>2, <1>3, <2>2, <2>4, <2>7, SMT DEF VarintValue
  <2> QED  BY <2>1, <2>3, <2>5, <2>6, <2>8
<1>9. CASE 268435456 <= n
  <2>1. PICK s : s = Varint(n)
    OBVIOUS
  <2>2. s = <<128 + a, 128 + b, 128 + c, 128 + d, e>>
    BY <1>1, <1>9, <2>1, SMT DEF Varint, a, b, c, d, e
  <2>3. Int32Size(n) = 5
    BY <1>1, <1>9, SMT DEF Int32Size
  <2>4. e \in 1 .. 7
    BY <1>1, <1>2, <1>3, <1>9, SMT
  <2>5. s \in Bytes /\ Len(s) = 5
    BY <1>2, <2>2, <2>4 DEF Bytes, Byte
  <2>6. \A i \in 1 .. Len(s) : s[i] \in 0 .. 255 /\ (s[i] < 128 <=> i = Len(s)) /\ (n # 0 => s[i] # 0)
    BY <1>2, <2>2, <2>4
  <2>7. s[1] % 128 = a /\ s[2] % 128 = b /\ s[3] % 128 = c /\ s[4] % 128 = d /\ (s[5] % 128) % 16 = e
    BY <1>2, <2>2, <2>4
  <2>8. VarintValue(s, 5) = n
    BY <1>2, <1>3, <2>2, <2>4, <2>7, SMT DEF VarintValue
  <2> QED  BY <2>1, <2>3, <2>5, <2>6, <2>8
<1>10. CASE n < 0
  <2>1. PICK s : s = Varint(n)
    OBVIOUS
  <2>2. s = <<128 + a, 128 + b, 128 + c, 128 + d, 256 + e, 255, 255, 255, 255, 1>>
    BY <1>1, <1>10, <2>1, SMT DEF Varint, a, b, c, d, e
  <2>3. Int32Size(n) = 10
    BY <1>1, <1>10, SMT DEF Int32Size
  <2>4. e \in -8 .. -1
    BY <1>1, <1>2, <1>3, <1>10, SMT
  <2>5. s \in Bytes /\ Len(s) = 10
    BY <1>2, <2>2, <2>4 DEF Bytes, Byte
  <2>6. \A i \in 1 .. Len(s) : s[i] \in 0 .. 255 /\ (s[i] < 128 <=> i = Len(s)) /\ (n # 0 => s[i] # 0)
    BY <1>2, <2>2, <2>4
  <2>7. s[1] % 128 = a /\ s[2] % 128 = b /\ s[3] % 128 = c /\ s[4] % 128 = d /\ (s[5] % 128) % 16 = 16 + e
    BY <1>2, <2>2, <2>4
  <2>8. VarintValue(s, 10) = n
    BY <1>2, <1>3, <2>2, <2>4, <2>7, SMT DEF VarintValue
  <2> QED  BY <2>1, <2>3, <2>5, <2>6, <2>8
<1> QED  BY <1>1, <1>5, <1>6, <1>7, <1>8, <1>9, <1>10, SMT
-----------------------------------------------------------------------------
(* Beginnings and rests of a string that was put together *)

\* Two strings joined are each found again.
LEMMA AfterFirst ==
  ASSUME NEW w \in Bytes, NEW t \in Bytes
  PROVE  /\ w \o t \in Bytes /\ Len(w \o t) = Len(w) + Len(t)
         /\ SubSeq(w \o t, 1, Len(w)) = w
         /\ SubSeq(w \o t, Len(w) + 1, Len(w \o t)) = t
<1>1. w \o t \in Bytes /\ Len(w \o t) = Len(w) + Len(t) /\ Len(w) \in Nat /\ Len(t) \in Nat
  BY DEF Bytes
<1>2. \A i \in 1 .. Len(w) + Len(t) : (w \o t)[i] = IF i <= Len(w) THEN w[i] ELSE t[i - Len(w)]
  BY DEF Bytes
<1>3. SubSeq(w \o t, 1, Len(w)) = w
  <2>1. \A i \in 1 .. Len(w) : (w \o t)[i] \in Byte
    BY <1>1 DEF Bytes
  <2>2. SubSeq(w \o t, 1, Len(w)) \in Seq(Byte) /\ Len(SubSeq(w \o t, 1, Len(w))) = Len(w)
        /\ \A i \in 1 .. Len(w) : SubSeq(w \o t, 1, Len(w))[i] = (w \o t)[i]
    BY <1>1, <2>1, SubSeqProperties
  <2>3. \A i \in 1 .. Len(w) : SubSeq(w \o t, 1, Len(w))[i] = w[i]
    BY <1>1, <1>2, <2>2
  <2> QED  BY <2>2, <2>3, SeqEqual DEF Bytes
<1>4. SubSeq(w \o t, Len(w) + 1, Len(w \o t)) = t
  <2> DEFINE r == SubSeq(w \o t, Len(w) + 1, Len(w) + Len(t))
  <2>1. \A i \in Len(w) + 1 .. Len(w) + Len(t) : (w \o t)[i] \in Byte
    BY <1>1 DEF Bytes
  <2>2. r \in Seq(Byte) /\ Len(r) = Len(t)
        /\ \A i \in 1 .. Len(t) : r[i] = (w \o t)[Len(w) + 1 + i - 1]
    BY <1>1, <2>1, SubSeqProperties
  <2> HIDE DEF r
  <2>3. \A i \in 1 .. Len(t) : r[i] = t[i]
    BY <1>1, <1>2, <2>2
  <2>4. r = t
    BY <2>2, <2>3, SeqEqual DEF Bytes
  <2> QED  BY <1>1, <2>4 DEF r
<1> QED  BY <1>1, <1>3, <1>4

\* What is cut off behind n bytes, of the second part or of the first.
LEMMA CutShort ==
  ASSUME NEW w \in Bytes, NEW n \in Nat, n <= Len(w)
  PROVE  /\ SubSeq(w, 1, n) \in Bytes /\ Len(SubSeq(w, 1, n)) = n
         /\ \A i \in 1 .. n : SubSeq(w, 1, n)[i] = w[i]
<1>1. \A i \in 1 .. n : w[i] \in Byte
  BY DEF Bytes
<1> QED  BY <1>1, SubSeqProperties DEF Bytes

\* Cut inside the first of two strings, or inside the second.
LEMMA CutFirst ==
  ASSUME NEW w \in Bytes, NEW t \in Bytes, NEW n \in Nat, n <= Len(w)
  PROVE  SubSeq(w \o t, 1, n) = SubSeq(w, 1, n)
<1>1. w \o t \in Bytes /\ Len(w) \in Nat /\ Len(t) \in Nat /\ Len(w \o t) = Len(w) + Len(t)
  BY DEF Bytes
<1>2. n <= Len(w \o t)
  BY <1>1
<1>3. /\ SubSeq(w, 1, n) \in Bytes /\ Len(SubSeq(w, 1, n)) = n
      /\ \A i \in 1 .. n : SubSeq(w, 1, n)[i] = w[i]
  BY CutShort
<1>4. /\ SubSeq(w \o t, 1, n) \in Bytes /\ Len(SubSeq(w \o t, 1, n)) = n
      /\ \A i \in 1 .. n : SubSeq(w \o t, 1, n)[i] = (w \o t)[i]
  BY <1>1, <1>2, CutShort
<1>5. \A i \in 1 .. n : (w \o t)[i] = w[i]
  BY <1>1 DEF Bytes
<1>6. \A i \in 1 .. n : SubSeq(w \o t, 1, n)[i] = SubSeq(w, 1, n)[i]
  BY <1>3, <1>4, <1>5
<1> QED  BY <1>3, <1>4, <1>6, SeqEqual DEF Bytes

LEMMA CutSecond ==
  ASSUME NEW w \in Bytes, NEW t \in Bytes, NEW n \in Nat, n <= Len(t)
  PROVE  SubSeq(w \o t, 1, Len(w) + n) = w \o SubSeq(t, 1, n)
<1> DEFINE m == Len(w) + n  c == SubSeq(w \o t, 1, m)  u == SubSeq(t, 1, n)
<1>1. w \o t \in Bytes /\ Len(w) \in Nat /\ Len(t) \in Nat /\ Len(w \o t) = Len(w) + Len(t)
  BY DEF Bytes
<1>2. m \in Nat /\ m <= Len(w \o t)
  BY <1>1
<1>3. u \in Bytes /\ Len(u) = n /\ \A i \in 1 .. n : u[i] = t[i]
  BY CutShort
<1>4. c \in Bytes /\ Len(c) = m /\ \A i \in 1 .. m : c[i] = (w \o t)[i]
  <2> HIDE DEF m
  <2> QED  BY <1>1, <1>2, CutShort
<1> HIDE DEF c, u
<1>5. w \o u \in Bytes /\ Len(w \o u) = m
      /\ \A i \in 1 .. m : (w \o u)[i] = IF i <= Len(w) THEN w[i] ELSE u[i - Len(w)]
  BY <1>1, <1>3 DEF Bytes
<1>6. \A i \in 1 .. m : (w \o t)[i] = IF i <= Len(w) THEN w[i] ELSE t[i - Len(w)]
  BY <1>1 DEF Bytes
<1>7. ASSUME NEW i \in 1 .. m  PROVE c[i] = (w \o u)[i]
  <2>1. c[i] = IF i <= Len(w) THEN w[i] ELSE t[i - Len(w)]
    BY <1>4, <1>6
  <2>2. (w \o u)[i] = IF i <= Len(w) THEN w[i] ELSE u[i - Len(w)]
    BY <1>5
  <2>3. ~(i <= Len(w)) => i - Len(w) \in 1 .. n
    BY <1>1
  <2> QED  BY <1>3, <2>1, <2>2, <2>3
<1>8. c = w \o u
  BY <1>4, <1>5, <1>7, SeqEqual DEF Bytes
<1> QED  BY <1>8 DEF c, u
-----------------------------------------------------------------------------
(* Reading a varint back *)

\* A varint that was written is read back, and what follows it is left.
LEMMA VarintRead ==
  ASSUME NEW n \in Int32, NEW t \in Bytes
  PROVE  LET b == Varint(n) \o t
         IN  /\ b \in Bytes /\ b # <<>> /\ VarintEnds(b) # {}
             /\ ReadVarint(b) = n /\ AfterVarint(b) = t
<1> DEFINE v == Varint(n)  b == v \o t  L == Len(v)
<1>1. /\ v \in Bytes /\ L \in 1 .. 10 /\ VarintValue(v, L) = n
      /\ \A i \in 1 .. L : v[i] \in 0 .. 255 /\ (v[i] < 128 <=> i = L)
  <2> HIDE DEF v
  <2>1. /\ Varint(n) \in Bytes /\ Len(Varint(n)) \in 1 .. 10
        /\ VarintValue(Varint(n), Len(Varint(n))) = n
        /\ \A i \in 1 .. Len(Varint(n)) :
              Varint(n)[i] \in 0 .. 255 /\ (Varint(n)[i] < 128 <=> i = Len(Varint(n)))
    BY VarintShape
  <2> QED  BY <2>1 DEF v
<1> HIDE DEF v
<1>2. /\ b \in Bytes /\ Len(b) = L + Len(t) /\ Len(t) \in Nat
      /\ SubSeq(b, L + 1, Len(b)) = t
  BY <1>1, AfterFirst DEF Bytes
<1>3. \A i \in 1 .. L : b[i] = v[i]
  BY <1>1 DEF Bytes
<1> HIDE DEF b
<1>4. L \in VarintEnds(b) /\ \A i \in VarintEnds(b) : L <= i
  <2>1. L \in 1 .. 10 /\ L <= Len(b) /\ b[L] < 128
    <3> HIDE DEF L
    <3>1. L \in 1 .. 10 /\ L <= Len(b)
      BY <1>1, <1>2
    <3>2. L \in 1 .. L
      BY <3>1
    <3>3. b[L] = v[L] /\ v[L] < 128
      BY <1>1, <1>3, <3>2
    <3> QED  BY <3>1, <3>3
  <2>2. ASSUME NEW i \in 1 .. 10, i < L  PROVE ~(b[i] < 128)
    <3>1. i \in 1 .. L /\ i # L
      BY <1>1, <2>2
    <3> QED  BY <1>1, <1>3, <3>1
  <2> HIDE DEF L
  <2>3. L \in VarintEnds(b)
    BY <2>1 DEF VarintEnds
  <2>4. \A i \in VarintEnds(b) : i \in 1 .. 10 /\ b[i] < 128
    BY DEF VarintEnds
  <2> QED  BY <2>1, <2>2, <2>3, <2>4
<1>5. VarintLength(b) = L
  <2>1. \A x, y \in Int : x <= y /\ y <= x => x = y
    OBVIOUS
  <2>2. VarintEnds(b) \subseteq Int
    BY DEF VarintEnds
  <2>3. \A x \in VarintEnds(b) : (\A y \in VarintEnds(b) : x =< y) => x = L
    BY <1>4, <2>1, <2>2
  <2> QED  BY <1>4, <2>3 DEF VarintLength, Min
<1>6. AfterVarint(b) = t
  BY <1>2, <1>5 DEF AfterVarint
<1>7. ReadVarint(b) = VarintValue(b, L)
  BY <1>5 DEF ReadVarint
<1>8. VarintValue(b, L) = VarintValue(v, L)
  <2> DEFINE g(c, i) == IF i <= L THEN c[i] % 128 ELSE 0
  <2>1. g(b, 1) = g(v, 1) /\ g(b, 2) = g(v, 2) /\ g(b, 3) = g(v, 3) /\ g(b, 4) = g(v, 4) /\ g(b, 5) = g(v, 5)
    BY <1>1, <1>3
  <2> QED  BY <2>1, SMT DEF VarintValue
<1>9. b # <<>>
  BY <1>1, <1>2
<1> QED  BY <1>1, <1>2, <1>4, <1>6, <1>7, <1>8, <1>9 DEF b, v

\* A varint cut short has no end.
LEMMA VarintCut ==
  ASSUME NEW n \in Int32, NEW k \in Nat, k < Len(Varint(n))
  PROVE  VarintEnds(SubSeq(Varint(n), 1, k)) = {}
<1>1. Varint(n) \in Bytes /\ Len(Varint(n)) \in 1 .. 10
      /\ \A i \in 1 .. Len(Varint(n)) :
              Varint(n)[i] \in 0 .. 255 /\ (Varint(n)[i] < 128 <=> i = Len(Varint(n)))
  BY VarintShape
<1>2. Len(SubSeq(Varint(n), 1, k)) = k /\ \A i \in 1 .. k : SubSeq(Varint(n), 1, k)[i] = Varint(n)[i]
  BY <1>1, CutShort
<1> QED  BY <1>1, <1>2 DEF VarintEnds
-----------------------------------------------------------------------------
(* Reading a field back *)

\* A number below 128 is written as one byte: every tag is.
LEMMA SmallVarint ==
  ASSUME NEW n \in 0 .. 127
  PROVE  n \in Int32 /\ Varint(n) = <<n>> /\ Varint(n) \in Bytes /\ Len(Varint(n)) = 1
<1>1. n \in Int /\ 0 <= n /\ n < 128
  BY SMT
<1>2. n \in Int32
  BY <1>1, Range32, SMT
<1>3. Varint(n) = <<n>>
  <2>1. n \div 1 % 128 = n
    BY <1>1, SMT
  <2> QED  BY <1>1, <2>1, SMT DEF Varint
<1> QED  BY <1>2, <1>3, VarintShape

\* The first field's tag, and what follows it.
LEMMA TagRead ==
  ASSUME NEW tag \in 0 .. 127, NEW t \in Bytes
  PROVE  LET b == <<tag>> \o t
         IN  /\ b \in Bytes /\ Len(b) = 1 + Len(t) /\ VarintEnds(b) # {}
             /\ ReadVarint(b) = tag /\ AfterVarint(b) = t
<1> DEFINE b == Varint(tag) \o t
<1>1. tag \in Int32 /\ Varint(tag) = <<tag>> /\ Len(Varint(tag)) = 1 /\ Varint(tag) \in Bytes
  BY SmallVarint
<1>2. b \in Bytes /\ VarintEnds(b) # {} /\ ReadVarint(b) = tag /\ AfterVarint(b) = t
  BY <1>1, VarintRead
<1>3. Len(b) = 1 + Len(t)
  BY <1>1, AfterFirst
<1> QED  BY <1>1, <1>2, <1>3

\* The numbers of fields whose tags take one byte.
Numbers == 1 .. 15

\* A number that was written is read back as that field.
LEMMA Int32Read ==
  ASSUME NEW number \in Numbers, NEW v \in Int32, NEW t \in Bytes
  PROVE  /\ WriteInt32(number, v) \in Bytes /\ Len(WriteInt32(number, v)) = 1 + Int32Size(v)
         /\ FieldAt(WriteInt32(number, v) \o t)
              = FieldWith(8 * number, v, <<>>, Varint(v), TRUE, t)
<1> DEFINE tag == 8 * number  body == Varint(v) \o t  b == <<tag>> \o body
<1>1. tag \in 0 .. 127 /\ tag \in Nat /\ tag # 0 /\ tag % 8 = 0
  BY DEF Numbers
<1>2. Varint(v) \in Bytes /\ Len(Varint(v)) = Int32Size(v)
  BY VarintShape
<1> HIDE DEF tag
<1>3. body \in Bytes /\ VarintEnds(body) # {} /\ ReadVarint(body) = v /\ AfterVarint(body) = t
  BY VarintRead
<1> HIDE DEF body
<1>4. b \in Bytes /\ VarintEnds(b) # {} /\ ReadVarint(b) = tag /\ AfterVarint(b) = body
  BY <1>1, <1>3, TagRead
<1>5. <<tag>> \o Varint(v) \in Bytes /\ Len(<<tag>> \o Varint(v)) = 1 + Len(Varint(v))
  BY <1>1, <1>2, TagRead
<1>6. (<<tag>> \o Varint(v)) \o t = b
  <2>1. <<tag>> \in Bytes
    BY <1>1, SmallVarint
  <2> QED  BY <1>2, <2>1, ConcatAssociative DEF Bytes, body
<1> HIDE DEF b
<1>7. FieldAt(b) = FieldWith(tag, v, <<>>, Varint(v), TRUE, t)
  <2>1. tag % 8 # 2 /\ tag % 8 # 1 /\ tag % 8 # 5
    BY <1>1
  <2>2. ReadVarint(b) % 8 = 0 /\ ReadVarint(b) # 0
    BY <1>1, <1>4, Zenon
  <2>3. ~(ReadVarint(b) % 8 = 2) /\ ~(ReadVarint(b) % 8 \in {1, 5})
    BY <1>4, <2>1, Zenon
  <2>4. FieldAt(b) = FieldWith(ReadVarint(b), ReadVarint(AfterVarint(b)), <<>>,
          Varint(ReadVarint(AfterVarint(b))), TRUE, AfterVarint(AfterVarint(b)))
    BY <1>3, <1>4, <2>2, <2>3, Zenon DEF FieldAt
  <2> QED  BY <1>3, <1>4, <2>4, Zenon
<1> QED  BY <1>2, <1>5, <1>6, <1>7 DEF WriteInt32, tag

\* A text is a string of bytes, and its length can be written.
LEMMA TextFacts ==
  ASSUME NEW s \in Text
  PROVE  s \in Bytes /\ Len(s) \in Nat /\ Len(s) \in Int32
<1>1. s \in Bytes /\ Len(s) <= INT_MAX
  BY DEF Text
<1>3. Len(s) \in Nat
  BY <1>1 DEF Bytes
<1>4. INT_MAX \in Int /\ INT_MAX >= 0
  BY SMT DEF INT_MAX
<1>5. Len(s) \in Int32
  BY <1>1, <1>3, <1>4, SMT DEF Int32
<1> QED  BY <1>1, <1>3, <1>5

\* A text that was written is read back as that field.
LEMMA BytesRead ==
  ASSUME NEW number \in Numbers, NEW s \in Text, NEW t \in Bytes
  PROVE  /\ WriteBytes(number, s) \in Bytes /\ Len(WriteBytes(number, s)) = 1 + BytesSize(s)
         /\ FieldAt(WriteBytes(number, s) \o t)
              = FieldWith(8 * number + 2, Len(s), s, Varint(Len(s)) \o s, TRUE, t)
<1> DEFINE tag == 8 * number + 2  n == Len(s)  v == Varint(n)
           data == s \o t  body == v \o data  b == <<tag>> \o body
<1>1. tag \in 0 .. 127 /\ tag \in Nat /\ tag % 8 = 2
  BY DEF Numbers
<1>2. s \in Bytes /\ n \in Nat /\ n \in Int32
  BY TextFacts
<1> HIDE DEF tag, n
<1>3. v \in Bytes /\ Len(v) = Int32Size(n) /\ Len(v) \in Nat
  BY <1>2, VarintShape
<1>4. data \in Bytes /\ Len(data) = n + Len(t) /\ Len(t) \in Nat
      /\ SubSeq(data, 1, n) = s /\ SubSeq(data, n + 1, Len(data)) = t
  BY <1>2, AfterFirst DEF n, Bytes
<1> HIDE DEF data
<1>5. body \in Bytes /\ VarintEnds(body) # {} /\ ReadVarint(body) = n /\ AfterVarint(body) = data
  BY <1>2, <1>4, VarintRead
<1> HIDE DEF body
<1>6. b \in Bytes /\ VarintEnds(b) # {} /\ ReadVarint(b) = tag /\ AfterVarint(b) = body
  BY <1>1, <1>5, TagRead
<1>7. <<tag>> \in Bytes /\ Len(<<tag>>) = 1
  BY <1>1, SmallVarint
<1> HIDE DEF v
<1>8. /\ (<<tag>> \o v) \o s \in Bytes
      /\ Len((<<tag>> \o v) \o s) = 1 + (Int32Size(n) + n)
  BY <1>2, <1>3, <1>7 DEF Bytes, n
<1>9. ((<<tag>> \o v) \o s) \o t = b
  <2>1. <<tag>> \o v \in Bytes
    BY <1>3, <1>7 DEF Bytes
  <2>2. ((<<tag>> \o v) \o s) \o t = (<<tag>> \o v) \o data
    BY <1>2, <2>1, ConcatAssociative DEF Bytes, data
  <2>3. (<<tag>> \o v) \o data = <<tag>> \o (v \o data)
    BY <1>3, <1>4, <1>7, ConcatAssociative DEF Bytes
  <2> QED  BY <2>2, <2>3 DEF body
<1> HIDE DEF b
<1>10. LengthDelimited(tag, n, data) = FieldWith(tag, n, s, v \o s, TRUE, t)
  <2>1. n <= Len(data)
    BY <1>2, <1>4
  <2> QED  BY <1>4, <2>1, Zenon DEF LengthDelimited, v
<1>11. FieldAt(b) = LengthDelimited(tag, n, data)
  <2>1. tag % 8 # 0 /\ tag % 8 # 1 /\ tag % 8 # 5 /\ n >= 0
    BY <1>1, <1>2
  <2>2. ReadVarint(b) % 8 = 2 /\ ReadVarint(AfterVarint(b)) >= 0
    BY <1>1, <1>5, <1>6, <2>1, Zenon
  <2>3. ~(ReadVarint(b) % 8 = 0) /\ ~(ReadVarint(b) % 8 \in {1, 5})
    BY <1>6, <2>1, Zenon
  <2>4. FieldAt(b) = LengthDelimited(ReadVarint(b), ReadVarint(AfterVarint(b)), AfterVarint(AfterVarint(b)))
    BY <1>5, <1>6, <2>2, <2>3, Zenon DEF FieldAt
  <2> QED  BY <1>5, <1>6, <2>4, Zenon
<1> QED  BY <1>8, <1>9, <1>10, <1>11 DEF WriteBytes, tag, v, n, BytesSize, LengthDelimitedSize
-----------------------------------------------------------------------------
(* Reading a field that is cut short *)

\* A tag whose value is not there.
LEMMA NoValue ==
  ASSUME NEW tag \in 0 .. 127, tag % 8 \in {0, 2}, NEW t \in Bytes, VarintEnds(t) = {}
  PROVE  FieldAt(<<tag>> \o t) = NoField
<1> DEFINE b == <<tag>> \o t
<1>1. ReadVarint(b) = tag /\ AfterVarint(b) = t /\ VarintEnds(b) # {}
  BY TagRead
<1>2. tag % 8 # 1 /\ tag % 8 # 5
  OBVIOUS
<1> HIDE DEF b
<1>3. ~(ReadVarint(b) % 8 \in {1, 5}) /\ VarintEnds(AfterVarint(b)) = {}
  BY <1>1, <1>2, Zenon
<1>4. FieldAt(b) = NoField
  BY <1>1, <1>3, Zenon DEF FieldAt
<1> QED  BY <1>4 DEF b

\* The beginning of a number that was written is read as no field.
LEMMA Int32Cut ==
  ASSUME NEW number \in Numbers, NEW v \in Int32,
         NEW k \in Nat, 0 < k, k < Len(WriteInt32(number, v))
  PROVE  FieldAt(SubSeq(WriteInt32(number, v), 1, k)) = NoField
<1> DEFINE tag == 8 * number  j == k - 1  c == SubSeq(Varint(v), 1, j)
<1>1. tag \in 0 .. 127 /\ tag % 8 \in {0, 2}
  BY DEF Numbers
<1> HIDE DEF tag
<1>2. <<tag>> \in Bytes /\ Len(<<tag>>) = 1
  BY <1>1, SmallVarint
<1>3. Varint(v) \in Bytes /\ Len(Varint(v)) \in Nat /\ WriteInt32(number, v) = <<tag>> \o Varint(v)
  BY VarintShape DEF WriteInt32, tag, Bytes
<1>4. j \in Nat /\ j < Len(Varint(v)) /\ k = Len(<<tag>>) + j
  <2>1. Len(<<tag>> \o Varint(v)) = 1 + Len(Varint(v))
    BY <1>2, <1>3, AfterFirst
  <2> QED  BY <1>2, <1>3, <2>1
<1> HIDE DEF j
<1>5. c \in Bytes /\ VarintEnds(c) = {}
  BY <1>3, <1>4, VarintCut, CutShort
<1>6. SubSeq(<<tag>> \o Varint(v), 1, k) = <<tag>> \o c
  BY <1>2, <1>3, <1>4, CutSecond
<1> HIDE DEF c
<1> QED  BY <1>1, <1>3, <1>5, <1>6, NoValue

\* A field that is not whole: nothing can be read, or the beginning of the text s,
\* if it is one: a number has no tag here.
BeginningOf(f, tag, s) ==
  \/ f = NoField
  \/ /\ tag # 0 /\ f.tag = tag /\ f.ok = FALSE /\ f.rest = <<>>
     /\ \E n \in Nat : n <= Len(s) /\ f.val = SubSeq(s, 1, n)

\* The beginning of a text that was written is read as the beginning of the
\* text, or as no field.
LEMMA BytesCut ==
  ASSUME NEW number \in Numbers, NEW s \in Text,
         NEW k \in Nat, 0 < k, k < Len(WriteBytes(number, s))
  PROVE  BeginningOf(FieldAt(SubSeq(WriteBytes(number, s), 1, k)), 8 * number + 2, s)
<1> DEFINE tag == 8 * number + 2  n == Len(s)  v == Varint(n)  w == v \o s  j == k - 1
           f == FieldAt(SubSeq(WriteBytes(number, s), 1, k))
<1>1. tag \in 0 .. 127 /\ tag % 8 \in {0, 2} /\ tag % 8 = 2 /\ tag \in Nat /\ tag # 0
  BY DEF Numbers
<1>2. s \in Bytes /\ n \in Nat /\ n \in Int32
  BY TextFacts
<1> HIDE DEF tag, n
<1>3. v \in Bytes /\ Len(v) \in Nat
  BY <1>2, VarintShape
<1>4. <<tag>> \in Bytes /\ Len(<<tag>>) = 1
  BY <1>1, SmallVarint
<1>5. \A i \in Nat : i < Len(v) => VarintEnds(SubSeq(v, 1, i)) = {}
  BY <1>2, VarintCut
<1> HIDE DEF v
<1>6. w \in Bytes /\ Len(w) = Len(v) + n
  BY <1>2, <1>3, AfterFirst DEF n
<1>7. WriteBytes(number, s) = <<tag>> \o w
  <2>1. WriteBytes(number, s) = (<<tag>> \o v) \o s
    BY DEF WriteBytes, tag, n, v
  <2> QED  BY <1>2, <1>3, <1>4, <2>1, ConcatAssociative DEF Bytes, w
<1> HIDE DEF w
<1>8. j \in Nat /\ j < Len(w) /\ k = Len(<<tag>>) + j
  <2>1. Len(<<tag>> \o w) = 1 + Len(w) /\ Len(w) \in Nat
    BY <1>4, <1>6, AfterFirst DEF Bytes
  <2> QED  BY <1>4, <1>7, <2>1
<1> HIDE DEF j
<1>9. f = FieldAt(<<tag>> \o SubSeq(w, 1, j))
  <2>1. SubSeq(<<tag>> \o w, 1, k) = <<tag>> \o SubSeq(w, 1, j)
    BY <1>4, <1>6, <1>8, CutSecond
  <2> QED  BY <1>7, <2>1
<1> HIDE DEF f
<1>10. CASE j < Len(v)
  <2>1. SubSeq(w, 1, j) = SubSeq(v, 1, j) /\ SubSeq(v, 1, j) \in Bytes
    BY <1>2, <1>3, <1>8, <1>10, CutFirst, CutShort DEF w
  <2>2. f = NoField
    BY <1>1, <1>5, <1>8, <1>9, <1>10, <2>1, NoValue
  <2> QED  BY <2>2 DEF f, BeginningOf
<1>11. CASE Len(v) <= j
  <2> DEFINE left == j - Len(v)  p == SubSeq(s, 1, left)  body == v \o p  b == <<tag>> \o body
  <2>1. left \in Nat /\ left < n /\ j = Len(v) + left
    BY <1>2, <1>3, <1>6, <1>8, <1>11
  <2> HIDE DEF left
  <2>2. p \in Bytes /\ Len(p) = left /\ SubSeq(w, 1, j) = body
    <3>1. left <= Len(s)
      BY <1>2, <2>1 DEF n
    <3>2. p \in Bytes /\ Len(p) = left
      BY <1>2, <2>1, <3>1, CutShort
    <3>3. SubSeq(v \o s, 1, Len(v) + left) = v \o p
      BY <1>2, <1>3, <2>1, <3>1, CutSecond
    <3> QED  BY <2>1, <3>2, <3>3 DEF w
  <2> HIDE DEF p
  <2>3. body \in Bytes /\ VarintEnds(body) # {} /\ ReadVarint(body) = n /\ AfterVarint(body) = p
    BY <1>2, <2>2, VarintRead DEF v
  <2> HIDE DEF body
  <2>4. VarintEnds(b) # {} /\ ReadVarint(b) = tag /\ AfterVarint(b) = body
    BY <1>1, <2>3, TagRead
  <2> HIDE DEF b
  <2>5. FieldAt(b) = LengthDelimited(tag, n, p)
    <3>1. tag % 8 # 0 /\ tag % 8 # 1 /\ tag % 8 # 5 /\ n >= 0
      BY <1>1, <1>2
    <3>2. ReadVarint(b) % 8 = 2 /\ ReadVarint(AfterVarint(b)) >= 0
      BY <1>1, <2>3, <2>4, <3>1, Zenon
    <3>3. ~(ReadVarint(b) % 8 = 0) /\ ~(ReadVarint(b) % 8 \in {1, 5})
      BY <2>4, <3>1, Zenon
    <3>4. FieldAt(b) = LengthDelimited(ReadVarint(b), ReadVarint(AfterVarint(b)), AfterVarint(AfterVarint(b)))
      BY <2>3, <2>4, <3>2, <3>3, Zenon DEF FieldAt
    <3> QED  BY <2>3, <2>4, <3>4, Zenon
  <2>6. ~(n <= Len(p))
    BY <1>2, <2>1, <2>2
  <2>7. f = FieldWith(tag, n, p, Varint(Len(p)) \o p, FALSE, <<>>)
    BY <1>9, <2>2, <2>5, <2>6, Zenon DEF LengthDelimited, b
  <2>8. left <= Len(s)
    BY <1>2, <2>1 DEF n
  <2>9. f.tag = tag /\ f.val = p /\ f.ok = FALSE /\ f.rest = <<>>
    BY <2>7 DEF FieldWith
  <2>10. \E i \in Nat : i <= Len(s) /\ f.val = SubSeq(s, 1, i)
    BY <2>1, <2>8, <2>9 DEF p
  <2>11. BeginningOf(f, tag, s)
    BY <1>1, <2>9, <2>10 DEF BeginningOf
  <2> QED  BY <2>11 DEF tag, f
<1> QED  BY <1>3, <1>8, <1>10, <1>11
-----------------------------------------------------------------------------
(* The fields of a string, and what is read of them *)

\* What holds of 0 and with every number of the next holds of all of them: of
\* those it did not hold of there would be a least one.
LEMMA Induction ==
  ASSUME NEW T, 0 \in T, \A n \in Nat : n \in T => n + 1 \in T
  PROVE  \A n \in Nat : n \in T
<1> DEFINE Others == Nat \ T  Less == OpToRel(<, Nat)
<1>1. ASSUME Others # {}  PROVE FALSE
  <2>1. \E n \in Others : \A i \in Others : <<i, n>> \notin Less
    <3>1. IsWellFoundedOn(Less, Nat)
      BY NatLessThanWellFounded, Zenon
    <3>2. Others \subseteq Nat
      OBVIOUS
    <3> HIDE DEF Less, Others
    <3> QED  BY <1>1, <3>1, <3>2, WFMin, Zenon
  <2>2. PICK n \in Others : \A i \in Others : <<i, n>> \notin Less
    BY <2>1
  <2>3. n \in Nat /\ n \notin T /\ n # 0
    OBVIOUS
  <2>4. n - 1 \in Nat /\ n - 1 < n /\ n = (n - 1) + 1
    BY <2>3
  <2>5. n - 1 \in Others
    BY <2>3, <2>4
  <2>6. \A x, y \in Nat : x < y => <<x, y>> \in Less
    BY Zenon DEF OpToRel
  <2> HIDE DEF Less
  <2> QED  BY <2>2, <2>3, <2>4, <2>5, <2>6
<1> QED  BY <1>1

\* The functions that FieldsOf and ReadFields define by recursion, up to n.
Splitting(b, n, g) ==
  g = [i \in 0 .. n |-> IF i = 0 THEN [fields |-> <<>>, rest |-> b] ELSE NextField(g[i - 1])]

\* There is a function with the equations of FieldsOf, which so are its own.
LEMMA SplittingExists ==
  ASSUME NEW b
  PROVE  \A n \in Nat : \E g : Splitting(b, n, g)
<1> DEFINE T == {n \in Nat : \E g : Splitting(b, n, g)}
           start == [fields |-> <<>>, rest |-> b]
<1>1. 0 \in T
  <2> DEFINE g == [i \in 0 .. 0 |-> start]
  <2>1. g = [i \in 0 .. 0 |-> IF i = 0 THEN start ELSE NextField(g[i - 1])]
    OBVIOUS
  <2> HIDE DEF g
  <2>2. Splitting(b, 0, g)
    BY <2>1 DEF Splitting
  <2> QED  BY <2>2
<1>2. ASSUME NEW n \in Nat, n \in T  PROVE n + 1 \in T
  <2>1. PICK g : Splitting(b, n, g)
    BY <1>2
  <2>2. g = [i \in 0 .. n |-> IF i = 0 THEN start ELSE NextField(g[i - 1])]
    BY <2>1 DEF Splitting
  <2> DEFINE h == [i \in 0 .. n + 1 |-> IF i <= n THEN g[i] ELSE NextField(g[n])]
             u == [i \in 0 .. n + 1 |-> IF i = 0 THEN start ELSE NextField(h[i - 1])]
  <2>3. ASSUME NEW i \in 0 .. n + 1  PROVE h[i] = u[i]
    <3>1. CASE i = 0
      BY <2>2, <3>1
    <3>2. CASE i # 0 /\ i <= n
      <4>1. h[i] = g[i] /\ h[i - 1] = g[i - 1]
        BY <3>2
      <4>2. g[i] = NextField(g[i - 1])
        BY <2>2, <3>2
      <4>3. u[i] = NextField(h[i - 1])
        BY <3>2
      <4> QED  BY <4>1, <4>2, <4>3
    <3>3. CASE i = n + 1
      <4>1. h[i] = NextField(g[n]) /\ h[i - 1] = g[n]
        BY <3>3
      <4>2. u[i] = NextField(h[i - 1])
        BY <3>3
      <4> QED  BY <4>1, <4>2
    <3> QED  BY <3>1, <3>2, <3>3
  <2>4. h = u
    BY <2>3
  <2> HIDE DEF h
  <2>5. Splitting(b, n + 1, h)
    BY <2>4 DEF Splitting
  <2> QED  BY <2>5
<1> HIDE DEF T
<1>3. \A n \in Nat : n \in T
  BY <1>1, <1>2, Induction
<1> QED  BY <1>3 DEF T

Split(b) == CHOOSE g : Splitting(b, Len(b), g)

LEMMA SplitSteps ==
  ASSUME NEW b \in Bytes
  PROVE  /\ Split(b)[0] = [fields |-> <<>>, rest |-> b]
         /\ \A i \in 0 .. Len(b) - 1 : Split(b)[i + 1] = NextField(Split(b)[i])
         /\ FieldsOf(b) = Split(b)[CHOOSE i \in 0 .. Len(b) : Split(b)[i].rest = <<>>].fields
<1>1. Len(b) \in Nat
  BY DEF Bytes
<1>2. Splitting(b, Len(b), Split(b))
  BY <1>1, SplittingExists, Zenon DEF Split
<1> DEFINE g == Split(b)
<1>3. g = [i \in 0 .. Len(b) |-> IF i = 0 THEN [fields |-> <<>>, rest |-> b] ELSE NextField(g[i - 1])]
  BY <1>2 DEF Splitting
<1> HIDE DEF g
<1>4. g[0] = [fields |-> <<>>, rest |-> b]
  BY <1>1, <1>3
<1>5. ASSUME NEW i \in 0 .. Len(b) - 1  PROVE g[i + 1] = NextField(g[i])
  <2>1. i + 1 \in 0 .. Len(b) /\ i + 1 # 0 /\ (i + 1) - 1 = i
    BY <1>1
  <2> QED  BY <1>3, <2>1
<1>6. FieldsOf(b) = Split(b)[CHOOSE i \in 0 .. Len(b) : Split(b)[i].rest = <<>>].fields
  BY Zenon DEF FieldsOf, Split, Splitting
<1> QED  BY <1>4, <1>5, <1>6 DEF g

\* Once there is nothing left of b, the fields are those there are.
LEMMA SplitEnds ==
  ASSUME NEW b \in Bytes, NEW j \in 0 .. Len(b), Split(b)[j].rest = <<>>
  PROVE  FieldsOf(b) = Split(b)[j].fields
<1>1. Len(b) \in Nat /\ j \in Nat
  BY DEF Bytes
<1>2. ASSUME NEW i \in 0 .. Len(b), Split(b)[i].rest = <<>>
      PROVE  \A n \in i .. Len(b) : Split(b)[n] = Split(b)[i]
  <2> DEFINE T == {n \in Nat : i + n <= Len(b) => Split(b)[i + n] = Split(b)[i]}
  <2>1. 0 \in T
    OBVIOUS
  <2>2. ASSUME NEW n \in Nat, n \in T  PROVE n + 1 \in T
    <3> SUFFICES ASSUME i + (n + 1) <= Len(b)  PROVE Split(b)[i + (n + 1)] = Split(b)[i]
      OBVIOUS
    <3>1. i + n \in 0 .. Len(b) - 1 /\ i + n <= Len(b) /\ i + (n + 1) = (i + n) + 1
      BY <1>1
    <3>2. Split(b)[i + n] = Split(b)[i]
      BY <2>2, <3>1
    <3>3. \A x \in 0 .. Len(b) - 1 : Split(b)[x + 1] = NextField(Split(b)[x])
      BY SplitSteps, Zenon
    <3>4. Split(b)[i + (n + 1)] = NextField(Split(b)[i])
      BY <3>1, <3>2, <3>3
    <3> QED  BY <1>2, <3>4 DEF NextField, WithField
  <2> HIDE DEF T
  <2>3. \A n \in Nat : n \in T
    BY <2>1, <2>2, Induction
  <2>4. ASSUME NEW n \in i .. Len(b)  PROVE Split(b)[n] = Split(b)[i]
    <3>1. n - i \in Nat /\ i + (n - i) = n /\ n <= Len(b)
      BY <1>1
    <3>2. n - i \in T
      BY <2>3, <3>1
    <3>3. i + (n - i) <= Len(b) => Split(b)[i + (n - i)] = Split(b)[i]
      BY <3>2 DEF T
    <3> QED  BY <3>1, <3>3
  <2> QED  BY <2>4
<1> DEFINE end == CHOOSE i \in 0 .. Len(b) : Split(b)[i].rest = <<>>
<1>3. end \in 0 .. Len(b) /\ Split(b)[end].rest = <<>>
  BY Zenon
<1>4. FieldsOf(b) = Split(b)[end].fields
  BY SplitSteps, Zenon
<1> HIDE DEF end
<1>5. end \in j .. Len(b) \/ j \in end .. Len(b)
  BY <1>1, <1>3
<1>6. Split(b)[end] = Split(b)[j]
  BY <1>2, <1>3, <1>5
<1> QED  BY <1>4, <1>6
-----------------------------------------------------------------------------
(* The two classes as one, k being the kind of the codec *)

Kinds == {"request", "respond"}

ReadFieldOf(k, m, f) == IF k = "request" THEN RequestMsgReadField(m, f) ELSE RespondMsgReadField(m, f)
ReadOf(k, m, b) ==
  IF k = "request" THEN ReadFields(RequestMsgReadField, m, b) ELSE ReadFields(RespondMsgReadField, m, b)
NextOf(k, read, f) == IF read.ok THEN ReadFieldOf(k, read.msg, f) ELSE read

Reading(k, m, fields, g) ==
  g = [i \in 0 .. Len(fields) |-> IF i = 0 THEN [msg |-> m, ok |-> TRUE]
                                  ELSE NextOf(k, g[i - 1], fields[i])]

\* What ReadFields returns, if the fields of b can be read.
LEMMA ReadOfIs ==
  ASSUME NEW k \in Kinds, NEW m, NEW b, NEW g, Reading(k, m, FieldsOf(b), g),
         Len(FieldsOf(b)) \in Nat
  PROVE  ReadOf(k, m, b) = g[Len(FieldsOf(b))]
<1> DEFINE fields == FieldsOf(b)  n == Len(fields)
           H(h) == h = [i \in 0 .. n |-> IF i = 0 THEN [msg |-> m, ok |-> TRUE]
                                         ELSE NextOf(k, h[i - 1], fields[i])]
<1>1. n \in Nat
  OBVIOUS
<1> HIDE DEF fields, n
<1>2. H(g)
  BY Zenon DEF Reading, n, fields
<1>3. ASSUME NEW h, H(h)  PROVE h[n] = g[n]
  <2> DEFINE T == {i \in Nat : i <= n => h[i] = g[i]}
  <2>1. 0 \in T
    <3>1. 0 \in 0 .. n
      BY <1>1
    <3> QED  BY <1>2, <1>3, <3>1
  <2>2. ASSUME NEW i \in Nat, i \in T  PROVE i + 1 \in T
    <3> SUFFICES ASSUME i + 1 <= n  PROVE h[i + 1] = g[i + 1]
      OBVIOUS
    <3>1. i + 1 \in 0 .. n /\ i + 1 # 0 /\ (i + 1) - 1 = i /\ i <= n
      BY <1>1
    <3>2. h[i + 1] = NextOf(k, h[i], fields[i + 1])
      BY <1>3, <3>1
    <3>3. g[i + 1] = NextOf(k, g[i], fields[i + 1])
      BY <1>2, <3>1
    <3> QED  BY <2>2, <3>1, <3>2, <3>3
  <2> HIDE DEF T
  <2>3. \A i \in Nat : i \in T
    BY <2>1, <2>2, Induction
  <2>4. n \in T /\ n <= n
    BY <1>1, <2>3
  <2> QED  BY <2>4 DEF T
<1>4. CASE k = "request"
  <2> DEFINE R(h) == h = [i \in 0 .. n |-> IF i = 0 THEN [msg |-> m, ok |-> TRUE]
                        ELSE IF h[i - 1].ok THEN RequestMsgReadField(h[i - 1].msg, fields[i]) ELSE h[i - 1]]
  <2>1. \A h : R(h) <=> H(h)
    BY <1>4 DEF NextOf, ReadFieldOf
  <2>2. ReadOf(k, m, b) = (CHOOSE h : R(h))[n]
    BY <1>4, Zenon DEF ReadOf, ReadFields, ReadAll, ReadNext, n, fields
  <2> HIDE DEF R, H
  <2>3. R(g)
    BY <1>2, <2>1
  <2>4. R(CHOOSE h : R(h))
    BY <2>3, Zenon
  <2>5. H(CHOOSE h : R(h))
    BY <2>1, <2>4, Zenon
  <2>6. (CHOOSE h : R(h))[n] = g[n]
    BY <1>3, <2>5, Zenon
  <2> QED  BY <2>2, <2>6, Zenon DEF n, fields
<1>5. CASE k = "respond"
  <2> DEFINE R(h) == h = [i \in 0 .. n |-> IF i = 0 THEN [msg |-> m, ok |-> TRUE]
                        ELSE IF h[i - 1].ok THEN RespondMsgReadField(h[i - 1].msg, fields[i]) ELSE h[i - 1]]
  <2>1. \A h : R(h) <=> H(h)
    BY <1>5 DEF NextOf, ReadFieldOf
  <2>2. ReadOf(k, m, b) = (CHOOSE h : R(h))[n]
    <3>1. k # "request"
      BY <1>5
    <3> QED  BY <3>1, Zenon DEF ReadOf, ReadFields, ReadAll, ReadNext, n, fields
  <2> HIDE DEF R, H
  <2>3. R(g)
    BY <1>2, <2>1
  <2>4. R(CHOOSE h : R(h))
    BY <2>3, Zenon
  <2>5. H(CHOOSE h : R(h))
    BY <2>1, <2>4, Zenon
  <2>6. (CHOOSE h : R(h))[n] = g[n]
    BY <1>3, <2>5, Zenon
  <2> QED  BY <2>2, <2>6, Zenon DEF n, fields
<1> QED  BY <1>4, <1>5 DEF Kinds

AnyField == {FieldAt(b) : b \in Bytes}

\* Some of b has been read into m, what is left is t and the reading stands at r.
Progress(k, b, m, r, t) ==
  \E fields \in Seq(AnyField) :
    /\ \E j \in 0 .. Len(b) : /\ Split(b)[j] = [fields |-> fields, rest |-> t]
                              /\ j + Len(t) <= Len(b)
    /\ \E g : Reading(k, m, fields, g) /\ g[Len(fields)] = r

\* Reading starts at the whole of b,
LEMMA ProgressStart ==
  ASSUME NEW k \in Kinds, NEW b \in Bytes, NEW m
  PROVE  Progress(k, b, m, [msg |-> m, ok |-> TRUE], b)
<1> DEFINE start == [msg |-> m, ok |-> TRUE]  g == [i \in 0 .. 0 |-> start]
<1>1. Len(b) \in Nat
  BY DEF Bytes
<1>2. <<>> \in Seq(AnyField) /\ Len(<<>>) = 0
  OBVIOUS
<1>3. Split(b)[0] = [fields |-> <<>>, rest |-> b]
  BY SplitSteps, Zenon
<1>4. g = [i \in 0 .. 0 |-> IF i = 0 THEN start ELSE NextOf(k, g[i - 1], <<>>[i])] /\ g[0] = start
  OBVIOUS
<1> HIDE DEF g
<1>5. Reading(k, m, <<>>, g)
  BY <1>2, <1>4 DEF Reading
<1>6. 0 \in 0 .. Len(b) /\ 0 + Len(b) <= Len(b)
  BY <1>1
<1>7. \E j \in 0 .. Len(b) : Split(b)[j] = [fields |-> <<>>, rest |-> b] /\ j + Len(b) <= Len(b)
  BY <1>3, <1>6
<1>8. \E h : Reading(k, m, <<>>, h) /\ h[Len(<<>>)] = start
  BY <1>2, <1>4, <1>5
<1> HIDE DEF start
<1>9. Progress(k, b, m, start, b)
  BY <1>2, <1>7, <1>8 DEF Progress
<1> QED  BY <1>9 DEF start

\* ... takes one field after another,
LEMMA ProgressStep ==
  ASSUME NEW k \in Kinds, NEW b \in Bytes, NEW m0, NEW m, NEW w \in Bytes, w # <<>>,
         Progress(k, b, m0, [msg |-> m, ok |-> TRUE], w),
         FieldAt(w).rest \in Bytes, Len(FieldAt(w).rest) < Len(w)
  PROVE  Progress(k, b, m0, ReadFieldOf(k, m, FieldAt(w)), FieldAt(w).rest)
<1> DEFINE f == FieldAt(w)  t == f.rest  r == [msg |-> m, ok |-> TRUE]
<1>1. Len(b) \in Nat /\ Len(w) \in Nat /\ Len(t) \in Nat /\ Len(t) < Len(w) /\ f \in AnyField
  BY DEF Bytes, AnyField
<1>2. PICK fields \in Seq(AnyField) :
        /\ \E j \in 0 .. Len(b) : Split(b)[j] = [fields |-> fields, rest |-> w] /\ j + Len(w) <= Len(b)
        /\ \E g : Reading(k, m0, fields, g) /\ g[Len(fields)] = r
  BY DEF Progress
<1>3. PICK j \in 0 .. Len(b) : Split(b)[j] = [fields |-> fields, rest |-> w] /\ j + Len(w) <= Len(b)
  BY <1>2
<1>4. PICK g : Reading(k, m0, fields, g) /\ g[Len(fields)] = r
  BY <1>2
<1> HIDE DEF f, t
<1> DEFINE more == Append(fields, f)  n == Len(fields)
           start == [msg |-> m0, ok |-> TRUE]  next == ReadFieldOf(k, m, f)
<1>5. /\ more \in Seq(AnyField) /\ Len(more) = n + 1 /\ n \in Nat /\ more[n + 1] = f
      /\ \A i \in 1 .. n : more[i] = fields[i]
  BY <1>1, AppendProperties
<1>6. \E i \in 0 .. Len(b) : Split(b)[i] = [fields |-> more, rest |-> t] /\ i + Len(t) <= Len(b)
  <2>1. j + 1 \in 0 .. Len(b) /\ j \in 0 .. Len(b) - 1 /\ (j + 1) + Len(t) <= Len(b)
    BY <1>1, <1>3
  <2>2. \A i \in 0 .. Len(b) - 1 : Split(b)[i + 1] = NextField(Split(b)[i])
    BY SplitSteps, Zenon
  <2>3. Split(b)[j + 1] = NextField([fields |-> fields, rest |-> w])
    BY <1>3, <2>1, <2>2
  <2>4. Split(b)[j + 1] = [fields |-> more, rest |-> t]
    BY <2>3 DEF NextField, WithField, f, t
  <2> QED  BY <2>1, <2>4
<1>7. \E h : Reading(k, m0, more, h) /\ h[Len(more)] = next
  <2> DEFINE h == [i \in 0 .. n + 1 |-> IF i <= n THEN g[i] ELSE next]
             u == [i \in 0 .. n + 1 |-> IF i = 0 THEN start ELSE NextOf(k, h[i - 1], more[i])]
  <2>1. g = [i \in 0 .. n |-> IF i = 0 THEN start ELSE NextOf(k, g[i - 1], fields[i])] /\ g[n] = r
    BY <1>4 DEF Reading
  <2> HIDE DEF more, next, n
  <2>2. NextOf(k, r, f) = next
    BY DEF NextOf, next
  <2> HIDE DEF start, r
  <2>3. ASSUME NEW i \in 0 .. n + 1  PROVE h[i] = u[i]
    <3>1. CASE i = 0
      BY <1>5, <2>1, <3>1
    <3>2. CASE i # 0 /\ i <= n
      <4>1. h[i] = g[i] /\ h[i - 1] = g[i - 1] /\ i \in 1 .. n
        BY <1>5, <3>2
      <4>2. g[i] = NextOf(k, g[i - 1], fields[i])
        BY <1>5, <2>1, <3>2
      <4>3. u[i] = NextOf(k, h[i - 1], more[i])
        BY <3>2
      <4> QED  BY <1>5, <4>1, <4>2, <4>3
    <3>3. CASE i = n + 1
      <4>1. h[i] = next /\ h[i - 1] = g[n] /\ i # 0
        BY <1>5, <3>3
      <4>2. u[i] = NextOf(k, h[i - 1], more[i])
        BY <4>1
      <4> QED  BY <1>5, <2>1, <2>2, <3>3, <4>1, <4>2
    <3> QED  BY <1>5, <3>1, <3>2, <3>3
  <2>4. h = u
    BY <2>3
  <2>5. h[n + 1] = next
    BY <1>5
  <2> HIDE DEF h
  <2>6. h = [i \in 0 .. Len(more) |-> IF i = 0 THEN start ELSE NextOf(k, h[i - 1], more[i])]
    BY <1>5, <2>4
  <2>7. Reading(k, m0, more, h)
    BY <2>6 DEF Reading, start
  <2> QED  BY <1>5, <2>5, <2>7
<1> HIDE DEF more, next
<1>8. Progress(k, b, m0, next, t)
  BY <1>5, <1>6, <1>7 DEF Progress
<1> QED  BY <1>8 DEF next, f, t

\* ... and is over when nothing is left.
LEMMA ProgressEnd ==
  ASSUME NEW k \in Kinds, NEW b \in Bytes, NEW m, NEW r, Progress(k, b, m, r, <<>>)
  PROVE  ReadOf(k, m, b) = r
<1>1. PICK fields \in Seq(AnyField) :
        /\ \E j \in 0 .. Len(b) : Split(b)[j] = [fields |-> fields, rest |-> <<>>]
        /\ \E g : Reading(k, m, fields, g) /\ g[Len(fields)] = r
  BY DEF Progress
<1>2. PICK j \in 0 .. Len(b) : Split(b)[j] = [fields |-> fields, rest |-> <<>>]
  BY <1>1
<1>3. PICK g : Reading(k, m, fields, g) /\ g[Len(fields)] = r
  BY <1>1
<1>4. FieldsOf(b) = fields
  BY <1>2, SplitEnds
<1>5. Len(FieldsOf(b)) \in Nat
  BY <1>4
<1> QED  BY <1>3, <1>4, <1>5, ReadOfIs
-----------------------------------------------------------------------------
(* A message is written in pieces, each a field or nothing *)

\* The piece w is read into m, which becomes m1, and cut short it is at most the
\* beginning of the text s with that tag.
Piece(k, m, m1, w, tag, s) ==
  /\ w \in Bytes
  /\ w = <<>> => m1 = m
  /\ w # <<>> => \A t \in Bytes : /\ FieldAt(w \o t).rest = t
                                  /\ ReadFieldOf(k, m, FieldAt(w \o t)) = [msg |-> m1, ok |-> TRUE]
  /\ \A n \in Nat : 0 < n /\ n < Len(w) => BeginningOf(FieldAt(SubSeq(w, 1, n)), tag, s)

\* A number, if it is written at all, is a piece,
LEMMA Int32Piece ==
  ASSUME NEW k, NEW m, NEW m1, NEW c \in BOOLEAN, NEW number \in Numbers, NEW v \in Int32,
         ~c => m1 = m,
         c => \A raw, t : ReadFieldOf(k, m, FieldWith(8 * number, v, <<>>, raw, TRUE, t))
                            = [msg |-> m1, ok |-> TRUE]
  PROVE  Piece(k, m, m1, When(c, WriteInt32(number, v)), 0, <<>>)
<1>1. CASE c
  <2> DEFINE w == WriteInt32(number, v)
  <2>1. w \in Bytes
    BY Int32Read, EmptySeq DEF Bytes
  <2>2. ASSUME NEW t \in Bytes
        PROVE  /\ FieldAt(w \o t).rest = t
               /\ ReadFieldOf(k, m, FieldAt(w \o t)) = [msg |-> m1, ok |-> TRUE]
    <3>1. FieldAt(w \o t) = FieldWith(8 * number, v, <<>>, Varint(v), TRUE, t)
      BY Int32Read
    <3>2. FieldWith(8 * number, v, <<>>, Varint(v), TRUE, t).rest = t
      BY DEF FieldWith
    <3> QED  BY <1>1, <3>1, <3>2, Zenon
  <2>3. \A n \in Nat : 0 < n /\ n < Len(w)
          => BeginningOf(FieldAt(SubSeq(w, 1, n)), 0, <<>>)
    BY Int32Cut DEF BeginningOf
  <2>4. w # <<>>
    <3>1. <<>> \in Bytes
      BY DEF Bytes
    <3>2. Len(w) = 1 + Int32Size(v)
      BY <3>1, Int32Read
    <3>3. Int32Size(v) \in 1 .. 10
      BY VarintShape
    <3> QED  BY <3>2, <3>3
  <2> HIDE DEF w
  <2>5. Piece(k, m, m1, w, 0, <<>>)
    BY <2>1, <2>2, <2>3, <2>4 DEF Piece
  <2> QED  BY <1>1, <2>5 DEF When, w
<1>2. CASE ~c
  <2>1. When(c, WriteInt32(number, v)) = <<>>
    BY <1>2 DEF When
  <2>2. <<>> \in Bytes /\ \A n \in Nat : ~(0 < n /\ n < Len(<<>>))
    BY DEF Bytes
  <2>3. Piece(k, m, m1, <<>>, 0, <<>>)
    BY <1>2, <2>2, Zenon DEF Piece
  <2> QED  BY <2>1, <2>3
<1> QED  BY <1>1, <1>2

\* ... and so is a text.
LEMMA BytesPiece ==
  ASSUME NEW k, NEW m, NEW m1, NEW number \in Numbers, NEW s \in Text,
         s = <<>> => m1 = m,
         s # <<>> => \A n, raw, t : ReadFieldOf(k, m, FieldWith(8 * number + 2, n, s, raw, TRUE, t))
                                      = [msg |-> m1, ok |-> TRUE]
  PROVE  Piece(k, m, m1, When(s # <<>>, WriteBytes(number, s)), 8 * number + 2, s)
<1>1. CASE s # <<>>
  <2> DEFINE w == WriteBytes(number, s)
  <2>1. w \in Bytes
    BY BytesRead, EmptySeq DEF Bytes
  <2>2. ASSUME NEW t \in Bytes
        PROVE  /\ FieldAt(w \o t).rest = t
               /\ ReadFieldOf(k, m, FieldAt(w \o t)) = [msg |-> m1, ok |-> TRUE]
    <3>1. FieldAt(w \o t) = FieldWith(8 * number + 2, Len(s), s, Varint(Len(s)) \o s, TRUE, t)
      BY BytesRead
    <3>2. FieldWith(8 * number + 2, Len(s), s, Varint(Len(s)) \o s, TRUE, t).rest = t
      BY DEF FieldWith
    <3> QED  BY <1>1, <3>1, <3>2, Zenon
  <2>3. \A n \in Nat : 0 < n /\ n < Len(w)
          => BeginningOf(FieldAt(SubSeq(w, 1, n)), 8 * number + 2, s)
    BY BytesCut
  <2>4. w # <<>>
    <3>1. <<>> \in Bytes
      BY DEF Bytes
    <3>2. Len(w) = 1 + BytesSize(s)
      BY <3>1, BytesRead
    <3>3. BytesSize(s) = Int32Size(Len(s)) + Len(s) /\ Len(s) \in Nat /\ Int32Size(Len(s)) \in 1 .. 10
      BY TextFacts, VarintShape DEF BytesSize, LengthDelimitedSize
    <3> QED  BY <3>2, <3>3
  <2> HIDE DEF w
  <2>5. Piece(k, m, m1, w, 8 * number + 2, s)
    BY <1>1, <2>1, <2>2, <2>3, <2>4 DEF Piece
  <2> QED  BY <1>1, <2>5 DEF When, w
<1>2. CASE s = <<>>
  <2>1. When(s # <<>>, WriteBytes(number, s)) = <<>>
    BY <1>2 DEF When
  <2>2. <<>> \in Bytes /\ \A n \in Nat : ~(0 < n /\ n < Len(<<>>))
    BY DEF Bytes
  <2>3. Piece(k, m, m1, <<>>, 8 * number + 2, s)
    BY <1>2, <2>2, Zenon DEF Piece
  <2> QED  BY <2>1, <2>3
<1> QED  BY <1>1, <1>2

\* A piece that is there is read, ...
LEMMA PieceStep ==
  ASSUME NEW k \in Kinds, NEW b \in Bytes, NEW m0, NEW m, NEW m1, NEW w, NEW tag, NEW s,
         NEW t \in Bytes, Piece(k, m, m1, w, tag, s),
         Progress(k, b, m0, [msg |-> m, ok |-> TRUE], w \o t)
  PROVE  Progress(k, b, m0, [msg |-> m1, ok |-> TRUE], t)
<1>1. w \in Bytes
  BY DEF Piece
<1>2. CASE w = <<>>
  <2>1. w \o t = t /\ m1 = m
    BY <1>2 DEF Piece, Bytes
  <2> QED  BY <2>1
<1>3. CASE w # <<>>
  <2>1. FieldAt(w \o t).rest = t /\ ReadFieldOf(k, m, FieldAt(w \o t)) = [msg |-> m1, ok |-> TRUE]
    BY <1>3, Zenon DEF Piece
  <2>2. w \o t \in Bytes /\ w \o t # <<>> /\ Len(t) < Len(w \o t)
    <3>1. Len(w) \in Nat /\ Len(w) # 0 /\ Len(t) \in Nat
      BY <1>1, <1>3 DEF Bytes
    <3>2. Len(w \o t) = Len(w) + Len(t) /\ w \o t \in Bytes
      BY <1>1, AfterFirst
    <3> QED  BY <3>1, <3>2
  <2> HIDE DEF Progress
  <2>3. Progress(k, b, m0, ReadFieldOf(k, m, FieldAt(w \o t)), FieldAt(w \o t).rest)
    BY <2>1, <2>2, ProgressStep
  <2> QED  BY <2>1, <2>3, Zenon
<1> QED  BY <1>2, <1>3

\* ... and of a string that is cut short, either it is, or the reading ends at
\* what there is of it.  The reading stands at m before some beginning of u, ...
CutAt(k, b, m0, m, u) ==
  \E n \in Nat : n <= Len(u) /\ Progress(k, b, m0, [msg |-> m, ok |-> TRUE], SubSeq(u, 1, n))

\* ... or has ended at m, or behind it at the beginning of a field.
EndsAt(k, b, m0, m, tag, text) ==
  \/ ReadOf(k, m0, b) = [msg |-> m, ok |-> TRUE]
  \/ \E f : BeginningOf(f, tag, text) /\ ReadOf(k, m0, b) = ReadFieldOf(k, m, f)

\* Reading a string cut short gets over a piece, or ends in it.
LEMMA CutStep ==
  ASSUME NEW k \in Kinds, NEW b \in Bytes, NEW m0, NEW m, NEW m1, NEW w, NEW tag, NEW s,
         NEW t \in Bytes, Piece(k, m, m1, w, tag, s), CutAt(k, b, m0, m, w \o t)
  PROVE  CutAt(k, b, m0, m1, t) \/ EndsAt(k, b, m0, m, tag, s)
<1>1. PICK n \in Nat : /\ n <= Len(w \o t)
                       /\ Progress(k, b, m0, [msg |-> m, ok |-> TRUE], SubSeq(w \o t, 1, n))
  BY DEF CutAt
<1>2. w \in Bytes /\ Len(w) \in Nat /\ Len(t) \in Nat /\ Len(w \o t) = Len(w) + Len(t)
  <2>1. w \in Bytes
    BY DEF Piece
  <2> QED  BY <2>1, AfterFirst DEF Bytes
<1>3. CASE Len(w) <= n
  <2> DEFINE i == n - Len(w)  u == SubSeq(t, 1, i)
  <2>1. i \in Nat /\ i <= Len(t) /\ n = Len(w) + i
    BY <1>1, <1>2, <1>3
  <2> HIDE DEF i
  <2>2. SubSeq(w \o t, 1, n) = w \o u /\ u \in Bytes
    BY <1>2, <2>1, CutSecond, CutShort
  <2> HIDE DEF u
  <2>3. Progress(k, b, m0, [msg |-> m, ok |-> TRUE], w \o u)
    BY <1>1, <2>2
  <2>4. Progress(k, b, m0, [msg |-> m1, ok |-> TRUE], u)
    BY <2>2, <2>3, PieceStep
  <2> QED  BY <2>1, <2>4 DEF u, CutAt
<1>4. CASE n = 0
  <2>1. SubSeq(w \o t, 1, n) = <<>>
    BY <1>2, <1>4
  <2>2. ReadOf(k, m0, b) = [msg |-> m, ok |-> TRUE]
    BY <1>1, <2>1, ProgressEnd
  <2> QED  BY <2>2 DEF EndsAt
<1>5. CASE 0 < n /\ n < Len(w)
  <2> DEFINE u == SubSeq(w, 1, n)  f == FieldAt(u)
  <2>1. u \in Bytes /\ Len(u) = n /\ SubSeq(w \o t, 1, n) = u
    BY <1>2, <1>5, CutFirst, CutShort
  <2>2. BeginningOf(f, tag, s)
    BY <1>5 DEF Piece
  <2> HIDE DEF u
  <2>3. f.rest = <<>>
    BY <2>2 DEF BeginningOf, NoField
  <2>4. Progress(k, b, m0, [msg |-> m, ok |-> TRUE], u)
    BY <1>1, <2>1
  <2>5. u # <<>> /\ Len(f.rest) < Len(u) /\ f.rest \in Bytes
    BY <1>5, <2>1, <2>3 DEF Bytes
  <2>6. Progress(k, b, m0, ReadFieldOf(k, m, f), <<>>)
    <3>1. Progress(k, b, m0, ReadFieldOf(k, m, FieldAt(u)), FieldAt(u).rest)
      BY <2>1, <2>4, <2>5, ProgressStep
    <3> QED  BY <2>3, <3>1
  <2> HIDE DEF f
  <2>7. ReadOf(k, m0, b) = ReadFieldOf(k, m, f)
    BY <2>6, ProgressEnd
  <2> QED  BY <2>2, <2>7 DEF EndsAt
<1>6. Len(w) <= n \/ n = 0 \/ (0 < n /\ n < Len(w))
  BY <1>2
<1> QED  BY <1>3, <1>4, <1>5, <1>6, Zenon
-----------------------------------------------------------------------------
(* A message is written in five pieces *)

Written(w) == w[1] \o w[2] \o w[3] \o w[4] \o w[5]

\* The pieces w are read one after another, and take a message from stage to stage.
PiecesOf(k, stage, w, tag, text) ==
  \A i \in 1 .. 5 : Piece(k, stage[i - 1], stage[i], w[i], tag[i], text[i])

\* Joining is associative.
LEMMA Joined ==
  ASSUME NEW s \in Bytes, NEW t \in Bytes, NEW u \in Bytes
  PROVE  (s \o t) \o u = s \o (t \o u) /\ t \o u \in Bytes
<1>1. (s \o t) \o u = s \o (t \o u)
  BY ConcatAssociative DEF Bytes
<1>2. t \o u \in Bytes
  BY AfterFirst
<1> QED  BY <1>1, <1>2

\* The five pieces, one after the other.
LEMMA WrittenPieces ==
  ASSUME NEW w, \A i \in 1 .. 5 : w[i] \in Bytes, NEW t \in Bytes
  PROVE  /\ Written(w) \in Bytes /\ Written(w) \o <<>> = Written(w)
         /\ Written(w) \o t = w[1] \o (w[2] \o (w[3] \o (w[4] \o (w[5] \o t))))
         /\ Len(Written(w)) = Len(w[1]) + Len(w[2]) + Len(w[3]) + Len(w[4]) + Len(w[5])
         /\ \A i \in 1 .. 5 : Len(w[i]) \in Nat
<1> DEFINE a == w[1]  b == w[2]  c == w[3]  d == w[4]  e == w[5]
<1>1. a \in Bytes /\ b \in Bytes /\ c \in Bytes /\ d \in Bytes /\ e \in Bytes
  OBVIOUS
<1> HIDE DEF a, b, c, d, e
<1> DEFINE ab == a \o b  abc == ab \o c  abcd == abc \o d  abcde == abcd \o e
<1>2. ab \in Bytes /\ Len(ab) = Len(a) + Len(b)
  BY <1>1, AfterFirst
<1> HIDE DEF ab
<1>3. abc \in Bytes /\ Len(abc) = Len(ab) + Len(c)
  BY <1>1, <1>2, AfterFirst
<1> HIDE DEF abc
<1>4. abcd \in Bytes /\ Len(abcd) = Len(abc) + Len(d)
  BY <1>1, <1>3, AfterFirst
<1> HIDE DEF abcd
<1>5. abcde \in Bytes /\ Len(abcde) = Len(abcd) + Len(e)
  BY <1>1, <1>4, AfterFirst
<1> DEFINE et == e \o t  det == d \o et  cdet == c \o det  bcdet == b \o cdet
<1>6. abcde \o t = abcd \o et /\ et \in Bytes
  BY <1>1, <1>4, Joined
<1> HIDE DEF et
<1>7. abcd \o et = abc \o det /\ det \in Bytes
  BY <1>1, <1>3, <1>6, Joined DEF abcd
<1> HIDE DEF det
<1>8. abc \o det = ab \o cdet /\ cdet \in Bytes
  BY <1>1, <1>2, <1>7, Joined DEF abc
<1> HIDE DEF cdet
<1>9. ab \o cdet = a \o bcdet
  <2>1. a \in Bytes /\ b \in Bytes /\ cdet \in Bytes
    BY <1>1, <1>8
  <2>2. (a \o b) \o cdet = a \o (b \o cdet)
    BY <2>1, Joined
  <2> QED  BY <2>2, Zenon DEF ab
<1>10. abcde \o <<>> = abcde
  BY <1>5, ConcatEmptySeq DEF Bytes
<1>11. Written(w) = abcde
  BY DEF Written, ab, abc, abcd, a, b, c, d, e
<1> HIDE DEF abcde
<1>12. Len(a) \in Nat /\ Len(b) \in Nat /\ Len(c) \in Nat /\ Len(d) \in Nat /\ Len(e) \in Nat
  BY <1>1 DEF Bytes
<1>13. Len(abcde) = Len(a) + Len(b) + Len(c) + Len(d) + Len(e)
  BY <1>2, <1>3, <1>4, <1>5, <1>12
<1>14. \A i \in 1 .. 5 : Len(w[i]) \in Nat
  BY DEF Bytes
<1>15. Written(w) \o t = w[1] \o (w[2] \o (w[3] \o (w[4] \o (w[5] \o t))))
  BY <1>6, <1>7, <1>8, <1>9, <1>11, Zenon DEF a, b, c, d, e, et, det, cdet
<1> QED  BY <1>5, <1>10, <1>11, <1>13, <1>14, <1>15 DEF a, b, c, d, e

\* Reading gets over five pieces, whatever follows.
LEMMA ReadWhole ==
  ASSUME NEW k \in Kinds, NEW b \in Bytes, NEW m0, NEW t \in Bytes,
         NEW stage, NEW w, NEW tag, NEW text, PiecesOf(k, stage, w, tag, text),
         Progress(k, b, m0, [msg |-> stage[0], ok |-> TRUE], Written(w) \o t)
  PROVE  Progress(k, b, m0, [msg |-> stage[5], ok |-> TRUE], t)
<1> DEFINE t5 == w[5] \o t  t4 == w[4] \o t5  t3 == w[3] \o t4  t2 == w[2] \o t3  t1 == w[1] \o t2
           At(i, u) == Progress(k, b, m0, [msg |-> stage[i], ok |-> TRUE], u)
<1>1. /\ Piece(k, stage[0], stage[1], w[1], tag[1], text[1])
      /\ Piece(k, stage[1], stage[2], w[2], tag[2], text[2])
      /\ Piece(k, stage[2], stage[3], w[3], tag[3], text[3])
      /\ Piece(k, stage[3], stage[4], w[4], tag[4], text[4])
      /\ Piece(k, stage[4], stage[5], w[5], tag[5], text[5])
  BY DEF PiecesOf
<1>2. \A i \in 1 .. 5 : w[i] \in Bytes
  BY DEF PiecesOf, Piece
<1>3. Written(w) \o t = t1
  BY <1>2, WrittenPieces, Zenon
<1>4. w[1] \in Bytes /\ w[2] \in Bytes /\ w[3] \in Bytes /\ w[4] \in Bytes /\ w[5] \in Bytes
  BY <1>2
<1>5. At(0, t1)
  BY <1>3, Zenon
<1>6. t5 \in Bytes
  BY <1>1, <1>4, AfterFirst
<1> HIDE DEF t5
<1>7. t4 \in Bytes
  BY <1>4, <1>6, AfterFirst
<1> HIDE DEF t4
<1>8. t3 \in Bytes
  BY <1>4, <1>7, AfterFirst
<1> HIDE DEF t3
<1>9. t2 \in Bytes
  BY <1>4, <1>8, AfterFirst
<1> HIDE DEF t2
<1>10. At(1, t2)
  BY <1>1, <1>5, <1>9, PieceStep
<1>11. At(2, t3)
  BY <1>1, <1>8, <1>10, PieceStep DEF t2
<1>12. At(3, t4)
  BY <1>1, <1>7, <1>11, PieceStep DEF t3
<1>13. At(4, t5)
  BY <1>1, <1>6, <1>12, PieceStep DEF t4
<1> QED  BY <1>1, <1>13, PieceStep DEF t5

\* Of five pieces cut short, reading ends in one of them, or gets over all.
LEMMA ReadCut ==
  ASSUME NEW k \in Kinds, NEW m0, NEW stage, NEW w, NEW tag, NEW text,
         PiecesOf(k, stage, w, tag, text), stage[0] = m0,
         NEW n \in Nat, n <= Len(Written(w))
  PROVE  \/ \E i \in 1 .. 5 : EndsAt(k, SubSeq(Written(w), 1, n), m0, stage[i - 1], tag[i], text[i])
         \/ ReadOf(k, m0, SubSeq(Written(w), 1, n)) = [msg |-> stage[5], ok |-> TRUE]
<1> DEFINE t6 == <<>>  t5 == w[5] \o t6  t4 == w[4] \o t5  t3 == w[3] \o t4  t2 == w[2] \o t3
           t1 == w[1] \o t2  b == SubSeq(Written(w), 1, n)
           At(i, u) == CutAt(k, b, m0, stage[i], u)
           Ends(i) == EndsAt(k, b, m0, stage[i - 1], tag[i], text[i])
<1>1. /\ Piece(k, stage[0], stage[1], w[1], tag[1], text[1])
      /\ Piece(k, stage[1], stage[2], w[2], tag[2], text[2])
      /\ Piece(k, stage[2], stage[3], w[3], tag[3], text[3])
      /\ Piece(k, stage[3], stage[4], w[4], tag[4], text[4])
      /\ Piece(k, stage[4], stage[5], w[5], tag[5], text[5])
  BY DEF PiecesOf
<1>2. \A i \in 1 .. 5 : w[i] \in Bytes
  BY DEF PiecesOf, Piece
<1>3. Written(w) = t1 /\ Written(w) \in Bytes
  <2>1. <<>> \in Bytes
    BY DEF Bytes
  <2> QED  BY <1>2, <2>1, WrittenPieces, Zenon
<1>4. w[1] \in Bytes /\ w[2] \in Bytes /\ w[3] \in Bytes /\ w[4] \in Bytes /\ w[5] \in Bytes
  BY <1>2
<1>5. b \in Bytes
  BY <1>3, CutShort
<1>6. t6 \in Bytes /\ t5 \in Bytes
  <2>1. t6 \in Bytes
    BY DEF Bytes
  <2> QED  BY <1>4, <2>1, AfterFirst
<1> HIDE DEF t5, t6
<1>7. t4 \in Bytes
  BY <1>4, <1>6, AfterFirst
<1> HIDE DEF t4
<1>8. t3 \in Bytes
  BY <1>4, <1>7, AfterFirst
<1> HIDE DEF t3
<1>9. t2 \in Bytes
  BY <1>4, <1>8, AfterFirst
<1> HIDE DEF t2, b
<1>10. At(0, t1)
  <2>1. Progress(k, b, m0, [msg |-> m0, ok |-> TRUE], b)
    BY <1>5, ProgressStart
  <2>2. b = SubSeq(t1, 1, n) /\ n <= Len(t1)
    BY <1>3 DEF b
  <2> QED  BY <1>5, <2>1, <2>2 DEF CutAt
<1>11. At(1, t2) \/ Ends(1)
  BY <1>1, <1>5, <1>9, <1>10, CutStep
<1>12. At(1, t2) => At(2, t3) \/ Ends(2)
  BY <1>1, <1>5, <1>8, CutStep DEF t2
<1>13. At(2, t3) => At(3, t4) \/ Ends(3)
  BY <1>1, <1>5, <1>7, CutStep DEF t3
<1>14. At(3, t4) => At(4, t5) \/ Ends(4)
  BY <1>1, <1>5, <1>6, CutStep DEF t4
<1>15. At(4, t5) => At(5, t6) \/ Ends(5)
  BY <1>1, <1>5, <1>6, CutStep DEF t5
<1>16. At(5, t6) => ReadOf(k, m0, b) = [msg |-> stage[5], ok |-> TRUE]
  <2>1. \A j \in Nat : j <= Len(<<>>) => SubSeq(<<>>, 1, j) = <<>>
    OBVIOUS
  <2> QED  BY <1>5, <2>1, ProgressEnd DEF CutAt, t6
<1> HIDE DEF At, Ends
<1>17. \/ Ends(1) \/ Ends(2) \/ Ends(3) \/ Ends(4) \/ Ends(5)
       \/ ReadOf(k, m0, b) = [msg |-> stage[5], ok |-> TRUE]
  BY <1>11, <1>12, <1>13, <1>14, <1>15, <1>16
<1>18. \/ \E i \in 1 .. 5 : Ends(i)
       \/ ReadOf(k, m0, b) = [msg |-> stage[5], ok |-> TRUE]
  BY <1>17
<1> QED  BY <1>18 DEF Ends, b
-----------------------------------------------------------------------------
(* The pieces of the two classes *)

\* The messages of the codecs: without unknown fields.
RequestMessages ==
  [cmdType : Int32, clientID : Text, serverID : Text, sign : Text, data : Text, unknown : {<<>>}]
RespondMessages ==
  [status : BOOLEAN, seckeyID : Int32, clientID : Text, serverID : Text, data : Text, unknown : {<<>>}]

\* The message m once the first i fields of x have been read into it.
RequestStage(m, x, i) ==
  [cmdType |-> IF 1 <= i /\ x.cmdType # 0 THEN x.cmdType ELSE m.cmdType,
   clientID |-> IF 2 <= i /\ x.clientID # <<>> THEN x.clientID ELSE m.clientID,
   serverID |-> IF 3 <= i /\ x.serverID # <<>> THEN x.serverID ELSE m.serverID,
   sign |-> IF 4 <= i /\ x.sign # <<>> THEN x.sign ELSE m.sign,
   data |-> IF 5 <= i /\ x.data # <<>> THEN x.data ELSE m.data,
   unknown |-> <<>>]
RespondStage(m, x, status, i) ==
  [status |-> IF 1 <= i THEN status ELSE m.status,
   seckeyID |-> IF 2 <= i /\ x.seckeyID # 0 THEN x.seckeyID ELSE m.seckeyID,
   clientID |-> IF 3 <= i /\ x.clientID # <<>> THEN x.clientID ELSE m.clientID,
   serverID |-> IF 4 <= i /\ x.serverID # <<>> THEN x.serverID ELSE m.serverID,
   data |-> IF 5 <= i /\ x.data # <<>> THEN x.data ELSE m.data,
   unknown |-> <<>>]

RequestPieces(x) ==
  << When(x.cmdType # 0, WriteInt32(1, x.cmdType)), When(x.clientID # <<>>, WriteBytes(2, x.clientID)),
     When(x.serverID # <<>>, WriteBytes(3, x.serverID)), When(x.sign # <<>>, WriteBytes(4, x.sign)),
     When(x.data # <<>>, WriteBytes(5, x.data)) >>
RespondPieces(x) ==
  << When(x.status, WriteInt32(1, 1)), When(x.seckeyID # 0, WriteInt32(2, x.seckeyID)),
     When(x.clientID # <<>>, WriteBytes(3, x.clientID)), When(x.serverID # <<>>, WriteBytes(4, x.serverID)),
     When(x.data # <<>>, WriteBytes(5, x.data)) >>

RequestTags == <<0, 18, 26, 34, 42>>
RespondTags == <<0, 0, 26, 34, 42>>
RequestTexts(x) == << <<>>, x.clientID, x.serverID, x.sign, x.data >>
RespondTexts(x) == << <<>>, <<>>, x.clientID, x.serverID, x.data >>

\* What is made of each field, and of one that could not be read.
LEMMA RequestFieldRead ==
  ASSUME NEW m \in RequestMessages, NEW f
  PROVE  /\ f.tag = 8 => ReadFieldOf("request", m, f) = [msg |-> [m EXCEPT !.cmdType = f.n], ok |-> f.ok]
         /\ f.tag = 18 => ReadFieldOf("request", m, f) = [msg |-> [m EXCEPT !.clientID = f.val], ok |-> f.ok]
         /\ f.tag = 26 => ReadFieldOf("request", m, f) = [msg |-> [m EXCEPT !.serverID = f.val], ok |-> f.ok]
         /\ f.tag = 34 => ReadFieldOf("request", m, f) = [msg |-> [m EXCEPT !.sign = f.val], ok |-> f.ok]
         /\ f.tag = 42 => ReadFieldOf("request", m, f) = [msg |-> [m EXCEPT !.data = f.val], ok |-> f.ok]
         /\ ReadFieldOf("request", m, NoField) = [msg |-> m, ok |-> FALSE]
<1> DEFINE R(g) == RequestMsgReadField(m, g)
<1>1. \A g : ReadFieldOf("request", m, g) = R(g)
  BY DEF ReadFieldOf
<1>2. f.tag = 8 => R(f) = [msg |-> [m EXCEPT !.cmdType = f.n], ok |-> f.ok]
  BY DEF RequestMsgReadField, Took
<1>3. f.tag = 18 => R(f) = [msg |-> [m EXCEPT !.clientID = f.val], ok |-> f.ok]
  BY DEF RequestMsgReadField, Took
<1>4. f.tag = 26 => R(f) = [msg |-> [m EXCEPT !.serverID = f.val], ok |-> f.ok]
  BY DEF RequestMsgReadField, Took
<1>5. f.tag = 34 => R(f) = [msg |-> [m EXCEPT !.sign = f.val], ok |-> f.ok]
  BY DEF RequestMsgReadField, Took
<1>6. f.tag = 42 => R(f) = [msg |-> [m EXCEPT !.data = f.val], ok |-> f.ok]
  BY DEF RequestMsgReadField, Took
<1>7. R(NoField) = [msg |-> m, ok |-> FALSE]
  <2>1. NoField.tag = 0 /\ NoField.raw = <<>> /\ NoField.ok = FALSE
    BY DEF NoField
  <2>2. R(NoField) = [msg |-> [m EXCEPT !.unknown = m.unknown \o NoField.raw], ok |-> NoField.ok]
    BY <2>1 DEF RequestMsgReadField, Took
  <2>3. m.unknown \o NoField.raw = m.unknown
    BY <2>1 DEF RequestMessages
  <2>4. [m EXCEPT !.unknown = m.unknown] = m
    BY DEF RequestMessages
  <2> QED  BY <2>1, <2>2, <2>3, <2>4
<1> HIDE DEF R
<1> QED  BY <1>1, <1>2, <1>3, <1>4, <1>5, <1>6, <1>7

\* The stages go from m to what merging x into it makes.
LEMMA RequestStages ==
  ASSUME NEW m \in RequestMessages, NEW x \in RequestMessages
  PROVE  /\ \A i \in 0 .. 5 : RequestStage(m, x, i) \in RequestMessages
         /\ RequestStage(m, x, 0) = m
         /\ RequestStage(m, x, 5) = RequestMsgMergeFrom(m, x)
<1>1. /\ m.cmdType \in Int32 /\ m.clientID \in Text /\ m.serverID \in Text /\ m.sign \in Text
      /\ m.data \in Text /\ m.unknown = <<>>
      /\ m = [cmdType |-> m.cmdType, clientID |-> m.clientID, serverID |-> m.serverID,
              sign |-> m.sign, data |-> m.data, unknown |-> m.unknown]
  BY DEF RequestMessages
<1>2. /\ x.cmdType \in Int32 /\ x.clientID \in Text /\ x.serverID \in Text /\ x.sign \in Text
      /\ x.data \in Text /\ x.unknown = <<>>
  BY DEF RequestMessages
<1>3. \A i \in 0 .. 5 : RequestStage(m, x, i) \in RequestMessages
  BY <1>1, <1>2 DEF RequestMessages, RequestStage
<1>4. RequestStage(m, x, 0) = m
  BY <1>1 DEF RequestStage
<1>5. RequestStage(m, x, 5) = RequestMsgMergeFrom(m, x)
  <2> DEFINE m0 == [m EXCEPT !.unknown = m.unknown \o x.unknown]
             m1 == [m0 EXCEPT !.cmdType = IF x.cmdType # 0 THEN x.cmdType ELSE m0.cmdType]
             m2 == [m1 EXCEPT !.clientID = IF x.clientID # <<>> THEN x.clientID ELSE m1.clientID]
             m3 == [m2 EXCEPT !.serverID = IF x.serverID # <<>> THEN x.serverID ELSE m2.serverID]
             m4 == [m3 EXCEPT !.sign = IF x.sign # <<>> THEN x.sign ELSE m3.sign]
             m5 == [m4 EXCEPT !.data = IF x.data # <<>> THEN x.data ELSE m4.data]
  <2>1. RequestMsgMergeFrom(m, x) = m5
    BY DEF RequestMsgMergeFrom
  <2>2. m0 = m
    BY <1>1, <1>2
  <2> HIDE DEF m0
  <2>3. m1 = RequestStage(m, x, 1)
    BY <1>1, <2>2 DEF RequestStage
  <2> HIDE DEF m1
  <2>4. m2 = RequestStage(m, x, 2)
    BY <1>1, <2>3 DEF RequestStage
  <2> HIDE DEF m2
  <2>5. m3 = RequestStage(m, x, 3)
    BY <1>1, <2>4 DEF RequestStage
  <2> HIDE DEF m3
  <2>6. m4 = RequestStage(m, x, 4)
    BY <1>1, <2>5 DEF RequestStage
  <2> HIDE DEF m4
  <2>7. m5 = RequestStage(m, x, 5)
    BY <1>1, <2>6 DEF RequestStage
  <2> QED  BY <2>1, <2>7
<1> QED  BY <1>3, <1>4, <1>5

\* The fields of a RequestMsg are the pieces between its stages.
LEMMA RequestRead ==
  ASSUME NEW m \in RequestMessages, NEW x \in RequestMessages
  PROVE  PiecesOf("request", [i \in 0 .. 5 |-> RequestStage(m, x, i)], RequestPieces(x), RequestTags, RequestTexts(x))
<1> DEFINE S(i) == RequestStage(m, x, i)
           P(i, w, text) == Piece("request", S(i - 1), S(i), w, RequestTags[i], text)
<1>1. /\ x.cmdType \in Int32 /\ x.clientID \in Text /\ x.serverID \in Text /\ x.sign \in Text
      /\ x.data \in Text
  BY DEF RequestMessages
<1>2. 1 \in Numbers /\ 2 \in Numbers /\ 3 \in Numbers /\ 4 \in Numbers /\ 5 \in Numbers
  BY DEF Numbers
<1>3. \A i \in 0 .. 5 : S(i) \in RequestMessages
  BY RequestStages
<1>4. Piece("request", S(0), S(1), When(x.cmdType # 0, WriteInt32(1, x.cmdType)), 0, <<>>)
  <2>1. ~(x.cmdType # 0) => S(1) = S(0)
    BY DEF RequestStage
  <2>2. ASSUME x.cmdType # 0, NEW raw, NEW t
        PROVE  ReadFieldOf("request", S(0), FieldWith(8 * 1, x.cmdType, <<>>, raw, TRUE, t))
                 = [msg |-> S(1), ok |-> TRUE]
    <3> DEFINE f == FieldWith(8 * 1, x.cmdType, <<>>, raw, TRUE, t)
    <3>1. f.tag = 8 /\ f.n = x.cmdType /\ f.ok = TRUE
      BY DEF FieldWith
    <3> HIDE DEF f
    <3>2. ReadFieldOf("request", S(0), f) = [msg |-> [S(0) EXCEPT !.cmdType = x.cmdType], ok |-> TRUE]
      BY <1>3, <3>1, RequestFieldRead
    <3>3. [S(0) EXCEPT !.cmdType = x.cmdType] = S(1)
      BY <2>2 DEF RequestStage
    <3> QED  BY <3>2, <3>3 DEF f
  <2> HIDE DEF S
  <2>3. Piece("request", S(0), S(1), When(x.cmdType # 0, WriteInt32(1, x.cmdType)), 0, <<>>)
    BY <1>1, <1>2, <2>1, <2>2, Int32Piece
  <2> QED  BY <2>3
<1>5. Piece("request", S(1), S(2), When(x.clientID # <<>>, WriteBytes(2, x.clientID)), 18, x.clientID)
  <2>1. x.clientID = <<>> => S(2) = S(1)
    BY DEF RequestStage
  <2>2. ASSUME x.clientID # <<>>, NEW n, NEW raw, NEW t
        PROVE  ReadFieldOf("request", S(1), FieldWith(8 * 2 + 2, n, x.clientID, raw, TRUE, t))
                 = [msg |-> S(2), ok |-> TRUE]
    <3> DEFINE f == FieldWith(8 * 2 + 2, n, x.clientID, raw, TRUE, t)
    <3>1. f.tag = 18 /\ f.val = x.clientID /\ f.ok = TRUE
      BY DEF FieldWith
    <3> HIDE DEF f
    <3>2. ReadFieldOf("request", S(1), f) = [msg |-> [S(1) EXCEPT !.clientID = x.clientID], ok |-> TRUE]
      BY <1>3, <3>1, RequestFieldRead
    <3>3. [S(1) EXCEPT !.clientID = x.clientID] = S(2)
      BY <2>2 DEF RequestStage
    <3> QED  BY <3>2, <3>3 DEF f
  <2> HIDE DEF S
  <2>3. Piece("request", S(1), S(2), When(x.clientID # <<>>, WriteBytes(2, x.clientID)), 8 * 2 + 2, x.clientID)
    BY <1>1, <1>2, <2>1, <2>2, BytesPiece
  <2> QED  BY <2>3
<1>6. Piece("request", S(2), S(3), When(x.serverID # <<>>, WriteBytes(3, x.serverID)), 26, x.serverID)
  <2>1. x.serverID = <<>> => S(3) = S(2)
    BY DEF RequestStage
  <2>2. ASSUME x.serverID # <<>>, NEW n, NEW raw, NEW t
        PROVE  ReadFieldOf("request", S(2), FieldWith(8 * 3 + 2, n, x.serverID, raw, TRUE, t))
                 = [msg |-> S(3), ok |-> TRUE]
    <3> DEFINE f == FieldWith(8 * 3 + 2, n, x.serverID, raw, TRUE, t)
    <3>1. f.tag = 26 /\ f.val = x.serverID /\ f.ok = TRUE
      BY DEF FieldWith
    <3> HIDE DEF f
    <3>2. ReadFieldOf("request", S(2), f) = [msg |-> [S(2) EXCEPT !.serverID = x.serverID], ok |-> TRUE]
      BY <1>3, <3>1, RequestFieldRead
    <3>3. [S(2) EXCEPT !.serverID = x.serverID] = S(3)
      BY <2>2 DEF RequestStage
    <3> QED  BY <3>2, <3>3 DEF f
  <2> HIDE DEF S
  <2>3. Piece("request", S(2), S(3), When(x.serverID # <<>>, WriteBytes(3, x.serverID)), 8 * 3 + 2, x.serverID)
    BY <1>1, <1>2, <2>1, <2>2, BytesPiece
  <2> QED  BY <2>3
<1>7. Piece("request", S(3), S(4), When(x.sign # <<>>, WriteBytes(4, x.sign)), 34, x.sign)
  <2>1. x.sign = <<>> => S(4) = S(3)
    BY DEF RequestStage
  <2>2. ASSUME x.sign # <<>>, NEW n, NEW raw, NEW t
        PROVE  ReadFieldOf("request", S(3), FieldWith(8 * 4 + 2, n, x.sign, raw, TRUE, t))
                 = [msg |-> S(4), ok |-> TRUE]
    <3> DEFINE f == FieldWith(8 * 4 + 2, n, x.sign, raw, TRUE, t)
    <3>1. f.tag = 34 /\ f.val = x.sign /\ f.ok = TRUE
      BY DEF FieldWith
    <3> HIDE DEF f
    <3>2. ReadFieldOf("request", S(3), f) = [msg |-> [S(3) EXCEPT !.sign = x.sign], ok |-> TRUE]
      BY <1>3, <3>1, RequestFieldRead
    <3>3. [S(3) EXCEPT !.sign = x.sign] = S(4)
      BY <2>2 DEF RequestStage
    <3> QED  BY <3>2, <3>3 DEF f
  <2> HIDE DEF S
  <2>3. Piece("request", S(3), S(4), When(x.sign # <<>>, WriteBytes(4, x.sign)), 8 * 4 + 2, x.sign)
    BY <1>1, <1>2, <2>1, <2>2, BytesPiece
  <2> QED  BY <2>3
<1>8. Piece("request", S(4), S(5), When(x.data # <<>>, WriteBytes(5, x.data)), 42, x.data)
  <2>1. x.data = <<>> => S(5) = S(4)
    BY DEF RequestStage
  <2>2. ASSUME x.data # <<>>, NEW n, NEW raw, NEW t
        PROVE  ReadFieldOf("request", S(4), FieldWith(8 * 5 + 2, n, x.data, raw, TRUE, t))
                 = [msg |-> S(5), ok |-> TRUE]
    <3> DEFINE f == FieldWith(8 * 5 + 2, n, x.data, raw, TRUE, t)
    <3>1. f.tag = 42 /\ f.val = x.data /\ f.ok = TRUE
      BY DEF FieldWith
    <3> HIDE DEF f
    <3>2. ReadFieldOf("request", S(4), f) = [msg |-> [S(4) EXCEPT !.data = x.data], ok |-> TRUE]
      BY <1>3, <3>1, RequestFieldRead
    <3>3. [S(4) EXCEPT !.data = x.data] = S(5)
      BY <2>2 DEF RequestStage
    <3> QED  BY <3>2, <3>3 DEF f
  <2> HIDE DEF S
  <2>3. Piece("request", S(4), S(5), When(x.data # <<>>, WriteBytes(5, x.data)), 8 * 5 + 2, x.data)
    BY <1>1, <1>2, <2>1, <2>2, BytesPiece
  <2> QED  BY <2>3
<1> HIDE DEF S
<1> DEFINE stage == [i \in 0 .. 5 |-> S(i)]  w == RequestPieces(x)  text == RequestTexts(x)
<1>9. /\ stage[0] = S(0) /\ stage[1] = S(1) /\ stage[2] = S(2) /\ stage[3] = S(3) /\ stage[4] = S(4)
      /\ stage[5] = S(5)
  OBVIOUS
<1> HIDE DEF stage
<1>10. ASSUME NEW i \in 1 .. 5  PROVE Piece("request", stage[i - 1], stage[i], w[i], RequestTags[i], text[i])
  <2>1. i = 1 \/ i = 2 \/ i = 3 \/ i = 4 \/ i = 5
    OBVIOUS
  <2> QED  BY <1>4, <1>5, <1>6, <1>7, <1>8, <1>9, <2>1 DEF RequestPieces, RequestTexts, RequestTags
<1> QED  BY <1>10 DEF PiecesOf, stage, S
-----------------------------------------------------------------------------
(* What a message is written as *)

NoZeros == Seq(1 .. 255)

LEMMA NoZerosAreBytes ==
  ASSUME NEW s \in NoZeros
  PROVE  s \in Bytes
<1>1. 1 .. 255 \subseteq Byte
  BY DEF Byte
<1> QED  BY <1>1, SeqMonotonic DEF Bytes, NoZeros

\* A string is of what its elements are of.
LEMMA OfElements ==
  ASSUME NEW s \in Bytes, NEW S, \A i \in 1 .. Len(s) : s[i] \in S
  PROVE  s \in Seq(S)
<1>1. s \in [1 .. Len(s) -> S] /\ Len(s) \in Nat
  BY DEF Bytes
<1>2. s \in UNION {[1 .. n -> S] : n \in Nat}
  BY <1>1, Zenon
<1> QED  BY <1>2, SeqDef, Zenon

\* A number and a text are written in as many bytes as were computed, and
\* without a zero byte but for those of the text.
LEMMA Int32Written ==
  ASSUME NEW c \in BOOLEAN, NEW number \in Numbers, NEW v \in Int32, c => v # 0
  PROVE  /\ When(c, WriteInt32(number, v)) \in NoZeros
         /\ When(c, WriteInt32(number, v)) \in Bytes
         /\ Len(When(c, WriteInt32(number, v))) = SizeWhen(c, 1 + Int32Size(v))
<1>1. CASE c
  <2>1. 8 * number \in 1 .. 255 /\ v # 0
    BY <1>1 DEF Numbers
  <2>2. Varint(v) \in Seq(1 .. 255)
    <3>1. /\ Varint(v) \in Bytes
          /\ \A i \in 1 .. Len(Varint(v)) : Varint(v)[i] \in 0 .. 255 /\ Varint(v)[i] # 0
      BY <2>1, VarintShape
    <3>2. \A i \in 1 .. Len(Varint(v)) : Varint(v)[i] \in 1 .. 255
      BY <3>1
    <3> QED  BY <3>1, <3>2, OfElements
  <2>3. WriteInt32(number, v) \in Seq(1 .. 255)
    <3>1. <<8 * number>> \in Seq(1 .. 255)
      BY <2>1
    <3> QED  BY <2>2, <3>1, ConcatProperties DEF WriteInt32
  <2>4. Len(WriteInt32(number, v)) = 1 + Int32Size(v)
    BY Int32Read, EmptySeq DEF Bytes
  <2>5. WriteInt32(number, v) \in Bytes
    BY <2>3, NoZerosAreBytes DEF NoZeros
  <2> QED  BY <1>1, <2>3, <2>4, <2>5 DEF When, SizeWhen, NoZeros
<1>2. CASE ~c
  BY <1>2 DEF When, SizeWhen, NoZeros, Bytes
<1> QED  BY <1>1, <1>2

LEMMA BytesWritten ==
  ASSUME NEW number \in Numbers, NEW s \in Text
  PROVE  /\ When(s # <<>>, WriteBytes(number, s)) \in Bytes
         /\ s \in NoZeros => When(s # <<>>, WriteBytes(number, s)) \in NoZeros
         /\ Len(When(s # <<>>, WriteBytes(number, s))) = SizeWhen(s # <<>>, 1 + BytesSize(s))
<1>1. CASE s # <<>>
  <2>1. 8 * number + 2 \in 1 .. 255
    BY DEF Numbers
  <2>2. Len(s) \in Int32 /\ Len(s) # 0
    <3>1. s \in Bytes
      BY DEF Text
    <3>2. Len(s) # 0
      BY <1>1, <3>1 DEF Bytes
    <3> QED  BY <3>2, TextFacts
  <2>3. Varint(Len(s)) \in Seq(1 .. 255)
    <3>1. /\ Varint(Len(s)) \in Bytes
          /\ \A i \in 1 .. Len(Varint(Len(s))) : Varint(Len(s))[i] \in 0 .. 255 /\ Varint(Len(s))[i] # 0
      BY <2>2, VarintShape
    <3>2. \A i \in 1 .. Len(Varint(Len(s))) : Varint(Len(s))[i] \in 1 .. 255
      BY <3>1
    <3> QED  BY <3>1, <3>2, OfElements
  <2>4. ASSUME s \in NoZeros  PROVE WriteBytes(number, s) \in Seq(1 .. 255)
    <3> DEFINE tag == <<8 * number + 2>>  v == Varint(Len(s))
    <3>1. tag \in Seq(1 .. 255) /\ v \in Seq(1 .. 255)
      BY <2>1, <2>3
    <3> HIDE DEF tag, v
    <3>2. tag \o v \in Seq(1 .. 255)
      BY <3>1, ConcatProperties
    <3>3. (tag \o v) \o s \in Seq(1 .. 255)
      BY <2>4, <3>2, ConcatProperties DEF NoZeros
    <3> QED  BY <3>3 DEF WriteBytes, tag, v
  <2>5. WriteBytes(number, s) \in Bytes /\ Len(WriteBytes(number, s)) = 1 + BytesSize(s)
    BY BytesRead, EmptySeq DEF Bytes
  <2> QED  BY <1>1, <2>4, <2>5 DEF When, SizeWhen, NoZeros
<1>2. CASE s = <<>>
  BY <1>2 DEF When, SizeWhen, NoZeros, Bytes
<1> QED  BY <1>1, <1>2

\* The five pieces joined: they have a zero byte where one of them has.
LEMMA WrittenTogether ==
  ASSUME NEW w, \A i \in 1 .. 5 : w[i] \in Bytes
  PROVE  /\ Written(w) \in Bytes /\ Written(w) \o <<>> = Written(w)
         /\ Len(Written(w)) = Len(w[1]) + Len(w[2]) + Len(w[3]) + Len(w[4]) + Len(w[5])
         /\ \A i \in 1 .. 5 : Len(w[i]) \in Nat
         /\ (\A i \in 1 .. 5 : w[i] \in NoZeros) => Written(w) \in NoZeros
<1>1. <<>> \in Bytes
  BY DEF Bytes
<1>2. /\ Written(w) \in Bytes /\ Written(w) \o <<>> = Written(w)
      /\ Len(Written(w)) = Len(w[1]) + Len(w[2]) + Len(w[3]) + Len(w[4]) + Len(w[5])
      /\ \A i \in 1 .. 5 : Len(w[i]) \in Nat
  BY <1>1, WrittenPieces
<1>3. ASSUME \A i \in 1 .. 5 : w[i] \in NoZeros  PROVE Written(w) \in NoZeros
  <2> DEFINE a == w[1] \o w[2]  b == a \o w[3]  c == b \o w[4]
  <2>1. a \in NoZeros
    BY <1>3, ConcatProperties DEF NoZeros
  <2> HIDE DEF a
  <2>2. b \in NoZeros
    BY <1>3, <2>1, ConcatProperties DEF NoZeros
  <2> HIDE DEF b
  <2>3. c \in NoZeros
    BY <1>3, <2>2, ConcatProperties DEF NoZeros
  <2> HIDE DEF c
  <2>4. c \o w[5] \in NoZeros
    BY <1>3, <2>3, ConcatProperties DEF NoZeros
  <2> QED  BY <2>4 DEF Written, a, b, c
<1> QED  BY <1>2, <1>3

\* A status that is set is written as 1.
LEMMA One == 1 \in Int32 /\ 1 # 0 /\ Int32Size(1) = 1
<1>1. 1 \in Int32 /\ 1 # 0
  BY SmallVarint
<1>2. Int32Size(1) = 1
  BY SMT DEF Int32Size
<1> QED  BY <1>1, <1>2

TextFields(k) == IF k = "request" THEN {"clientID", "serverID", "sign", "data"}
                 ELSE {"clientID", "serverID", "data"}

\* Serialize writes the five pieces, in ByteSizeLong bytes, and no zero byte if
\* the texts have none.
LEMMA RequestWritten ==
  ASSUME NEW x \in RequestMessages
  PROVE  /\ RequestMsgSerialize(x) = Written(RequestPieces(x))
         /\ RequestMsgSerialize(x) \in Bytes
         /\ (\A g \in TextFields("request") : x[g] \in NoZeros) => RequestMsgSerialize(x) \in NoZeros
         /\ Len(RequestMsgSerialize(x)) = RequestMsgByteSizeLong(x)
<1> DEFINE w == RequestPieces(x)
<1>1. /\ x.cmdType \in Int32 /\ x.clientID \in Text /\ x.serverID \in Text /\ x.sign \in Text
      /\ x.data \in Text /\ x.unknown = <<>>
  BY DEF RequestMessages
<1>2. 1 \in Numbers /\ 2 \in Numbers /\ 3 \in Numbers /\ 4 \in Numbers /\ 5 \in Numbers
  BY DEF Numbers
<1>3. w[1] \in Bytes /\ w[1] \in NoZeros /\ Len(w[1]) = SizeWhen(x.cmdType # 0, 1 + Int32Size(x.cmdType))
  BY <1>1, <1>2, Int32Written DEF RequestPieces
<1>4. w[2] \in Bytes /\ (x.clientID \in NoZeros => w[2] \in NoZeros) /\ Len(w[2]) = SizeWhen(x.clientID # <<>>, 1 + BytesSize(x.clientID))
  BY <1>1, <1>2, BytesWritten DEF RequestPieces
<1>5. w[3] \in Bytes /\ (x.serverID \in NoZeros => w[3] \in NoZeros) /\ Len(w[3]) = SizeWhen(x.serverID # <<>>, 1 + BytesSize(x.serverID))
  BY <1>1, <1>2, BytesWritten DEF RequestPieces
<1>6. w[4] \in Bytes /\ (x.sign \in NoZeros => w[4] \in NoZeros) /\ Len(w[4]) = SizeWhen(x.sign # <<>>, 1 + BytesSize(x.sign))
  BY <1>1, <1>2, BytesWritten DEF RequestPieces
<1>7. w[5] \in Bytes /\ (x.data \in NoZeros => w[5] \in NoZeros) /\ Len(w[5]) = SizeWhen(x.data # <<>>, 1 + BytesSize(x.data))
  BY <1>1, <1>2, BytesWritten DEF RequestPieces
<1>8. \A i \in 1 .. 5 : w[i] \in Bytes
  <2> HIDE DEF w
  <2>1. ASSUME NEW i \in 1 .. 5  PROVE i = 1 \/ i = 2 \/ i = 3 \/ i = 4 \/ i = 5
    OBVIOUS
  <2> QED  BY <1>3, <1>4, <1>5, <1>6, <1>7, <2>1
<1>9. /\ Written(w) \in Bytes /\ Written(w) \o <<>> = Written(w)
      /\ Len(Written(w)) = Len(w[1]) + Len(w[2]) + Len(w[3]) + Len(w[4]) + Len(w[5])
      /\ \A i \in 1 .. 5 : Len(w[i]) \in Nat
      /\ (\A i \in 1 .. 5 : w[i] \in NoZeros) => Written(w) \in NoZeros
  <2> HIDE DEF w
  <2> QED  BY <1>8, WrittenTogether
<1>10. Written(w) = RequestMsgSerialize(x)
  <2>1. RequestMsgSerialize(x) = Written(w) \o x.unknown
    BY DEF RequestMsgSerialize, Written, RequestPieces
  <2> QED  BY <1>1, <1>9, <2>1
<1> HIDE DEF w
<1>11. ASSUME \A g \in TextFields("request") : x[g] \in NoZeros  PROVE Written(w) \in NoZeros
  <2>1. x.clientID \in NoZeros /\ x.serverID \in NoZeros /\ x.sign \in NoZeros /\ x.data \in NoZeros
    BY <1>11 DEF TextFields
  <2>2. ASSUME NEW i \in 1 .. 5  PROVE i = 1 \/ i = 2 \/ i = 3 \/ i = 4 \/ i = 5
    OBVIOUS
  <2> QED  BY <1>3, <1>4, <1>5, <1>6, <1>7, <1>9, <2>1, <2>2
<1>12. Len(w[1]) + Len(w[2]) + Len(w[3]) + Len(w[4]) + Len(w[5]) = RequestMsgByteSizeLong(x)
  <2>1. Len(x.unknown) = 0
    BY <1>1
  <2>2. Len(w[1]) \in Nat /\ Len(w[2]) \in Nat /\ Len(w[3]) \in Nat /\ Len(w[4]) \in Nat /\ Len(w[5]) \in Nat
    BY <1>9
  <2>3. RequestMsgByteSizeLong(x) = 0 + Len(w[1]) + Len(w[2]) + Len(w[3]) + Len(w[4]) + Len(w[5])
    BY <1>3, <1>4, <1>5, <1>6, <1>7, <2>1, Zenon DEF RequestMsgByteSizeLong
  <2> QED  BY <2>2, <2>3
<1> QED  BY <1>9, <1>10, <1>11, <1>12 DEF w

LEMMA RespondWritten ==
  ASSUME NEW x \in RespondMessages
  PROVE  /\ RespondMsgSerialize(x) = Written(RespondPieces(x))
         /\ RespondMsgSerialize(x) \in Bytes
         /\ (\A g \in TextFields("respond") : x[g] \in NoZeros) => RespondMsgSerialize(x) \in NoZeros
         /\ Len(RespondMsgSerialize(x)) = RespondMsgByteSizeLong(x)
<1> DEFINE w == RespondPieces(x)
<1>1. /\ x.status \in BOOLEAN /\ x.seckeyID \in Int32 /\ x.clientID \in Text /\ x.serverID \in Text
      /\ x.data \in Text /\ x.unknown = <<>>
  BY DEF RespondMessages
<1>2. 1 \in Numbers /\ 2 \in Numbers /\ 3 \in Numbers /\ 4 \in Numbers /\ 5 \in Numbers
  BY DEF Numbers
<1>3. w[1] \in Bytes /\ w[1] \in NoZeros /\ Len(w[1]) = SizeWhen(x.status, 1 + 1)
  BY <1>1, <1>2, Int32Written, One DEF RespondPieces
<1>4. w[2] \in Bytes /\ w[2] \in NoZeros /\ Len(w[2]) = SizeWhen(x.seckeyID # 0, 1 + Int32Size(x.seckeyID))
  BY <1>1, <1>2, Int32Written DEF RespondPieces
<1>5. w[3] \in Bytes /\ (x.clientID \in NoZeros => w[3] \in NoZeros) /\ Len(w[3]) = SizeWhen(x.clientID # <<>>, 1 + BytesSize(x.clientID))
  BY <1>1, <1>2, BytesWritten DEF RespondPieces
<1>6. w[4] \in Bytes /\ (x.serverID \in NoZeros => w[4] \in NoZeros) /\ Len(w[4]) = SizeWhen(x.serverID # <<>>, 1 + BytesSize(x.serverID))
  BY <1>1, <1>2, BytesWritten DEF RespondPieces
<1>7. w[5] \in Bytes /\ (x.data \in NoZeros => w[5] \in NoZeros) /\ Len(w[5]) = SizeWhen(x.data # <<>>, 1 + BytesSize(x.data))
  BY <1>1, <1>2, BytesWritten DEF RespondPieces
<1>8. \A i \in 1 .. 5 : w[i] \in Bytes
  <2> HIDE DEF w
  <2>1. ASSUME NEW i \in 1 .. 5  PROVE i = 1 \/ i = 2 \/ i = 3 \/ i = 4 \/ i = 5
    OBVIOUS
  <2> QED  BY <1>3, <1>4, <1>5, <1>6, <1>7, <2>1
<1>9. /\ Written(w) \in Bytes /\ Written(w) \o <<>> = Written(w)
      /\ Len(Written(w)) = Len(w[1]) + Len(w[2]) + Len(w[3]) + Len(w[4]) + Len(w[5])
      /\ \A i \in 1 .. 5 : Len(w[i]) \in Nat
      /\ (\A i \in 1 .. 5 : w[i] \in NoZeros) => Written(w) \in NoZeros
  <2> HIDE DEF w
  <2> QED  BY <1>8, WrittenTogether
<1>10. Written(w) = RespondMsgSerialize(x)
  <2>1. RespondMsgSerialize(x) = Written(w) \o x.unknown
    BY DEF RespondMsgSerialize, Written, RespondPieces
  <2> QED  BY <1>1, <1>9, <2>1
<1> HIDE DEF w
<1>11. ASSUME \A g \in TextFields("respond") : x[g] \in NoZeros  PROVE Written(w) \in NoZeros
  <2>1. x.clientID \in NoZeros /\ x.serverID \in NoZeros /\ x.data \in NoZeros
    BY <1>11 DEF TextFields
  <2>2. ASSUME NEW i \in 1 .. 5  PROVE i = 1 \/ i = 2 \/ i = 3 \/ i = 4 \/ i = 5
    OBVIOUS
  <2> QED  BY <1>3, <1>4, <1>5, <1>6, <1>7, <1>9, <2>1, <2>2
<1>12. Len(w[1]) + Len(w[2]) + Len(w[3]) + Len(w[4]) + Len(w[5]) = RespondMsgByteSizeLong(x)
  <2>1. Len(x.unknown) = 0
    BY <1>1
  <2>2. Len(w[1]) \in Nat /\ Len(w[2]) \in Nat /\ Len(w[3]) \in Nat /\ Len(w[4]) \in Nat /\ Len(w[5]) \in Nat
    BY <1>9
  <2>3. RespondMsgByteSizeLong(x) = 0 + Len(w[1]) + Len(w[2]) + Len(w[3]) + Len(w[4]) + Len(w[5])
    BY <1>3, <1>4, <1>5, <1>6, <1>7, <2>1, Zenon DEF RespondMsgByteSizeLong
  <2> QED  BY <2>2, <2>3
<1> QED  BY <1>9, <1>10, <1>11, <1>12 DEF w

-----------------------------------------------------------------------------
\* What a RespondMsg makes of each field, and of one that could not be read.
LEMMA RespondFieldRead ==
  ASSUME NEW m \in RespondMessages, NEW f
  PROVE  /\ f.tag = 8 => ReadFieldOf("respond", m, f) = [msg |-> [m EXCEPT !.status = f.n # 0], ok |-> f.ok]
         /\ f.tag = 16 => ReadFieldOf("respond", m, f) = [msg |-> [m EXCEPT !.seckeyID = f.n], ok |-> f.ok]
         /\ f.tag = 26 => ReadFieldOf("respond", m, f) = [msg |-> [m EXCEPT !.clientID = f.val], ok |-> f.ok]
         /\ f.tag = 34 => ReadFieldOf("respond", m, f) = [msg |-> [m EXCEPT !.serverID = f.val], ok |-> f.ok]
         /\ f.tag = 42 => ReadFieldOf("respond", m, f) = [msg |-> [m EXCEPT !.data = f.val], ok |-> f.ok]
         /\ ReadFieldOf("respond", m, NoField) = [msg |-> m, ok |-> FALSE]
<1> DEFINE R(g) == RespondMsgReadField(m, g)
<1>1. \A g : ReadFieldOf("respond", m, g) = R(g)
  BY DEF ReadFieldOf
<1>2. f.tag = 8 => R(f) = [msg |-> [m EXCEPT !.status = f.n # 0], ok |-> f.ok]
  BY DEF RespondMsgReadField, Took
<1>3. f.tag = 16 => R(f) = [msg |-> [m EXCEPT !.seckeyID = f.n], ok |-> f.ok]
  BY DEF RespondMsgReadField, Took
<1>4. f.tag = 26 => R(f) = [msg |-> [m EXCEPT !.clientID = f.val], ok |-> f.ok]
  BY DEF RespondMsgReadField, Took
<1>5. f.tag = 34 => R(f) = [msg |-> [m EXCEPT !.serverID = f.val], ok |-> f.ok]
  BY DEF RespondMsgReadField, Took
<1>6. f.tag = 42 => R(f) = [msg |-> [m EXCEPT !.data = f.val], ok |-> f.ok]
  BY DEF RespondMsgReadField, Took
<1>7. R(NoField) = [msg |-> m, ok |-> FALSE]
  <2>1. NoField.tag = 0 /\ NoField.raw = <<>> /\ NoField.ok = FALSE
    BY DEF NoField
  <2>2. R(NoField) = [msg |-> [m EXCEPT !.unknown = m.unknown \o NoField.raw], ok |-> NoField.ok]
    BY <2>1 DEF RespondMsgReadField, Took
  <2>3. m.unknown \o NoField.raw = m.unknown
    BY <2>1 DEF RespondMessages
  <2>4. [m EXCEPT !.unknown = m.unknown] = m
    BY DEF RespondMessages
  <2> QED  BY <2>1, <2>2, <2>3, <2>4
<1> HIDE DEF R
<1> QED  BY <1>1, <1>2, <1>3, <1>4, <1>5, <1>6, <1>7

\* status is set, once it is read, if it was or if it is set in x.
EitherStatus(m, x, status) ==
  /\ status \in BOOLEAN /\ status = (x.status \/ m.status)
  /\ x.status => status = TRUE
  /\ ~x.status => status = m.status

\* Which is what MergeFrom sets it to.
LEMMA EitherStatusIs ==
  ASSUME NEW m \in RespondMessages, NEW x \in RespondMessages
  PROVE  EitherStatus(m, x, x.status \/ m.status)
<1>1. x.status \in BOOLEAN /\ m.status \in BOOLEAN
  BY DEF RespondMessages
<1>2. (x.status \/ m.status) \in BOOLEAN
  BY Zenon
<1>3. x.status => (x.status \/ m.status) = TRUE
  BY Zenon
<1>4. ~x.status => (x.status \/ m.status) = m.status
  BY <1>1, Zenon
<1> QED  BY <1>2, <1>3, <1>4, Zenon DEF EitherStatus

\* The stages go from m to what merging x into it makes.
LEMMA RespondStages ==
  ASSUME NEW m \in RespondMessages, NEW x \in RespondMessages, NEW status, EitherStatus(m, x, status)
  PROVE  /\ \A i \in 0 .. 5 : RespondStage(m, x, status, i) \in RespondMessages
         /\ RespondStage(m, x, status, 0) = m
         /\ RespondStage(m, x, status, 5) = RespondMsgMergeFrom(m, x)
<1>1. /\ m.status \in BOOLEAN /\ m.seckeyID \in Int32 /\ m.clientID \in Text /\ m.serverID \in Text
      /\ m.data \in Text /\ m.unknown = <<>>
      /\ m = [status |-> m.status, seckeyID |-> m.seckeyID, clientID |-> m.clientID,
              serverID |-> m.serverID, data |-> m.data, unknown |-> m.unknown]
  BY DEF RespondMessages
<1>2. /\ x.status \in BOOLEAN /\ x.seckeyID \in Int32 /\ x.clientID \in Text /\ x.serverID \in Text
      /\ x.data \in Text /\ x.unknown = <<>>
  BY DEF RespondMessages
<1>3. \A i \in 0 .. 5 : RespondStage(m, x, status, i) \in RespondMessages
  <2>1. status \in BOOLEAN
    BY DEF EitherStatus
  <2> QED  BY <1>1, <1>2, <2>1 DEF RespondMessages, RespondStage
<1>4. RespondStage(m, x, status, 0) = m
  BY <1>1 DEF RespondStage
<1>5. RespondStage(m, x, status, 5) = RespondMsgMergeFrom(m, x)
  <2> DEFINE m0 == [m EXCEPT !.unknown = m.unknown \o x.unknown]
             m1 == [m0 EXCEPT !.status = x.status \/ m0.status]
             m2 == [m1 EXCEPT !.seckeyID = IF x.seckeyID # 0 THEN x.seckeyID ELSE m1.seckeyID]
             m3 == [m2 EXCEPT !.clientID = IF x.clientID # <<>> THEN x.clientID ELSE m2.clientID]
             m4 == [m3 EXCEPT !.serverID = IF x.serverID # <<>> THEN x.serverID ELSE m3.serverID]
             m5 == [m4 EXCEPT !.data = IF x.data # <<>> THEN x.data ELSE m4.data]
  <2>1. RespondMsgMergeFrom(m, x) = m5
    BY DEF RespondMsgMergeFrom
  <2>2. m0 = m
    BY <1>1, <1>2
  <2> HIDE DEF m0
  <2>3. m1 = RespondStage(m, x, status, 1)
    <3>1. m1 = [m EXCEPT !.status = status]
      BY <2>2, Zenon DEF EitherStatus
    <3>2. [m EXCEPT !.status = status] = RespondStage(m, x, status, 1)
      BY <1>1 DEF RespondStage
    <3> QED  BY <3>1, <3>2, Zenon
  <2> HIDE DEF m1
  <2>4. m2 = RespondStage(m, x, status, 2)
    BY <1>1, <2>3 DEF RespondStage
  <2> HIDE DEF m2
  <2>5. m3 = RespondStage(m, x, status, 3)
    BY <1>1, <2>4 DEF RespondStage
  <2> HIDE DEF m3
  <2>6. m4 = RespondStage(m, x, status, 4)
    BY <1>1, <2>5 DEF RespondStage
  <2> HIDE DEF m4
  <2>7. m5 = RespondStage(m, x, status, 5)
    BY <1>1, <2>6 DEF RespondStage
  <2> QED  BY <2>1, <2>7
<1> QED  BY <1>3, <1>4, <1>5

\* The fields of a RespondMsg are the pieces between its stages.
LEMMA RespondRead ==
  ASSUME NEW m \in RespondMessages, NEW x \in RespondMessages, NEW status, EitherStatus(m, x, status)
  PROVE  PiecesOf("respond", [i \in 0 .. 5 |-> RespondStage(m, x, status, i)], RespondPieces(x), RespondTags, RespondTexts(x))
<1> DEFINE S(i) == RespondStage(m, x, status, i)
           P(i, w, text) == Piece("respond", S(i - 1), S(i), w, RespondTags[i], text)
<1>1. /\ x.status \in BOOLEAN /\ x.seckeyID \in Int32 /\ x.clientID \in Text /\ x.serverID \in Text
      /\ x.data \in Text
  BY DEF RespondMessages
<1>2. 1 \in Numbers /\ 2 \in Numbers /\ 3 \in Numbers /\ 4 \in Numbers /\ 5 \in Numbers
  BY DEF Numbers
<1>3. \A i \in 0 .. 5 : S(i) \in RespondMessages
  BY RespondStages
<1>4. Piece("respond", S(0), S(1), When(x.status, WriteInt32(1, 1)), 0, <<>>)
  <2>1. ~(x.status) => S(1) = S(0)
    <3>1. ~(x.status) => status = m.status
      BY Zenon DEF EitherStatus
    <3>2. status = m.status => S(1) = S(0)
      BY DEF RespondStage
    <3> QED  BY <3>1, <3>2, Zenon
  <2>2. ASSUME x.status, NEW raw, NEW t
        PROVE  ReadFieldOf("respond", S(0), FieldWith(8 * 1, 1, <<>>, raw, TRUE, t))
                 = [msg |-> S(1), ok |-> TRUE]
    <3> DEFINE f == FieldWith(8 * 1, 1, <<>>, raw, TRUE, t)
    <3>1. f.tag = 8 /\ f.n = 1 /\ f.ok = TRUE
      BY DEF FieldWith
    <3> HIDE DEF f
    <3>2. ReadFieldOf("respond", S(0), f) = [msg |-> [S(0) EXCEPT !.status = status], ok |-> TRUE]
      <4>1. (f.n # 0) = TRUE /\ status = TRUE
        <5>1. f.n # 0
          BY <3>1, One
        <5>2. status = TRUE
          BY <2>2, Zenon DEF EitherStatus
        <5> QED  BY <5>1, <5>2, Zenon
      <4>2. ReadFieldOf("respond", S(0), f) = [msg |-> [S(0) EXCEPT !.status = (f.n # 0)], ok |-> f.ok]
        <5>1. S(0) \in RespondMessages
          BY <1>3
        <5> HIDE DEF S
        <5>2. f.tag = 8 => ReadFieldOf("respond", S(0), f) = [msg |-> [S(0) EXCEPT !.status = (f.n # 0)], ok |-> f.ok]
          BY <5>1, RespondFieldRead, Zenon
        <5> QED  BY <3>1, <5>2, Zenon
      <4> QED  BY <3>1, <4>1, <4>2, Zenon
    <3>3. [S(0) EXCEPT !.status = status] = S(1)
      BY DEF RespondStage
    <3> QED  BY <3>2, <3>3 DEF f
  <2> HIDE DEF S
  <2>3. Piece("respond", S(0), S(1), When(x.status, WriteInt32(1, 1)), 0, <<>>)
    BY <1>1, <1>2, <2>1, <2>2, Int32Piece, One
  <2> QED  BY <2>3
<1>5. Piece("respond", S(1), S(2), When(x.seckeyID # 0, WriteInt32(2, x.seckeyID)), 0, <<>>)
  <2>1. ~(x.seckeyID # 0) => S(2) = S(1)
    BY DEF RespondStage
  <2>2. ASSUME x.seckeyID # 0, NEW raw, NEW t
        PROVE  ReadFieldOf("respond", S(1), FieldWith(8 * 2, x.seckeyID, <<>>, raw, TRUE, t))
                 = [msg |-> S(2), ok |-> TRUE]
    <3> DEFINE f == FieldWith(8 * 2, x.seckeyID, <<>>, raw, TRUE, t)
    <3>1. f.tag = 16 /\ f.n = x.seckeyID /\ f.ok = TRUE
      BY DEF FieldWith
    <3> HIDE DEF f
    <3>2. ReadFieldOf("respond", S(1), f) = [msg |-> [S(1) EXCEPT !.seckeyID = x.seckeyID], ok |-> TRUE]
      BY <1>3, <3>1, RespondFieldRead
    <3>3. [S(1) EXCEPT !.seckeyID = x.seckeyID] = S(2)
      BY <2>2 DEF RespondStage
    <3> QED  BY <3>2, <3>3 DEF f
  <2> HIDE DEF S
  <2>3. Piece("respond", S(1), S(2), When(x.seckeyID # 0, WriteInt32(2, x.seckeyID)), 0, <<>>)
    BY <1>1, <1>2, <2>1, <2>2, Int32Piece
  <2> QED  BY <2>3
<1>6. Piece("respond", S(2), S(3), When(x.clientID # <<>>, WriteBytes(3, x.clientID)), 26, x.clientID)
  <2>1. x.clientID = <<>> => S(3) = S(2)
    BY DEF RespondStage
  <2>2. ASSUME x.clientID # <<>>, NEW n, NEW raw, NEW t
        PROVE  ReadFieldOf("respond", S(2), FieldWith(8 * 3 + 2, n, x.clientID, raw, TRUE, t))
                 = [msg |-> S(3), ok |-> TRUE]
    <3> DEFINE f == FieldWith(8 * 3 + 2, n, x.clientID, raw, TRUE, t)
    <3>1. f.tag = 26 /\ f.val = x.clientID /\ f.ok = TRUE
      BY DEF FieldWith
    <3> HIDE DEF f
    <3>2. ReadFieldOf("respond", S(2), f) = [msg |-> [S(2) EXCEPT !.clientID = x.clientID], ok |-> TRUE]
      BY <1>3, <3>1, RespondFieldRead
    <3>3. [S(2) EXCEPT !.clientID = x.clientID] = S(3)
      BY <2>2 DEF RespondStage
    <3> QED  BY <3>2, <3>3 DEF f
  <2> HIDE DEF S
  <2>3. Piece("respond", S(2), S(3), When(x.clientID # <<>>, WriteBytes(3, x.clientID)), 8 * 3 + 2, x.clientID)
    BY <1>1, <1>2, <2>1, <2>2, BytesPiece
  <2> QED  BY <2>3
<1>7. Piece("respond", S(3), S(4), When(x.serverID # <<>>, WriteBytes(4, x.serverID)), 34, x.serverID)
  <2>1. x.serverID = <<>> => S(4) = S(3)
    BY DEF RespondStage
  <2>2. ASSUME x.serverID # <<>>, NEW n, NEW raw, NEW t
        PROVE  ReadFieldOf("respond", S(3), FieldWith(8 * 4 + 2, n, x.serverID, raw, TRUE, t))
                 = [msg |-> S(4), ok |-> TRUE]
    <3> DEFINE f == FieldWith(8 * 4 + 2, n, x.serverID, raw, TRUE, t)
    <3>1. f.tag = 34 /\ f.val = x.serverID /\ f.ok = TRUE
      BY DEF FieldWith
    <3> HIDE DEF f
    <3>2. ReadFieldOf("respond", S(3), f) = [msg |-> [S(3) EXCEPT !.serverID = x.serverID], ok |-> TRUE]
      BY <1>3, <3>1, RespondFieldRead
    <3>3. [S(3) EXCEPT !.serverID = x.serverID] = S(4)
      BY <2>2 DEF RespondStage
    <3> QED  BY <3>2, <3>3 DEF f
  <2> HIDE DEF S
  <2>3. Piece("respond", S(3), S(4), When(x.serverID # <<>>, WriteBytes(4, x.serverID)), 8 * 4 + 2, x.serverID)
    BY <1>1, <1>2, <2>1, <2>2, BytesPiece
  <2> QED  BY <2>3
<1>8. Piece("respond", S(4), S(5), When(x.data # <<>>, WriteBytes(5, x.data)), 42, x.data)
  <2>1. x.data = <<>> => S(5) = S(4)
    BY DEF RespondStage
  <2>2. ASSUME x.data # <<>>, NEW n, NEW raw, NEW t
        PROVE  ReadFieldOf("respond", S(4), FieldWith(8 * 5 + 2, n, x.data, raw, TRUE, t))
                 = [msg |-> S(5), ok |-> TRUE]
    <3> DEFINE f == FieldWith(8 * 5 + 2, n, x.data, raw, TRUE, t)
    <3>1. f.tag = 42 /\ f.val = x.data /\ f.ok = TRUE
      BY DEF FieldWith
    <3> HIDE DEF f
    <3>2. ReadFieldOf("respond", S(4), f) = [msg |-> [S(4) EXCEPT !.data = x.data], ok |-> TRUE]
      BY <1>3, <3>1, RespondFieldRead
    <3>3. [S(4) EXCEPT !.data = x.data] = S(5)
      BY <2>2 DEF RespondStage
    <3> QED  BY <3>2, <3>3 DEF f
  <2> HIDE DEF S
  <2>3. Piece("respond", S(4), S(5), When(x.data # <<>>, WriteBytes(5, x.data)), 8 * 5 + 2, x.data)
    BY <1>1, <1>2, <2>1, <2>2, BytesPiece
  <2> QED  BY <2>3
<1> HIDE DEF S
<1> DEFINE stage == [i \in 0 .. 5 |-> S(i)]  w == RespondPieces(x)  text == RespondTexts(x)
<1>9. /\ stage[0] = S(0) /\ stage[1] = S(1) /\ stage[2] = S(2) /\ stage[3] = S(3) /\ stage[4] = S(4)
      /\ stage[5] = S(5)
  OBVIOUS
<1> HIDE DEF stage
<1>10. ASSUME NEW i \in 1 .. 5  PROVE Piece("respond", stage[i - 1], stage[i], w[i], RespondTags[i], text[i])
  <2>1. i = 1 \/ i = 2 \/ i = 3 \/ i = 4 \/ i = 5
    OBVIOUS
  <2> QED  BY <1>4, <1>5, <1>6, <1>7, <1>8, <1>9, <2>1 DEF RespondPieces, RespondTexts, RespondTags
<1> QED  BY <1>10 DEF PiecesOf, stage, S
-----------------------------------------------------------------------------
(* What is shown of a message that was cut short *)

Messages(k) == IF k = "request" THEN RequestMessages ELSE RespondMessages
NewOf(k) == IF k = "request" THEN NewRequestMsg ELSE NewRespondMsg

ShowsField(k, read, x, f) ==
  \/ read.msg[f] \in {NewOf(k)[f], x[f]}
  \/ /\ read.ok = FALSE /\ f \notin {"cmdType", "status", "seckeyID"}
     /\ IsPrefix(read.msg[f], x[f])
ShowsLess(k, read, x) ==
  read.msg \in Messages(k) /\ \A f \in DOMAIN NewOf(k) \ {"unknown"} : ShowsField(k, read, x, f)

\* The default values are values.
LEMMA Zero == 0 \in Int32
  BY SmallVarint

LEMMA NoText == <<>> \in Text
<1>1. INT_MAX >= 0
  BY SMT DEF INT_MAX
<1>2. <<>> \in Bytes /\ Len(<<>>) = 0
  BY DEF Bytes
<1> QED  BY <1>1, <1>2, Zenon DEF Text

\* The beginning of a text is one.
LEMMA TextCut ==
  ASSUME NEW s \in Text, NEW n \in Nat, n <= Len(s)
  PROVE  SubSeq(s, 1, n) \in Text /\ IsPrefix(SubSeq(s, 1, n), s)
<1>1. s \in Seq(Byte) /\ Len(s) <= INT_MAX /\ Len(s) \in Nat /\ INT_MAX \in Int
  BY SMT DEF Text, INT_MAX, Bytes
<1>2. ASSUME NEW i \in 1 .. n  PROVE s[i] \in Byte
  <2>1. i \in 1 .. Len(s)
    BY <1>1
  <2> QED  BY <1>1, <2>1, ElementOfSeq
<1>3. SubSeq(s, 1, n) \in Seq(Byte) /\ Len(SubSeq(s, 1, n)) = n
  <2>1. \A i \in 1 .. n : i \in 1 .. Len(s)
    BY <1>1
  <2> QED  BY <1>1, <1>2, <2>1, SubSeqProperties
<1>4. n <= INT_MAX
  BY <1>1, SMT
<1>5. SubSeq(s, 1, n) \in Text
  BY <1>3, <1>4 DEF Text, Bytes
<1>6. SubSeq(SubSeq(s, 1, n), 1, n) = SubSeq(s, 1, n)
  BY <1>3, SubSeqFull
<1>7. IsPrefix(SubSeq(s, 1, n), s)
  BY <1>3, <1>6 DEF IsPrefix
<1> QED  BY <1>5, <1>7

\* m has each field of x or none of it.
PartOf(k, m, x) == \A f \in DOMAIN NewOf(k) \ {"unknown"} : m[f] \in {NewOf(k)[f], x[f]}

\* The fields of both classes, and what setting a text changes.
LEMMA Fields ==
  ASSUME NEW k \in Kinds
  PROVE  /\ DOMAIN NewOf(k) \ {"unknown"} =
              TextFields(k) \cup IF k = "request" THEN {"cmdType"} ELSE {"status", "seckeyID"}
         /\ \A m \in Messages(k), g \in TextFields(k), v \in Text :
              /\ m[g] \in Text /\ [m EXCEPT ![g] = v] \in Messages(k) /\ [m EXCEPT ![g] = v][g] = v
              /\ \A f \in DOMAIN NewOf(k) \ {g} : [m EXCEPT ![g] = v][f] = m[f]
<1>1. CASE k = "request"
  <2>1. NewOf(k) = NewRequestMsg /\ Messages(k) = RequestMessages
        /\ TextFields(k) = {"clientID", "serverID", "sign", "data"}
    BY <1>1, Zenon DEF NewOf, Messages, TextFields
  <2>2. DOMAIN NewRequestMsg = {"cmdType", "clientID", "serverID", "sign", "data", "unknown"}
    BY DEF NewRequestMsg
  <2>3. DOMAIN NewOf(k) \ {"unknown"} = TextFields(k) \cup {"cmdType"}
    BY <2>1, <2>2
  <2>4. ASSUME NEW m \in RequestMessages, NEW g \in TextFields(k), NEW v \in Text
        PROVE  /\ m[g] \in Text /\ [m EXCEPT ![g] = v] \in RequestMessages /\ [m EXCEPT ![g] = v][g] = v
               /\ \A f \in DOMAIN NewOf(k) \ {g} : [m EXCEPT ![g] = v][f] = m[f]
    <3>1. /\ DOMAIN m = DOMAIN NewOf(k) /\ g \in DOMAIN m
      BY <2>1, <2>2 DEF RequestMessages
    <3>2. [m EXCEPT ![g] = v] \in RequestMessages /\ m[g] \in Text
      BY <2>1 DEF RequestMessages
    <3> QED  BY <3>1, <3>2
  <2> QED  BY <1>1, <2>1, <2>3, <2>4
<1>2. CASE k = "respond"
  <2>1. NewOf(k) = NewRespondMsg /\ Messages(k) = RespondMessages
        /\ TextFields(k) = {"clientID", "serverID", "data"} /\ k # "request"
    <3>1. k # "request"
      BY <1>2
    <3> QED  BY <3>1, Zenon DEF NewOf, Messages, TextFields
  <2>2. DOMAIN NewRespondMsg = {"status", "seckeyID", "clientID", "serverID", "data", "unknown"}
    BY DEF NewRespondMsg
  <2>3. DOMAIN NewOf(k) \ {"unknown"} = TextFields(k) \cup {"status", "seckeyID"}
    BY <2>1, <2>2
  <2>4. ASSUME NEW m \in RespondMessages, NEW g \in TextFields(k), NEW v \in Text
        PROVE  /\ m[g] \in Text /\ [m EXCEPT ![g] = v] \in RespondMessages /\ [m EXCEPT ![g] = v][g] = v
               /\ \A f \in DOMAIN NewOf(k) \ {g} : [m EXCEPT ![g] = v][f] = m[f]
    <3>1. /\ DOMAIN m = DOMAIN NewOf(k) /\ g \in DOMAIN m
      BY <2>1, <2>2 DEF RespondMessages
    <3>2. [m EXCEPT ![g] = v] \in RespondMessages /\ m[g] \in Text
      BY <2>1 DEF RespondMessages
    <3> QED  BY <3>1, <3>2
  <2> QED  BY <2>1, <2>3, <2>4
<1> QED  BY <1>1, <1>2 DEF Kinds

\* A message that is a part of x shows less than x.
LEMMA PartShown ==
  ASSUME NEW k \in Kinds, NEW x, NEW m \in Messages(k), PartOf(k, m, x), NEW ok
  PROVE  ShowsLess(k, [msg |-> m, ok |-> ok], x)
<1> DEFINE read == [msg |-> m, ok |-> ok]
<1>1. read.msg = m
  OBVIOUS
<1> HIDE DEF read
<1>2. ShowsLess(k, read, x)
  BY <1>1, Zenon DEF PartOf, ShowsLess, ShowsField
<1> QED  BY <1>2 DEF read

\* The reading ended in a text, of which it may show the beginning.
LEMMA TextShown ==
  ASSUME NEW k \in Kinds, NEW x \in Messages(k), NEW m \in Messages(k), PartOf(k, m, x),
         NEW b, NEW m0, NEW tag, NEW g \in TextFields(k),
         \A f : f.tag = tag => ReadFieldOf(k, m, f) = [msg |-> [m EXCEPT ![g] = f.val], ok |-> f.ok],
         ReadFieldOf(k, m, NoField) = [msg |-> m, ok |-> FALSE],
         EndsAt(k, b, m0, m, tag, x[g])
  PROVE  ShowsLess(k, ReadOf(k, m0, b), x)
<1>4. CASE ReadOf(k, m0, b) = [msg |-> m, ok |-> TRUE]
  BY <1>4, PartShown
<1> SUFFICES ASSUME NEW f, BeginningOf(f, tag, x[g]), ReadOf(k, m0, b) = ReadFieldOf(k, m, f)
             PROVE  ShowsLess(k, ReadOf(k, m0, b), x)
  BY <1>4 DEF EndsAt
<1>1. BeginningOf(f, tag, x[g]) /\ ReadOf(k, m0, b) = ReadFieldOf(k, m, f)
  OBVIOUS
<1>2. CASE f = NoField
  BY <1>1, <1>2, PartShown
<1>3. CASE f # NoField
  <2>1. f.tag = tag /\ f.ok = FALSE /\ \E j \in Nat : j <= Len(x[g]) /\ f.val = SubSeq(x[g], 1, j)
    BY <1>1, <1>3, Zenon DEF BeginningOf
  <2>2. f.val \in Text /\ IsPrefix(f.val, x[g])
    <3>1. x[g] \in Text
      BY Fields, NoText
    <3> QED  BY <2>1, <3>1, TextCut
  <2> DEFINE msg == [m EXCEPT ![g] = f.val]  read == [msg |-> msg, ok |-> FALSE]
  <2>3. msg \in Messages(k) /\ msg[g] = f.val /\ \A h \in DOMAIN NewOf(k) \ {g} : msg[h] = m[h]
    BY <2>2, Fields
  <2>4. ReadOf(k, m0, b) = read
    BY <1>1, <2>1
  <2>5. read.msg = msg /\ read.ok = FALSE
    OBVIOUS
  <2>6. g \notin {"cmdType", "status", "seckeyID"}
    BY DEF TextFields
  <2> HIDE DEF msg, read
  <2>7. ASSUME NEW h \in DOMAIN NewOf(k) \ {"unknown"}  PROVE ShowsField(k, read, x, h)
    <3>1. CASE h = g
      BY <2>2, <2>3, <2>5, <2>6, <3>1, Zenon DEF ShowsField
    <3>2. CASE h # g
      <4>1. msg[h] = m[h] /\ m[h] \in {NewOf(k)[h], x[h]}
        BY <2>3, <3>2 DEF PartOf
      <4> QED  BY <2>5, <4>1 DEF ShowsField
    <3> QED  BY <3>1, <3>2
  <2>8. ShowsLess(k, read, x)
    BY <2>3, <2>5, <2>7, Zenon DEF ShowsLess
  <2> QED  BY <2>4, <2>8
<1> QED  BY <1>2, <1>3

\* The reading ended where no text is.
LEMMA NothingShown ==
  ASSUME NEW k \in Kinds, NEW x \in Messages(k), NEW m \in Messages(k), PartOf(k, m, x),
         NEW b, NEW m0, ReadFieldOf(k, m, NoField) = [msg |-> m, ok |-> FALSE],
         EndsAt(k, b, m0, m, 0, <<>>)
  PROVE  ShowsLess(k, ReadOf(k, m0, b), x)
<1>1. CASE ReadOf(k, m0, b) = [msg |-> m, ok |-> TRUE]
  BY <1>1, PartShown
<1>2. ASSUME NEW f, BeginningOf(f, 0, <<>>), ReadOf(k, m0, b) = ReadFieldOf(k, m, f)
      PROVE  ShowsLess(k, ReadOf(k, m0, b), x)
  <2>1. f = NoField
    BY <1>2 DEF BeginningOf
  <2> QED  BY <1>2, <2>1, PartShown
<1> QED  BY <1>1, <1>2 DEF EndsAt

\* What is read of a RequestMsg cut short, and of a RespondMsg.
LEMMA RequestCut ==
  ASSUME NEW x \in RequestMessages, NEW n \in Nat, n <= Len(RequestMsgSerialize(x))
  PROVE  ShowsLess("request", ReadOf("request", NewRequestMsg, SubSeq(RequestMsgSerialize(x), 1, n)), x)
<1> DEFINE N == NewRequestMsg  w == RequestPieces(x)  b == SubSeq(Written(w), 1, n)  text == RequestTexts(x)
           S(i) == RequestStage(N, x, i)  stage == [i \in 0 .. 5 |-> S(i)]
           read == ReadOf("request", N, b)
<1>1. N \in RequestMessages
  BY Zero, NoText DEF NewRequestMsg, RequestMessages
<1>2. RequestMsgSerialize(x) = Written(w) /\ "request" \in Kinds
  BY RequestWritten, Zenon DEF Kinds
<1> HIDE DEF N
<1>5. (\A i \in 0 .. 5 : S(i) \in RequestMessages) /\ S(0) = N
  BY <1>1, RequestStages
<1>6. PiecesOf("request", stage, w, RequestTags, text)
  BY <1>1, RequestRead
<1> HIDE DEF w
<1>7. /\ stage[0] = S(0) /\ stage[1] = S(1) /\ stage[2] = S(2) /\ stage[3] = S(3) /\ stage[4] = S(4)
      /\ stage[5] = S(5)
  OBVIOUS
<1> HIDE DEF stage
<1>8. \/ \E i \in 1 .. 5 : EndsAt("request", b, N, stage[i - 1], RequestTags[i], text[i])
      \/ read = [msg |-> stage[5], ok |-> TRUE]
  BY <1>2, <1>5, <1>6, <1>7, ReadCut
<1> HIDE DEF b
\* Every stage has each field of x or none of it.
<1>9. Messages("request") = RequestMessages /\ NewOf("request") = NewRequestMsg
  BY Zenon DEF Messages, NewOf
<1>10. ASSUME NEW i \in 0 .. 5  PROVE PartOf("request", S(i), x)
  <2>1. DOMAIN NewRequestMsg \ {"unknown"} = {"cmdType", "clientID", "serverID", "sign", "data"}
    BY DEF NewRequestMsg
  <2>2. /\ S(i).cmdType \in {N.cmdType, x.cmdType}
        /\ S(i).clientID \in {N.clientID, x.clientID}
        /\ S(i).serverID \in {N.serverID, x.serverID}
        /\ S(i).sign \in {N.sign, x.sign}
        /\ S(i).data \in {N.data, x.data}
    BY DEF RequestStage
  <2> HIDE DEF S
  <2> QED  BY <1>9, <2>1, <2>2 DEF PartOf, N
<1>11. \A i \in 0 .. 5 : ReadFieldOf("request", S(i), NoField) = [msg |-> S(i), ok |-> FALSE]
  BY <1>5, RequestFieldRead
<1> HIDE DEF S
<1>12. 0 \in 0 .. 5 /\ 1 \in 0 .. 5 /\ 2 \in 0 .. 5 /\ 3 \in 0 .. 5 /\ 4 \in 0 .. 5 /\ 5 \in 0 .. 5
  OBVIOUS
<1>13. EndsAt("request", b, N, S(0), 0, <<>>) => ShowsLess("request", read, x)
  BY <1>2, <1>5, <1>9, <1>10, <1>11, <1>12, NothingShown
<1>14. EndsAt("request", b, N, S(1), 18, x.clientID) => ShowsLess("request", read, x)
  <2>1. \A f : f.tag = 18 => ReadFieldOf("request", S(1), f) = [msg |-> [S(1) EXCEPT !["clientID"] = f.val], ok |-> f.ok]
    BY <1>5, <1>12, RequestFieldRead
  <2>2. "clientID" \in TextFields("request")
    BY DEF TextFields
  <2> QED  BY <1>2, <1>5, <1>9, <1>10, <1>11, <1>12, <2>1, <2>2, TextShown
<1>15. EndsAt("request", b, N, S(2), 26, x.serverID) => ShowsLess("request", read, x)
  <2>1. \A f : f.tag = 26 => ReadFieldOf("request", S(2), f) = [msg |-> [S(2) EXCEPT !["serverID"] = f.val], ok |-> f.ok]
    BY <1>5, <1>12, RequestFieldRead
  <2>2. "serverID" \in TextFields("request")
    BY DEF TextFields
  <2> QED  BY <1>2, <1>5, <1>9, <1>10, <1>11, <1>12, <2>1, <2>2, TextShown
<1>16. EndsAt("request", b, N, S(3), 34, x.sign) => ShowsLess("request", read, x)
  <2>1. \A f : f.tag = 34 => ReadFieldOf("request", S(3), f) = [msg |-> [S(3) EXCEPT !["sign"] = f.val], ok |-> f.ok]
    BY <1>5, <1>12, RequestFieldRead
  <2>2. "sign" \in TextFields("request")
    BY DEF TextFields
  <2> QED  BY <1>2, <1>5, <1>9, <1>10, <1>11, <1>12, <2>1, <2>2, TextShown
<1>17. EndsAt("request", b, N, S(4), 42, x.data) => ShowsLess("request", read, x)
  <2>1. \A f : f.tag = 42 => ReadFieldOf("request", S(4), f) = [msg |-> [S(4) EXCEPT !["data"] = f.val], ok |-> f.ok]
    BY <1>5, <1>12, RequestFieldRead
  <2>2. "data" \in TextFields("request")
    BY DEF TextFields
  <2> QED  BY <1>2, <1>5, <1>9, <1>10, <1>11, <1>12, <2>1, <2>2, TextShown
<1>18. ASSUME NEW i \in 1 .. 5, EndsAt("request", b, N, stage[i - 1], RequestTags[i], text[i])
       PROVE  ShowsLess("request", read, x)
  <2>1. i = 1 \/ i = 2 \/ i = 3 \/ i = 4 \/ i = 5
    OBVIOUS
  <2> HIDE DEF read
  <2> QED  BY <1>7, <1>13, <1>14, <1>15, <1>16, <1>17, <1>18, <2>1 DEF RequestTags, RequestTexts
<1>19. read = [msg |-> stage[5], ok |-> TRUE] => ShowsLess("request", read, x)
  BY <1>2, <1>5, <1>7, <1>9, <1>10, <1>12, PartShown
<1>20. ShowsLess("request", read, x)
  BY <1>8, <1>18, <1>19
<1> QED  BY <1>2, <1>20 DEF b, N

LEMMA RespondCut ==
  ASSUME NEW x \in RespondMessages, NEW n \in Nat, n <= Len(RespondMsgSerialize(x))
  PROVE  ShowsLess("respond", ReadOf("respond", NewRespondMsg, SubSeq(RespondMsgSerialize(x), 1, n)), x)
<1> DEFINE N == NewRespondMsg  w == RespondPieces(x)  b == SubSeq(Written(w), 1, n)  text == RespondTexts(x)
           status == x.status \/ N.status
           S(i) == RespondStage(N, x, status, i)  stage == [i \in 0 .. 5 |-> S(i)]
           read == ReadOf("respond", N, b)
<1>1. N \in RespondMessages
  BY Zero, NoText DEF NewRespondMsg, RespondMessages
<1>2. RespondMsgSerialize(x) = Written(w) /\ "respond" \in Kinds
  BY RespondWritten, Zenon DEF Kinds
<1>3. EitherStatus(N, x, status)
  BY <1>1, EitherStatusIs
<1>4. x.status \in BOOLEAN /\ (status = x.status)
  <2>1. N.status = FALSE /\ x.status \in BOOLEAN
    BY DEF NewRespondMsg, RespondMessages
  <2>2. status = x.status
    BY <2>1, Zenon
  <2> QED  BY <2>1, <2>2, Zenon
<1> HIDE DEF N, status
<1>5. (\A i \in 0 .. 5 : S(i) \in RespondMessages) /\ S(0) = N
  BY <1>1, <1>3, RespondStages
<1>6. PiecesOf("respond", stage, w, RespondTags, text)
  BY <1>1, <1>3, RespondRead
<1> HIDE DEF w
<1>7. /\ stage[0] = S(0) /\ stage[1] = S(1) /\ stage[2] = S(2) /\ stage[3] = S(3) /\ stage[4] = S(4)
      /\ stage[5] = S(5)
  OBVIOUS
<1> HIDE DEF stage
<1>8. \/ \E i \in 1 .. 5 : EndsAt("respond", b, N, stage[i - 1], RespondTags[i], text[i])
      \/ read = [msg |-> stage[5], ok |-> TRUE]
  BY <1>2, <1>5, <1>6, <1>7, ReadCut
<1> HIDE DEF b
\* Every stage has each field of x or none of it.
<1>9. Messages("respond") = RespondMessages /\ NewOf("respond") = NewRespondMsg
  BY DEF Messages, NewOf
<1>10. ASSUME NEW i \in 0 .. 5  PROVE PartOf("respond", S(i), x)
  <2>1. DOMAIN NewRespondMsg \ {"unknown"} = {"status", "seckeyID", "clientID", "serverID", "data"}
    BY DEF NewRespondMsg
  <2>2. /\ S(i).status \in {N.status, x.status}
        /\ S(i).seckeyID \in {N.seckeyID, x.seckeyID}
        /\ S(i).clientID \in {N.clientID, x.clientID}
        /\ S(i).serverID \in {N.serverID, x.serverID}
        /\ S(i).data \in {N.data, x.data}
    BY <1>4 DEF RespondStage
  <2> HIDE DEF S
  <2> QED  BY <1>9, <2>1, <2>2 DEF PartOf, N
<1>11. \A i \in 0 .. 5 : ReadFieldOf("respond", S(i), NoField) = [msg |-> S(i), ok |-> FALSE]
  BY <1>5, RespondFieldRead
<1> HIDE DEF S
<1>12. 0 \in 0 .. 5 /\ 1 \in 0 .. 5 /\ 2 \in 0 .. 5 /\ 3 \in 0 .. 5 /\ 4 \in 0 .. 5 /\ 5 \in 0 .. 5
  OBVIOUS
<1>13. EndsAt("respond", b, N, S(0), 0, <<>>) => ShowsLess("respond", read, x)
  BY <1>2, <1>5, <1>9, <1>10, <1>11, <1>12, NothingShown
<1>14. EndsAt("respond", b, N, S(1), 0, <<>>) => ShowsLess("respond", read, x)
  BY <1>2, <1>5, <1>9, <1>10, <1>11, <1>12, NothingShown
<1>15. EndsAt("respond", b, N, S(2), 26, x.clientID) => ShowsLess("respond", read, x)
  <2>1. \A f : f.tag = 26 => ReadFieldOf("respond", S(2), f) = [msg |-> [S(2) EXCEPT !["clientID"] = f.val], ok |-> f.ok]
    BY <1>5, <1>12, RespondFieldRead
  <2>2. "clientID" \in TextFields("respond")
    BY DEF TextFields
  <2> QED  BY <1>2, <1>5, <1>9, <1>10, <1>11, <1>12, <2>1, <2>2, TextShown
<1>16. EndsAt("respond", b, N, S(3), 34, x.serverID) => ShowsLess("respond", read, x)
  <2>1. \A f : f.tag = 34 => ReadFieldOf("respond", S(3), f) = [msg |-> [S(3) EXCEPT !["serverID"] = f.val], ok |-> f.ok]
    BY <1>5, <1>12, RespondFieldRead
  <2>2. "serverID" \in TextFields("respond")
    BY DEF TextFields
  <2> QED  BY <1>2, <1>5, <1>9, <1>10, <1>11, <1>12, <2>1, <2>2, TextShown
<1>17. EndsAt("respond", b, N, S(4), 42, x.data) => ShowsLess("respond", read, x)
  <2>1. \A f : f.tag = 42 => ReadFieldOf("respond", S(4), f) = [msg |-> [S(4) EXCEPT !["data"] = f.val], ok |-> f.ok]
    BY <1>5, <1>12, RespondFieldRead
  <2>2. "data" \in TextFields("respond")
    BY DEF TextFields
  <2> QED  BY <1>2, <1>5, <1>9, <1>10, <1>11, <1>12, <2>1, <2>2, TextShown
<1>18. ASSUME NEW i \in 1 .. 5, EndsAt("respond", b, N, stage[i - 1], RespondTags[i], text[i])
       PROVE  ShowsLess("respond", read, x)
  <2>1. i = 1 \/ i = 2 \/ i = 3 \/ i = 4 \/ i = 5
    OBVIOUS
  <2> HIDE DEF read
  <2> QED  BY <1>7, <1>13, <1>14, <1>15, <1>16, <1>17, <1>18, <2>1 DEF RespondTags, RespondTexts
<1>19. read = [msg |-> stage[5], ok |-> TRUE] => ShowsLess("respond", read, x)
  BY <1>2, <1>5, <1>7, <1>9, <1>10, <1>12, PartShown
<1>20. ShowsLess("respond", read, x)
  BY <1>8, <1>18, <1>19
<1> QED  BY <1>2, <1>20 DEF b, N

-----------------------------------------------------------------------------
(* Both codecs *)

SerializeOf(k, m) == IF k = "request" THEN RequestMsgSerialize(m) ELSE RespondMsgSerialize(m)
SizeOf(k, m) == IF k = "request" THEN RequestMsgByteSizeLong(m) ELSE RespondMsgByteSizeLong(m)
MergeOf(k, m, from) ==
  IF k = "request" THEN RequestMsgMergeFrom(m, from) ELSE RespondMsgMergeFrom(m, from)
CopyOf(k, m, from) ==
  IF k = "request" THEN RequestMsgCopyFrom(m, from) ELSE RespondMsgCopyFrom(m, from)
ClearOf(k, m) == IF k = "request" THEN RequestMsgClear(m) ELSE RespondMsgClear(m)
ParseOf(k, m, s) == ReadOf(k, ClearOf(k, m), s)
InfosOf(k) == IF k = "request" THEN RequestInfos ELSE RespondInfos
InitOf(k, m, info) ==
  IF k = "request" THEN RequestInitMessage(m, info) ELSE RespondInitMessage(m, info)
FreshOf(k, info) == InitOf(k, NewOf(k), info)

\* No text of the message holds a zero byte.
WithoutZeros(k, x) == \A g \in TextFields(k) : x[g] \in NoZeros

\* What is written has the length computed for it, and zero bytes only of its texts.
LEMMA MessageWritten ==
  ASSUME NEW k \in Kinds, NEW x \in Messages(k)
  PROVE  /\ SerializeOf(k, x) \in Bytes
         /\ WithoutZeros(k, x) => SerializeOf(k, x) \in NoZeros
         /\ Len(SerializeOf(k, x)) = SizeOf(k, x)
<1>1. CASE k = "request"
  <2>1. x \in RequestMessages /\ SerializeOf(k, x) = RequestMsgSerialize(x)
        /\ SizeOf(k, x) = RequestMsgByteSizeLong(x)
    BY <1>1, Zenon DEF Messages, SerializeOf, SizeOf
  <2> QED  BY <1>1, <2>1, RequestWritten DEF WithoutZeros
<1>2. CASE k = "respond"
  <2>1. x \in RespondMessages /\ SerializeOf(k, x) = RespondMsgSerialize(x)
        /\ SizeOf(k, x) = RespondMsgByteSizeLong(x)
    <3>1. k # "request"
      BY <1>2
    <3> QED  BY <3>1, Zenon DEF Messages, SerializeOf, SizeOf
  <2> QED  BY <1>2, <2>1, RespondWritten DEF WithoutZeros
<1> QED  BY <1>1, <1>2 DEF Kinds

\* Reading what was written of x into m merges x into m, whatever follows.
LEMMA MessageRead ==
  ASSUME NEW k \in Kinds, NEW b \in Bytes, NEW m0, NEW m \in Messages(k), NEW x \in Messages(k),
         NEW t \in Bytes, Progress(k, b, m0, [msg |-> m, ok |-> TRUE], SerializeOf(k, x) \o t)
  PROVE  /\ Progress(k, b, m0, [msg |-> MergeOf(k, m, x), ok |-> TRUE], t)
         /\ MergeOf(k, m, x) \in Messages(k)
<1>1. CASE k = "request"
  <2> DEFINE S(i) == RequestStage(m, x, i)  stage == [i \in 0 .. 5 |-> S(i)]
  <2>1. /\ m \in RequestMessages /\ x \in RequestMessages /\ Messages(k) = RequestMessages
        /\ SerializeOf(k, x) = RequestMsgSerialize(x) /\ MergeOf(k, m, x) = RequestMsgMergeFrom(m, x)
    BY <1>1, Zenon DEF Messages, SerializeOf, MergeOf
  <2>2. SerializeOf(k, x) = Written(RequestPieces(x))
    BY <2>1, RequestWritten
  <2>3. (\A i \in 0 .. 5 : S(i) \in RequestMessages) /\ S(0) = m /\ S(5) = MergeOf(k, m, x)
    BY <2>1, RequestStages
  <2>4. PiecesOf(k, stage, RequestPieces(x), RequestTags, RequestTexts(x))
    BY <1>1, <2>1, RequestRead
  <2> HIDE DEF S
  <2>5. stage[0] = m /\ stage[5] = MergeOf(k, m, x)
    BY <2>3
  <2>6. MergeOf(k, m, x) \in RequestMessages
    <3>1. 5 \in 0 .. 5
      OBVIOUS
    <3> QED  BY <2>3, <3>1, Zenon
  <2> HIDE DEF stage
  <2>7. Progress(k, b, m0, [msg |-> stage[0], ok |-> TRUE], Written(RequestPieces(x)) \o t)
    BY <2>2, <2>5
  <2>8. Progress(k, b, m0, [msg |-> stage[5], ok |-> TRUE], t)
    BY <2>4, <2>7, ReadWhole
  <2> QED  BY <2>1, <2>5, <2>6, <2>8
<1>2. CASE k = "respond"
  <2> DEFINE status == x.status \/ m.status
             S(i) == RespondStage(m, x, status, i)  stage == [i \in 0 .. 5 |-> S(i)]
  <2>1. /\ m \in RespondMessages /\ x \in RespondMessages /\ Messages(k) = RespondMessages
        /\ SerializeOf(k, x) = RespondMsgSerialize(x) /\ MergeOf(k, m, x) = RespondMsgMergeFrom(m, x)
    <3>1. k # "request"
      BY <1>2
    <3> QED  BY <3>1, Zenon DEF Messages, SerializeOf, MergeOf
  <2>2. SerializeOf(k, x) = Written(RespondPieces(x))
    BY <2>1, RespondWritten
  <2>9. EitherStatus(m, x, status)
    BY <2>1, EitherStatusIs
  <2> HIDE DEF status
  <2>3. (\A i \in 0 .. 5 : S(i) \in RespondMessages) /\ S(0) = m /\ S(5) = MergeOf(k, m, x)
    BY <2>1, <2>9, RespondStages
  <2>4. PiecesOf(k, stage, RespondPieces(x), RespondTags, RespondTexts(x))
    BY <1>2, <2>1, <2>9, RespondRead
  <2> HIDE DEF S
  <2>5. stage[0] = m /\ stage[5] = MergeOf(k, m, x)
    BY <2>3
  <2>6. MergeOf(k, m, x) \in RespondMessages
    <3>1. 5 \in 0 .. 5
      OBVIOUS
    <3> QED  BY <2>3, <3>1, Zenon
  <2> HIDE DEF stage
  <2>7. Progress(k, b, m0, [msg |-> stage[0], ok |-> TRUE], Written(RespondPieces(x)) \o t)
    BY <2>2, <2>5
  <2>8. Progress(k, b, m0, [msg |-> stage[5], ok |-> TRUE], t)
    BY <2>4, <2>7, ReadWhole
  <2> QED  BY <2>1, <2>5, <2>6, <2>8
<1> QED  BY <1>1, <1>2 DEF Kinds

\* Clear leaves the default message, and merging into that one copies.
LEMMA MessageCleared ==
  ASSUME NEW k \in Kinds, NEW m \in Messages(k), NEW x \in Messages(k)
  PROVE  /\ ClearOf(k, m) = NewOf(k) /\ NewOf(k) \in Messages(k)
         /\ MergeOf(k, NewOf(k), x) = x /\ CopyOf(k, m, x) = x
<1>1. CASE k = "request"
  <2> DEFINE N == NewRequestMsg
  <2>1. /\ m \in RequestMessages /\ x \in RequestMessages /\ Messages(k) = RequestMessages
        /\ NewOf(k) = N /\ MergeOf(k, N, x) = RequestMsgMergeFrom(N, x)
        /\ ClearOf(k, m) = RequestMsgClear(m)
        /\ CopyOf(k, m, x) = RequestMsgMergeFrom(RequestMsgClear(m), x)
    BY <1>1, Zenon DEF Messages, NewOf, MergeOf, ClearOf, CopyOf, RequestMsgCopyFrom
  <2>2. RequestMsgClear(m) = N
    BY <2>1 DEF RequestMsgClear, RequestMessages, NewRequestMsg
  <2>3. N \in RequestMessages
    BY Zero, NoText DEF NewRequestMsg, RequestMessages
  <2>4. RequestStage(N, x, 5) = RequestMsgMergeFrom(N, x)
    BY <2>1, <2>3, RequestStages
  <2>5. RequestStage(N, x, 5) = x
    BY <2>1 DEF RequestStage, RequestMessages, NewRequestMsg
  <2> QED  BY <2>1, <2>2, <2>3, <2>4, <2>5
<1>2. CASE k = "respond"
  <2> DEFINE N == NewRespondMsg  status == x.status \/ N.status
  <2>1. /\ m \in RespondMessages /\ x \in RespondMessages /\ Messages(k) = RespondMessages
        /\ NewOf(k) = N /\ MergeOf(k, N, x) = RespondMsgMergeFrom(N, x)
        /\ ClearOf(k, m) = RespondMsgClear(m)
        /\ CopyOf(k, m, x) = RespondMsgMergeFrom(RespondMsgClear(m), x)
    <3>1. k # "request"
      BY <1>2
    <3> QED  BY <3>1, Zenon DEF Messages, NewOf, MergeOf, ClearOf, CopyOf, RespondMsgCopyFrom
  <2>2. RespondMsgClear(m) = N
    BY <2>1 DEF RespondMsgClear, RespondMessages, NewRespondMsg
  <2>3. N \in RespondMessages
    BY Zero, NoText DEF NewRespondMsg, RespondMessages
  <2>4. EitherStatus(N, x, status)
    BY <2>1, <2>3, EitherStatusIs
  <2>5. status = x.status
    <3>1. N.status = FALSE /\ x.status \in BOOLEAN
      BY <2>1 DEF NewRespondMsg, RespondMessages
    <3> QED  BY <3>1, Zenon
  <2> HIDE DEF status
  <2>6. RespondStage(N, x, status, 5) = RespondMsgMergeFrom(N, x)
    BY <2>1, <2>3, <2>4, RespondStages
  <2>7. RespondStage(N, x, status, 5) = x
    BY <2>1, <2>5 DEF RespondStage, RespondMessages, NewRespondMsg
  <2> QED  BY <2>1, <2>2, <2>3, <2>6, <2>7
<1> QED  BY <1>1, <1>2 DEF Kinds

\* What is written is parsed back, one message or two of them joined.
LEMMA MessagesParsed ==
  ASSUME NEW k \in Kinds, NEW m \in Messages(k), NEW x \in Messages(k), NEW y \in Messages(k)
  PROVE  /\ ParseOf(k, m, SerializeOf(k, x)) = [msg |-> x, ok |-> TRUE]
         /\ ParseOf(k, m, SerializeOf(k, x) \o SerializeOf(k, y)) = [msg |-> MergeOf(k, x, y), ok |-> TRUE]
<1> DEFINE a == SerializeOf(k, x)  c == SerializeOf(k, y)  N == NewOf(k)
<1>1. a \in Bytes /\ c \in Bytes
  BY MessageWritten
<1>2. a \o <<>> = a /\ c \o <<>> = c /\ <<>> \in Bytes /\ a \o c \in Bytes
  BY <1>1 DEF Bytes
<1>3. ClearOf(k, m) = N /\ N \in Messages(k) /\ MergeOf(k, N, x) = x
  BY MessageCleared
<1> HIDE DEF a, c, N
<1>4. ReadOf(k, N, a) = [msg |-> x, ok |-> TRUE]
  <2>1. Progress(k, a, N, [msg |-> N, ok |-> TRUE], a \o <<>>)
    BY <1>1, <1>2, ProgressStart
  <2>2. Progress(k, a, N, [msg |-> x, ok |-> TRUE], <<>>)
    BY <1>1, <1>2, <1>3, <2>1, MessageRead DEF a
  <2> QED  BY <1>1, <2>2, ProgressEnd
<1>5. ReadOf(k, N, a \o c) = [msg |-> MergeOf(k, x, y), ok |-> TRUE]
  <2> DEFINE b == a \o c
  <2>1. b \in Bytes
    BY <1>2
  <2> HIDE DEF b
  <2>2. Progress(k, b, N, [msg |-> N, ok |-> TRUE], a \o c)
    BY <2>1, ProgressStart DEF b
  <2>3. Progress(k, b, N, [msg |-> x, ok |-> TRUE], c \o <<>>)
    BY <1>1, <1>2, <1>3, <2>1, <2>2, MessageRead DEF a
  <2>4. Progress(k, b, N, [msg |-> MergeOf(k, x, y), ok |-> TRUE], <<>>)
    BY <1>2, <2>1, <2>3, MessageRead DEF c
  <2>5. ReadOf(k, N, b) = [msg |-> MergeOf(k, x, y), ok |-> TRUE]
    BY <2>1, <2>4, ProgressEnd
  <2> QED  BY <2>5 DEF b
<1> QED  BY <1>3, <1>4, <1>5 DEF ParseOf, a, c

\* What is parsed of a message that was cut short.
LEMMA MessageCut ==
  ASSUME NEW k \in Kinds, NEW m \in Messages(k), NEW x \in Messages(k),
         NEW n \in 0 .. Len(SerializeOf(k, x))
  PROVE  ShowsLess(k, ParseOf(k, m, SubSeq(SerializeOf(k, x), 1, n)), x)
<1>1. ClearOf(k, m) = NewOf(k) /\ n \in Nat /\ n <= Len(SerializeOf(k, x))
  <2>1. Len(SerializeOf(k, x)) \in Nat
    BY MessageWritten DEF Bytes
  <2> QED  BY <2>1, MessageCleared
<1>2. ParseOf(k, m, SubSeq(SerializeOf(k, x), 1, n)) = ReadOf(k, NewOf(k), SubSeq(SerializeOf(k, x), 1, n))
  BY <1>1, Zenon DEF ParseOf
<1>3. CASE k = "request"
  <2>1. NewOf(k) = NewRequestMsg /\ SerializeOf(k, x) = RequestMsgSerialize(x) /\ x \in RequestMessages
    BY <1>3, Zenon DEF NewOf, SerializeOf, Messages
  <2> QED  BY <1>1, <1>2, <1>3, <2>1, RequestCut
<1>4. CASE k = "respond"
  <2>1. NewOf(k) = NewRespondMsg /\ SerializeOf(k, x) = RespondMsgSerialize(x) /\ x \in RespondMessages
    <3>1. k # "request"
      BY <1>4
    <3> QED  BY <3>1, Zenon DEF NewOf, SerializeOf, Messages
  <2> QED  BY <1>1, <1>2, <1>4, <2>1, RespondCut
<1> QED  BY <1>3, <1>4 DEF Kinds

\* recvMsg hands on the beginning of what it received,
LEMMA RecvMsgCuts ==
  ASSUME NEW s \in Bytes
  PROVE  \E n \in 0 .. Len(s) : RecvMsg(s) = SubSeq(s, 1, n)
<1> DEFINE zeros == {i \in DOMAIN s : s[i] = 0}
<1>1. Len(s) \in Nat /\ DOMAIN s = 1 .. Len(s) /\ SubSeq(s, 1, Len(s)) = s
  BY SubSeqFull DEF Bytes
<1>2. CASE zeros = {}
  <2>1. RecvMsg(s) = s
    BY <1>2, Zenon DEF RecvMsg
  <2>2. Len(s) \in 0 .. Len(s) /\ RecvMsg(s) = SubSeq(s, 1, Len(s))
    BY <1>1, <2>1
  <2> QED  BY <2>2, Zenon
<1>3. CASE zeros # {}
  <2>1. zeros \subseteq 1 .. Len(s) /\ zeros \subseteq Nat
    BY <1>1
  <2>2. RecvMsg(s) = SubSeq(s, 1, Min(zeros) - 1)
    BY <1>3, Zenon DEF RecvMsg
  <2> HIDE DEF zeros
  <2> DEFINE Less == OpToRel(<, Nat)
  <2>3. \E i \in zeros : \A j \in zeros : <<j, i>> \notin Less
    <3>1. IsWellFoundedOn(Less, Nat)
      BY NatLessThanWellFounded, Zenon
    <3> HIDE DEF Less
    <3> QED  BY <1>3, <2>1, <3>1, WFMin, Zenon
  <2>4. \E i \in zeros : \A j \in zeros : i <= j
    <3>1. PICK i \in zeros : \A j \in zeros : <<j, i>> \notin Less
      BY <2>3
    <3>2. \A x, y \in Nat : x < y => <<x, y>> \in Less
      BY Zenon DEF OpToRel
    <3> HIDE DEF Less
    <3>3. ASSUME NEW j \in zeros  PROVE i <= j
      <4>1. i \in Nat /\ j \in Nat
        BY <2>1
      <4>2. ~(j < i)
        BY <3>1, <3>2, <4>1, Zenon
      <4> QED  BY <4>1, <4>2
    <3> QED  BY <3>3
  <2>5. Min(zeros) \in zeros
    BY <2>4, Zenon DEF Min
  <2>6. Min(zeros) - 1 \in 0 .. Len(s)
    <3>1. Min(zeros) \in 1 .. Len(s)
      BY <2>1, <2>5, Zenon
    <3> QED  BY <1>1, <3>1
  <2> QED  BY <2>2, <2>6, Zenon
<1> QED  BY <1>2, <1>3

\* ... and cuts nothing off a message whose texts hold no zero byte.
LEMMA MessageReceived ==
  ASSUME NEW k \in Kinds, NEW x \in Messages(k), WithoutZeros(k, x)
  PROVE  RecvMsg(SerializeOf(k, x)) = SerializeOf(k, x)
<1> DEFINE s == SerializeOf(k, x)
<1>1. s \in Seq(1 .. 255)
  BY MessageWritten DEF NoZeros
<1> HIDE DEF s
<1>2. ASSUME NEW i \in DOMAIN s  PROVE s[i] # 0
  <2>1. i \in 1 .. Len(s)
    BY <1>1
  <2>2. s[i] \in 1 .. 255
    BY <1>1, <2>1, ElementOfSeq
  <2> QED  BY <2>2
<1>3. {i \in DOMAIN s : s[i] = 0} = {}
  BY <1>2
<1> QED  BY <1>3, Zenon DEF RecvMsg, s

\* An info fills every field: what the message held before is gone.
LEMMA Initialised ==
  ASSUME NEW k \in Kinds, NEW m \in Messages(k), NEW info \in InfosOf(k)
  PROVE  /\ InitOf(k, m, info) = FreshOf(k, info) /\ InitOf(k, m, info) \in Messages(k)
         /\ \A g \in TextFields(k) : FreshOf(k, info)[g] = info[g]
         /\ k = "request" => FreshOf(k, info).cmdType = info.cmd
         /\ k = "respond" => /\ FreshOf(k, info).seckeyID = info.seckeyID
                            /\ FreshOf(k, info).status = (info.status # 0)
         /\ FreshOf(k, info).unknown = <<>>
<1>1. CASE k = "request"
  <2>1. m \in RequestMessages /\ info \in RequestInfos /\ Messages(k) = RequestMessages
        /\ NewOf(k) = NewRequestMsg /\ InitOf(k, m, info) = RequestInitMessage(m, info)
        /\ FreshOf(k, info) = RequestInitMessage(NewRequestMsg, info)
    BY <1>1, Zenon DEF Messages, InfosOf, NewOf, InitOf, FreshOf
  <2> DEFINE result == [cmdType |-> info.cmd, clientID |-> info.clientID, serverID |-> info.serverID,
                        sign |-> info.sign, data |-> info.data, unknown |-> <<>>]
  <2>2. result \in RequestMessages
    BY <2>1, InfosAssumption DEF RequestMessages
  <2>3. ASSUME NEW p \in RequestMessages  PROVE RequestInitMessage(p, info) = result
    <3> DEFINE p1 == RequestMsgSetCmdType(p, info.cmd)
               p2 == RequestMsgSetClientID(p1, info.clientID)
               p3 == RequestMsgSetServerID(p2, info.serverID)
               p4 == RequestMsgSetSign(p3, info.sign)
               p5 == RequestMsgSetData(p4, info.data)
    <3>1. RequestInitMessage(p, info) = p5
      BY DEF RequestInitMessage
    <3>2. p1 = [cmdType |-> info.cmd, clientID |-> p.clientID, serverID |-> p.serverID,
                 sign |-> p.sign, data |-> p.data, unknown |-> <<>>]
      BY DEF RequestMessages, RequestMsgSetCmdType
    <3> HIDE DEF p1
    <3>3. p2 = [cmdType |-> info.cmd, clientID |-> info.clientID, serverID |-> p.serverID,
                 sign |-> p.sign, data |-> p.data, unknown |-> <<>>]
      BY <3>2 DEF RequestMsgSetClientID
    <3> HIDE DEF p2
    <3>4. p3 = [cmdType |-> info.cmd, clientID |-> info.clientID, serverID |-> info.serverID,
                 sign |-> p.sign, data |-> p.data, unknown |-> <<>>]
      BY <3>3 DEF RequestMsgSetServerID
    <3> HIDE DEF p3
    <3>5. p4 = [cmdType |-> info.cmd, clientID |-> info.clientID, serverID |-> info.serverID,
                 sign |-> info.sign, data |-> p.data, unknown |-> <<>>]
      BY <3>4 DEF RequestMsgSetSign
    <3> HIDE DEF p4
    <3>6. p5 = [cmdType |-> info.cmd, clientID |-> info.clientID, serverID |-> info.serverID,
                 sign |-> info.sign, data |-> info.data, unknown |-> <<>>]
      BY <3>5 DEF RequestMsgSetData
    <3> HIDE DEF p5
    <3> QED  BY <3>1, <3>6
  <2>4. NewRequestMsg \in RequestMessages
    BY <2>1, MessageCleared
  <2>5. /\ \A g \in TextFields(k) : result[g] = info[g]
        /\ result.cmdType = info.cmd /\ result.unknown = <<>>
    BY <1>1 DEF TextFields
  <2> HIDE DEF result
  <2>6. InitOf(k, m, info) = result /\ FreshOf(k, info) = result
    BY <2>1, <2>3, <2>4
  <2> QED  BY <1>1, <2>1, <2>2, <2>5, <2>6
<1>2. CASE k = "respond"
  <2>1. m \in RespondMessages /\ info \in RespondInfos /\ Messages(k) = RespondMessages
        /\ NewOf(k) = NewRespondMsg /\ InitOf(k, m, info) = RespondInitMessage(m, info)
        /\ FreshOf(k, info) = RespondInitMessage(NewRespondMsg, info)
    <3>1. k # "request"
      BY <1>2
    <3> QED  BY <3>1, Zenon DEF Messages, InfosOf, NewOf, InitOf, FreshOf
  <2> DEFINE status == info.status # 0
             result == [status |-> status, seckeyID |-> info.seckeyID, clientID |-> info.clientID,
                        serverID |-> info.serverID, data |-> info.data, unknown |-> <<>>]
  <2>5. status \in BOOLEAN
    BY Zenon
  <2>6. \A m1 : RespondInitMessage(m1, info) =
                  RespondMsgSetData(RespondMsgSetServerID(RespondMsgSetClientID(RespondMsgSetSeckeyID(
                    RespondMsgSetStatus(m1, status), info.seckeyID), info.clientID), info.serverID), info.data)
    BY Zenon DEF RespondInitMessage
  <2> HIDE DEF status
  <2>2. result \in RespondMessages
    BY <2>1, <2>5, InfosAssumption DEF RespondMessages
  <2>3. ASSUME NEW p \in RespondMessages  PROVE RespondInitMessage(p, info) = result
    <3> DEFINE p1 == RespondMsgSetStatus(p, status)
               p2 == RespondMsgSetSeckeyID(p1, info.seckeyID)
               p3 == RespondMsgSetClientID(p2, info.clientID)
               p4 == RespondMsgSetServerID(p3, info.serverID)
               p5 == RespondMsgSetData(p4, info.data)
    <3>1. RespondInitMessage(p, info) = p5
      BY <2>6
    <3>2. p1 = [status |-> status, seckeyID |-> p.seckeyID, clientID |-> p.clientID,
                 serverID |-> p.serverID, data |-> p.data, unknown |-> <<>>]
      BY DEF RespondMessages, RespondMsgSetStatus
    <3> HIDE DEF p1
    <3>3. p2 = [status |-> status, seckeyID |-> info.seckeyID, clientID |-> p.clientID,
                 serverID |-> p.serverID, data |-> p.data, unknown |-> <<>>]
      BY <3>2 DEF RespondMsgSetSeckeyID
    <3> HIDE DEF p2
    <3>4. p3 = [status |-> status, seckeyID |-> info.seckeyID, clientID |-> info.clientID,
                 serverID |-> p.serverID, data |-> p.data, unknown |-> <<>>]
      BY <3>3 DEF RespondMsgSetClientID
    <3> HIDE DEF p3
    <3>5. p4 = [status |-> status, seckeyID |-> info.seckeyID, clientID |-> info.clientID,
                 serverID |-> info.serverID, data |-> p.data, unknown |-> <<>>]
      BY <3>4 DEF RespondMsgSetServerID
    <3> HIDE DEF p4
    <3>6. p5 = [status |-> status, seckeyID |-> info.seckeyID, clientID |-> info.clientID,
                 serverID |-> info.serverID, data |-> info.data, unknown |-> <<>>]
      BY <3>5 DEF RespondMsgSetData
    <3> HIDE DEF p5
    <3> QED  BY <3>1, <3>6
  <2>4. NewRespondMsg \in RespondMessages
    BY <2>1, MessageCleared
  <2>7. /\ \A g \in TextFields(k) : result[g] = info[g]
        /\ result.seckeyID = info.seckeyID /\ result.status = status /\ result.unknown = <<>>
    BY <1>2 DEF TextFields
  <2> HIDE DEF result
  <2>8. InitOf(k, m, info) = result /\ FreshOf(k, info) = result
    BY <2>1, <2>3, <2>4
  <2>9. FreshOf(k, info).status = (info.status # 0)
    BY <2>7, <2>8, Zenon DEF status
  <2> QED  BY <1>2, <2>1, <2>2, <2>7, <2>8, <2>9
<1> QED  BY <1>1, <1>2 DEF Kinds

-----------------------------------------------------------------------------
(* The inductive invariant *)

InfosOrNone(k) == InfosOf(k) \cup {NoInfo}

CodecTypes ==
  /\ kind \in Kinds /\ m_msg \in Messages(kind)
  /\ call \in {"none", "create", "init", "encode", "decoded", "not decoded"}
  /\ holds \in InfosOrNone(kind) /\ sent \in InfosOrNone(kind)
  /\ received.whole \in BOOLEAN /\ received.info \in InfosOrNone(kind)

\* What output is of: of sent, if that is known, else of some message.
WrittenFrom(k, string, info) ==
  \E x \in Messages(k) : string = SerializeOf(k, x) /\ (info # NoInfo => x = FreshOf(k, info))

\* What m_encStr is of: the beginning of what was written of a message, the
\* whole of it if it was not cut.
CutFrom(k, string, from) ==
  \E x \in Messages(k) :
    /\ from.info # NoInfo => x = FreshOf(k, from.info)
    /\ \E n \in 0 .. Len(SerializeOf(k, x)) :
         /\ string = SubSeq(SerializeOf(k, x), 1, n)
         /\ from.whole => n = Len(SerializeOf(k, x))

\* What is in m_msg when decodeMsg was the last call.
Shown(k, from, last, m) ==
  from.info # NoInfo /\ last \in {"decoded", "not decoded"} =>
    IF from.whole THEN last = "decoded" /\ m = FreshOf(k, from.info)
    ELSE \E read : /\ ShowsLess(k, read, FreshOf(k, from.info)) /\ read.msg = m
                   /\ read.ok = FALSE => last = "not decoded"

CodecInv ==
  /\ CodecTypes
  /\ holds # NoInfo => m_msg = FreshOf(kind, holds)
  /\ WrittenFrom(kind, output, sent)
  /\ CutFrom(kind, m_encStr, received)
  /\ Shown(kind, received, call, m_msg)

\* The operators of the module are those of the kind there is.
LEMMA OfKind ==
  ASSUME kind \in Kinds
  PROVE  /\ NewMessage = NewOf(kind) /\ Infos = InfosOf(kind)
         /\ \A m, info : InitMessage(m, info) = InitOf(kind, m, info)
         /\ \A m : SerializeToString(m) = SerializeOf(kind, m) /\ Size(m) = SizeOf(kind, m)
         /\ \A m, s : ParseFromString(m, s) = ParseOf(kind, m, s)
         /\ \A m, x : MergeFrom(m, x) = MergeOf(kind, m, x) /\ CopyFrom(m, x) = CopyOf(kind, m, x)
         /\ \A info : Fresh(info) = FreshOf(kind, info)
<1>1. NewMessage = NewOf(kind) /\ Infos = InfosOf(kind)
  BY Zenon DEF NewMessage, NewOf, Infos, InfosOf
<1>2. \A m, info : InitMessage(m, info) = InitOf(kind, m, info)
  BY Zenon DEF InitMessage, InitOf
<1>3. \A m : SerializeToString(m) = SerializeOf(kind, m) /\ Size(m) = SizeOf(kind, m)
  BY Zenon DEF SerializeToString, SerializeOf, Size, SizeOf
<1>4. ASSUME NEW m, NEW s  PROVE ParseFromString(m, s) = ParseOf(kind, m, s)
  <2>1. CASE kind = "request"
    <3> DEFINE Read(c) == ReadFields(RequestMsgReadField, c, s)
    <3>1. ParseFromString(m, s) = Read(RequestMsgClear(m))
      BY <2>1, Zenon DEF ParseFromString, ReadFields, ReadAll, ReadNext
    <3>2. \A c : ReadOf(kind, c, s) = Read(c)
      BY <2>1, Zenon DEF ReadOf, ReadFields, ReadAll, ReadNext
    <3> HIDE DEF Read
    <3>3. ClearOf(kind, m) = RequestMsgClear(m)
      BY <2>1, Zenon DEF ClearOf
    <3> QED  BY <3>1, <3>2, <3>3, Zenon DEF ParseOf
  <2>2. CASE kind # "request"
    <3> DEFINE Read(c) == ReadFields(RespondMsgReadField, c, s)
    <3>1. ParseFromString(m, s) = Read(RespondMsgClear(m))
      BY <2>2, Zenon DEF ParseFromString, ReadFields, ReadAll, ReadNext
    <3>2. \A c : ReadOf(kind, c, s) = Read(c)
      BY <2>2, Zenon DEF ReadOf, ReadFields, ReadAll, ReadNext
    <3> HIDE DEF Read
    <3>3. ClearOf(kind, m) = RespondMsgClear(m)
      BY <2>2, Zenon DEF ClearOf
    <3> QED  BY <3>1, <3>2, <3>3, Zenon DEF ParseOf
  <2> QED  BY <2>1, <2>2
<1>5. \A m, x : MergeFrom(m, x) = MergeOf(kind, m, x) /\ CopyFrom(m, x) = CopyOf(kind, m, x)
  BY Zenon DEF MergeFrom, MergeOf, CopyFrom, CopyOf
<1>6. \A info : Fresh(info) = FreshOf(kind, info)
  BY <1>1, <1>2, Zenon DEF Fresh, FreshOf
<1> QED  BY <1>1, <1>2, <1>3, <1>4, <1>5, <1>6

\* The default message is written as the empty string.
LEMMA NothingWritten ==
  ASSUME NEW k \in Kinds
  PROVE  /\ NewOf(k) \in Messages(k) /\ SerializeOf(k, NewOf(k)) = <<>>
         /\ WrittenFrom(k, <<>>, NoInfo)
         /\ CutFrom(k, <<>>, [whole |-> TRUE, info |-> NoInfo])
<1>1. ASSUME k = "request"  PROVE NewOf(k) \in Messages(k) /\ SerializeOf(k, NewOf(k)) = <<>>
  <2>1. NewOf(k) = NewRequestMsg /\ SerializeOf(k, NewOf(k)) = RequestMsgSerialize(NewRequestMsg)
        /\ Messages(k) = RequestMessages
    BY <1>1, Zenon DEF NewOf, SerializeOf, Messages
  <2>2. NewRequestMsg \in RequestMessages
    BY Zero, NoText DEF NewRequestMsg, RequestMessages
  <2>3. RequestMsgSerialize(NewRequestMsg) = <<>>
    BY DEF RequestMsgSerialize, NewRequestMsg, When
  <2> QED  BY <2>1, <2>2, <2>3
<1>2. ASSUME k # "request"  PROVE NewOf(k) \in Messages(k) /\ SerializeOf(k, NewOf(k)) = <<>>
  <2>1. NewOf(k) = NewRespondMsg /\ SerializeOf(k, NewOf(k)) = RespondMsgSerialize(NewRespondMsg)
        /\ Messages(k) = RespondMessages
    BY <1>2, Zenon DEF NewOf, SerializeOf, Messages
  <2>2. NewRespondMsg \in RespondMessages
    BY Zero, NoText DEF NewRespondMsg, RespondMessages
  <2>3. RespondMsgSerialize(NewRespondMsg) = <<>>
    BY DEF RespondMsgSerialize, NewRespondMsg, When
  <2> QED  BY <2>1, <2>2, <2>3
<1>3. NewOf(k) \in Messages(k) /\ SerializeOf(k, NewOf(k)) = <<>>
  BY <1>1, <1>2
<1>4. WrittenFrom(k, <<>>, NoInfo)
  BY <1>3 DEF WrittenFrom
<1>5. CutFrom(k, <<>>, [whole |-> TRUE, info |-> NoInfo])
  <2>1. 0 \in 0 .. Len(<<>>) /\ <<>> = SubSeq(<<>>, 1, 0) /\ 0 = Len(<<>>)
    OBVIOUS
  <2> QED  BY <1>3, <2>1 DEF CutFrom
<1> QED  BY <1>3, <1>4, <1>5

\* The texts of a message are those of its info, without zero bytes as they are.
LEMMA FreshWithoutZeros ==
  ASSUME NEW k \in Kinds, NEW info \in InfosOf(k), NoZeroByte(info)
  PROVE  WithoutZeros(k, FreshOf(k, info))
<1>1. ASSUME NEW g \in TextFields(k)  PROVE info[g] \in Bytes /\ 0 \notin Range(info[g])
  <2>1. CASE k = "request"
    <3>1. info \in [cmd : Int32, clientID : Text, serverID : Text, sign : Text, data : Text]
      BY <2>1, InfosAssumption DEF InfosOf
    <3>2. g \in {"clientID", "serverID", "sign", "data"}
      BY <1>1, <2>1 DEF TextFields
    <3>3. g \in DOMAIN info /\ info[g] \in Text
      BY <3>1, <3>2
    <3> QED  BY <3>2, <3>3 DEF NoZeroByte, Text
  <2>2. CASE k = "respond"
    <3>1. info \in [status : Int32, seckeyID : Int32, clientID : Text, serverID : Text, data : Text]
      BY <2>2, InfosAssumption DEF InfosOf
    <3>2. g \in {"clientID", "serverID", "data"}
      BY <1>1, <2>2 DEF TextFields
    <3>3. g \in DOMAIN info /\ info[g] \in Text
      BY <3>1, <3>2
    <3> QED  BY <3>2, <3>3 DEF NoZeroByte, Text
  <2> QED  BY <2>1, <2>2 DEF Kinds
<1>2. ASSUME NEW s \in Bytes, 0 \notin Range(s)  PROVE s \in NoZeros
  <2>1. ASSUME NEW i \in 1 .. Len(s)  PROVE s[i] \in 1 .. 255
    <3>1. s[i] \in Byte
      BY ElementOfSeq DEF Bytes
    <3>2. s[i] # 0
      BY <1>2 DEF Range, Bytes
    <3> QED  BY <3>1, <3>2 DEF Byte
  <2> QED  BY <2>1, OfElements DEF NoZeros
<1>3. \A g \in TextFields(k) : FreshOf(k, info)[g] = info[g]
  BY NothingWritten, Initialised
<1> QED  BY <1>1, <1>2, <1>3 DEF WithoutZeros

\* What was written is handed on whole, as it is and by recvMsg if no text holds
\* a zero byte, or it is cut.
LEMMA WrittenArrives ==
  ASSUME NEW k \in Kinds, NEW string, NEW info \in InfosOrNone(k), WrittenFrom(k, string, info)
  PROVE  /\ CutFrom(k, string, [whole |-> TRUE, info |-> info])
         /\ CutFrom(k, RecvMsg(string), [whole |-> NoZeroByte(info), info |-> info])
         /\ \A n \in 0 .. Len(string) - 1 :
              CutFrom(k, SubSeq(string, 1, n), [whole |-> FALSE, info |-> info])
<1>1. PICK x \in Messages(k) : string = SerializeOf(k, x) /\ (info # NoInfo => x = FreshOf(k, info))
  BY DEF WrittenFrom
<1>2. string \in Bytes
  BY <1>1, MessageWritten
<1>3. /\ Len(string) \in 0 .. Len(string) /\ SubSeq(string, 1, Len(string)) = string
      /\ Len(string) \in Nat
  BY <1>2, SubSeqFull DEF Bytes
<1>4. ASSUME NEW piece, NEW whole, NEW n \in 0 .. Len(string), piece = SubSeq(string, 1, n),
             whole => n = Len(string)
      PROVE  CutFrom(k, piece, [whole |-> whole, info |-> info])
  <2> DEFINE from == [whole |-> whole, info |-> info]
  <2>1. from.info = info /\ from.whole = whole
    OBVIOUS
  <2> HIDE DEF from
  <2>2. /\ n \in 0 .. Len(SerializeOf(k, x)) /\ piece = SubSeq(SerializeOf(k, x), 1, n)
        /\ from.whole => n = Len(SerializeOf(k, x))
    BY <1>1, <1>4, <2>1
  <2>3. CutFrom(k, piece, from)
    BY <1>1, <2>1, <2>2, Zenon DEF CutFrom
  <2> QED  BY <2>3 DEF from
<1>5. CutFrom(k, string, [whole |-> TRUE, info |-> info])
  BY <1>3, <1>4
<1>6. CutFrom(k, RecvMsg(string), [whole |-> NoZeroByte(info), info |-> info])
  <2> DEFINE whole == NoZeroByte(info)
  <2>1. whole => RecvMsg(string) = string
    <3> SUFFICES ASSUME NoZeroByte(info)  PROVE RecvMsg(string) = string
      BY DEF whole
    <3>1. info \in InfosOf(k) /\ x = FreshOf(k, info)
      BY <1>1 DEF NoZeroByte, InfosOrNone
    <3> QED  BY <1>1, <3>1, FreshWithoutZeros, MessageReceived
  <2> HIDE DEF whole
  <2>2. CASE whole
    BY <1>3, <1>4, <2>1, <2>2 DEF whole
  <2>3. CASE ~whole
    <3>1. PICK n \in 0 .. Len(string) : RecvMsg(string) = SubSeq(string, 1, n)
      BY <1>2, RecvMsgCuts
    <3>2. CutFrom(k, RecvMsg(string), [whole |-> whole, info |-> info])
      BY <1>4, <2>3, <3>1
    <3> QED  BY <3>2 DEF whole
  <2> QED  BY <2>2, <2>3
<1>7. ASSUME NEW n \in 0 .. Len(string) - 1
      PROVE  CutFrom(k, SubSeq(string, 1, n), [whole |-> FALSE, info |-> info])
  <2>1. n \in 0 .. Len(string)
    BY <1>3
  <2> QED  BY <1>4, <2>1
<1> QED  BY <1>5, <1>6, <1>7

-----------------------------------------------------------------------------
(* The theorems *)

\* The invariant holds initially,
LEMMA CodecInit == Init => CodecInv
<1> SUFFICES ASSUME Init  PROVE CodecInv
  OBVIOUS
<1>1. /\ kind \in Kinds /\ m_msg = NewMessage /\ call = "none" /\ holds = NoInfo /\ sent = NoInfo
      /\ output = <<>> /\ m_encStr = <<>> /\ received = [whole |-> TRUE, info |-> NoInfo]
  BY DEF Init, Kinds
<1>2. m_msg = NewOf(kind)
  BY <1>1, OfKind
<1>3. CodecTypes
  BY <1>1, <1>2, NothingWritten DEF CodecTypes, InfosOrNone
<1>4. WrittenFrom(kind, output, sent) /\ CutFrom(kind, m_encStr, received)
  BY <1>1, NothingWritten
<1>5. Shown(kind, received, call, m_msg)
  BY <1>1 DEF Shown
<1> QED  BY <1>1, <1>3, <1>4, <1>5 DEF CodecInv

\* What a step that is not a decodeMsg must leave.
LEMMA NotDecoded ==
  ASSUME CodecInv, kind' = kind, m_msg' \in Messages(kind),
         call' \in {"create", "init", "encode"},
         holds' \in InfosOrNone(kind), holds' # NoInfo => m_msg' = FreshOf(kind, holds'),
         sent' \in InfosOrNone(kind), WrittenFrom(kind, output', sent'),
         received'.whole \in BOOLEAN, received'.info \in InfosOrNone(kind),
         CutFrom(kind, m_encStr', received')
  PROVE  CodecInv'
<1>1. CodecTypes'
  BY DEF CodecInv, CodecTypes
<1>2. Shown(kind, received, call, m_msg)'
  BY DEF Shown
<1> QED  BY <1>1, <1>2 DEF CodecInv

\* ... and every call of a codec keeps it.
LEMMA CodecStep == CodecInv /\ [Next]_vars => CodecInv'
<1> SUFFICES ASSUME CodecInv, [Next]_vars  PROVE CodecInv'
  OBVIOUS
<1>1. /\ kind \in Kinds /\ m_msg \in Messages(kind)
      /\ holds \in InfosOrNone(kind) /\ sent \in InfosOrNone(kind)
      /\ received.whole \in BOOLEAN /\ received.info \in InfosOrNone(kind)
      /\ holds # NoInfo => m_msg = FreshOf(kind, holds)
      /\ WrittenFrom(kind, output, sent) /\ CutFrom(kind, m_encStr, received)
      /\ Shown(kind, received, call, m_msg)
  BY DEF CodecInv, CodecTypes
<1>2. /\ NewOf(kind) \in Messages(kind) /\ CutFrom(kind, <<>>, [whole |-> TRUE, info |-> NoInfo])
      /\ NoInfo \in InfosOrNone(kind) /\ NewMessage = NewOf(kind) /\ Infos = InfosOf(kind)
  BY <1>1, NothingWritten, OfKind DEF InfosOrNone
<1>3. ASSUME NEW info \in Infos, NEW m \in Messages(kind)
      PROVE  /\ InitMessage(m, info) = FreshOf(kind, info) /\ FreshOf(kind, info) \in Messages(kind)
             /\ info \in InfosOrNone(kind)
  <2>1. info \in InfosOf(kind) /\ InitMessage(m, info) = InitOf(kind, m, info)
    BY <1>1, <1>2, OfKind
  <2> QED  BY <1>1, <2>1, Initialised DEF InfosOrNone
<1>4. ASSUME NEW info \in Infos, CreateToEncode(info)  PROVE CodecInv'
  <2>1. /\ kind' = kind /\ m_msg' = FreshOf(kind, info) /\ holds' = info /\ call' = "create"
        /\ output' = output /\ sent' = sent /\ m_encStr' = <<>>
        /\ received' = [whole |-> TRUE, info |-> NoInfo]
    BY <1>2, <1>3, <1>4 DEF CreateToEncode, Calls
  <2> QED  BY <1>1, <1>2, <1>3, <2>1, NotDecoded
<1>5. ASSUME NEW info \in Infos, InitToEncode(info)  PROVE CodecInv'
  <2>1. /\ kind' = kind /\ m_msg' = FreshOf(kind, info) /\ holds' = info /\ call' = "init"
        /\ output' = output /\ sent' = sent /\ m_encStr' = m_encStr /\ received' = received
    BY <1>1, <1>3, <1>5 DEF InitToEncode, Calls
  <2> QED  BY <1>1, <1>3, <2>1, NotDecoded
<1>6. ASSUME NEW s, NEW whole \in BOOLEAN, Arrives(s, whole),
             CutFrom(kind, s, [whole |-> whole, info |-> sent])
      PROVE  /\ received'.whole \in BOOLEAN /\ received'.info \in InfosOrNone(kind)
             /\ CutFrom(kind, m_encStr', received')
  <2>1. m_encStr' = s /\ received' = [whole |-> whole, info |-> sent]
    BY <1>6 DEF Arrives
  <2> QED  BY <1>1, <1>6, <2>1
<1>7. ASSUME NEW s, NEW whole \in BOOLEAN, CreateToDecode(s, whole),
             CutFrom(kind, s, [whole |-> whole, info |-> sent])
      PROVE  CodecInv'
  <2>1. /\ kind' = kind /\ m_msg' = NewOf(kind) /\ holds' = NoInfo /\ call' = "create"
        /\ output' = output /\ sent' = sent /\ Arrives(s, whole)
    BY <1>2, <1>7 DEF CreateToDecode, Calls
  <2> QED  BY <1>1, <1>2, <1>6, <1>7, <2>1, NotDecoded
<1>8. ASSUME NEW s, NEW whole \in BOOLEAN, InitToDecode(s, whole),
             CutFrom(kind, s, [whole |-> whole, info |-> sent])
      PROVE  CodecInv'
  <2>1. /\ kind' = kind /\ m_msg' = m_msg /\ holds' = holds /\ call' = "init"
        /\ output' = output /\ sent' = sent /\ Arrives(s, whole)
    BY <1>8 DEF InitToDecode, Calls
  <2> QED  BY <1>1, <1>6, <1>8, <2>1, NotDecoded
<1>9. CASE \/ CreateToDecode(output, TRUE) \/ InitToDecode(output, TRUE)
           \/ CreateToDecode(RecvMsg(output), NoZeroByte(sent))
           \/ InitToDecode(RecvMsg(output), NoZeroByte(sent))
  <2>1. NoZeroByte(sent) \in BOOLEAN
    BY Zenon DEF NoZeroByte
  <2>2. /\ CutFrom(kind, output, [whole |-> TRUE, info |-> sent])
        /\ CutFrom(kind, RecvMsg(output), [whole |-> NoZeroByte(sent), info |-> sent])
    BY <1>1, WrittenArrives
  <2> QED  BY <1>7, <1>8, <1>9, <2>1, <2>2
<1>10. ASSUME NEW n \in 0 .. Len(output) - 1, InitToDecode(SubSeq(output, 1, n), FALSE)
       PROVE  CodecInv'
  <2>1. CutFrom(kind, SubSeq(output, 1, n), [whole |-> FALSE, info |-> sent])
    BY <1>1, WrittenArrives
  <2> QED  BY <1>8, <1>10, <2>1
<1>11. CASE EncodeMsg
  <2>1. /\ kind' = kind /\ m_msg' = m_msg /\ holds' = holds /\ call' = "encode"
        /\ output' = SerializeOf(kind, m_msg) /\ sent' = holds /\ m_encStr' = m_encStr
        /\ received' = received
    BY <1>1, <1>11, OfKind DEF EncodeMsg, Calls
  <2>2. WrittenFrom(kind, output', sent')
    BY <1>1, <2>1 DEF WrittenFrom
  <2> QED  BY <1>1, <2>1, <2>2, NotDecoded
<1>12. CASE DecodeMsg
  <2> DEFINE parse == ParseOf(kind, m_msg, m_encStr)
  <2>1. /\ call' = IF parse.ok THEN "decoded" ELSE "not decoded"
        /\ m_msg' = parse.msg
        /\ holds' = IF received.whole THEN received.info ELSE NoInfo
        /\ kind' = kind /\ m_encStr' = m_encStr /\ output' = output /\ received' = received
        /\ sent' = sent
    <3>1. ParseFromString(m_msg, m_encStr) = parse
      BY <1>1, OfKind
    <3> HIDE DEF parse
    <3> QED  BY <1>12, <3>1 DEF DecodeMsg, Calls
  <2>2. PICK x \in Messages(kind) :
          /\ received.info # NoInfo => x = FreshOf(kind, received.info)
          /\ \E n \in 0 .. Len(SerializeOf(kind, x)) :
               /\ m_encStr = SubSeq(SerializeOf(kind, x), 1, n)
               /\ received.whole => n = Len(SerializeOf(kind, x))
    BY <1>1, Zenon DEF CutFrom
  <2>3. PICK n \in 0 .. Len(SerializeOf(kind, x)) :
          /\ m_encStr = SubSeq(SerializeOf(kind, x), 1, n)
          /\ received.whole => n = Len(SerializeOf(kind, x))
    BY <2>2
  <2>4. ShowsLess(kind, parse, x)
    BY <1>1, <2>3, MessageCut
  <2>5. received.whole => parse = [msg |-> x, ok |-> TRUE]
    <3>1. SerializeOf(kind, x) \in Bytes
      BY <1>1, MessageWritten
    <3>2. received.whole => m_encStr = SerializeOf(kind, x)
      BY <2>3, <3>1, SubSeqFull DEF Bytes
    <3> QED  BY <1>1, <3>2, MessagesParsed
  <2> HIDE DEF parse
  <2>6. parse.msg \in Messages(kind)
    BY <2>4, Zenon DEF ShowsLess
  <2>7. CodecTypes'
    BY <1>1, <1>2, <2>1, <2>6 DEF CodecTypes
  <2>8. holds' # NoInfo => m_msg' = FreshOf(kind', holds')
    <3> SUFFICES ASSUME holds' # NoInfo  PROVE m_msg' = FreshOf(kind, holds')
      BY <2>1
    <3>1. received.whole /\ holds' = received.info
      BY <2>1
    <3>2. x = FreshOf(kind, holds') /\ m_msg' = x
      BY <2>1, <2>2, <2>5, <3>1
    <3> QED  BY <3>2
  <2>9. WrittenFrom(kind', output', sent') /\ CutFrom(kind', m_encStr', received')
    BY <1>1, <2>1
  <2>10. Shown(kind', received', call', m_msg')
    <3> SUFFICES ASSUME received.info # NoInfo  PROVE Shown(kind, received, call', m_msg')
      BY <2>1, Zenon DEF Shown
    <3>1. x = FreshOf(kind, received.info)
      BY <2>2
    <3>2. CASE received.whole
      <4>1. call' = "decoded" /\ m_msg' = FreshOf(kind, received.info)
        BY <2>1, <2>5, <3>1, <3>2
      <4> QED  BY <3>2, <4>1, Zenon DEF Shown
    <3>3. CASE ~received.whole
      <4>1. parse.ok = FALSE => call' = "not decoded"
        BY <2>1
      <4>2. ShowsLess(kind, parse, FreshOf(kind, received.info)) /\ parse.msg = m_msg'
        BY <2>1, <2>4, <3>1
      <4> QED  BY <3>3, <4>1, <4>2, Zenon DEF Shown
    <3> QED  BY <1>1, <3>2, <3>3
  <2> QED  BY <2>7, <2>8, <2>9, <2>10 DEF CodecInv
<1>13. CASE UNCHANGED vars
  BY <1>13 DEF CodecInv, CodecTypes, vars
<1> QED
  BY <1>4, <1>5, <1>9, <1>10, <1>11, <1>12, <1>13 DEF Next

\* The codec's message, its two strings and what they were made of fit together
\* in every reachable state, for any infos.
THEOREM CodecInvariant == Spec => []CodecInv
<1> QED  BY CodecInit, CodecStep, PTL DEF Spec

\* DecodedIsEncoded: what arrived whole, as it was written or through recvMsg
\* with no zero byte in its texts, is decoded to the info it was encoded from,
\* in a new codec and in a used one, whatever the numbers are and the bytes of
\* the texts; of the respond's status only whether it is 0 arrives.
THEOREM DecodedRight == Spec => []DecodedIsEncoded
<1>1. CodecInv => DecodedIsEncoded
  <2> SUFFICES ASSUME CodecInv, received.whole, received.info # NoInfo, call \in {"decoded", "not decoded"}
               PROVE  call = "decoded" /\ GivesBack(m_msg, received.info)
    BY DEF DecodedIsEncoded
  <2>1. /\ kind \in Kinds /\ received.info \in InfosOf(kind)
        /\ Shown(kind, received, call, m_msg)
    BY DEF CodecInv, CodecTypes, InfosOrNone
  <2>2. call = "decoded" /\ m_msg = FreshOf(kind, received.info)
    BY <2>1, Zenon DEF Shown
  <2>3. NewOf(kind) \in Messages(kind)
    BY <2>1, NothingWritten
  <2> DEFINE info == received.info
  <2>4. /\ \A g \in TextFields(kind) : m_msg[g] = info[g]
        /\ kind = "request" => m_msg.cmdType = info.cmd
        /\ kind = "respond" => /\ m_msg.seckeyID = info.seckeyID
                              /\ m_msg.status = (info.status # 0)
        /\ m_msg.unknown = <<>>
    BY <2>1, <2>2, <2>3, Initialised
  <2> HIDE DEF info
  <2>5. m_msg.clientID = info.clientID /\ m_msg.serverID = info.serverID /\ m_msg.data = info.data
    BY <2>4 DEF TextFields
  <2>6. CASE kind = "request"
    <3>1. m_msg.sign = info.sign
      BY <2>4, <2>6 DEF TextFields
    <3> QED  BY <2>2, <2>4, <2>5, <2>6, <3>1 DEF GivesBack, info
  <2>7. CASE kind = "respond"
    <3>1. kind # "request"
      BY <2>7
    <3>2. AsInt(m_msg.status) = IF info.status \in {0, 1} THEN info.status ELSE 1
      <4>1. CASE info.status = 0
        <5>1. m_msg.status = FALSE
          BY <2>4, <2>7, <4>1, Zenon
        <5> QED  BY <4>1, <5>1 DEF AsInt
      <4>2. CASE info.status # 0
        <5>1. m_msg.status = TRUE
          BY <2>4, <2>7, <4>2, Zenon
        <5> QED  BY <4>2, <5>1 DEF AsInt
      <4> QED  BY <4>1, <4>2
    <3>3. GivesBack(m_msg, info)
      BY <2>4, <2>5, <2>7, <3>1, <3>2, Zenon DEF GivesBack
    <3> QED  BY <2>2, <3>3 DEF info
  <2> QED  BY <2>1, <2>6, <2>7 DEF Kinds
<1> QED  BY <1>1, CodecInvariant, PTL

\* EncodesItsInfo: encodeMsg writes the info the codec was last initialised
\* with, in as many bytes as were computed for it.
THEOREM EncodedRight == Spec => []EncodesItsInfo
<1>1. CodecInv => EncodesItsInfo
  <2> SUFFICES ASSUME CodecInv, sent # NoInfo
               PROVE  /\ output = SerializeToString(Fresh(sent))
                      /\ Len(output) = Size(Fresh(sent))
    BY DEF EncodesItsInfo
  <2>1. kind \in Kinds /\ WrittenFrom(kind, output, sent)
    BY DEF CodecInv, CodecTypes
  <2>2. FreshOf(kind, sent) \in Messages(kind) /\ output = SerializeOf(kind, FreshOf(kind, sent))
    BY <2>1 DEF WrittenFrom
  <2>3. Len(output) = SizeOf(kind, FreshOf(kind, sent))
    BY <2>1, <2>2, MessageWritten
  <2> QED  BY <2>1, <2>2, <2>3, OfKind
<1> QED  BY <1>1, CodecInvariant, PTL

\* CutShowsLess: of a string cut short anywhere, even inside a tag, a length or
\* a number, decodeMsg shows a part of what was sent and nothing else.
THEOREM CutRight == Spec => []CutShowsLess
<1>1. CodecInv => CutShowsLess
  <2> SUFFICES ASSUME CodecInv, ~received.whole, received.info # NoInfo,
                      call \in {"decoded", "not decoded"}, NEW f \in FieldsOfInfo
               PROVE  \/ m_msg[f] \in {NewMessage[f], Fresh(received.info)[f]}
                      \/ /\ call = "not decoded" /\ f \notin {"cmdType", "status", "seckeyID"}
                         /\ IsPrefix(m_msg[f], Fresh(received.info)[f])
    BY DEF CutShowsLess
  <2>1. /\ Shown(kind, received, call, m_msg) /\ Fresh(received.info) = FreshOf(kind, received.info)
        /\ NewMessage = NewOf(kind) /\ f \in DOMAIN NewOf(kind) \ {"unknown"}
    BY OfKind DEF CodecInv, CodecTypes, FieldsOfInfo
  <2>2. PICK read : /\ ShowsLess(kind, read, FreshOf(kind, received.info)) /\ read.msg = m_msg
                    /\ read.ok = FALSE => call = "not decoded"
    BY <2>1, Zenon DEF Shown
  <2>3. ShowsField(kind, read, FreshOf(kind, received.info), f)
    BY <2>1, <2>2, Zenon DEF ShowsLess
  <2> QED  BY <2>1, <2>2, <2>3 DEF ShowsField
<1> QED  BY <1>1, CodecInvariant, PTL

\* JoinedIsMerged: parsing two strings joined merges their messages, and
\* CopyFrom copies, whatever the message held.
THEOREM JoinedRight == Spec => []JoinedIsMerged
<1>1. CodecInv => JoinedIsMerged
  <2> SUFFICES ASSUME CodecInv, sent # NoInfo, holds # NoInfo
               PROVE  /\ ParseFromString(m_msg, output \o SerializeToString(m_msg))
                           = [ok |-> TRUE, msg |-> MergeFrom(Fresh(sent), m_msg)]
                      /\ CopyFrom(m_msg, Fresh(sent)) = Fresh(sent)
    BY DEF JoinedIsMerged
  <2> DEFINE x == FreshOf(kind, sent)
  <2>1. kind \in Kinds /\ m_msg \in Messages(kind) /\ WrittenFrom(kind, output, sent)
    BY DEF CodecInv, CodecTypes
  <2>2. x \in Messages(kind) /\ output = SerializeOf(kind, x) /\ Fresh(sent) = x
    BY <2>1, OfKind DEF WrittenFrom
  <2> HIDE DEF x
  <2>3. ParseOf(kind, m_msg, output \o SerializeOf(kind, m_msg))
          = [msg |-> MergeOf(kind, x, m_msg), ok |-> TRUE]
    BY <2>1, <2>2, MessagesParsed
  <2>4. CopyOf(kind, m_msg, x) = x
    BY <2>1, <2>2, MessageCleared
  <2> QED  BY <2>1, <2>2, <2>3, <2>4, OfKind
<1> QED  BY <1>1, CodecInvariant, PTL

=============================================================================

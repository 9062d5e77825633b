----------------------------- MODULE WireFormat -----------------------------
(***************************************************************************)
(* What the generated classes of the message samples ask of libprotobuf:   *)
(* writing fields, knowing their size, and reading them back one after     *)
(* another.  A string is a sequence of bytes.                              *)
(*                                                                         *)
(* A field on the wire is a tag, 8 * its number + its wire type, and a     *)
(* payload: a varint (type 0), a length and that many bytes (type 2), or   *)
(* eight (type 1) or four (type 5) bytes.  Groups, which no class of these *)
(* samples writes, are read as an error.                                   *)
(***************************************************************************)
EXTENDS Integers, Sequences, FiniteSets, FiniteSetsExt, SequencesExt

Byte == 0 .. 255
Bytes == Seq(Byte)
INT_MAX == 2147483647
Int32 == (-INT_MAX - 1) .. INT_MAX

-----------------------------------------------------------------------------
\* Writing.  A varint has seven bits to a byte, the lowest first, and all bytes
\* but the last are raised by 128; a negative int32 is extended to 64 bits.
Varint(n) ==
  LET bits(p) == (n \div p) % 128
      more(p) == 128 + bits(p)
  IN  CASE n < 0 -> <<more(1), more(128), more(16384), more(2097152), more(268435456),
                      255, 255, 255, 255, 1>>
        [] 0 <= n /\ n < 128 -> <<n>>
        [] 128 <= n /\ n < 16384 -> <<more(1), bits(128)>>
        [] 16384 <= n /\ n < 2097152 -> <<more(1), more(128), bits(16384)>>
        [] 2097152 <= n /\ n < 268435456 -> <<more(1), more(128), more(16384), bits(2097152)>>
        [] 268435456 <= n ->
             <<more(1), more(128), more(16384), more(2097152), bits(268435456)>>

WriteInt32(number, v) == <<8 * number>> \o Varint(v)
WriteBytes(number, s) == <<8 * number + 2>> \o Varint(Len(s)) \o s

\* The length of an embedded message is the size computed for it before.
WriteMessage(number, size, bytes) == <<8 * number + 2>> \o Varint(size) \o bytes

When(condition, bytes) == IF condition THEN bytes ELSE <<>>
ForEach(Write(_), s) == FlattenSeq([i \in DOMAIN s |-> Write(s[i])])

-----------------------------------------------------------------------------
\* Sizes, computed without writing.
Int32Size(n) ==
  CASE n < 0 -> 10 [] 0 <= n /\ n < 128 -> 1 [] 128 <= n /\ n < 16384 -> 2
    [] 16384 <= n /\ n < 2097152 -> 3 [] 2097152 <= n /\ n < 268435456 -> 4 [] OTHER -> 5
LengthDelimitedSize(n) == Int32Size(n) + n
BytesSize(s) == LengthDelimitedSize(Len(s))

SizeWhen(condition, n) == IF condition THEN n ELSE 0
SumOver(Size(_), s) == FoldLeft(LAMBDA n, m : n + Size(m), 0, s)

-----------------------------------------------------------------------------
\* Reading.  The low 32 bits of a varint, as the int32 they are.
VarintEnds(b) == {i \in 1 .. 10 : i <= Len(b) /\ b[i] < 128}
VarintLength(b) == Min(VarintEnds(b))
VarintValue(b, length) ==
  LET group(i) == IF i <= length THEN b[i] % 128 ELSE 0
      high == group(5) % 16
  IN  group(1) + 128 * group(2) + 16384 * group(3) + 2097152 * group(4)
        + 268435456 * (IF high < 8 THEN high ELSE high - 16)
ReadVarint(b) == VarintValue(b, VarintLength(b))
AfterVarint(b) == SubSeq(b, VarintLength(b) + 1, Len(b))

\* The field at the start of b: n is a varint's value, val what there is of the
\* payload, raw the field as an unknown field is kept, ok whether it is all there,
\* rest what follows it: nothing, if it is not.
NoField == [tag |-> 0, n |-> 0, val |-> <<>>, raw |-> <<>>, ok |-> FALSE, rest |-> <<>>]

FieldWith(tag, n, val, payload, ok, rest) ==
  [tag |-> tag, n |-> n, val |-> val, raw |-> Varint(tag) \o payload, ok |-> ok, rest |-> rest]

LengthDelimited(tag, n, data) ==
  IF n <= Len(data)
  THEN FieldWith(tag, n, SubSeq(data, 1, n), Varint(n) \o SubSeq(data, 1, n), TRUE,
                 SubSeq(data, n + 1, Len(data)))
  ELSE FieldWith(tag, n, data, Varint(Len(data)) \o data, FALSE, <<>>)

FieldAt(b) ==
  LET tag == ReadVarint(b)
      body == AfterVarint(b)
      n == ReadVarint(body)
      data == AfterVarint(body)
      fixed == IF tag % 8 = 1 THEN 8 ELSE 4
  IN  CASE VarintEnds(b) = {} -> NoField
        [] VarintEnds(b) # {} /\ tag % 8 = 0 /\ tag # 0 /\ VarintEnds(body) # {} ->
             FieldWith(tag, n, <<>>, Varint(n), TRUE, data)
        [] VarintEnds(b) # {} /\ tag % 8 = 2 /\ VarintEnds(body) # {} /\ n >= 0 ->
             LengthDelimited(tag, n, data)
        [] VarintEnds(b) # {} /\ tag % 8 \in {1, 5} /\ Len(body) >= fixed ->
             FieldWith(tag, 0, <<>>, SubSeq(body, 1, fixed), TRUE,
                       SubSeq(body, fixed + 1, Len(body)))
        [] OTHER -> NoField

\* The fields of b, one after another.  Each takes a byte at least.
WithField(fields, field) == [fields |-> Append(fields, field), rest |-> field.rest]
NextField(split) ==
  IF split.rest = <<>> THEN split ELSE WithField(split.fields, FieldAt(split.rest))
FieldsOf(b) ==
  LET after[k \in 0 .. Len(b)] ==
        IF k = 0 THEN [fields |-> <<>>, rest |-> b] ELSE NextField(after[k - 1])
  IN  after[CHOOSE k \in 0 .. Len(b) : after[k].rest = <<>>].fields

\* MergePartialFromCodedStream of a class, given what it does with one field:
\* the fields are read in order until one cannot be.
ReadNext(ReadField(_, _), read, field) == IF read.ok THEN ReadField(read.msg, field) ELSE read
ReadAll(ReadField(_, _), m, fields) ==
  LET after[k \in 0 .. Len(fields)] ==
        IF k = 0 THEN [msg |-> m, ok |-> TRUE] ELSE ReadNext(ReadField, after[k - 1], fields[k])
  IN  after[Len(fields)]
ReadFields(ReadField(_, _), m, b) == ReadAll(ReadField, m, FieldsOf(b))

Took(m, f) == [msg |-> m, ok |-> f.ok]

\* VerifyUtf8String(PARSE): the text must be UTF-8.
Followers(c) ==
  CASE c < 128 -> 0 [] c \in 194 .. 223 -> 1 [] c \in 224 .. 239 -> 2
    [] c \in 240 .. 244 -> 3 [] OTHER -> -1
Utf8(s) ==
  \A i \in DOMAIN s :
    IF s[i] \in 128 .. 191
    THEN \E k \in 1 .. 3 : i - k \in DOMAIN s /\ Followers(s[i - k]) >= k
    ELSE /\ Followers(s[i]) >= 0
         /\ \A j \in i + 1 .. i + Followers(s[i]) : j \in DOMAIN s /\ s[j] \in 128 .. 191
TookText(m, f) == [msg |-> m, ok |-> f.ok /\ Utf8(f.val)]

\* An embedded message: read or refused as a whole.
TookMessage(m, read, f) == [msg |-> m, ok |-> f.ok /\ read.ok]
=============================================================================

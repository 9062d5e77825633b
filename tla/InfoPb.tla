-------------------------------- MODULE InfoPb -------------------------------
(***************************************************************************)
(* The class of info.proto, which the address book of sample 09 imports.   *)
(***************************************************************************)
EXTENDS WireFormat

-----------------------------------------------------------------------------
\* class info
Info == [addr : Bytes, group : Bytes]
NewInfo == [addr |-> <<>>, group |-> <<>>]

InfoClear(m) == [m EXCEPT !.addr = <<>>, !.group = <<>>]

InfoReadField(m, f) ==
  CASE f.tag = 10 -> TookText([m EXCEPT !.addr = f.val], f)
    [] f.tag = 18 -> TookText([m EXCEPT !.group = f.val], f)
    [] OTHER -> Took(m, f)

InfoByteSizeLong(m) ==
  SizeWhen(m.addr # <<>>, 1 + BytesSize(m.addr))
  + SizeWhen(m.group # <<>>, 1 + BytesSize(m.group))

InfoSerialize(m) ==
  When(m.addr # <<>>, WriteBytes(1, m.addr))
  \o When(m.group # <<>>, WriteBytes(2, m.group))

InfoMergeFrom(m, from) ==
  [m EXCEPT !.addr = IF from.addr # <<>> THEN from.addr ELSE @,
            !.group = IF from.group # <<>> THEN from.group ELSE @]
InfoCopyFrom(m, from) == InfoMergeFrom(InfoClear(m), from)

InfoSetAddr(m, v) == [m EXCEPT !.addr = v]
InfoSetGroup(m, v) == [m EXCEPT !.group = v]

=============================================================================

------------------------------ MODULE MessagePb ------------------------------
(***************************************************************************)
(* The classes protoc made of Message.proto, with protobuf 3.8 or later:   *)
(* fields a class does not know are kept and written again.                *)
(***************************************************************************)
EXTENDS WireFormat

-----------------------------------------------------------------------------
\* class RequestMsg
RequestMsg ==
  [cmdType : Int32, clientID : Bytes, serverID : Bytes, sign : Bytes, data : Bytes, unknown : Bytes]
NewRequestMsg ==
  [cmdType |-> 0, clientID |-> <<>>, serverID |-> <<>>, sign |-> <<>>, data |-> <<>>, unknown |-> <<>>]

RequestMsgClear(m) ==
  [m EXCEPT !.cmdType = 0, !.clientID = <<>>, !.serverID = <<>>, !.sign = <<>>, !.data = <<>>, !.unknown = <<>>]

RequestMsgReadField(m, f) ==
  CASE f.tag = 8 -> Took([m EXCEPT !.cmdType = f.n], f)
    [] f.tag = 18 -> Took([m EXCEPT !.clientID = f.val], f)
    [] f.tag = 26 -> Took([m EXCEPT !.serverID = f.val], f)
    [] f.tag = 34 -> Took([m EXCEPT !.sign = f.val], f)
    [] f.tag = 42 -> Took([m EXCEPT !.data = f.val], f)
    [] OTHER -> Took([m EXCEPT !.unknown = @ \o f.raw], f)

RequestMsgByteSizeLong(m) ==
  Len(m.unknown) + SizeWhen(m.cmdType # 0, 1 + Int32Size(m.cmdType))
  + SizeWhen(m.clientID # <<>>, 1 + BytesSize(m.clientID))
  + SizeWhen(m.serverID # <<>>, 1 + BytesSize(m.serverID))
  + SizeWhen(m.sign # <<>>, 1 + BytesSize(m.sign))
  + SizeWhen(m.data # <<>>, 1 + BytesSize(m.data))

RequestMsgSerialize(m) ==
  When(m.cmdType # 0, WriteInt32(1, m.cmdType))
  \o When(m.clientID # <<>>, WriteBytes(2, m.clientID))
  \o When(m.serverID # <<>>, WriteBytes(3, m.serverID))
  \o When(m.sign # <<>>, WriteBytes(4, m.sign))
  \o When(m.data # <<>>, WriteBytes(5, m.data)) \o m.unknown

\* (mutant) An empty field of the other message wins.
RequestMsgMergeFromEmpty(m, from) ==
  [m EXCEPT !.unknown = @ \o from.unknown,
            !.cmdType = IF from.cmdType # 0 THEN from.cmdType ELSE @,
            !.clientID = from.clientID, !.serverID = from.serverID, !.sign = from.sign,
            !.data = from.data]

RequestMsgMergeFrom(m, from) ==
  [m EXCEPT !.unknown = @ \o from.unknown,
            !.cmdType = IF from.cmdType # 0 THEN from.cmdType ELSE @,
            !.clientID = IF from.clientID # <<>> THEN from.clientID ELSE @,
            !.serverID = IF from.serverID # <<>> THEN from.serverID ELSE @,
            !.sign = IF from.sign # <<>> THEN from.sign ELSE @,
            !.data = IF from.data # <<>> THEN from.data ELSE @]
RequestMsgCopyFrom(m, from) == RequestMsgMergeFrom(RequestMsgClear(m), from)

RequestMsgSetCmdType(m, v) == [m EXCEPT !.cmdType = v]
RequestMsgSetClientID(m, v) == [m EXCEPT !.clientID = v]
RequestMsgSetServerID(m, v) == [m EXCEPT !.serverID = v]
RequestMsgSetSign(m, v) == [m EXCEPT !.sign = v]
RequestMsgSetData(m, v) == [m EXCEPT !.data = v]

-----------------------------------------------------------------------------
\* class RespondMsg
RespondMsg ==
  [status : BOOLEAN, seckeyID : Int32, clientID : Bytes, serverID : Bytes, data : Bytes, unknown : Bytes]
NewRespondMsg ==
  [status |-> FALSE, seckeyID |-> 0, clientID |-> <<>>, serverID |-> <<>>, data |-> <<>>, unknown |-> <<>>]

\* (mutant) The numbers beside status are forgotten.
RespondMsgClearButSeckeyID(m) ==
  [m EXCEPT !.status = FALSE, !.clientID = <<>>, !.serverID = <<>>, !.data = <<>>, !.unknown = <<>>]

RespondMsgClear(m) ==
  [m EXCEPT !.status = FALSE, !.seckeyID = 0, !.clientID = <<>>, !.serverID = <<>>, !.data = <<>>, !.unknown = <<>>]

RespondMsgReadField(m, f) ==
  CASE f.tag = 8 -> Took([m EXCEPT !.status = f.n # 0], f)
    [] f.tag = 16 -> Took([m EXCEPT !.seckeyID = f.n], f)
    [] f.tag = 26 -> Took([m EXCEPT !.clientID = f.val], f)
    [] f.tag = 34 -> Took([m EXCEPT !.serverID = f.val], f)
    [] f.tag = 42 -> Took([m EXCEPT !.data = f.val], f)
    [] OTHER -> Took([m EXCEPT !.unknown = @ \o f.raw], f)

RespondMsgByteSizeLong(m) ==
  Len(m.unknown) + SizeWhen(m.status, 1 + 1)
  + SizeWhen(m.seckeyID # 0, 1 + Int32Size(m.seckeyID))
  + SizeWhen(m.clientID # <<>>, 1 + BytesSize(m.clientID))
  + SizeWhen(m.serverID # <<>>, 1 + BytesSize(m.serverID))
  + SizeWhen(m.data # <<>>, 1 + BytesSize(m.data))

RespondMsgSerialize(m) ==
  When(m.status, WriteInt32(1, 1))
  \o When(m.seckeyID # 0, WriteInt32(2, m.seckeyID))
  \o When(m.clientID # <<>>, WriteBytes(3, m.clientID))
  \o When(m.serverID # <<>>, WriteBytes(4, m.serverID))
  \o When(m.data # <<>>, WriteBytes(5, m.data)) \o m.unknown

RespondMsgMergeFrom(m, from) ==
  [m EXCEPT !.unknown = @ \o from.unknown,
            !.status = from.status \/ @,
            !.seckeyID = IF from.seckeyID # 0 THEN from.seckeyID ELSE @,
            !.clientID = IF from.clientID # <<>> THEN from.clientID ELSE @,
            !.serverID = IF from.serverID # <<>> THEN from.serverID ELSE @,
            !.data = IF from.data # <<>> THEN from.data ELSE @]
RespondMsgCopyFrom(m, from) == RespondMsgMergeFrom(RespondMsgClear(m), from)

RespondMsgSetStatus(m, v) == [m EXCEPT !.status = v]
RespondMsgSetSeckeyID(m, v) == [m EXCEPT !.seckeyID = v]
RespondMsgSetClientID(m, v) == [m EXCEPT !.clientID = v]
RespondMsgSetServerID(m, v) == [m EXCEPT !.serverID = v]
RespondMsgSetData(m, v) == [m EXCEPT !.data = v]

=============================================================================

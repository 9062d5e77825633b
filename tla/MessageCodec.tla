---------------------------- MODULE MessageCodec ----------------------------
(***************************************************************************)
(* The codecs of EncDecCode: RequestCodec and RespondCodec turn an info    *)
(* into a string and a string into a message, and each may be made by its  *)
(* factory, of an info or of a string, or be made empty and initialised,   *)
(* again and again.  A codec has one message object, m_msg: what it was    *)
(* initialised with is put there, field by field, and what it decodes is   *)
(* read into it.                                                           *)
(*                                                                         *)
(* Strings are handed on as they are, or by TcpSocket::recvMsg, which      *)
(* makes a string of a buffer and so loses what follows a zero byte, or    *)
(* cut short.                                                              *)
(***************************************************************************)
EXTENDS MessagePb

CONSTANTS
  RequestInfos, RespondInfos,   \* what the program encodes
  MaxCalls                      \* bound: calls of a codec

\* What the strings of an info hold: bytes, no more than a length on the wire can say.
Text == {s \in Bytes : Len(s) <= INT_MAX}

ASSUME BoundsAssumption == MaxCalls \in Nat
ASSUME InfosAssumption ==
  /\ RequestInfos \subseteq [cmd : Int32, clientID : Text, serverID : Text, sign : Text, data : Text]
  /\ RespondInfos \subseteq [status : Int32, seckeyID : Int32, clientID : Text, serverID : Text,
                            data : Text]

VARIABLES
  kind,       \* "request" or "respond": which codec this is
  m_encStr,   \* the encoded string that the codec was given
  m_msg,      \* the codec's message
  output,     \* the string of the last encodeMsg
  call,       \* what the last call was, and for a decodeMsg whether it could parse
  calls,
  \* History, for the properties: the infos that ...
  received,   \* ... m_encStr was made of, and whether it is whole
  holds,      \* ... m_msg should hold
  sent        \* ... output was made of

vars == <<kind, m_encStr, m_msg, output, call, calls, received, holds, sent>>

NoInfo == [none |-> TRUE]
Infos == IF kind = "request" THEN RequestInfos ELSE RespondInfos

-----------------------------------------------------------------------------
\* (mutant) What is empty is not set.
RequestInitMessageIfAny(m, info) ==
  LET filled == RequestMsgSetServerID(RequestMsgSetClientID(
                  RequestMsgSetCmdType(m, info.cmd), info.clientID), info.serverID)
      signed == IF info.sign # <<>> THEN RequestMsgSetSign(filled, info.sign) ELSE filled
  IN  IF info.data # <<>> THEN RequestMsgSetData(signed, info.data) ELSE signed

\* initMessage(info): every field, one setter after the other.
RequestInitMessage(m, info) ==
  RequestMsgSetData(RequestMsgSetSign(RequestMsgSetServerID(RequestMsgSetClientID(
    RequestMsgSetCmdType(m, info.cmd), info.clientID), info.serverID), info.sign), info.data)

\* The status of an info is an int and that of a message a bool.
RespondInitMessage(m, info) ==
  RespondMsgSetData(RespondMsgSetServerID(RespondMsgSetClientID(RespondMsgSetSeckeyID(
    RespondMsgSetStatus(m, info.status # 0), info.seckeyID), info.clientID), info.serverID),
    info.data)

InitMessage(m, info) ==
  IF kind = "request" THEN RequestInitMessage(m, info) ELSE RespondInitMessage(m, info)
NewMessage == IF kind = "request" THEN NewRequestMsg ELSE NewRespondMsg

\* SerializeToString and ParseFromString: the latter clears the message first.
SerializeToString(m) == IF kind = "request" THEN RequestMsgSerialize(m) ELSE RespondMsgSerialize(m)

\* (mutant) MergeFromString.
MergeFromString(m, s) ==
  IF kind = "request" THEN ReadFields(RequestMsgReadField, m, s)
  ELSE ReadFields(RespondMsgReadField, m, s)

ParseFromString(m, s) ==
  IF kind = "request" THEN ReadFields(RequestMsgReadField, RequestMsgClear(m), s)
  ELSE ReadFields(RespondMsgReadField, RespondMsgClear(m), s)

\* string(tmpBuf) in recvMsg.
RecvMsg(s) ==
  LET zeros == {i \in DOMAIN s : s[i] = 0}
  IN  IF zeros = {} THEN s ELSE SubSeq(s, 1, Min(zeros) - 1)

\* Is this an info, and its strings without a zero byte?
NoZeroByte(info) ==
  /\ info # NoInfo
  /\ \A f \in DOMAIN info \cap {"clientID", "serverID", "sign", "data"} : 0 \notin Range(info[f])

-----------------------------------------------------------------------------
Init ==
  /\ kind \in {"request", "respond"}
  /\ m_encStr = <<>> /\ m_msg = NewMessage /\ output = <<>>
  /\ call = "none" /\ calls = 0
  /\ received = [whole |-> TRUE, info |-> NoInfo] /\ holds = NoInfo /\ sent = NoInfo

Calls(what) == calls < MaxCalls /\ calls' = calls + 1 /\ call' = what

\* initMessage(encStr).
Arrives(s, whole) ==
  /\ m_encStr' = s
  /\ received' = [whole |-> whole, info |-> sent]

\* A factory is made of an info, or of a string, and createCodec called: the
\* codec there is has a new message.
CreateToEncode(info) ==
  /\ Calls("create")
  /\ m_msg' = InitMessage(NewMessage, info) /\ holds' = info
  /\ m_encStr' = <<>> /\ received' = [whole |-> TRUE, info |-> NoInfo]
  /\ UNCHANGED <<kind, output, sent>>

CreateToDecode(s, whole) ==
  /\ Calls("create")
  /\ m_msg' = NewMessage /\ holds' = NoInfo
  /\ Arrives(s, whole)
  /\ UNCHANGED <<kind, output, sent>>

\* The codec there is is initialised again.
InitToEncode(info) ==
  /\ Calls("init")
  /\ m_msg' = InitMessage(m_msg, info) /\ holds' = info
  /\ UNCHANGED <<kind, m_encStr, output, received, sent>>

InitToDecode(s, whole) ==
  /\ Calls("init")
  /\ Arrives(s, whole)
  /\ UNCHANGED <<kind, m_msg, output, holds, sent>>

EncodeMsg ==
  /\ Calls("encode")
  /\ output' = SerializeToString(m_msg) /\ sent' = holds
  /\ UNCHANGED <<kind, m_encStr, m_msg, received, holds>>

\* Whether the string could be parsed is not looked at.
DecodeMsg ==
  LET parse == ParseFromString(m_msg, m_encStr)
  IN  /\ Calls(IF parse.ok THEN "decoded" ELSE "not decoded")
      /\ m_msg' = parse.msg
      /\ holds' = IF received.whole THEN received.info ELSE NoInfo
      /\ UNCHANGED <<kind, m_encStr, output, received, sent>>

Next ==
  \/ \E info \in Infos : CreateToEncode(info) \/ InitToEncode(info)
  \/ CreateToDecode(output, TRUE) \/ InitToDecode(output, TRUE)
  \/ CreateToDecode(RecvMsg(output), NoZeroByte(sent))
  \/ InitToDecode(RecvMsg(output), NoZeroByte(sent))
  \/ \E n \in 0 .. Len(output) - 1 : InitToDecode(SubSeq(output, 1, n), FALSE)
  \/ EncodeMsg \/ DecodeMsg

Spec == Init /\ [][Next]_vars

-----------------------------------------------------------------------------
\* Properties.
Fresh(info) == InitMessage(NewMessage, info)
Size(m) == IF kind = "request" THEN RequestMsgByteSizeLong(m) ELSE RespondMsgByteSizeLong(m)
MergeFrom(m, from) ==
  IF kind = "request" THEN RequestMsgMergeFrom(m, from) ELSE RespondMsgMergeFrom(m, from)
CopyFrom(m, from) ==
  IF kind = "request" THEN RequestMsgCopyFrom(m, from) ELSE RespondMsgCopyFrom(m, from)
FieldsOfInfo == DOMAIN NewMessage \ {"unknown"}

\* m gives the info back: of the respond's status, an int that set_status narrows
\* to a bool, 0 and 1 (as cout prints a bool), and of any other number only that it
\* is not 0.
AsInt(b) == IF b THEN 1 ELSE 0
GivesBack(m, info) ==
  /\ IF kind = "request" THEN m.cmdType = info.cmd /\ m.sign = info.sign
     ELSE /\ m.seckeyID = info.seckeyID
          /\ AsInt(m.status) = IF info.status \in {0, 1} THEN info.status ELSE 1
  /\ m.clientID = info.clientID /\ m.serverID = info.serverID /\ m.data = info.data
  /\ m.unknown = <<>>

\* Of a string that was encoded from an info that info is decoded, but for a status
\* other than 0 and 1, in a new codec and in one used before.  This is so when the
\* string is handed on as it is, whatever bytes the info holds, and after recvMsg,
\* which makes a string of its buffer, when no string of the info holds a zero byte:
\* neither a tag nor a length nor a number that is written does.
DecodedIsEncoded ==
  received.whole /\ received.info # NoInfo /\ call \in {"decoded", "not decoded"} =>
    call = "decoded" /\ GivesBack(m_msg, received.info)

\* A codec encodes the info it was last initialised with, or the message it
\* last decoded, and nothing of what its message object held before; the
\* string has the length that was computed for it.
EncodesItsInfo ==
  sent # NoInfo => /\ output = SerializeToString(Fresh(sent))
                   /\ Len(output) = Size(Fresh(sent))

\* decodeMsg ignores whether it could parse.  Of a string cut short, by recvMsg at a
\* zero byte or elsewhere, it may show less than was sent, never something else: each
\* field is unset, or what was sent, or, when the parse failed, its beginning.
CutShowsLess ==
  ~received.whole /\ received.info # NoInfo /\ call \in {"decoded", "not decoded"} =>
    \A f \in FieldsOfInfo :
      \/ m_msg[f] \in {NewMessage[f], Fresh(received.info)[f]}
      \/ /\ call = "not decoded" /\ f \notin {"cmdType", "status", "seckeyID"}
         /\ IsPrefix(m_msg[f], Fresh(received.info)[f])

\* Two strings joined decode to the merge of their messages, the later fields
\* winning, and CopyFrom leaves nothing of what there was.
JoinedIsMerged ==
  sent # NoInfo /\ holds # NoInfo =>
    /\ ParseFromString(m_msg, output \o SerializeToString(m_msg))
         = [ok |-> TRUE, msg |-> MergeFrom(Fresh(sent), m_msg)]
    /\ CopyFrom(m_msg, Fresh(sent)) = Fresh(sent)
=============================================================================

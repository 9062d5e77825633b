--------------------------- MODULE MCMessageCodec ---------------------------
\* The infos encoded when TLC checks MessageCodec: fields that are empty, that
\* are not, that hold a zero byte, and one long enough for a length of two bytes;
\* numbers whose varints have one, two and ten bytes; a status that is no bool.
EXTENDS MessageCodec

Long == [i \in 1 .. 130 |-> 97 + (i % 20)]

RequestOf(cmd, clientID, serverID, sign, data) ==
  [cmd |-> cmd, clientID |-> clientID, serverID |-> serverID, sign |-> sign, data |-> data]
RespondOf(status, seckeyID, clientID, serverID, data) ==
  [status |-> status, seckeyID |-> seckeyID, clientID |-> clientID, serverID |-> serverID,
   data |-> data]

Requests ==
  {RequestOf(1, <<99, 105>>, <<115>>, <<115, 103>>, <<100, 97>>),
   RequestOf(0, <<>>, <<115>>, <<>>, Long),
   RequestOf(-1, <<99>>, <<>>, <<120, 0, 121>>, <<0>>)}
Responds ==
  {RespondOf(0, 999, <<108>>, <<122, 103>>, <<99, 119>>),
   RespondOf(1, 0, <<>>, <<122>>, Long),
   RespondOf(2, -1, <<108, 0, 99>>, <<>>, <<100>>)}
=============================================================================

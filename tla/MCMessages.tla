----------------------------- MODULE MCMessages -----------------------------
(* Messages with samples of every kind of field. *)
EXTENDS Messages

Binary == INSTANCE HtsMsgBinary
TheBytes(msg) == Binary!Serialize(msg)
TheMessage(bytes) == Binary!Des(bytes)

Id == <<105>>
Title == <<97>>
Tags == <<103>>

TheSamples == {
  \* For the Process thread: the numbers around those of one byte and of none,
  \* an empty string, and a list that ends with a zero.
  <<AddStr(Method, <<120>>), AddU32(Id, 200), AddS64(Pts, -300), AddStr(Title, <<>>),
    AddMsg(Tags, <<AddU32(<<>>, 255), AddU32(<<>>, 0)>>, TRUE)>>,
  <<AddMsg(Tags, <<AddMsg(Id, <<AddS64(Id, 256)>>, FALSE)>>, FALSE), AddStr(Method, <<121, 122>>)>>,
  \* Packets, of the subscription and of one that is closed, one without a
  \* payload, and a status of the subscription.
  <<AddStr(Method, <<109>>), AddU32(SubId, 1), AddU32(Stream, 0), AddS64(Pts, -1), AddBin(Payload, <<0, 255>>)>>,
  <<AddStr(Method, <<109>>), AddU32(SubId, 1), AddU32(Stream, 3), AddBin(Payload, <<7>>)>>,
  <<AddStr(Method, <<109>>), AddU32(SubId, 2), AddU32(Stream, 3), AddBin(Payload, <<7>>)>>,
  <<AddStr(Method, <<109>>), AddU32(SubId, 1), AddU32(Stream, 0)>>,
  <<AddStr(Method, <<115, 115>>), AddU32(SubId, 1)>>}

\* What m_pktBuffer is for.
ThePackets == {Packet(msg) : msg \in {m \in TheSamples : IsPacket(m)}}

Names == {Method, Seqno, SubId, Stream, Pts, Payload, Data, Id, Title, Tags}
Decoded(msg) == Binary!Des(Binary!Write(msg)).msg

\* What is written is read back as it was, and its length is the one that was counted.
ASSUME ReadAsWritten ==
  \A msg \in TheSamples : Len(Binary!Write(msg)) = Binary!Count(msg) /\ Binary!Des(Binary!Write(msg)) = [ok |-> TRUE, msg |-> msg]

\* A number arrives as itself, from each field it fits into and also by way of
\* a string; from one it does not fit into it does not arrive at all.
ASSUME NumbersArrive ==
  \A n \in -300..300 : LET msg == Decoded(<<AddS64(Id, n), AddStr(Title, Text(n))>>) IN
    /\ \A name \in {Id, Title} :
         /\ GetS64(msg, name) = Result(OK, n) /\ GetStr(msg, name) = Result(OK, Text(n))
         /\ GetU32(msg, name).err = IF n \in 0..255 THEN OK ELSE ConversionImpossible
         /\ GetS32(msg, name).err = IF n \in -128..127 THEN OK ELSE ConversionImpossible
         /\ GetU32OrDefault(msg, name, 7) = IF n \in 0..255 THEN n ELSE 7
    /\ n \in -128..127 => GetS32(Decoded(<<AddS32(Id, n)>>), Id) = Result(OK, n)

\* A field is found by its name and only as what it is.
ASSUME FieldsFound ==
  \A msg \in TheSamples, name \in Names :
    LET errs == {GetBin(msg, name).err, GetMap(msg, name).err, GetList(msg, name).err, GetStr(msg, name).err}
    IN IF IsThere(msg, name)
       THEN errs = {OK, ConversionImpossible}
       ELSE errs = {FieldNotFound} /\ GetS64(msg, name).err = FieldNotFound
=============================================================================

---------------------------- MODULE HtsMsgBinary ----------------------------
(***************************************************************************)
(* The binary form of messages: lib/libhts/htsmsg_binary.c. Bytes, lengths *)
(* and headers are as they are. The server writes with the same code.      *)
(*                                                                         *)
(* What is recursive is kept here, apart from HtsMsg and Messages, which   *)
(* can be reasoned about.                                                  *)
(***************************************************************************)
EXTENDS HtsMsg

-----------------------------------------------------------------------------
(***************************************************************************)
(* htsmsg_binary_serialize.                                                *)
(***************************************************************************)
Unsigned(n) == n % Modulus(Long)
Signed(u) == IF u >= Modulus(Long) \div 2 THEN u - Modulus(Long) ELSE u

\* An integer is written as many bytes as it takes, the lowest first: 0 as none.
Lowest(u, k) == [i \in 1..k |-> (u \div 256 ^ (i - 1)) % 256]
SizeOf(u) == CHOOSE k \in 0..Long : u < Modulus(k) /\ \A j \in 0..(k - 1) : u >= Modulus(j)
IntBytes(n) == Lowest(Unsigned(n), SizeOf(Unsigned(n)))

BigEndian(n) == Reverse(Lowest(n, 4))

\* htsmsg_binary_count, by which the lengths of messages inside messages, and
\* of the whole, are found before anything is written.
RECURSIVE Count(_)
Count(msg) ==
  FoldLeft(LAMBDA len, f : len + 6 + Len(f.name)
             + CASE f.type \in {MAP, LIST} -> Count(f.msg)
                 [] f.type \in {STR, BIN} -> Len(f.bytes)
                 [] f.type = S64 -> Len(IntBytes(f.num)), 0, msg)

\* htsmsg_binary_write.
RECURSIVE Write(_)
Write(msg) ==
  FoldLeft(LAMBDA out, f :
             LET l == CASE f.type \in {MAP, LIST} -> Count(f.msg)
                        [] f.type \in {STR, BIN} -> Len(f.bytes)
                        [] f.type = S64 -> Len(IntBytes(f.num))
                 data == CASE f.type \in {MAP, LIST} -> Write(f.msg)
                           [] f.type \in {STR, BIN} -> f.bytes
                           [] f.type = S64 -> IntBytes(f.num)
             IN out \o <<f.type, Len(f.name)>> \o BigEndian(l) \o f.name \o data, <<>>, msg)

Serialize(msg) == BigEndian(Count(msg)) \o Write(msg)

-----------------------------------------------------------------------------
(***************************************************************************)
(* htsmsg_binary_deserialize.                                              *)
(***************************************************************************)
\* An s64 is the lowest bytes of what is there.
IntOf(bytes) == Signed(Number(Reverse(SubSeq(bytes, 1, IF Len(bytes) < Long THEN Len(bytes) ELSE Long))))

Failed == [ok |-> FALSE, msg |-> <<>>]

\* The loop of htsmsg_binary_des0 goes on while there is a header. An unnamed
\* zero, such as a list may end with, is nothing but one.
HasField(buf) == Len(buf) > 5

\* htsmsg_binary_des0.
RECURSIVE Des(_)
Des(buf) == IF ~HasField(buf) THEN [ok |-> TRUE, msg |-> <<>>] ELSE
  LET type == buf[1]
      namelen == buf[2]
      end == 6 + namelen + Number(SubSeq(buf, 3, 6))
      name == SubSeq(buf, 7, 6 + namelen)
      data == SubSeq(buf, 7 + namelen, end)
      sub == IF type \in {MAP, LIST} THEN Des(data) ELSE [ok |-> TRUE, msg |-> <<>>]
      field == [name |-> name, type |-> type,
                num |-> IF type = S64 THEN IntOf(data) ELSE 0,
                bytes |-> IF type \in {STR, BIN} THEN data ELSE <<>>, msg |-> sub.msg]
      rest == Des(SubSeq(buf, end + 1, Len(buf)))
  IN IF Len(buf) < end \/ type \notin {MAP, S64, STR, BIN, LIST} \/ ~sub.ok \/ ~rest.ok THEN Failed
     ELSE [ok |-> TRUE, msg |-> <<field>> \o rest.msg]
=============================================================================

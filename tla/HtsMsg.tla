------------------------------- MODULE HtsMsg -------------------------------
(***************************************************************************)
(* Messages in memory: lib/libhts/htsmsg.c and htsmsg.h. Their binary form *)
(* is in HtsMsgBinary.                                                     *)
(*                                                                         *)
(* A message is the sequence of its fields (hm_fields); a field has a      *)
(* name, a type, and one of the values of the union. Integers have Long    *)
(* bytes instead of 8, and the "32-bit" ones Short bytes instead of 4.     *)
(* Floating-point fields are neither sent nor expected by anyone.          *)
(***************************************************************************)
EXTENDS Integers, Sequences, SequencesExt

CONSTANTS
  Long,    (* the bytes of an s64                                          *)
  Short    (* the bytes of a u32 or s32                                    *)

ASSUME WidthAssumption == Long \in Nat /\ Short \in 1..Long

MAP == 1
S64 == 2
STR == 3
BIN == 4
LIST == 5

Modulus(bytes) == 256 ^ bytes

-----------------------------------------------------------------------------
(***************************************************************************)
(* Building messages: htsmsg_add_*, by which every request is built.       *)
(***************************************************************************)
Field(name, type) == [name |-> name, type |-> type, num |-> 0, bytes |-> <<>>, msg |-> <<>>]

AddS64(name, n) == [Field(name, S64) EXCEPT !.num = n]
AddS32(name, n) == AddS64(name, n)
\* The argument is converted to unsigned and the field is signed and longer.
AddU32(name, n) == AddS64(name, n % Modulus(Short))
AddStr(name, s) == [Field(name, STR) EXCEPT !.bytes = s]
AddBin(name, b) == [Field(name, BIN) EXCEPT !.bytes = b]
AddMsg(name, sub, isList) == [Field(name, IF isList THEN LIST ELSE MAP) EXCEPT !.msg = sub]

-----------------------------------------------------------------------------
(***************************************************************************)
(* Reading them: htsmsg_get_*. A number can be read from a string and the  *)
(* other way round. (The field that is read as a string then stays one.)   *)
(***************************************************************************)
OK == 0
FieldNotFound == -1
ConversionImpossible == -2
Result(err, value) == [err |-> err, value |-> value]

\* htsmsg_field_find: the first of several, or null.
Null == Field(<<>>, 0)
IsThere(msg, name) == \E i \in DOMAIN msg : msg[i].name = name
Find(msg, name) == IF IsThere(msg, name) THEN msg[SelectInSeq(msg, LAMBDA f : f.name = name)] ELSE Null
OfType(f, type, value) ==
  CASE f.type = type -> Result(OK, value)
    [] f = Null -> Result(FieldNotFound, 0)
    [] OTHER -> Result(ConversionImpossible, 0)

\* What snprintf writes, and what strtoll reads of decimal and octal digits.
Digits[n \in Nat] == IF n < 10 THEN <<48 + n>> ELSE Append(Digits[n \div 10], 48 + (n % 10))
Text(n) == IF n < 0 THEN <<45>> \o Digits[-n] ELSE Digits[n]
NumberIn(text) ==
  LET minus == text # <<>> /\ text[1] = 45
      digits == IF minus THEN Tail(text) ELSE text
      base == IF digits # <<>> /\ digits[1] = 48 THEN 8 ELSE 10
      Is(c) == c \in 48..(47 + base)
      valid == SelectInSeq(Append(digits, 0), LAMBDA c : ~Is(c)) - 1
      n == FoldLeft(LAMBDA v, c : base * v + c - 48, 0, SubSeq(digits, 1, valid))
  IN IF minus THEN -n ELSE n

GetS64(msg, name) ==
  LET f == Find(msg, name)
  IN IF f.type = STR THEN Result(OK, NumberIn(f.bytes)) ELSE OfType(f, S64, f.num)
GetRange(msg, name, low, high) ==
  LET r == GetS64(msg, name)
  IN IF r.err = OK /\ r.value \notin low..high THEN Result(ConversionImpossible, 0) ELSE r
GetU32(msg, name) == GetRange(msg, name, 0, Modulus(Short) - 1)
GetU32OrDefault(msg, name, def) == LET r == GetU32(msg, name) IN IF r.err = OK THEN r.value ELSE def
GetS32(msg, name) == GetRange(msg, name, -(Modulus(Short) \div 2), Modulus(Short) \div 2 - 1)
FieldString(f) == IF f.type = S64 THEN Result(OK, Text(f.num)) ELSE OfType(f, STR, f.bytes)
GetStr(msg, name) == FieldString(Find(msg, name))
GetBin(msg, name) == LET f == Find(msg, name) IN OfType(f, BIN, f.bytes)
GetMap(msg, name) == LET f == Find(msg, name) IN OfType(f, MAP, f.msg)
GetList(msg, name) == LET f == Find(msg, name) IN OfType(f, LIST, f.msg)

\* What up to four bytes mean when the highest comes first.
Number(bytes) == FoldLeft(LAMBDA n, b : n * 256 + b, 0, bytes)
=============================================================================

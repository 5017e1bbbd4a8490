----------------------------- MODULE IppFields ------------------------------
(***************************************************************************)
(* The fields of an IPP message in codec.ts of packages/ipp: how numbers,   *)
(* strings and the values of fixed length are written, and read at a place  *)
(* of a buffer.                                                            *)
(*                                                                         *)
(* Integers are those TLC has, which are the 32-bit ones of the protocol.   *)
(* Characters have one or two bytes in UTF-8, and strings are shorter than  *)
(* 65536 bytes.                                                            *)
(***************************************************************************)
EXTENDS IppTables

CONSTANT TimezoneOffset   \* of the host: Date.getTimezoneOffset, in minutes

ASSUME CodecAssumption == TimezoneOffset \in -840..840

-----------------------------------------------------------------------------
(* Writing *)

LanguageSeparator == 30

UInt16(n) == <<n \div 256, n % 256>>

BigEndian(n) == <<n \div 16777216, (n \div 65536) % 256, (n \div 256) % 256, n % 256>>
Complement(bytes) == [i \in DOMAIN bytes |-> 255 - bytes[i]]
Int32(n) == IF n >= 0 THEN BigEndian(n) ELSE Complement(BigEndian(-(n + 1)))

Utf8Char(char) ==
  IF char < 128 THEN <<char>> ELSE <<192 + char \div 64, 128 + (char % 64)>>
Utf8(chars) == FlattenSeq([i \in DOMAIN chars |-> Utf8Char(chars[i])])
Ascii(chars) == [i \in DOMAIN chars |-> chars[i] % 256]

\* Mutant of Sized: a length counts characters.
SizedByCharacters(bytes) == UInt16(Len(SelectSeq(bytes, LAMBDA b : b \notin 128..191))) \o bytes
Sized(bytes) == UInt16(Len(bytes)) \o bytes

\* A writer that throws leaves this in what it has written.
Refused == <<-1>>
Throws(bytes) == -1 \in ToSet(bytes)

writeInteger(value) == IF IsA(value, "number") THEN UInt16(4) \o Int32(value[2]) ELSE Refused

\* [x, y, unit]
writeResolution(value) ==
  IF /\ IsA(value, "array") /\ Len(value[2]) = 3
     /\ IsA(value[2][1], "number") /\ IsA(value[2][2], "number")
     /\ value[2][3] \in {K("dpi"), K("dpcm")}
  THEN UInt16(9) \o Int32(value[2][1][2]) \o Int32(value[2][2][2])
       \o <<IF value[2][3] = K("dpi") THEN 3 ELSE 4>>
  ELSE Refused

\* Local time, and how far it is ahead of (+) or behind (-) UTC.
dateTimeBytes(year, month, local, deciseconds) ==
  LET offset == IF TimezoneOffset > 0 THEN TimezoneOffset ELSE - TimezoneOffset
  IN UInt16(11) \o UInt16(year)
     \o <<month, 1 + local \div 1440, (local % 1440) \div 60, local % 60,
          deciseconds \div 10, deciseconds % 10,
          IF TimezoneOffset > 0 THEN 45 ELSE 43, offset \div 60, offset % 60>>

writeDateTime(value) ==
  IF IsA(value, "date")
  THEN dateTimeBytes(value[2], value[3], value[4] - TimezoneOffset, value[5]) ELSE Refused

-----------------------------------------------------------------------------
(* Reading *)

Fits(buffer, at, length) == at + length - 1 <= Len(buffer)
TooShort == [ok |-> FALSE, value |-> Null, next |-> 0]
Read(buffer, at, length, value) ==
  IF Fits(buffer, at, length) THEN [ok |-> TRUE, value |-> value, next |-> at + length]
  ELSE TooShort

UInt16At(buffer, at) == 256 * buffer[at] + buffer[at + 1]
BigEndianAt(buffer, at) ==
  ((buffer[at] * 256 + buffer[at + 1]) * 256 + buffer[at + 2]) * 256 + buffer[at + 3]
Int32At(buffer, at) ==
  IF buffer[at] < 128 THEN BigEndianAt(buffer, at) ELSE -1 - BigEndianAt(Complement(buffer), at)

FromAscii(bytes) == [i \in DOMAIN bytes |-> bytes[i] % 128]

\* A byte that belongs to no character becomes the replacement character.
FromUtf8(bytes) ==
  LET charsFrom[i \in Nat] ==
        IF i > Len(bytes) THEN <<>>
        ELSE IF bytes[i] < 128 THEN <<bytes[i]>> \o charsFrom[i + 1]
        ELSE IF bytes[i] \in 194..223 /\ i < Len(bytes) /\ bytes[i + 1] \in 128..191
        THEN <<64 * (bytes[i] - 192) + bytes[i + 1] - 128>> \o charsFrom[i + 2]
        ELSE <<65533>> \o charsFrom[i + 1]
  IN charsFrom[1]

rangeAt(buffer, at) == Arr(<<Num(Int32At(buffer, at)), Num(Int32At(buffer, at + 4))>>)

resolutionAt(buffer, at) ==
  Arr(<<Num(Int32At(buffer, at)), Num(Int32At(buffer, at + 4)),
        K(IF buffer[at + 8] = 3 THEN "dpi" ELSE "dpcm")>>)

\* Date.UTC takes a year of two digits for one of the twentieth century.
dateTimeAt(buffer, at) ==
  LET year == UInt16At(buffer, at)
      offset == 60 * buffer[at + 9] + buffer[at + 10]
  IN Date(IF year < 100 THEN 1900 + year ELSE year, buffer[at + 2],
          1440 * (buffer[at + 3] - 1) + 60 * buffer[at + 4] + buffer[at + 5]
            - (IF buffer[at + 8] = 45 THEN - offset ELSE offset),
          10 * buffer[at + 6] + buffer[at + 7])
=============================================================================

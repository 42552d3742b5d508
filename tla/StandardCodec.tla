---------------------------- MODULE StandardCodec ----------------------------
(***************************************************************************)
(* The standard message codec (embedder/src/engine/                        *)
(* standard_message_codec.cpp): values to and from the bytes that go over  *)
(* the platform channels, and into the files of the settings.              *)
(*                                                                         *)
(* A byte holds 0 .. Base - 1; the two largest stand for longer sizes.     *)
(* Cursors count from 0, as in the code.                                   *)
(***************************************************************************)
EXTENDS Integers, Sequences, SequencesExt

CONSTANT Base   (* values of a byte: 256 in the code *)

ASSUME CodecAssumption == Base \in Nat /\ Base > 13

Marker16 == Base - 2
Marker32 == Base - 1

\* The n low bytes of an integer, the lowest first.
Bytes(v, n) == [i \in 1 .. n |-> (v \div Base ^ (i - 1)) % Base]

WriteSize(n, out) ==
  IF n < Marker16 THEN Append(out, n)
  ELSE IF n < Base ^ 2 THEN Append(out, Marker16) \o Bytes(n, 2)
  ELSE Append(out, Marker32) \o Bytes(n, 4)

AlignTo(n, out) == out \o [i \in 1 .. ((-Len(out)) % n) |-> 0]

InInt32(v) == -(Base ^ 4 \div 2) <= v /\ v < Base ^ 4 \div 2

RECURSIVE EncodeStdValue(_, _)

\* Appends the value to out, whose length decides on the padding.
EncodeStdValue(v, out) ==
  CASE v.type = "null" -> Append(out, 0)
    [] v.type = "bool" -> Append(out, IF v.val THEN 1 ELSE 2)
    [] v.type = "int" ->
         IF InInt32(v.val) THEN Append(out, 3) \o Bytes(v.val, 4)
                           ELSE Append(out, 4) \o Bytes(v.val, 8)
    [] v.type = "double" -> AlignTo(8, Append(out, 6)) \o v.val
    [] v.type = "string" -> WriteSize(Len(v.val), Append(out, 7)) \o v.val
    [] v.type = "list" ->
         FoldLeft(LAMBDA bytes, item : EncodeStdValue(item, bytes),
                  WriteSize(Len(v.val), Append(out, 12)), v.val)
    [] v.type = "map" ->
         FoldLeft(LAMBDA bytes, entry :
                    EncodeStdValue(entry[2], EncodeStdValue(entry[1], bytes)),
                  WriteSize(Len(v.val), Append(out, 13)), v.val)

-----------------------------------------------------------------------------
Refused == [ok |-> FALSE]
Decoded(type, v, cursor) ==
  [ok |-> TRUE, value |-> [type |-> type, val |-> v], cursor |-> cursor]

At(data, cursor, n) == SubSeq(data, cursor + 1, cursor + n)

Unsigned(bytes) ==
  FoldRight(LAMBDA byte, v : byte + Base * v, bytes, 0)

\* Two's complement: the highest byte carries the sign.
Signed(bytes) ==
  LET high == Last(bytes)
  IN  Unsigned(Front(bytes))
        + (IF high < Base \div 2 THEN high ELSE high - Base)
            * Base ^ (Len(bytes) - 1)

\* How many bytes follow the first byte of a size.
SizeBytes(first) ==
  IF first < Marker16 THEN 0 ELSE IF first = Marker16 THEN 2 ELSE 4

ReadSize(data, cursor) ==
  IF cursor >= Len(data) THEN Refused
  ELSE LET first == data[cursor + 1]
           n == SizeBytes(first)
       IN  IF cursor + 1 + n > Len(data) THEN Refused
           ELSE Decoded("size", IF n = 0 THEN first
                                ELSE Unsigned(At(data, cursor + 1, n)),
                        cursor + 1 + n)

SkipAlignment(n, cursor) == cursor + ((-cursor) % n)

\* A value of n bytes at the cursor; those of a double or string stay bytes.
Fixed(data, cursor, n, type) ==
  LET bytes == At(data, cursor, n)
  IN  IF cursor + n > Len(data) THEN Refused
      ELSE Decoded(type, IF type = "int" THEN Signed(bytes) ELSE bytes,
                   cursor + n)

RECURSIVE DecodeStdValue(_, _), DecodeItems(_, _, _)

\* n values one after the other.
DecodeItems(data, cursor, n) ==
  IF n = 0 THEN Decoded("items", <<>>, cursor)
  ELSE LET first == DecodeStdValue(data, cursor)
       IN  IF ~first.ok THEN Refused
           ELSE LET rest == DecodeItems(data, first.cursor, n - 1)
                IN  IF ~rest.ok THEN Refused
                    ELSE Decoded("items", <<first.value>> \o rest.value.val,
                                 rest.cursor)

\* As many values as a size at the cursor says, times width.
DecodeSized(data, cursor, width) ==
  LET size == ReadSize(data, cursor)
  IN  IF size.ok THEN DecodeItems(data, size.cursor, width * size.value.val)
                 ELSE Refused

DecodeStdValue(data, cursor) ==
  IF cursor >= Len(data) THEN Refused
  ELSE LET type == data[cursor + 1]
           next == cursor + 1
           size == ReadSize(data, next)
           items == DecodeSized(data, next, IF type = 13 THEN 2 ELSE 1)
           seq == items.value.val
       IN  CASE type = 0 -> Decoded("null", 0, next)
             [] type \in {1, 2} -> Decoded("bool", type = 1, next)
             [] type = 3 -> Fixed(data, next, 4, "int")
             [] type = 4 -> Fixed(data, next, 8, "int")
             [] type = 6 ->
                  Fixed(data, SkipAlignment(8, next), 8, "double")
             [] type = 7 ->
                  IF ~size.ok THEN Refused
                  ELSE Fixed(data, size.cursor, size.value.val, "string")
             [] type = 12 ->
                  IF ~items.ok THEN Refused
                  ELSE Decoded("list", seq, items.cursor)
             [] type = 13 ->
                  IF ~items.ok THEN Refused
                  ELSE Decoded("map", [i \in 1 .. Len(seq) \div 2 |->
                                         <<seq[2 * i - 1], seq[2 * i]>>],
                               items.cursor)
             [] OTHER -> Refused

-----------------------------------------------------------------------------
\* A call is its method's name and its arguments, a successful answer a zero
\* and the result.
DecodeStdMethodCall(data) ==
  LET name == DecodeStdValue(data, 0)
  IN  IF ~name.ok \/ name.value.type # "string" THEN Refused
      ELSE DecodeStdValue(data, name.cursor)

EncodeStdSuccess(result) == EncodeStdValue(result, <<0>>)
=============================================================================

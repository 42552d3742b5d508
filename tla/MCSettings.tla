----------------------------- MODULE MCSettings -----------------------------
(* AppServices, and in it Settings with two keys and the bytes of the      *)
(* standard message codec, in which a byte has 16 values.                  *)
EXTENDS AppServices, StandardCodec, TLC

\* Bound: a behaviour has settings or a log file on the card, or uses the network, and
\* of that the client or the proxy (the proofs of AppServices need no such bound).
OneAtATime ==
  LET used == <<~Init, logFile # NoLog \/ altFile # NoLog, ~HttpReset, ~ProxyReset>>
  IN  Cardinality({i \in DOMAIN used : used[i]}) <= 1

MCNext == AppNext /\ OneAtATime'

MCSpec == AppInit /\ [][MCNext]_appVars

String(bytes) == [type |-> "string", val |-> bytes]
Number(v)     == [type |-> "int", val |-> v]
Double(bytes) == [type |-> "double", val |-> bytes]
List(values)  == [type |-> "list", val |-> values]
Map(entries)  == [type |-> "map", val |-> entries]

Title == <<1>>
Other == <<2>>
MCKeys     == {Title, Other}
MCPrefixed == {Title}
\* Bound: one value, there or not; its length is the first that has a long size.
MCValues   == {String([i \in 1 .. 14 |-> 0])}

\* The entries that a map in memory has, in a fixed order.
Entries(m) ==
  SelectSeq(<< <<String(Title), m[Title]>>, <<String(Other), m[Other]>> >>,
            LAMBDA entry : entry[2] # None)

MCEncode(m) == EncodeStdValue(Map(Entries(m)), <<>>)

MCDecode(bytes) ==
  LET decoded == DecodeStdValue(bytes, 0)
      entries == decoded.value.val
      Has(k) == \E i \in DOMAIN entries : entries[i][1].val = k
      Get(k) == entries[CHOOSE i \in DOMAIN entries : entries[i][1].val = k][2]
  IN  IF ~decoded.ok \/ decoded.value.type # "map" THEN None
      ELSE [k \in Keys |-> IF Has(k) THEN Get(k) ELSE None]

-----------------------------------------------------------------------------
Zeros(n) == [i \in 1 .. n |-> 0]

\* Values at the boundaries of the sizes, of the integers and of the padding.
Samples ==
  << [type |-> "null", val |-> 0],
     [type |-> "bool", val |-> TRUE], [type |-> "bool", val |-> FALSE],
     Number(0), Number(-1), Number(32767), Number(-32768), Number(32768), Number(-32769),
     String(<<>>), String(Zeros(13)), String(Zeros(14)), String(Zeros(255)),
     String(Zeros(256)), Double(<<1, 2, 3, 4, 5, 6, 7, 8>>), List(<<>>),
     List(<<Number(7), Double(Zeros(8)), String(<<3>>), List(<<Number(-5)>>)>>),
     List([i \in 1 .. 15 |-> String(<<i % 3>>)]),
     Map(<<>>), Map(<< <<String(<<4>>), Double(Zeros(8))>>,
                       <<String(<<>>), List(<<Number(40000)>>)>> >>) >>

(* Every sample is read back from where it was written, at any offset, and *)
(* nothing is read from a part of it.                                      *)
ASSUME CodecSamples ==
  \A i \in DOMAIN Samples, offset \in 0 .. 8 :
    LET data == EncodeStdValue(Samples[i], Zeros(offset))
    IN  /\ DecodeStdValue(data, offset) =
             [ok |-> TRUE, value |-> Samples[i], cursor |-> Len(data)]
        /\ \A n \in offset .. Len(data) - 1 :
             ~DecodeStdValue(SubSeq(data, 1, n), offset).ok

(* A method call is its name and its arguments; an answer starts with 0.   *)
ASSUME CodecCalls ==
  \A i \in DOMAIN Samples :
    /\ LET call == EncodeStdValue(Samples[i], EncodeStdValue(String(Title), <<>>))
       IN  DecodeStdMethodCall(call).value = Samples[i]
    /\ DecodeStdMethodCall(EncodeStdValue(Samples[i], EncodeStdValue(Number(1), <<>>))) = Refused
    /\ DecodeStdValue(EncodeStdSuccess(Samples[i]), 1).value = Samples[i]
=============================================================================

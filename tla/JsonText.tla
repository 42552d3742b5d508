------------------------------ MODULE JsonText ------------------------------
(***************************************************************************)
(* The text conversions of embedder/src/engine/textinput_horizon.cpp: what *)
(* is read from and written into the JSON of flutter/textinput.  A text in *)
(* memory is a sequence of UTF-8 bytes; the system's keyboard gives and    *)
(* takes the same.                                                         *)
(***************************************************************************)
EXTENDS Integers, Sequences, SequencesExt

Quote == 34
Backslash == 92
LetterU == 117

\* Letters after a backslash and the bytes they stand for; all others stand for
\* themselves.
Letters == [c \in {110, 114, 116, 98, 102} |->
             CASE c = 110 -> 10 [] c = 114 -> 13 [] c = 116 -> 9 [] c = 98 -> 8 [] OTHER -> 12]

\* The first byte tells how many bytes the character has; four of them are two units.
Utf16Length(utf8) ==
  LET Bytes(c) == IF c \div 8 = 30 THEN 4 ELSE IF c \div 32 = 6 THEN 2
                  ELSE IF c \div 16 = 14 THEN 3 ELSE 1
      from[i \in 1 .. Len(utf8) + 4] ==
        IF i > Len(utf8) THEN 0
        ELSE (IF Bytes(utf8[i]) = 4 THEN 2 ELSE 1) + from[i + Bytes(utf8[i])]
  IN  from[1]

HexDigits(n) ==
  [i \in 1 .. 4 |-> LET digit == (n \div 16 ^ (4 - i)) % 16
                    IN  IF digit < 10 THEN 48 + digit ELSE 87 + digit]

HexValue(digits) ==
  LET Digit(c) == IF c < 58 THEN c - 48 ELSE IF c < 97 THEN c - 55 ELSE c - 87
  IN  FoldLeft(LAMBDA value, c : 16 * value + Digit(c), 0, digits)

JsonEscape(s) ==
  LET Escaped(c) ==
        CASE c \in {Quote, Backslash} -> <<Backslash, c>>
          [] c \in {10, 13, 9} -> <<Backslash, CHOOSE l \in {110, 114, 116} : Letters[l] = c>>
          [] c < 32 /\ c \notin {10, 13, 9} -> <<Backslash, LetterU>> \o HexDigits(c)
          [] OTHER -> <<c>>
  IN  FlattenSeq([i \in DOMAIN s |-> Escaped(s[i])])

AppendUtf8(cp) ==
  LET Rest(shift) == 128 + ((cp \div 2 ^ shift) % 64)
  IN  CASE cp < 128 -> <<cp>>
        [] cp \in 128 .. 2047 -> <<192 + cp \div 64, Rest(0)>>
        [] cp \in 2048 .. 65535 -> <<224 + cp \div 4096, Rest(6), Rest(0)>>
        [] OTHER -> <<240 + cp \div 262144, Rest(12), Rest(6), Rest(0)>>

High == 55296 .. 56319
Low  == 56320 .. 57343

\* What follows the needle "key":" : the text up to the closing quote, and whether
\* there was one.  Digits are taken for hexadecimal, as a JSON writer's are.
ExtractJsonString(json) ==
  LET n == Len(json)
      Unit(i) == HexValue(SubSeq(json, i, i + 3))
      Then(bytes, rest) == [ok |-> rest.ok, out |-> bytes \o rest.out]
      IsPair(i) == /\ Unit(i) \in High /\ i + 9 <= n
                   /\ json[i + 4] = Backslash /\ json[i + 5] = LetterU
                   /\ Unit(i + 6) \in Low
      Pair(i) == 65536 + (Unit(i) - 55296) * 1024 + (Unit(i + 6) - 56320)
      from[i \in 1 .. n + 1] ==
        CASE i > n -> [ok |-> FALSE, out |-> <<>>]
          [] i <= n /\ json[i] = Quote -> [ok |-> TRUE, out |-> <<>>]
          [] i <= n /\ json[i] \notin {Quote, Backslash} -> Then(<<json[i]>>, from[i + 1])
          [] i = n /\ json[i] = Backslash -> [ok |-> FALSE, out |-> <<>>]
          [] i < n /\ json[i] = Backslash /\ json[i + 1] # LetterU ->
               LET c == json[i + 1]
               IN  Then(<<IF c \in DOMAIN Letters THEN Letters[c] ELSE c>>, from[i + 2])
          [] OTHER ->
               IF i + 5 > n THEN [ok |-> FALSE, out |-> <<>>]
               ELSE IF IsPair(i + 2) THEN Then(AppendUtf8(Pair(i + 2)), from[i + 12])
               ELSE Then(AppendUtf8(Unit(i + 2)), from[i + 6])
  IN  from[1]

-----------------------------------------------------------------------------
\* The framework's side: a text is a sequence of code points.
Utf8(text) == FlattenSeq([i \in DOMAIN text |-> AppendUtf8(text[i])])

Utf16Units(text) ==
  FoldLeft(LAMBDA units, cp : units + (IF cp >= 65536 THEN 2 ELSE 1), 0, text)

\* The ways in which a JSON writer may write a character.
Ways(cp) ==
  (IF cp \in {Quote, Backslash} \/ cp < 32 THEN {} ELSE {AppendUtf8(cp)})
    \cup (IF cp < 65536
          THEN {<<Backslash, LetterU>> \o HexDigits(cp)}
          ELSE LET offset == cp - 65536
               IN  {<<Backslash, LetterU>> \o HexDigits(55296 + offset \div 1024)
                      \o <<Backslash, LetterU>> \o HexDigits(56320 + (offset % 1024))})
    \cup (IF cp \in {Quote, Backslash, 47} THEN {<<Backslash, cp>>} ELSE {})
    \cup {<<Backslash, l>> : l \in {m \in DOMAIN Letters : Letters[m] = cp}}

\* A text as the framework writes it.
Written(text) == FlattenSeq([i \in DOMAIN text |-> CHOOSE w \in Ways(text[i]) : TRUE]) \o <<Quote>>
=============================================================================

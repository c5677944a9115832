------------------------------ MODULE Escapes ------------------------------
(***************************************************************************)
(* Bytes that are shown escaped, kaskade/models.py, and how the composer   *)
(* reads them back, kaskade/serializers/primitives.py.  A character is its *)
(* code.                                                                   *)
(***************************************************************************)
EXTENDS Integers, Sequences, SequencesExt

BYTES == 0..255
BACKSLASH == 92
LETTER_X == 120
Printable(c) == 32 <= c /\ c <= 126
HexDigit(n) == IF n < 10 THEN 48 + n ELSE 87 + n
IsHexDigit(c) == c \in 48..57 \cup 65..70 \cup 97..102
HexValue(c) == IF c <= 57 THEN c - 48 ELSE IF c <= 70 THEN c - 55 ELSE c - 87

\* escaped_bytes(), of one byte and of many.
EscapedByte(b) ==
  IF b = BACKSLASH THEN <<BACKSLASH, BACKSLASH>>
  ELSE IF Printable(b) THEN <<b>>
  ELSE <<BACKSLASH, LETTER_X, HexDigit(b \div 16), HexDigit(b % 16)>>
Escaped(bytes) == FlattenSeq([i \in 1..Len(bytes) |-> EscapedByte(bytes[i])])
----------------------------------------------------------------------------
\* _escaped(): the escapes from the left, and ASCII between them; a -1 where the
\* text is refused.
LengthAt(text, i) ==
  IF i + 1 <= Len(text) /\ text[i] = BACKSLASH /\ text[i + 1] = BACKSLASH THEN 2
  ELSE IF i + 3 <= Len(text) /\ text[i] = BACKSLASH /\ text[i + 1] = LETTER_X
          /\ IsHexDigit(text[i + 2]) /\ IsHexDigit(text[i + 3]) THEN 4
  ELSE IF Printable(text[i]) /\ text[i] # BACKSLASH THEN 1 ELSE 0
ByteAt(text, i) ==
  IF LengthAt(text, i) = 4 THEN 16 * HexValue(text[i + 2]) + HexValue(text[i + 3]) ELSE text[i]

Unescaped(text) ==
  LET read[i \in 1 .. Len(text) + 1] ==
        IF i > Len(text) THEN <<>>
        ELSE IF LengthAt(text, i) = 0 THEN <<-1>>
        ELSE <<ByteAt(text, i)>> \o read[i + LengthAt(text, i)]
  IN  read[1]
=============================================================================

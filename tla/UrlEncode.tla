----------------------------- MODULE UrlEncode -----------------------------
(***************************************************************************)
(* The forms the configuration page posts and the files the badge stores are *)
(* key=value& texts.  The page's are written by jQuery, the badge's by       *)
(* urlEncodeWriteKeyValue, and UrlDecode reads both.  A character is a       *)
(* string of length one; of the special ones there are "=", "&", "%", "+"   *)
(* and " ".                                                                 *)
(***************************************************************************)
EXTENDS Integers, Sequences, SequencesExt

\* What getKey returns for a key that is not there, nullptr.
NoValue == <<"nullptr">>

\* writeEscaped: two characters are escaped, "%" and "+" are not.
Escaped_Nothing(c) == <<c>>
Escaped(c) == IF c = "=" THEN <<"%", "3", "d">>
              ELSE IF c = "&" THEN <<"%", "2", "6">>
              ELSE <<c>>
WriteEscaped(s) == FlattenSeq([i \in DOMAIN s |-> Escaped(s[i])])

WriteKeyValue(key, value) == WriteEscaped(key) \o <<"=">> \o WriteEscaped(value) \o <<"&">>

\* jQuery.param
Param(c) == CASE c = "=" -> <<"%", "3", "D">>
              [] c = "&" -> <<"%", "2", "6">>
              [] c = "%" -> <<"%", "2", "5">>
              [] c = "+" -> <<"%", "2", "B">>
              [] c = " " -> <<"+">>
              [] OTHER   -> <<c>>
ParamKeyValue(key, value) == key \o <<"=">> \o FlattenSeq([i \in DOMAIN value |-> Param(value[i])])

\* hex_to_ascii, for the codes that occur.  Digits that are none are undefined
\* behaviour (parse_hex_char returns nothing): any character may come out.
HexToAscii(high, low) ==
  CASE high = "3" /\ low \in {"d", "D"} -> "="
    [] high = "2" /\ low = "6"          -> "&"
    [] high = "2" /\ low = "5"          -> "%"
    [] high = "2" /\ low \in {"b", "B"} -> "+"
    [] OTHER                            -> "?"

\* decode_percent; a code that is cut off ends the value.
DecodePercent(s) ==
  LET From[i \in 1..(Len(s) + 1)] ==
        IF i > Len(s) \/ (s[i] = "%" /\ i + 2 > Len(s)) THEN <<>>
        ELSE IF s[i] = "%" THEN <<HexToAscii(s[i + 1], s[i + 2])>> \o From[i + 3]
        ELSE <<IF s[i] = "+" THEN " " ELSE s[i]>> \o From[i + 1]
  IN  From[1]

\* The first of the characters in stop at or after i, or the end of the text.
NextOf(s, i, stop) ==
  CHOOSE j \in i..(Len(s) + 1) :
    /\ j = Len(s) + 1 \/ s[j] \in stop
    /\ \A k \in i..(j - 1) : s[k] \notin stop

\* The key of the field at i is key; one that ends in a code cut off is none.
KeyIs(s, i, key) ==
  LET encoded == SubSeq(s, i, NextOf(s, i, {"=", "&"}) - 1)
  IN  /\ DecodePercent(encoded) = key
      /\ \A j \in DOMAIN encoded : encoded[j] = "%" => j + 2 <= Len(encoded)

\* getKey: field by field.  The first character of a field is skipped unseen, so
\* an empty field takes the next one with it.
GetKey_FromKey(s, key) ==
  LET Find[i \in 1..(Len(s) + 1)] ==
        IF KeyIs(s, i, key)
        THEN DecodePercent(SubSeq(s, i, NextOf(s, i, {"&"}) - 1))
        ELSE LET j == IF i > Len(s) THEN i ELSE NextOf(s, i + 1, {"&"})
             IN  IF j > Len(s) THEN NoValue ELSE Find[j + 1]
  IN  Find[1]
GetKey(s, key) ==
  LET Value(i) == LET equals == NextOf(s, i, {"=", "&"})
                      first  == IF equals <= Len(s) /\ s[equals] = "=" THEN equals + 1 ELSE equals
                  IN  DecodePercent(SubSeq(s, first, NextOf(s, equals, {"&"}) - 1))
      Find[i \in 1..(Len(s) + 1)] ==
        IF KeyIs(s, i, key) THEN Value(i)
        ELSE LET j == IF i > Len(s) THEN i ELSE NextOf(s, i + 1, {"&"})
             IN  IF j > Len(s) THEN NoValue ELSE Find[j + 1]
  IN  Find[1]
=============================================================================

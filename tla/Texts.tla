------------------------------- MODULE Texts -------------------------------
(***************************************************************************)
(* What the badge does with texts, for every short text: a search that reads *)
(* one character after the other as they arrive (the loop of kmp), and the    *)
(* way of a value through a form of the page and through a file.              *)
(***************************************************************************)
EXTENDS Kmp, UrlEncode

CONSTANTS
  Alphabet,   \* the characters that may arrive
  Needles,    \* what is searched for
  MaxLength   \* bound: of the text

ASSUME TextsAssumption ==
  /\ Alphabet \subseteq STRING
  /\ Needles \subseteq Seq(Alphabet) \ {<<>>}
  /\ MaxLength \in Nat

VARIABLES
  needle,
  search,  \* the state of the search: what it has seen, holds back, has written
  text     \* history: what has arrived

vars == <<needle, search, text>>

Init ==
  /\ needle \in Needles
  /\ search = NothingRead
  /\ text = <<>>

Arrive(c) ==
  /\ Len(text) < MaxLength
  /\ text' = Append(text, c)
  /\ search' = KmpStep(needle, Border(needle), search, c)
  /\ UNCHANGED needle

Next == \E c \in Alphabet : Arrive(c)
Spec == Init /\ [][Next]_vars

-----------------------------------------------------------------------------
FirstAt ==
  LET at == {i \in 1..(Len(text) - Len(needle) + 1) :
               SubSeq(text, i, i + Len(needle) - 1) = needle}
  IN  IF at = {} THEN 0 ELSE CHOOSE i \in at : \A j \in at : i <= j

\* kmp (WebServer.cpp) finds the first needle there is, reads to its end and no
\* farther, and has written what comes before it: as a search is defined.  Until
\* then it holds back what may still become the needle, and that alone; no
\* character is written twice, left out or written before its turn.
SearchExact ==
  IF FirstAt # 0
  THEN /\ search.found
       /\ search.written = SubSeq(text, 1, FirstAt - 1)
       /\ search.read = FirstAt + Len(needle) - 1
  ELSE /\ ~search.found
       /\ search.written \o search.held = text
       /\ Len(search.held) = search.seen
       /\ search.held = SubSeq(needle, 1, search.seen)

\* Whatever is typed into two fields of a form is read back from it by the names of
\* the fields (jQuery.param, UrlDecode::getKey), and no other field is there.
FormsExact ==
  LET form == ParamKeyValue(<<"k">>, text) \o <<"&">> \o ParamKeyValue(<<"l">>, text)
  IN  /\ GetKey(form, <<"k">>) = text
      /\ GetKey(form, <<"l">>) = text
      /\ GetKey(form, <<"m">>) = NoValue

\* What the badge writes into a file it reads back, if there is neither of the two
\* characters that only the reading side gives a meaning, "%" and "+".
FilesExact ==
  {text[i] : i \in DOMAIN text} \cap {"%", "+"} = {} =>
    LET file == WriteKeyValue(<<"k">>, text) \o WriteKeyValue(<<"l">>, text)
    IN  GetKey(file, <<"k">>) = text /\ GetKey(file, <<"l">>) = text
=============================================================================

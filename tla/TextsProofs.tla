---------------------------- MODULE TextsProofs ----------------------------
(***************************************************************************)
(* The search of the web server (kmp) is exact for every needle and every    *)
(* text, of any length; and the codings of forms and of files undo each      *)
(* other for every value.                                                    *)
(***************************************************************************)
EXTENDS Texts, BasicLemmas

-----------------------------------------------------------------------------
LEMMA FirstAtIs ==
  ASSUME text \in Seq(Characters), needle \in Seq(Characters)
  PROVE  /\ \A f \in 1..(Len(text) - Len(needle) + 1) :
              Occurs(needle, text, f) /\ (\A i \in 1..(f - 1) : ~Occurs(needle, text, i))
                => FirstAt = f
         /\ (\A i \in 1..(Len(text) - Len(needle) + 1) : ~Occurs(needle, text, i)) => FirstAt = 0
<1> DEFINE Places == 1..(Len(text) - Len(needle) + 1)
           at == {i \in Places : SubSeq(text, i, i + Len(needle) - 1) = needle}
<1>1. \A i \in Places : i \in at <=> Occurs(needle, text, i)
  BY OccursIs
<1>2. at \subseteq Places /\ Places \subseteq Nat
  OBVIOUS
<1>3. FirstAt = IF at = {} THEN 0 ELSE CHOOSE i \in at : \A j \in at : i <= j
  BY DEF FirstAt
<1> HIDE DEF at
<1>4. ASSUME NEW f \in Places, Occurs(needle, text, f), \A i \in 1..(f - 1) : ~Occurs(needle, text, i)
      PROVE  FirstAt = f
  <2>1. f \in at
    BY <1>1, <1>4
  <2>2. \A i \in Places : i < f => i \in 1..(f - 1)
    OBVIOUS
  <2>3. \A i \in at : f <= i
    BY <1>1, <1>2, <1>4, <2>2
  <2>4. \A i \in at : (\A j \in at : i <= j) => i = f
    BY <1>2, <2>1, <2>3
  <2>5. (CHOOSE i \in at : \A j \in at : i <= j) = f
    BY <2>1, <2>3, <2>4
  <2>6. QED BY <1>3, <2>1, <2>5
<1>5. (\A i \in Places : ~Occurs(needle, text, i)) => FirstAt = 0
  BY <1>1, <1>2, <1>3
<1>6. QED BY <1>4, <1>5

-----------------------------------------------------------------------------
SearchInv ==
  needle \in Needles /\ text \in Seq(Characters) /\ HasRead(needle, text, search)

-----------------------------------------------------------------------------
LEMMA AlphabetIs == Alphabet \subseteq Characters /\ \A n \in Needles : n \in Seq(Characters) /\ n # <<>>
<1>1. Alphabet \subseteq Characters
  BY TextsAssumption DEF Characters
<1>2. \A S, T : S \subseteq T => Seq(S) \subseteq Seq(T)
  OBVIOUS
<1>3. QED BY <1>1, <1>2, TextsAssumption

LEMMA NeedleType == ASSUME SearchInv PROVE needle \in Seq(Characters) /\ Len(needle) \in Nat \ {0}
<1>1. needle \in Seq(Characters) /\ needle # <<>>
  BY AlphabetIs DEF SearchInv
<1>2. QED BY <1>1

\* The search has begun as the invariant has it, and a character keeps it.
LEMMA SearchBegins == Init => SearchInv
<1> SUFFICES ASSUME Init PROVE SearchInv
  OBVIOUS
<1>1. needle \in Needles /\ needle \in Seq(Characters) /\ needle # <<>>
  BY AlphabetIs DEF Init
<1>2. text = <<>> /\ search = NothingRead
  BY DEF Init
<1>3. HasRead(needle, <<>>, NothingRead)
  BY <1>1, NothingIsRead
<1>4. QED BY <1>1, <1>2, <1>3 DEF SearchInv

LEMMA SearchGoesOn == ASSUME SearchInv, NEW c \in Characters, Arrive(c) PROVE SearchInv'
<1>1. /\ text' = Append(text, c) /\ needle' = needle
      /\ search' = KmpStep(needle, Border(needle), search, c)
  BY DEF Arrive
<1>2. /\ needle \in Needles /\ needle \in Seq(Characters) /\ needle # <<>>
      /\ text \in Seq(Characters) /\ HasRead(needle, text, search)
  BY AlphabetIs DEF SearchInv
<1>3. HasRead(needle, Append(text, c), KmpStep(needle, Border(needle), search, c))
  BY <1>2, OneIsRead
<1>4. Append(text, c) \in Seq(Characters)
  BY <1>2
<1>5. QED BY <1>1, <1>2, <1>3, <1>4 DEF SearchInv

\* What the invariant says is what a search is defined to do.
LEMMA SearchInvIsExact == SearchInv => SearchExact
<1> SUFFICES ASSUME SearchInv PROVE SearchExact
  OBVIOUS
<1>1. /\ needle \in Seq(Characters) /\ Len(needle) \in Nat \ {0}
      /\ text \in Seq(Characters) /\ search \in Searches /\ Len(text) \in Nat
  BY NeedleType DEF SearchInv, HasRead
<1>2. search.held \in Seq(Characters) /\ search.written \in Seq(Characters)
  BY <1>1 DEF Searches
<1>3. CASE search.found
  <2>1. PICK f \in 1..(Len(text) - Len(needle) + 1) : FoundAt(needle, text, search, f)
    BY <1>3 DEF SearchInv, HasRead
  <2>2. FirstAt = f
    BY <1>1, <2>1, FirstAtIs DEF FoundAt
  <2>3. f - 1 \in 0..Len(text) /\ f # 0
    BY <1>1, <2>1
  <2>4. /\ SubSeq(text, 1, f - 1) \in Seq(Characters) /\ Len(SubSeq(text, 1, f - 1)) = f - 1
        /\ \A i \in 1..(f - 1) : SubSeq(text, 1, f - 1)[i] = text[i]
    BY <1>1, <2>3, Pieces
  <2>5. search.written = SubSeq(text, 1, f - 1)
    <3>1. Len(search.written) = f - 1 /\ \A i \in 1..(f - 1) : search.written[i] = text[i]
      BY <2>1 DEF FoundAt, HasWritten
    <3>2. QED BY <1>2, <2>4, <3>1, SameSequence
  <2>6. search.read = f + Len(needle) - 1
    BY <2>1 DEF FoundAt
  <2>7. QED BY ONLY <1>3, <2>2, <2>3, <2>5, <2>6 DEF SearchExact
<1>4. CASE ~search.found
  <2> DEFINE w == Len(text) - search.seen
             both == search.written \o search.held
  <2>1. Searching(needle, text, search)
    BY <1>4 DEF SearchInv, HasRead
  <2>2. FirstAt = 0
    BY <1>1, <2>1, FirstAtIs DEF Searching
  <2>3. /\ search.seen \in 0..(Len(needle) - 1) /\ Len(search.held) = search.seen
        /\ \A j \in 1..search.seen : search.held[j] = needle[j]
        /\ EndsWith(needle, text, search.seen)
    BY <2>1 DEF Searching
  <2>4. Len(search.written) = w /\ \A i \in 1..w : search.written[i] = text[i]
    BY <2>1 DEF Searching, HasWritten
  <2>5. \A j \in 1..search.seen : search.held[j] = text[w + j]
    BY <2>3 DEF EndsWith
  <2>6. w \in Nat /\ w + search.seen = Len(text)
    BY <1>1, <2>3 DEF EndsWith
  <2> HIDE DEF w
  <2>7. /\ both \in Seq(Characters) /\ Len(both) = w + search.seen
        /\ \A i \in 1..(w + search.seen) :
             both[i] = IF i <= w THEN search.written[i] ELSE search.held[i - w]
    <3>1. /\ both \in Seq(Characters)
          /\ Len(both) = Len(search.written) + Len(search.held)
          /\ \A i \in 1..(Len(search.written) + Len(search.held)) :
               both[i] = IF i <= Len(search.written) THEN search.written[i]
                                                     ELSE search.held[i - Len(search.written)]
      BY <1>2, Joined
    <3>2. Len(search.written) = w /\ Len(search.held) = search.seen
      BY <2>3, <2>4
    <3> HIDE DEF both
    <3>3. QED BY <3>1, <3>2
  <2> HIDE DEF both
  <2>8. ASSUME NEW i \in 1..Len(text) PROVE both[i] = text[i]
    <3>1. CASE i <= w
      BY <2>4, <2>6, <2>7, <3>1
    <3>2. CASE ~(i <= w)
      <4>1. i - w \in 1..search.seen /\ w + (i - w) = i
        BY <2>3, <2>6, <3>2
      <4>2. QED BY <2>5, <2>6, <2>7, <3>2, <4>1
    <3>3. QED BY <3>1, <3>2
  <2>9. search.written \o search.held = text
    BY <1>1, <2>6, <2>7, <2>8, SameSequence DEF both
  <2>10. search.held = SubSeq(needle, 1, search.seen)
    <3>1. search.seen \in 0..Len(needle)
      BY <1>1, <2>3
    <3>2. /\ SubSeq(needle, 1, search.seen) \in Seq(Characters)
          /\ Len(SubSeq(needle, 1, search.seen)) = search.seen
          /\ \A j \in 1..search.seen : SubSeq(needle, 1, search.seen)[j] = needle[j]
      BY <1>1, <3>1, Pieces
    <3>3. QED BY <1>2, <2>3, <3>2, SameSequence
  <2>11. QED BY ONLY <1>4, <2>2, <2>3, <2>9, <2>10 DEF SearchExact
<1>5. QED BY <1>3, <1>4

\* kmp: the search finds the first needle there is, reads to its end and no farther,
\* and has written what comes before it, for every needle and every text.
THEOREM SearchIsExact == Spec => []SearchExact
<1>1. SearchInv /\ [Next]_vars => SearchInv'
  <2>1. ASSUME SearchInv, Next PROVE SearchInv'
    BY <2>1, AlphabetIs, SearchGoesOn DEF Next
  <2>2. ASSUME SearchInv, UNCHANGED vars PROVE SearchInv'
    BY <2>2 DEF SearchInv, vars
  <2>3. QED BY <2>1, <2>2
<1>2. QED BY <1>1, SearchBegins, SearchInvIsExact, PTL DEF Spec
\* The text consists of characters of the alphabet.
OfAlphabet == text \in Seq(Alphabet)

LEMMA OfAlphabetStays ==
  /\ Init => OfAlphabet
  /\ OfAlphabet /\ [Next]_vars => OfAlphabet'
<1>1. Init => OfAlphabet
  BY DEF Init, OfAlphabet
<1>2. ASSUME OfAlphabet, NEW c \in Alphabet, Arrive(c) PROVE OfAlphabet'
  <2>1. text' = Append(text, c) /\ text \in Seq(Alphabet)
    BY <1>2 DEF Arrive, OfAlphabet
  <2>2. Append(text, c) \in Seq(Alphabet)
    BY ONLY <2>1, c \in Alphabet
  <2>3. QED BY ONLY <2>1, <2>2 DEF OfAlphabet
<1>3. OfAlphabet /\ UNCHANGED vars => OfAlphabet'
  BY DEF vars, OfAlphabet
<1>4. QED BY <1>1, <1>2, <1>3 DEF Next

LEMMA OfChars == OfAlphabet => text \in Seq(Characters)
BY AlphabetIs DEF OfAlphabet

LEMMA KeysAre ==
  /\ IsKey(<<"k">>) /\ IsKey(<<"l">>) /\ <<"k">> # <<"l">>
  /\ <<"m">> \notin {<<"k">>, <<"l">>}
<1>1. "k" \in Letters /\ "l" \in Letters
  BY DEF Letters, Characters, Special
<1>2. <<"k">> # <<"l">> /\ <<"m">> # <<"k">> /\ <<"m">> # <<"l">>
  OBVIOUS
<1>3. QED BY <1>1, <1>2 DEF IsKey

\* Whatever is typed into two fields of a form comes out of it again under its own
\* key, and nothing comes out under another (jQuery.param, UrlDecode::getKey).
THEOREM FormsComeBack == Spec => []FormsExact
<1> DEFINE k == <<"k">>
           l == <<"l">>
           m == <<"m">>
           first  == ParamKeyValue(k, text)
           second == ParamKeyValue(l, text)
           form   == (first \o <<"&">>) \o second
<1>1. IsKey(k) /\ IsKey(l) /\ k # l /\ m \notin {k, l}
  BY KeysAre
<1>2. ASSUME OfAlphabet PROVE FormsExact
  <2>1. text \in Seq(Characters)
    BY <1>2, OfChars
  <2>2. first = ParamKeyValue(k, text) /\ second = ParamKeyValue(l, text)
    OBVIOUS
  <2> HIDE DEF k, l, m, first, second
  <2>3. /\ GetKey(form, k) = text /\ GetKey(form, l) = text
        /\ \A key : key \notin {k, l} => GetKey(form, key) = NoValue
    BY ONLY <1>1, <2>1, <2>2, FormsAre
  <2> HIDE DEF form
  <2>4. GetKey(form, k) = text /\ GetKey(form, l) = text /\ GetKey(form, m) = NoValue
    BY ONLY <1>1, <2>3
  <2>5. QED BY ONLY <2>4 DEF FormsExact, form, first, second, k, l, m
<1>3. QED BY <1>2, OfAlphabetStays, PTL DEF Spec

\* What the badge writes into a file it reads back, if there is no "%" and no "+" in
\* it (urlEncodeWriteKeyValue, UrlDecode::getKey).
THEOREM FilesComeBack == Spec => []FilesExact
<1> DEFINE k == <<"k">>
           l == <<"l">>
           first  == WriteKeyValue(k, text)
           second == WriteKeyValue(l, text)
<1>1. IsKey(k) /\ IsKey(l) /\ k # l
  BY KeysAre
<1>2. ASSUME OfAlphabet PROVE FilesExact
  <2>1. SUFFICES ASSUME {text[i] : i \in DOMAIN text} \cap {"%", "+"} = {}
                 PROVE  GetKey(first \o second, k) = text /\ GetKey(first \o second, l) = text
    BY DEF FilesExact
  <2>2. text \in Seq(Characters) /\ Plaintext(text)
    BY <1>2, <2>1, OfChars DEF Plaintext
  <2>3. first = WriteKeyValue(k, text) /\ second = WriteKeyValue(l, text)
    OBVIOUS
  <2> HIDE DEF k, l, first, second
  <2>4. QED BY ONLY <1>1, <2>2, <2>3, FilesAre
<1>3. QED BY <1>2, OfAlphabetStays, PTL DEF Spec
=============================================================================

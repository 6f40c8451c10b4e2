------------------------ MODULE InfraredShareProofs ------------------------
(***************************************************************************)
(* The channel sharing by infrared, for every set of channels, every code of  *)
(* somebody else and every modulus of the sum.  Type correctness: the sum     *)
(* kept is that of the text received, and what is offered to the user can be  *)
(* stored and shared on.  Exactness: a receiver in step with its sender gets  *)
(* every code of the pass, accepts the sum, and offers the channel it is the  *)
(* text of, to the last character but one.                                    *)
(***************************************************************************)
EXTENDS InfraredShare, BasicLemmas, SequenceTheorems

-----------------------------------------------------------------------------
(* The sum of characters. *)

Plus(a, b) == (a + b) % Modulus

LEMMA PlusIs ==
  ASSUME NEW a \in Char, NEW b \in Char
  PROVE  /\ Plus(a, b) \in Char
         /\ Plus(a, b) = IF a + b < Modulus THEN a + b ELSE a + b - Modulus
<1>1. Modulus \in Nat \ {0} /\ a \in 0..(Modulus - 1) /\ b \in 0..(Modulus - 1)
  BY ModulusAssumption DEF Char
<1>2. (a + b) % Modulus = a + b - ((a + b) \div Modulus) * Modulus
  BY <1>1
<1>3. CASE a + b < Modulus
  <2>1. (a + b) \div Modulus = 0
    BY <1>1, <1>3, QuotientUnique
  <2>2. QED BY <1>1, <1>2, <1>3, <2>1 DEF Plus, Char
<1>4. CASE ~(a + b < Modulus)
  <2>1. (a + b) \div Modulus = 1
    BY <1>1, <1>4, QuotientUnique
  <2>2. QED BY <1>1, <1>2, <1>4, <2>1 DEF Plus, Char
<1>5. QED BY <1>3, <1>4

LEMMA PlusLaws ==
  ASSUME NEW a \in Char, NEW b \in Char, NEW c \in Char
  PROVE  /\ Plus(Plus(a, b), c) = Plus(a, Plus(b, c))
         /\ 0 \in Char /\ Plus(a, 0) = a /\ Plus(0, a) = a
<1>1. /\ Modulus \in Nat \ {0} /\ a \in 0..(Modulus - 1) /\ b \in 0..(Modulus - 1)
      /\ c \in 0..(Modulus - 1) /\ Char = 0..(Modulus - 1)
  BY ModulusAssumption DEF Char
<1>2. 0 \in Char
  BY <1>1
<1>3. Plus(a, 0) = a /\ Plus(0, a) = a
  <2>1. /\ Plus(a, 0) = IF a + 0 < Modulus THEN a + 0 ELSE a + 0 - Modulus
        /\ Plus(0, a) = IF 0 + a < Modulus THEN 0 + a ELSE 0 + a - Modulus
    BY <1>2, PlusIs
  <2>2. QED BY ONLY <1>1, <2>1
<1>4. Plus(a, b) \in Char /\ Plus(b, c) \in Char
  BY PlusIs
<1>5. /\ Plus(a, b) = IF a + b < Modulus THEN a + b ELSE a + b - Modulus
      /\ Plus(b, c) = IF b + c < Modulus THEN b + c ELSE b + c - Modulus
      /\ Plus(Plus(a, b), c) = IF Plus(a, b) + c < Modulus THEN Plus(a, b) + c
                                                           ELSE Plus(a, b) + c - Modulus
      /\ Plus(a, Plus(b, c)) = IF a + Plus(b, c) < Modulus THEN a + Plus(b, c)
                                                           ELSE a + Plus(b, c) - Modulus
  BY <1>4, PlusIs
<1>6. Plus(Plus(a, b), c) = Plus(a, Plus(b, c))
  BY <1>1, <1>5
<1>7. QED BY <1>2, <1>3, <1>6

\* f[k] is the sum of the first k characters of s.
Sums(f, s) ==
  /\ f \in [0..Len(s) -> Char] /\ f[0] = 0
  /\ \A k \in 1..Len(s) : f[k] = Plus(f[k - 1], s[k])

\* Sums are what they are from their beginning on.
LEMMA SumsAgree ==
  ASSUME NEW s \in Seq(Char), NEW t \in Seq(Char), NEW f, NEW g, Sums(f, s), Sums(g, t),
         NEW n \in 0..Len(s), n <= Len(t), \A i \in 1..n : s[i] = t[i]
  PROVE  f[n] = g[n]
<1> DEFINE S == {k \in Nat : k <= n => f[k] = g[k]}
<1>1. 0 \in S
  BY DEF Sums
<1>2. ASSUME NEW k \in Nat, k \in S PROVE k + 1 \in S
  <2>1. SUFFICES ASSUME k + 1 <= n PROVE f[k + 1] = g[k + 1]
    OBVIOUS
  <2>2. k + 1 \in 1..n /\ k + 1 \in 1..Len(s) /\ k + 1 \in 1..Len(t) /\ (k + 1) - 1 = k /\ k <= n
    BY <2>1
  <2>3. f[k] = g[k]
    BY <1>2, <2>2
  <2>4. f[k + 1] = Plus(f[k], s[k + 1]) /\ g[k + 1] = Plus(g[k], t[k + 1])
    BY <2>2 DEF Sums
  <2>5. QED BY <2>2, <2>3, <2>4
<1> HIDE DEF S
<1>3. Nat \subseteq S
  BY <1>1, <1>2, Induction
<1>4. QED BY <1>3 DEF S

\* The sum of the characters of s is the last of its sums.
LEMMA SumIsLast == ASSUME NEW s \in Seq(Char) PROVE \E f : Sums(f, s) /\ CharSum(s) = f[Len(s)]
<1> DEFINE n == Len(s)
           step == [k \in 1..n |-> [x \in Char |-> Plus(x, s[k])]]
           Is(f) == f = [k \in 0..n |-> IF k = 0 THEN 0 ELSE (f[k - 1] + s[k]) % Modulus]
           Sum == CHOOSE f : Is(f)
<1>1. n \in Nat /\ 0 \in Char /\ \A k \in 1..n : s[k] \in Char
  BY ModulusAssumption DEF Char
<1>2. step \in [1..n -> [Char -> Char]]
  BY <1>1, PlusIs
<1>3. PICK g \in [0..n -> Char] : g[0] = 0 /\ \A k \in 1..n : g[k] = step[k][g[k - 1]]
  <2> HIDE DEF step
  <2>1. Recursive(Char, 0, n, step) # {}
    BY ONLY <1>1, <1>2, Recursion
  <2>2. QED BY <2>1 DEF Recursive
<1>4. \A k \in 1..n : k - 1 \in 0..n /\ g[k] = (g[k - 1] + s[k]) % Modulus
  BY <1>1, <1>3 DEF Plus
<1>5. Is(g)
  BY <1>1, <1>3, <1>4
<1>6. Is(Sum)
  BY <1>5
<1>7. CharSum(s) = Sum[n]
  BY DEF CharSum
<1> HIDE DEF Sum
<1>8. Sum[0] = 0 /\ \A k \in 1..n : Sum[k] = Plus(Sum[k - 1], s[k])
  BY <1>1, <1>6 DEF Plus
<1>9. \A k \in 0..n : Sum[k] = g[k]
  <2> DEFINE S == {k \in Nat : k <= n => Sum[k] = g[k]}
  <2>1. 0 \in S
    BY <1>3, <1>8
  <2>2. ASSUME NEW k \in Nat, k \in S PROVE k + 1 \in S
    <3>1. SUFFICES ASSUME k + 1 <= n PROVE Sum[k + 1] = g[k + 1]
      OBVIOUS
    <3>2. k + 1 \in 1..n /\ (k + 1) - 1 = k /\ k <= n
      BY <1>1, <3>1
    <3>3. Sum[k + 1] = Plus(Sum[k], s[k + 1]) /\ g[k + 1] = Plus(g[k], s[k + 1])
      BY <1>4, <1>8, <3>2 DEF Plus
    <3>4. QED BY <2>2, <3>2, <3>3
  <2> HIDE DEF S
  <2>3. Nat \subseteq S
    BY <2>1, <2>2, Induction
  <2>4. QED BY <2>3 DEF S
<1>10. Sums(g, s)
  BY <1>3, <1>4 DEF Sums, Plus
<1>11. QED BY <1>1, <1>7, <1>9, <1>10

LEMMA SumType == ASSUME NEW s \in Seq(Char) PROVE CharSum(s) \in Char
<1>1. PICK f : Sums(f, s) /\ CharSum(s) = f[Len(s)]
  BY SumIsLast
<1>2. Len(s) \in 0..Len(s)
  OBVIOUS
<1>3. QED BY <1>1, <1>2 DEF Sums

LEMMA SumOfNone == CharSum(<<>>) = 0
<1>1. <<>> \in Seq(Char) /\ Len(<<>>) = 0
  OBVIOUS
<1>2. PICK f : Sums(f, <<>>) /\ CharSum(<<>>) = f[Len(<<>>)]
  BY <1>1, SumIsLast
<1>3. QED BY <1>1, <1>2 DEF Sums

\* The sum of a text is that of its parts.
LEMMA SumOfParts ==
  ASSUME NEW s \in Seq(Char), NEW t \in Seq(Char)
  PROVE  CharSum(s \o t) = Plus(CharSum(s), CharSum(t))
<1> DEFINE u == s \o t
<1>1. /\ u \in Seq(Char) /\ Len(u) = Len(s) + Len(t)
      /\ \A i \in 1..(Len(s) + Len(t)) : u[i] = IF i <= Len(s) THEN s[i] ELSE t[i - Len(s)]
  BY Joined
<1> HIDE DEF u
<1>2. Len(s) \in Nat /\ Len(t) \in Nat /\ \A i \in 1..Len(t) : t[i] \in Char
  OBVIOUS
<1>3. PICK f : Sums(f, s) /\ CharSum(s) = f[Len(s)]
  BY SumIsLast
<1>4. PICK g : Sums(g, t) /\ CharSum(t) = g[Len(t)]
  BY SumIsLast
<1>5. PICK h : Sums(h, u) /\ CharSum(u) = h[Len(u)]
  BY <1>1, SumIsLast
<1>6. h[Len(s)] = f[Len(s)]
  <2>1. \A i \in 1..Len(s) : s[i] = u[i]
    BY <1>1, <1>2
  <2>2. Len(s) \in 0..Len(s) /\ Len(s) <= Len(u)
    BY <1>1, <1>2
  <2>3. s \in Seq(Char)
    OBVIOUS
  <2>4. f[Len(s)] = h[Len(s)]
    BY ONLY <1>1, <1>3, <1>5, <2>1, <2>2, <2>3, SumsAgree
  <2>5. QED BY <2>4
<1>7. f[Len(s)] \in Char /\ \A k \in 0..Len(t) : g[k] \in Char
  <2>1. f \in [0..Len(s) -> Char] /\ g \in [0..Len(t) -> Char]
    BY <1>3, <1>4 DEF Sums
  <2>2. QED BY ONLY <1>2, <2>1
<1> DEFINE S == {k \in Nat : k <= Len(t) => h[Len(s) + k] = Plus(f[Len(s)], g[k])}
<1>8. 0 \in S
  <2>1. g[0] = 0 /\ Len(s) + 0 = Len(s)
    BY <1>2, <1>4 DEF Sums
  <2>2. QED BY <1>6, <1>7, <2>1, PlusLaws
<1>9. ASSUME NEW k \in Nat, k \in S PROVE k + 1 \in S
  <2>1. SUFFICES ASSUME k + 1 <= Len(t)
                 PROVE  h[Len(s) + (k + 1)] = Plus(f[Len(s)], g[k + 1])
    OBVIOUS
  <2>2. /\ k + 1 \in 1..Len(t) /\ k \in 0..Len(t) /\ (k + 1) - 1 = k
        /\ Len(s) + (k + 1) \in 1..Len(u) /\ Len(s) + (k + 1) - 1 = Len(s) + k
        /\ Len(s) + (k + 1) - Len(s) = k + 1 /\ ~(Len(s) + (k + 1) <= Len(s))
    BY <1>1, <1>2, <2>1
  <2>3. u[Len(s) + (k + 1)] = t[k + 1]
    BY <1>1, <2>2
  <2>4. h[Len(s) + (k + 1)] = Plus(h[Len(s) + k], t[k + 1])
    BY <1>5, <2>2, <2>3 DEF Sums
  <2>5. g[k + 1] = Plus(g[k], t[k + 1])
    BY <1>4, <2>2 DEF Sums
  <2>6. h[Len(s) + k] = Plus(f[Len(s)], g[k])
    BY <1>9, <2>2
  <2>7. g[k] \in Char /\ t[k + 1] \in Char
    BY <1>2, <1>7, <2>2
  <2>8. QED BY <1>7, <2>4, <2>5, <2>6, <2>7, PlusLaws
<1> HIDE DEF S
<1>10. Nat \subseteq S
  BY <1>8, <1>9, Induction
<1>11. h[Len(s) + Len(t)] = Plus(f[Len(s)], g[Len(t)])
  BY <1>2, <1>10 DEF S
<1>12. QED BY <1>1, <1>3, <1>4, <1>5, <1>11 DEF u
-----------------------------------------------------------------------------
(* The texts. *)

Fields == [host : Seq(Character), url : Seq(Character), fingerprint : Seq(Character)]

LEMMA CharFacts ==
  /\ Modulus \in Nat \ {0} /\ Character \subseteq Char /\ 0 \in Char /\ Char \subseteq Nat
  /\ \A x \in Char : x # 0 => x \in Character
  /\ NL \in Character /\ CR \in Character /\ Marker \in Character
BY ModulusAssumption, CharacterAssumption DEF Char, Character

\* A sequence is one of the members it has.
LEMMA SequenceOf ==
  ASSUME NEW S, NEW T, NEW s \in Seq(S), \A i \in 1..Len(s) : s[i] \in T
  PROVE  s \in Seq(T)
OBVIOUS

LEMMA CStringType ==
  ASSUME NEW s \in Seq(Char)
  PROVE  CString(s) \in Seq(Character) /\ Len(CString(s)) \in 0..Len(s)
<1> DEFINE Ends(i) == i \in 1..(Len(s) + 1) /\ (i = Len(s) + 1 \/ s[i] = 0)
           At(i) == (i = Len(s) + 1 \/ s[i] = 0) /\ \A j \in 1..(i - 1) : s[j] # 0
           T == {i \in Nat : Ends(i)}
           z == CHOOSE i \in 1..(Len(s) + 1) : At(i)
<1>1. Len(s) \in Nat /\ \A i \in 1..Len(s) : s[i] \in Char
  OBVIOUS
<1>2. \E i \in 1..(Len(s) + 1) : At(i)
  <2>1. T \in SUBSET Nat /\ Len(s) + 1 \in T
    BY <1>1
  <2>2. PICK i \in T : \A j \in T : i <= j
    <3> HIDE DEF T
    <3>1. QED BY ONLY <2>1, LeastNumber
  <2>3. ASSUME NEW j \in 1..(i - 1) PROVE s[j] # 0
    <3>1. j \in Nat /\ j \in 1..(Len(s) + 1) /\ ~(i <= j)
      BY <1>1, <2>2
    <3>2. QED BY <2>2, <3>1
  <2>4. QED BY <2>2, <2>3
<1>3. z \in 1..(Len(s) + 1) /\ \A j \in 1..(z - 1) : s[j] # 0
  BY <1>2
<1>4. CString(s) = SubSeq(s, 1, z - 1)
  BY DEF CString
<1> HIDE DEF z
<1>5. z - 1 \in 0..Len(s)
  BY <1>1, <1>3
<1> DEFINE c == SubSeq(s, 1, z - 1)
<1>6. c \in Seq(Char) /\ Len(c) = z - 1 /\ \A j \in 1..(z - 1) : c[j] = s[j]
  BY <1>5, Pieces
<1> HIDE DEF c
<1>7. \A j \in 1..Len(c) : c[j] \in Character
  <2>1. \A j \in 1..(z - 1) : j \in 1..Len(s)
    BY <1>1, <1>5
  <2>2. QED BY <1>1, <1>3, <1>6, <2>1, CharFacts
<1>8. c \in Seq(Character)
  BY ONLY <1>6, <1>7, SequenceOf
<1>9. QED BY <1>4, <1>5, <1>6, <1>8 DEF c

LEMMA IndexType ==
  ASSUME NEW s \in Seq(Char), NEW char, NEW from \in 0..Len(s)
  PROVE  IndexOf(s, char, from) \in -1..(Len(s) - 1)
<1> DEFINE at == {i \in from..(Len(CString(s)) - 1) : s[i + 1] = char}
<1>1. Len(s) \in Nat /\ Len(CString(s)) \in 0..Len(s)
  BY CStringType
<1>2. at \subseteq 0..(Len(s) - 1)
  BY <1>1
<1>3. IndexOf(s, char, from) = IF at = {} THEN -1 ELSE CHOOSE i \in at : \A j \in at : i <= j
  BY DEF IndexOf
<1> HIDE DEF at
<1>4. at # {} => \E i \in at : \A j \in at : i <= j
  <2>1. at \in SUBSET Nat
    BY <1>2
  <2>2. QED BY ONLY <2>1, LeastNumber
<1>5. CASE at = {}
  BY <1>1, <1>3, <1>5
<1>6. CASE at # {}
  <2>1. (CHOOSE i \in at : \A j \in at : i <= j) \in at
    BY ONLY <1>4, <1>6
  <2>2. IndexOf(s, char, from) \in 0..(Len(s) - 1)
    BY ONLY <1>2, <1>3, <1>6, <2>1
  <2>3. QED BY ONLY <1>1, <2>2
<1>7. QED BY <1>5, <1>6

LEMMA SubstringType ==
  ASSUME NEW s \in Seq(Char), NEW left \in 0..Len(s), NEW right \in -1..Len(s)
  PROVE  Substring(s, left, right) \in Seq(Character)
<1> DEFINE end == IF right = -1 THEN Len(s) ELSE right
           part == IF left <= end THEN SubSeq(s, left + 1, end) ELSE SubSeq(s, end + 1, left)
<1>1. end \in 0..Len(s) /\ Len(s) \in Nat
  OBVIOUS
<1>2. Substring(s, left, right) = CString(part)
  BY DEF Substring
<1> HIDE DEF end
<1>3. \A a \in 0..Len(s), b \in 0..Len(s) : SubSeq(s, a + 1, b) \in Seq(Char)
  OBVIOUS
<1>4. part \in Seq(Char)
  BY <1>1, <1>3
<1> HIDE DEF part
<1>5. QED BY <1>2, <1>4, CStringType

LEMMA SplitType == ASSUME NEW s \in Seq(Char) PROVE Split(s) \in Fields
<1> DEFINE firstCR == IndexOf(s, CR, 0)
           secondCR == IndexOf(s, CR, firstCR + 1)
<1>1. Len(s) \in Nat /\ 0 \in 0..Len(s)
  OBVIOUS
<1>2. firstCR \in -1..(Len(s) - 1)
  BY <1>1, IndexType
<1>3. Split(s) = [host        |-> Substring(s, 0, firstCR),
                  url         |-> Substring(s, firstCR + 1, secondCR),
                  fingerprint |-> Substring(s, secondCR + 1, Len(s) - 1)]
  BY DEF Split
<1> HIDE DEF firstCR
<1>4. firstCR + 1 \in 0..Len(s)
  BY <1>1, <1>2
<1>5. secondCR \in -1..(Len(s) - 1)
  BY <1>4, IndexType
<1> HIDE DEF secondCR
<1>6. /\ secondCR + 1 \in 0..Len(s) /\ Len(s) - 1 \in -1..Len(s)
      /\ firstCR \in -1..Len(s) /\ secondCR \in -1..Len(s)
  BY <1>1, <1>2, <1>5
<1>7. /\ Substring(s, 0, firstCR) \in Seq(Character)
      /\ Substring(s, firstCR + 1, secondCR) \in Seq(Character)
      /\ Substring(s, secondCR + 1, Len(s) - 1) \in Seq(Character)
  BY <1>1, <1>4, <1>6, SubstringType
<1>8. QED BY <1>3, <1>7 DEF Fields

LEMMA ShareStringType == ASSUME NEW c \in Channels \cup Fields PROVE ShareString(c) \in Seq(Character)
<1>1. c.host \in Seq(Character) /\ c.url \in Seq(Character) /\ c.fingerprint \in Seq(Character)
  <2>1. CASE c \in Channels
    BY <2>1, ChannelsAssumption DEF Text
  <2>2. CASE c \in Fields
    BY <2>2 DEF Fields
  <2>3. QED BY <2>1, <2>2
<1>2. <<CR>> \in Seq(Character) /\ <<NL>> \in Seq(Character)
  BY CharFacts
<1>3. \A s, t \in Seq(Character) : s \o t \in Seq(Character)
  OBVIOUS
<1>4. c.host \o <<CR>> \in Seq(Character)
  BY ONLY <1>1, <1>2, <1>3
<1>5. c.host \o <<CR>> \o c.url \in Seq(Character)
  BY ONLY <1>1, <1>3, <1>4
<1>6. c.host \o <<CR>> \o c.url \o <<CR>> \in Seq(Character)
  BY ONLY <1>2, <1>3, <1>5
<1>7. c.host \o <<CR>> \o c.url \o <<CR>> \o c.fingerprint \in Seq(Character)
  BY ONLY <1>1, <1>3, <1>6
<1>8. c.host \o <<CR>> \o c.url \o <<CR>> \o c.fingerprint \o <<NL>> \in Seq(Character)
  BY ONLY <1>2, <1>3, <1>7
<1>9. QED BY ONLY <1>8 DEF ShareString

LEMMA TextIsChars ==
  ASSUME NEW s \in Seq(Character)
  PROVE  s \in Seq(Char) /\ Len(s) \in Nat /\ \A i \in 1..Len(s) : s[i] \in Char
<1>1. Character \subseteq Char
  BY CharFacts
<1>2. \A i \in 1..Len(s) : s[i] \in Character
  OBVIOUS
<1>3. \A i \in 1..Len(s) : s[i] \in Char
  BY ONLY <1>1, <1>2
<1>4. s \in Seq(Char)
  BY <1>3, SequenceOf
<1>5. QED BY <1>3, <1>4

\* What is sent are codes of four characters.
LEMMA CodeType ==
  ASSUME NEW s \in Seq(Character) PROVE Code(s) \in [1..4 -> Char]
<1>1. \A i \in 1..4 : i <= Len(s) => s[i] \in Char
  <2>1. \A i \in 1..4 : i <= Len(s) => i \in 1..Len(s)
    BY TextIsChars
  <2>2. QED BY <2>1, TextIsChars
<1>2. 0 \in Char
  BY CharFacts
<1>3. QED BY ONLY <1>1, <1>2 DEF Code

LEMMA ChecksumCodeType ==
  ASSUME NEW s \in Seq(Character) PROVE ChecksumCode(s) \in [1..4 -> Char]
<1>1. CharSum(s) \in Char /\ Marker \in Char /\ 0 \in Char
  BY TextIsChars, SumType, CharFacts
<1>2. QED BY ONLY <1>1 DEF ChecksumCode

LEMMA CodesType ==
  ASSUME NEW s \in Seq(Character) PROVE Codes(s) \in Seq([1..4 -> Char])
<1> DEFINE n == (Len(s) + 3) \div 4
<1>1. n \in Nat /\ Len(s) \in Nat
  OBVIOUS
<1>2. ASSUME NEW k \in 1..n PROVE Code(Chars(s, k)) \in [1..4 -> Char]
  <2> DEFINE last == IF 4 * k < Len(s) THEN 4 * k ELSE Len(s)
  <2>1. 4 * k - 3 \in Nat /\ 1 <= 4 * k - 3 /\ last \in Nat /\ last <= Len(s)
    BY <1>1
  <2>2. SubSeq(s, 4 * k - 3, last) \in Seq(Character)
    <3> HIDE DEF last
    <3>1. \A a \in Nat \ {0}, b \in 0..Len(s) : SubSeq(s, a, b) \in Seq(Character)
      OBVIOUS
    <3>2. QED BY <1>1, <2>1, <3>1
  <2>3. QED BY <2>2, CodeType DEF Chars
<1>3. Codes(s) = [k \in 1..n |-> Code(Chars(s, k))]
  BY DEF Codes
<1> HIDE DEF n
<1>4. QED BY <1>1, <1>2, <1>3
LEMMA RestOf ==
  ASSUME NEW S, NEW s \in Seq(S), Len(s) # 0
  PROVE  /\ Tail(s) \in Seq(S) /\ Len(Tail(s)) = Len(s) - 1
         /\ \A i \in 1..(Len(s) - 1) : Tail(s)[i] = s[i + 1]
<1>1. s # <<>>
  OBVIOUS
<1>2. QED BY <1>1

\* What is taken of a code, and its sum.
LEMMA CodeIsText ==
  ASSUME NEW code \in [1..4 -> Char]
  PROVE  code \in Seq(Char) /\ Len(code) = 4 /\ Tail(code) \in Seq(Char) /\ Taken(code) \in Seq(Char)
<1>1. code \in Seq(Char) /\ Len(code) = 4
  <2>1. /\ DOMAIN code = 1..4 /\ \A i \in 1..4 : code[i] \in Char
        /\ code = [i \in 1..4 |-> code[i]]
    OBVIOUS
  <2>2. code \in Seq(Char)
    BY ONLY <2>1, 4 \in Nat
  <2>3. Len(code) = 4
    BY ONLY <2>1, <2>2
  <2>4. QED BY <2>2, <2>3
<1>2. Tail(code) \in Seq(Char)
  BY ONLY <1>1, RestOf
<1>3. QED BY <1>1, <1>2 DEF Taken

LEMMA FirstAndRest ==
  ASSUME NEW S, NEW s \in Seq(S), Len(s) # 0
  PROVE  <<s[1]>> \o Tail(s) = s
<1> DEFINE first == <<s[1]>>
           rest == Tail(s)
           both == first \o rest
<1>1. Len(s) \in Nat \ {0} /\ s[1] \in S
  OBVIOUS
<1>2. first \in Seq(S) /\ Len(first) = 1 /\ first[1] = s[1]
  BY <1>1
<1>3. /\ rest \in Seq(S) /\ Len(rest) = Len(s) - 1
      /\ \A i \in 1..(Len(s) - 1) : rest[i] = s[i + 1]
  BY RestOf
<1> HIDE DEF first, rest
<1>4. /\ both \in Seq(S) /\ Len(both) = Len(first) + Len(rest)
      /\ \A i \in 1..(Len(first) + Len(rest)) :
           both[i] = IF i <= Len(first) THEN first[i] ELSE rest[i - Len(first)]
  <2>1. first \in Seq(S) /\ rest \in Seq(S)
    BY <1>2, <1>3
  <2> HIDE DEF both
  <2>2. QED BY ONLY <2>1, Joined DEF both
<1>5. Len(first) + Len(rest) = Len(s)
  BY <1>1, <1>2, <1>3
<1> HIDE DEF both
<1>6. ASSUME NEW i \in 1..Len(s) PROVE both[i] = s[i]
  <2>1. CASE i = 1
    BY <1>2, <1>4, <1>5, <2>1
  <2>2. CASE i # 1
    <3>1. i - 1 \in 1..(Len(s) - 1) /\ (i - 1) + 1 = i /\ ~(i <= 1)
      BY <1>1, <2>2
    <3>2. both[i] = rest[i - 1]
      BY <1>2, <1>4, <1>5, <3>1
    <3>3. QED BY <1>3, <3>1, <3>2
  <2>3. QED BY <2>1, <2>2
<1>7. both = s
  BY <1>4, <1>5, <1>6, SameSequence
<1>8. QED BY <1>7 DEF both, first, rest

LEMMA SumOfTaken ==
  ASSUME NEW code \in [1..4 -> Char]
  PROVE  CharSum(Taken(code)) = CharSum(code)
<1>1. CASE code[1] # 0
  BY <1>1 DEF Taken
<1>2. CASE code[1] = 0
  <2> DEFINE zero == <<0>>
             rest == Tail(code)
  <2>1. code \in Seq(Char) /\ rest \in Seq(Char) /\ Len(code) = 4
    BY CodeIsText
  <2>2. zero \in Seq(Char) /\ Len(zero) = 1 /\ zero[1] = 0
    <3>1. 0 \in Char
      BY CharFacts
    <3>2. QED BY <3>1
  <2>5. zero \o rest = code
    <3>1. Len(code) # 0
      BY <2>1
    <3>2. <<code[1]>> \o Tail(code) = code
      BY ONLY <2>1, <3>1, FirstAndRest
    <3>3. QED BY <1>2, <3>2
  <2> HIDE DEF zero, rest
  <2>6. CharSum(code) = Plus(CharSum(zero), CharSum(rest))
    BY <2>1, <2>2, <2>5, SumOfParts
  <2>7. CharSum(zero) = 0
    <3>1. PICK f : Sums(f, zero) /\ CharSum(zero) = f[Len(zero)]
      BY <2>2, SumIsLast
    <3>2. f[0] = 0 /\ f[1] = Plus(f[0], zero[1])
      BY <2>2, <3>1 DEF Sums
    <3>3. 0 \in Char
      BY CharFacts
    <3>4. f[1] = 0
      BY <2>2, <3>2, <3>3, PlusLaws
    <3>5. QED BY <2>2, <3>1, <3>4
  <2>8. CharSum(rest) \in Char
    BY <2>1, SumType
  <2>9. CharSum(rest) = CharSum(code)
    BY <2>6, <2>7, <2>8, PlusLaws
  <2>10. QED BY <1>2, <2>9 DEF Taken, rest
<1>3. QED BY <1>1, <1>2

-----------------------------------------------------------------------------
(* Every step keeps the types. *)

LEMMA InitTypes == Init => TypeOK
<1> SUFFICES ASSUME Init PROVE TypeOK
  OBVIOUS
<1>1. <<>> \in Seq(Char) /\ <<>> \in Seq(Character) /\ <<>> \in Seq([1..4 -> Char])
  OBVIOUS
<1>2. 0 \in 0..MaxFaults
  BY FaultsAssumption
<1>3. QED BY <1>1, <1>2, SumOfNone DEF Init, TypeOK

SenderTypes   == outbox \in Seq([1..4 -> Char]) /\ shareString \in Seq(Character)
ReceiverTypes ==
  /\ pc \in {"loop", "receive", "input"}
  /\ {receiveShare, stringCompleted, dataCompleted, dataVerified} \subseteq BOOLEAN
  /\ received \in Seq(Char)
  /\ checksumRec = CharSum(received)
  /\ offered \subseteq Fields
LibraryTypes == captured \in {NoCode, Overflow} \cup [1..4 -> Char] /\ faults \in 0..MaxFaults

LEMMA TypesAre == TypeOK <=> SenderTypes /\ ReceiverTypes /\ LibraryTypes
BY DEF TypeOK, SenderTypes, ReceiverTypes, LibraryTypes, Fields

LEMMA TypesAfter == SenderTypes' /\ ReceiverTypes' /\ LibraryTypes' => TypeOK'
BY DEF TypeOK, SenderTypes, ReceiverTypes, LibraryTypes, Fields

LEMMA SenderStays   == UNCHANGED sender /\ SenderTypes => SenderTypes'
BY DEF sender, SenderTypes

LEMMA ReceiverStays == UNCHANGED receiver /\ ReceiverTypes => ReceiverTypes'
BY DEF receiver, frame, ReceiverTypes

LEMMA LibraryStays  == UNCHANGED <<captured, faults>> /\ LibraryTypes => LibraryTypes'
BY DEF LibraryTypes

\* A frame left empty.
LEMMA FreshTypes ==
  ASSUME ReceiverTypes, FreshFrame, pc' \in {"loop", "receive", "input"},
         receiveShare' \in BOOLEAN, offered' \subseteq Fields
  PROVE  ReceiverTypes'
<1>1. <<>> \in Seq(Char)
  OBVIOUS
<1>2. QED BY <1>1, SumOfNone DEF ReceiverTypes, FreshFrame

LEMMA FaultCounted == ASSUME LibraryTypes, faults < MaxFaults PROVE faults + 1 \in 0..MaxFaults
BY FaultsAssumption DEF LibraryTypes

LEMMA ShareTypes == TypeOK /\ Share => TypeOK'
<1> SUFFICES ASSUME TypeOK, Share PROVE TypeOK'
  OBVIOUS
<1> USE TypesAre, TypesAfter
<1>1. PICK c \in Channels \cup offered : shareString' = ShareString(c)
  BY DEF Share
<1>2. c \in Channels \cup Fields
  BY <1>1 DEF ReceiverTypes
<1>3. shareString' \in Seq(Character)
  BY <1>1, <1>2, ShareStringType
<1>4. SenderTypes'
  BY <1>3 DEF SenderTypes, Share
<1>5. UNCHANGED receiver /\ UNCHANGED <<captured, faults>>
  BY DEF Share
<1>6. QED BY <1>4, <1>5, ReceiverStays, LibraryStays

LEMMA StartPassTypes == TypeOK /\ StartPass => TypeOK'
<1> SUFFICES ASSUME TypeOK, StartPass PROVE TypeOK'
  OBVIOUS
<1> USE TypesAre, TypesAfter
<1>1. Codes(shareString) \in Seq([1..4 -> Char]) /\ ChecksumCode(shareString) \in [1..4 -> Char]
  BY CodesType, ChecksumCodeType DEF SenderTypes
<1>2. outbox' \in Seq([1..4 -> Char])
  <2>1. outbox' = Append(Codes(shareString), ChecksumCode(shareString))
    BY DEF StartPass
  <2>2. QED BY ONLY <1>1, <2>1
<1>3. SenderTypes'
  BY <1>2 DEF SenderTypes, StartPass
<1>4. UNCHANGED receiver /\ UNCHANGED <<captured, faults>>
  BY DEF StartPass
<1>5. QED BY <1>3, <1>4, ReceiverStays, LibraryStays
\* A pass has no more codes left than it has: so what is sent of it is a beginning.
PassInv == shareString # <<>> => Len(outbox) <= Len(Codes(shareString)) + 1

\* The piece that is ready when the user cancels, and what was sent with it.
LEMMA PiecesType ==
  ASSUME NEW s \in Seq(Character), NEW sent \in Nat, NEW j \in 0..(Len(Chars(s, sent + 1)) - 1)
  PROVE  /\ SubSeq(s, 1, 4 * sent + j) \in Seq(Character)
         /\ SubSeq(SubSeq(s, 1, 4 * sent + j), 4 * sent + 1, 4 * sent + j) \in Seq(Character)
<1> DEFINE first == 4 * (sent + 1) - 3
           last == IF 4 * (sent + 1) < Len(s) THEN 4 * (sent + 1) ELSE Len(s)
           n == 4 * sent + j
           begun == SubSeq(s, 1, n)
<1>1. /\ Len(s) \in Nat /\ first \in Nat /\ first = 4 * sent + 1 /\ last \in Nat /\ last <= Len(s)
      /\ \A i \in 1..Len(s) : s[i] \in Character
  OBVIOUS
<1>2. Chars(s, sent + 1) = SubSeq(s, first, last)
  BY DEF Chars
<1> HIDE DEF last
<1>3. Len(SubSeq(s, first, last)) = IF first <= last THEN last - first + 1 ELSE 0
  <2>1. \A i \in first..last : s[i] \in Character
    BY <1>1
  <2>2. QED BY <1>1, <2>1, SubSeqProperties
<1>4. j \in Nat /\ j <= last - first /\ n \in 0..Len(s)
  BY <1>1, <1>2, <1>3
<1>5. begun \in Seq(Character) /\ Len(begun) = n
  BY ONLY <1>4, Pieces, s \in Seq(Character)
<1> HIDE DEF begun
<1>6. SubSeq(begun, 4 * sent + 1, n) \in Seq(Character)
  <2>1. n \in Nat /\ 4 * sent + 1 \in Nat /\ \A i \in (4 * sent + 1)..n : i \in 1..n
    BY <1>4
  <2>2. \A i \in (4 * sent + 1)..n : begun[i] \in Character
    BY <1>5, <2>1
  <2> HIDE DEF n
  <2>3. QED BY <2>1, <2>2, SubSeqProperties
<1>7. QED BY <1>5, <1>6 DEF begun

LEMMA CancelSharingTypes == TypeOK /\ PassInv /\ CancelSharing => TypeOK'
<1> SUFFICES ASSUME TypeOK, PassInv, CancelSharing PROVE TypeOK'
  OBVIOUS
<1> USE TypesAre, TypesAfter
<1>1. shareString' \in Seq(Character)
  BY DEF CancelSharing
<1>2. outbox' \in Seq([1..4 -> Char])
  <2>1. CASE UNCHANGED outbox
    BY <2>1 DEF SenderTypes
  <2>2. CASE ~UNCHANGED outbox
    <3> DEFINE begun(j) == SubSeq(shareString, 1, 4 * Sent + j)
               part(j) == SubSeq(begun(j), 4 * Sent + 1, 4 * Sent + j)
    <3>1. PICK j \in 0..(Len(Chars(shareString, Sent + 1)) - 1) :
             outbox' = (IF j = 0 THEN <<>> ELSE <<Code(part(j))>>) \o <<ChecksumCode(begun(j))>>
      BY <2>2 DEF CancelSharing
    <3>2. Sent \in Nat
      <4>1. Codes(shareString) \in Seq([1..4 -> Char]) /\ outbox \in Seq([1..4 -> Char])
        BY CodesType DEF SenderTypes
      <4>2. Len(outbox) <= Len(Codes(shareString)) + 1
        BY DEF PassInv, CancelSharing
      <4>3. QED BY <4>1, <4>2 DEF Sent
    <3>3. begun(j) \in Seq(Character) /\ part(j) \in Seq(Character)
      BY <3>2, PiecesType DEF SenderTypes
    <3> DEFINE code == Code(part(j))
               sum == ChecksumCode(begun(j))
    <3>4. code \in [1..4 -> Char] /\ sum \in [1..4 -> Char]
      BY <3>3, CodeType, ChecksumCodeType
    <3>5. outbox' = (IF j = 0 THEN <<>> ELSE <<code>>) \o <<sum>>
      BY <3>1
    <3> HIDE DEF code, sum
    <3>6. CASE j = 0
      <4>1. outbox' = <<>> \o <<sum>> /\ <<>> \o <<sum>> = <<sum>>
        BY <3>4, <3>5, <3>6
      <4>2. QED BY ONLY <3>4, <4>1
    <3>7. CASE j # 0
      <4>1. outbox' = <<code>> \o <<sum>>
        BY <3>5, <3>7
      <4>2. <<code>> \in Seq([1..4 -> Char]) /\ <<sum>> \in Seq([1..4 -> Char])
        BY ONLY <3>4
      <4>3. QED BY ONLY <4>1, <4>2, Joined
    <3>8. QED BY <3>6, <3>7
  <2>3. QED BY <2>1, <2>2
<1>3. SenderTypes'
  BY <1>1, <1>2 DEF SenderTypes
<1>4. LibraryTypes'
  BY FaultCounted DEF LibraryTypes, CancelSharing
<1>5. UNCHANGED receiver
  BY DEF CancelSharing
<1>6. QED BY <1>3, <1>4, <1>5, ReceiverStays

LEMMA PassKept == TypeOK /\ PassInv /\ Next => PassInv'
<1> SUFFICES ASSUME TypeOK, PassInv, Next PROVE PassInv'
  OBVIOUS
<1>1. outbox \in Seq([1..4 -> Char]) /\ shareString \in Seq(Character)
  BY DEF TypeOK
<1>2. \A s \in Seq(Character) : Len(Codes(s)) \in Nat
  <2>1. \A s \in Seq(Character) : Codes(s) \in Seq([1..4 -> Char])
    BY CodesType
  <2>2. QED BY ONLY <2>1
<1>3. CASE Share
  <2>1. PICK c \in Channels \cup offered : shareString' = ShareString(c)
    BY <1>3 DEF Share
  <2>2. shareString' \in Seq(Character)
    BY <2>1, ShareStringType DEF TypeOK, Fields
  <2>3. outbox' = <<>>
    BY <1>3 DEF Share
  <2>4. QED BY <1>2, <2>2, <2>3 DEF PassInv
<1>4. CASE StartPass
  <2>1. Codes(shareString) \in Seq([1..4 -> Char]) /\ ChecksumCode(shareString) \in [1..4 -> Char]
    BY <1>1, CodesType, ChecksumCodeType
  <2>2. outbox' = Append(Codes(shareString), ChecksumCode(shareString)) /\ shareString' = shareString
    BY <1>4 DEF StartPass
  <2>3. Len(outbox') = Len(Codes(shareString)) + 1 /\ Len(Codes(shareString)) \in Nat
    BY ONLY <2>1, <2>2
  <2>4. QED BY <2>2, <2>3 DEF PassInv
<1>5. CASE SendNEC
  <2>1. outbox # <<>> /\ outbox' = Tail(outbox) /\ shareString' = shareString
    BY <1>5 DEF SendNEC
  <2>2. Len(Tail(outbox)) = Len(outbox) - 1 /\ Len(outbox) \in Nat
    BY ONLY <1>1, <2>1
  <2>3. Len(Codes(shareString)) \in Nat
    BY <1>1, <1>2
  <2>4. QED BY <2>1, <2>2, <2>3 DEF PassInv
<1>6. CASE shareString' = <<>>
  BY <1>6 DEF PassInv
<1>7. CASE UNCHANGED sender
  BY <1>7 DEF PassInv, sender
<1>8. \/ Share \/ StartPass \/ SendNEC \/ shareString' = <<>> \/ UNCHANGED sender
  BY DEF Next, SenderNext, ReceiverNext, UserNext, CancelSharing, ResetSender, StartReceiving,
     CancelOutside, DispatchInput, ResetReceiver, EnterReceive, DecodeOverflow, DecodeText,
     DecodeChecksum, Noise
<1>9. QED BY <1>3, <1>4, <1>5, <1>6, <1>7, <1>8

LEMMA ResetSenderTypes == TypeOK /\ ResetSender => TypeOK'
<1> SUFFICES ASSUME TypeOK, ResetSender PROVE TypeOK'
  OBVIOUS
<1> USE TypesAre, TypesAfter
<1>1. <<>> \in Seq(Character) /\ <<>> \in Seq([1..4 -> Char])
  OBVIOUS
<1>2. SenderTypes'
  BY <1>1 DEF SenderTypes, ResetSender
<1>3. LibraryTypes'
  BY FaultCounted DEF LibraryTypes, ResetSender
<1>4. UNCHANGED receiver
  BY DEF ResetSender
<1>5. QED BY <1>2, <1>3, <1>4, ReceiverStays

LEMMA SendNECTypes == TypeOK /\ SendNEC => TypeOK'
<1> SUFFICES ASSUME TypeOK, SendNEC PROVE TypeOK'
  OBVIOUS
<1> USE TypesAre, TypesAfter
<1>1. outbox \in Seq([1..4 -> Char]) /\ outbox # <<>>
  BY DEF SenderTypes, SendNEC
<1>2. Tail(outbox) \in Seq([1..4 -> Char]) /\ Head(outbox) \in [1..4 -> Char]
  BY ONLY <1>1
<1>3. SenderTypes'
  BY <1>2 DEF SenderTypes, SendNEC
<1>4. LibraryTypes'
  BY <1>2, FaultCounted DEF LibraryTypes, SendNEC
<1>5. UNCHANGED receiver
  BY DEF SendNEC
<1>6. QED BY <1>3, <1>4, <1>5, ReceiverStays

LEMMA NoiseTypes == TypeOK /\ Noise => TypeOK'
<1> SUFFICES ASSUME TypeOK, Noise PROVE TypeOK'
  OBVIOUS
<1> USE TypesAre, TypesAfter
<1>1. LibraryTypes'
  BY FaultCounted, ForeignAssumption DEF LibraryTypes, Noise
<1>2. UNCHANGED receiver /\ UNCHANGED sender
  BY DEF Noise
<1>3. QED BY <1>1, <1>2, ReceiverStays, SenderStays

\* The receiver is switched, or enters its loop.
LEMMA SwitchTypes == TypeOK /\ (StartReceiving \/ CancelOutside \/ EnterReceive) => TypeOK'
<1> SUFFICES ASSUME TypeOK, StartReceiving \/ CancelOutside \/ EnterReceive PROVE TypeOK'
  OBVIOUS
<1> USE TypesAre, TypesAfter
<1>1. ReceiverTypes'
  BY DEF ReceiverTypes, StartReceiving, CancelOutside, EnterReceive, frame
<1>2. UNCHANGED <<captured, faults>> /\ UNCHANGED sender
  BY DEF StartReceiving, CancelOutside, EnterReceive
<1>3. QED BY <1>1, <1>2, LibraryStays, SenderStays

LEMMA DecodeOverflowTypes == TypeOK /\ DecodeOverflow => TypeOK'
<1> SUFFICES ASSUME TypeOK, DecodeOverflow PROVE TypeOK'
  OBVIOUS
<1> USE TypesAre, TypesAfter
<1>1. ReceiverTypes'
  BY FreshTypes DEF ReceiverTypes, DecodeOverflow
<1>2. UNCHANGED <<captured, faults>> /\ UNCHANGED sender
  BY DEF DecodeOverflow
<1>3. QED BY <1>1, <1>2, LibraryStays, SenderStays

\* The sum kept is that of the text, also when a code begins with a zero.
LEMMA DecodeTextTypes == TypeOK /\ DecodeText => TypeOK'
<1> SUFFICES ASSUME TypeOK, DecodeText PROVE TypeOK'
  OBVIOUS
<1> USE TypesAre, TypesAfter
<1>1. captured \in [1..4 -> Char]
  BY DEF LibraryTypes, DecodeText
<1>2. Taken(captured) \in Seq(Char) /\ captured \in Seq(Char)
  BY <1>1, CodeIsText
<1>3. received \in Seq(Char) /\ checksumRec = CharSum(received)
  BY DEF ReceiverTypes
<1>4. received' = received \o Taken(captured) /\ checksumRec' = Plus(checksumRec, CharSum(captured))
  BY DEF DecodeText, Plus
<1>5. received' \in Seq(Char)
  BY <1>2, <1>3, <1>4, Joined
<1>6. checksumRec' = CharSum(received')
  <2>1. CharSum(received \o Taken(captured)) = Plus(CharSum(received), CharSum(Taken(captured)))
    BY <1>2, <1>3, SumOfParts
  <2>2. CharSum(Taken(captured)) = CharSum(captured)
    BY <1>1, SumOfTaken
  <2>3. QED BY ONLY <1>3, <1>4, <2>1, <2>2
<1>7. ReceiverTypes'
  BY <1>5, <1>6 DEF ReceiverTypes, DecodeText, HasNewline
<1>8. LibraryTypes'
  BY DEF LibraryTypes, DecodeText
<1>9. UNCHANGED sender
  BY DEF DecodeText
<1>10. QED BY <1>7, <1>8, <1>9, SenderStays

LEMMA DecodeChecksumTypes == TypeOK /\ DecodeChecksum => TypeOK'
<1> SUFFICES ASSUME TypeOK, DecodeChecksum PROVE TypeOK'
  OBVIOUS
<1> USE TypesAre, TypesAfter
<1>1. ReceiverTypes'
  BY DEF ReceiverTypes, DecodeChecksum, Verified
<1>2. LibraryTypes'
  BY DEF LibraryTypes, DecodeChecksum
<1>3. UNCHANGED sender
  BY DEF DecodeChecksum
<1>4. QED BY <1>1, <1>2, <1>3, SenderStays

\* What is offered consists of texts that can be stored and sent.
LEMMA DispatchInputTypes ==
  ASSUME NEW cancel \in BOOLEAN PROVE TypeOK /\ DispatchInput(cancel) => TypeOK'
<1> SUFFICES ASSUME TypeOK, DispatchInput(cancel) PROVE TypeOK'
  OBVIOUS
<1> USE TypesAre, TypesAfter
<1>1. offered' \subseteq Fields
  BY SplitType DEF ReceiverTypes, DispatchInput
<1>2. receiveShare' \in BOOLEAN
  BY DEF DispatchInput
<1>3. CASE cancel \/ dataCompleted
  <2>1. FreshFrame /\ pc' = "loop"
    BY <1>3 DEF DispatchInput
  <2>2. ReceiverTypes'
    BY <1>1, <1>2, <2>1, FreshTypes
  <2>3. UNCHANGED <<captured, faults>> /\ UNCHANGED sender
    BY DEF DispatchInput
  <2>4. QED BY <2>2, <2>3, LibraryStays, SenderStays
<1>4. CASE ~(cancel \/ dataCompleted)
  <2>1. UNCHANGED frame /\ pc' = "receive"
    BY <1>4 DEF DispatchInput
  <2>2. ReceiverTypes'
    BY <1>1, <1>2, <2>1 DEF ReceiverTypes, frame
  <2>3. UNCHANGED <<captured, faults>> /\ UNCHANGED sender
    BY DEF DispatchInput
  <2>4. QED BY <2>2, <2>3, LibraryStays, SenderStays
<1>5. QED BY <1>3, <1>4

LEMMA ResetReceiverTypes == TypeOK /\ ResetReceiver => TypeOK'
<1> SUFFICES ASSUME TypeOK, ResetReceiver PROVE TypeOK'
  OBVIOUS
<1> USE TypesAre, TypesAfter
<1>1. ReceiverTypes'
  <2>1. offered' \subseteq Fields /\ receiveShare' \in BOOLEAN
    BY DEF ReceiverTypes, ResetReceiver
  <2>2. QED BY <2>1, FreshTypes DEF ResetReceiver
<1>2. LibraryTypes'
  BY DEF LibraryTypes, ResetReceiver
<1>3. UNCHANGED sender
  BY DEF ResetReceiver
<1>4. QED BY <1>1, <1>2, <1>3, SenderStays

-----------------------------------------------------------------------------
\* Codes and texts keep their shape, the receiver's sum is that of what it holds, and
\* the fields of a channel offered are texts without a zero (loop, the String class).
THEOREM TypeCorrect == Spec => []TypeOK
<1> DEFINE Inv == TypeOK /\ PassInv
<1>1. Init => Inv
  BY InitTypes DEF Init, PassInv
<1>2. Inv /\ [Next]_vars => Inv'
  <2>1. ASSUME Inv, Next PROVE TypeOK'
    BY <2>1, ShareTypes, StartPassTypes, CancelSharingTypes, ResetSenderTypes, SendNECTypes,
       NoiseTypes, SwitchTypes, DecodeOverflowTypes, DecodeTextTypes, DecodeChecksumTypes,
       DispatchInputTypes, ResetReceiverTypes
       DEF Next, SenderNext, ReceiverNext, UserNext
  <2>2. ASSUME Inv, Next PROVE PassInv'
    BY <2>2, PassKept
  <2>3. ASSUME Inv, UNCHANGED vars PROVE Inv'
    BY <2>3 DEF vars, sender, receiver, frame, TypeOK, PassInv
  <2>4. QED BY <2>1, <2>2, <2>3
<1>3. QED BY <1>1, <1>2, PTL DEF Spec

-----------------------------------------------------------------------------
(* A pass: the text of a channel in its codes. *)

\* The parts of a text put together.
Parts(u, s, t) ==
  /\ Len(u) = Len(s) + Len(t)
  /\ \A i \in 1..Len(s) : u[i] = s[i]
  /\ \A i \in 1..Len(t) : u[Len(s) + i] = t[i]

LEMMA JoinedText ==
  ASSUME NEW s \in Seq(Character), NEW t \in Seq(Character)
  PROVE  s \o t \in Seq(Character) /\ Parts(s \o t, s, t)
<1> DEFINE u == s \o t
<1>1. /\ u \in Seq(Character) /\ Len(u) = Len(s) + Len(t)
      /\ \A i \in 1..(Len(s) + Len(t)) : u[i] = IF i <= Len(s) THEN s[i] ELSE t[i - Len(s)]
  BY Joined
<1> HIDE DEF u
<1>2. Len(s) \in Nat /\ Len(t) \in Nat
  OBVIOUS
<1>3. ASSUME NEW i \in 1..Len(s) PROVE u[i] = s[i]
  <2>1. i \in 1..(Len(s) + Len(t)) /\ i <= Len(s)
    BY ONLY <1>2, i \in 1..Len(s)
  <2>2. QED BY ONLY <1>1, <2>1
<1>4. ASSUME NEW i \in 1..Len(t) PROVE u[Len(s) + i] = t[i]
  <2>1. /\ Len(s) + i \in 1..(Len(s) + Len(t)) /\ ~(Len(s) + i <= Len(s))
        /\ (Len(s) + i) - Len(s) = i
    BY ONLY <1>2, i \in 1..Len(t)
  <2>2. QED BY ONLY <1>1, <2>1
<1>5. u \in Seq(Character) /\ Parts(u, s, t)
  BY <1>1, <1>3, <1>4 DEF Parts
<1>6. QED BY <1>5 DEF u

\* Where the fields are in a text, and what ends them.
LaidOut(s, host, url, fingerprint) ==
  LET h == Len(host)
      u == Len(url)
      f == Len(fingerprint)
  IN  /\ s \in Seq(Character) /\ Len(s) = h + u + f + 3
      /\ \A i \in 1..h : s[i] = host[i]
      /\ s[h + 1] = CR
      /\ \A i \in 1..u : s[h + 1 + i] = url[i]
      /\ s[h + u + 2] = CR
      /\ \A i \in 1..f : s[h + u + 2 + i] = fingerprint[i]
      /\ s[h + u + f + 3] = NL

PlainField(field) == field \in Seq(Character) /\ \A i \in 1..Len(field) : field[i] \notin {NL, CR}

LEMMA FieldsArePlain ==
  ASSUME NEW c \in Channels
  PROVE  /\ PlainField(c.host) /\ PlainField(c.url) /\ PlainField(c.fingerprint)
         /\ c = [host |-> c.host, url |-> c.url, fingerprint |-> c.fingerprint]
<1>1. c \in [host : Text, url : Text, fingerprint : Text]
  BY ChannelsAssumption
<1>2. /\ c.host \in Text /\ c.url \in Text /\ c.fingerprint \in Text
      /\ c = [host |-> c.host, url |-> c.url, fingerprint |-> c.fingerprint]
  BY ONLY <1>1
<1>3. ASSUME NEW field \in Text PROVE PlainField(field)
  <2>1. field \in Seq(Character) /\ {NL, CR} \cap Range(field) = {}
    BY DEF Text
  <2>2. \A i \in 1..Len(field) : field[i] \in Range(field)
    BY <2>1 DEF Range
  <2>3. QED BY <2>1, <2>2 DEF PlainField
<1>4. QED BY <1>2, <1>3

LEMMA ShareStringIs ==
  ASSUME NEW c \in Channels
  PROVE  LaidOut(ShareString(c), c.host, c.url, c.fingerprint)
<1> DEFINE host == c.host
           url == c.url
           fp == c.fingerprint
           cr == <<CR>>
           nl == <<NL>>
           a1 == host \o cr
           a2 == a1 \o url
           a3 == a2 \o cr
           a4 == a3 \o fp
           a5 == a4 \o nl
<1>1. host \in Seq(Character) /\ url \in Seq(Character) /\ fp \in Seq(Character)
  BY FieldsArePlain DEF PlainField
<1>2. /\ cr \in Seq(Character) /\ Len(cr) = 1 /\ cr[1] = CR
      /\ nl \in Seq(Character) /\ Len(nl) = 1 /\ nl[1] = NL
  BY CharFacts
<1>3. ShareString(c) = a5
  BY DEF ShareString
<1> HIDE DEF host, url, fp, cr, nl
<1>4. a1 \in Seq(Character) /\ Parts(a1, host, cr)
  BY ONLY <1>1, <1>2, JoinedText
<1> HIDE DEF a1
<1>5. a2 \in Seq(Character) /\ Parts(a2, a1, url)
  BY ONLY <1>1, <1>4, JoinedText
<1> HIDE DEF a2
<1>6. a3 \in Seq(Character) /\ Parts(a3, a2, cr)
  BY ONLY <1>2, <1>5, JoinedText
<1> HIDE DEF a3
<1>7. a4 \in Seq(Character) /\ Parts(a4, a3, fp)
  BY ONLY <1>1, <1>6, JoinedText
<1> HIDE DEF a4
<1>8. a5 \in Seq(Character) /\ Parts(a5, a4, nl)
  BY ONLY <1>2, <1>7, JoinedText
<1> HIDE DEF a5
<1>9. Len(host) \in Nat /\ Len(url) \in Nat /\ Len(fp) \in Nat
  BY ONLY <1>1
<1> DEFINE h == Len(host)
           u == Len(url)
           f == Len(fp)
<1> HIDE DEF h, u, f
<1>10. /\ h \in Nat /\ u \in Nat /\ f \in Nat /\ Len(a1) = h + 1 /\ Len(a2) = h + u + 1
       /\ Len(a3) = h + u + 2 /\ Len(a4) = h + u + f + 2 /\ Len(a5) = h + u + f + 3
  BY ONLY <1>2, <1>4, <1>5, <1>6, <1>7, <1>8, <1>9 DEF h, u, f, Parts
<1>11. ASSUME NEW i \in 1..h PROVE a5[i] = host[i]
  <2>1. /\ i \in 1..(h + 1) /\ i \in 1..(h + u + 1) /\ i \in 1..(h + u + 2)
        /\ i \in 1..(h + u + f + 2)
    BY ONLY <1>10, i \in 1..h
  <2>2. a1[i] = host[i]
    BY ONLY <1>4, i \in 1..h DEF h, Parts
  <2>3. a2[i] = a1[i] /\ a3[i] = a2[i]
    BY ONLY <1>5, <1>6, <1>10, <2>1 DEF Parts
  <2>4. a4[i] = a3[i] /\ a5[i] = a4[i]
    BY ONLY <1>7, <1>8, <1>10, <2>1 DEF Parts
  <2>5. QED BY ONLY <2>2, <2>3, <2>4
<1>12. a5[h + 1] = CR
  <2>1. /\ h + 1 \in 1..(h + 1) /\ h + 1 \in 1..(h + u + 1) /\ h + 1 \in 1..(h + u + 2)
        /\ h + 1 \in 1..(h + u + f + 2) /\ 1 \in 1..1
    BY ONLY <1>10
  <2>2. a1[h + 1] = CR
    BY ONLY <1>2, <1>4, <2>1 DEF h, Parts
  <2>3. a2[h + 1] = a1[h + 1] /\ a3[h + 1] = a2[h + 1]
    BY ONLY <1>5, <1>6, <1>10, <2>1 DEF Parts
  <2>4. a4[h + 1] = a3[h + 1] /\ a5[h + 1] = a4[h + 1]
    BY ONLY <1>7, <1>8, <1>10, <2>1 DEF Parts
  <2>5. QED BY ONLY <2>2, <2>3, <2>4
<1>13. ASSUME NEW i \in 1..u PROVE a5[h + 1 + i] = url[i]
  <2>1. /\ h + 1 + i \in 1..(h + u + 1) /\ h + 1 + i \in 1..(h + u + 2)
        /\ h + 1 + i \in 1..(h + u + f + 2)
    BY ONLY <1>10, i \in 1..u
  <2>2. a2[h + 1 + i] = url[i]
    BY ONLY <1>5, <1>10, i \in 1..u DEF u, Parts
  <2>3. QED BY ONLY <1>6, <1>7, <1>8, <1>10, <2>1, <2>2 DEF Parts
<1>14. a5[h + u + 2] = CR
  <2>1. /\ h + u + 2 \in 1..(h + u + 2) /\ h + u + 2 \in 1..(h + u + f + 2) /\ 1 \in 1..1
        /\ (h + u + 1) + 1 = h + u + 2
    BY ONLY <1>10
  <2>2. a3[h + u + 2] = CR
    BY ONLY <1>2, <1>6, <1>10, <2>1 DEF Parts
  <2>3. QED BY ONLY <1>7, <1>8, <1>10, <2>1, <2>2 DEF Parts
<1>15. ASSUME NEW i \in 1..f PROVE a5[h + u + 2 + i] = fp[i]
  <2>1. h + u + 2 + i \in 1..(h + u + f + 2)
    BY ONLY <1>10, i \in 1..f
  <2>2. a4[h + u + 2 + i] = fp[i]
    BY ONLY <1>7, <1>10, i \in 1..f DEF f, Parts
  <2>3. QED BY ONLY <1>8, <1>10, <2>1, <2>2 DEF Parts
<1>16. a5[h + u + f + 3] = NL
  <2>1. (h + u + f + 2) + 1 = h + u + f + 3 /\ 1 \in 1..1
    BY ONLY <1>10
  <2>2. QED BY ONLY <1>2, <1>8, <1>10, <2>1 DEF Parts
<1>17. LaidOut(a5, host, url, fp)
  BY ONLY <1>8, <1>10, <1>11, <1>12, <1>13, <1>14, <1>15, <1>16 DEF LaidOut, h, u, f, Parts
<1>18. QED BY <1>3, <1>17 DEF host, url, fp

\* Only the last character is a newline, and the first two CR end the fields.
EndsLast(s) == s \in Seq(Character) /\ Len(s) > 0 /\ \A i \in 1..Len(s) : s[i] = NL <=> i = Len(s)

LEMMA NewlineIsLast ==
  ASSUME NEW c \in Channels PROVE EndsLast(ShareString(c))
<1> DEFINE s == ShareString(c)
           h == Len(c.host)
           u == Len(c.url)
           f == Len(c.fingerprint)
<1>1. LaidOut(s, c.host, c.url, c.fingerprint)
  BY ShareStringIs
<1>2. PlainField(c.host) /\ PlainField(c.url) /\ PlainField(c.fingerprint)
  BY FieldsArePlain
<1>3. h \in Nat /\ u \in Nat /\ f \in Nat
  BY <1>2 DEF PlainField
<1>4. NL # CR
  BY CharacterAssumption
<1> HIDE DEF s
<1>5. /\ Len(s) = h + u + f + 3 /\ s \in Seq(Character) /\ s[h + u + f + 3] = NL
      /\ s[h + 1] # NL /\ s[h + u + 2] # NL
  BY <1>1, <1>4 DEF LaidOut
<1>6. \A i \in 1..h : s[i] # NL
  BY <1>1, <1>2 DEF LaidOut, PlainField
<1>7. \A i \in 1..u : s[h + 1 + i] # NL
  BY <1>1, <1>2 DEF LaidOut, PlainField
<1>8. \A i \in 1..f : s[h + u + 2 + i] # NL
  BY <1>1, <1>2 DEF LaidOut, PlainField
<1> HIDE DEF h, u, f
<1>9. ASSUME NEW i \in 1..Len(s), i # Len(s) PROVE s[i] # NL
  <2>1. i \in Nat /\ i < h + u + f + 3 /\ 1 <= i
    BY ONLY <1>3, <1>5, <1>9
  <2>2. CASE i \in 1..h
    BY <1>6, <2>2
  <2>3. CASE i = h + 1 \/ i = h + u + 2
    BY <1>5, <2>3
  <2>4. CASE i \in (h + 2)..(h + u + 1)
    <3>1. i - h - 1 \in 1..u /\ h + 1 + (i - h - 1) = i
      BY ONLY <1>3, <2>4
    <3>2. QED BY ONLY <1>7, <3>1
  <2>5. CASE i \in (h + u + 3)..(h + u + f + 2)
    <3>1. i - h - u - 2 \in 1..f /\ h + u + 2 + (i - h - u - 2) = i
      BY ONLY <1>3, <2>5
    <3>2. QED BY ONLY <1>8, <3>1
  <2>6. QED BY ONLY <1>3, <2>1, <2>2, <2>3, <2>4, <2>5
<1>10. Len(s) > 0
  BY ONLY <1>3, <1>5
<1>11. QED BY <1>5, <1>9, <1>10 DEF EndsLast, s

\* The codes of a text are its characters, four by four, and zeros.
LEMMA CodeCount ==
  ASSUME NEW s \in Seq(Character)
  PROVE  LET all == Len(Codes(s))
         IN  all \in Nat /\ Len(s) \in Nat /\ Len(s) <= 4 * all /\ 4 * all <= Len(s) + 3
<1> DEFINE n == (Len(s) + 3) \div 4
<1>1. Len(s) \in Nat /\ Len(s) + 3 \in Int /\ 4 \in Nat \ {0}
  OBVIOUS
<1>2. n \in Int /\ n * 4 <= Len(s) + 3 /\ Len(s) + 3 < n * 4 + 4
  BY ONLY <1>1, Quotient
<1>3. Codes(s) \in Seq([1..4 -> Char]) /\ Codes(s) = [k \in 1..n |-> Code(Chars(s, k))]
  BY CodesType DEF Codes
<1> HIDE DEF n
<1>4. n \in Nat /\ Len(s) <= 4 * n /\ 4 * n <= Len(s) + 3
  BY ONLY <1>1, <1>2
<1>5. Len(Codes(s)) = n
  BY ONLY <1>3, <1>4
<1>6. QED BY ONLY <1>1, <1>4, <1>5

CodeAt(s, n) == [i \in 1..4 |-> IF 4 * n + i <= Len(s) THEN s[4 * n + i] ELSE 0]

LEMMA CodesAre ==
  ASSUME NEW s \in Seq(Character), NEW n \in Nat, n < Len(Codes(s))
  PROVE  Codes(s)[n + 1] = CodeAt(s, n)
<1> DEFINE k == n + 1
           first == 4 * k - 3
           last == IF 4 * k < Len(s) THEN 4 * k ELSE Len(s)
           chars == SubSeq(s, first, last)
<1>1. Len(Codes(s)) \in Nat /\ Len(s) \in Nat /\ 4 * Len(Codes(s)) <= Len(s) + 3
  BY CodeCount
<1>2. Codes(s)[k] = Code(chars)
  <2>1. k \in DOMAIN Codes(s)
    <3>1. Codes(s) \in Seq([1..4 -> Char])
      BY CodesType
    <3>2. k \in 1..Len(Codes(s))
      BY <1>1
    <3>3. QED BY ONLY <3>1, <3>2
  <2>2. Codes(s)[k] = Code(Chars(s, k))
    BY <2>1 DEF Codes
  <2>3. QED BY <2>2 DEF Chars
<1>3. /\ first = 4 * n + 1 /\ first \in Nat /\ last \in Nat /\ first <= last /\ last <= Len(s)
      /\ last - first + 1 \in Nat
      /\ \A i \in 1..4 : i <= last - first + 1 <=> 4 * n + i <= Len(s)
  BY ONLY <1>1, n \in Nat, n < Len(Codes(s))
<1>4. /\ Len(chars) = last - first + 1
      /\ \A i \in 1..(last - first + 1) : chars[i] = s[4 * n + i]
  <2> HIDE DEF last, first
  <2>1. \A i \in first..last : s[i] \in Character
    BY <1>3
  <2>2. /\ Len(chars) = IF first <= last THEN last - first + 1 ELSE 0
        /\ \A i \in 1..(last - first + 1) : chars[i] = s[first + i - 1]
    BY <1>3, <2>1, SubSeqProperties
  <2>3. \A i \in 1..(last - first + 1) : first + i - 1 = 4 * n + i
    BY ONLY <1>3, n \in Nat
  <2>4. QED BY ONLY <1>3, <2>2, <2>3
<1> HIDE DEF chars, last, first
<1>5. \A i \in 1..4 : (IF i <= Len(chars) THEN chars[i] ELSE 0)
                      = (IF 4 * n + i <= Len(s) THEN s[4 * n + i] ELSE 0)
  <2>1. \A i \in 1..4 : i <= Len(chars) => i \in 1..(last - first + 1)
    BY ONLY <1>3, <1>4
  <2>2. QED BY ONLY <1>3, <1>4, <2>1
<1>6. QED BY ONLY <1>2, <1>5 DEF Code, CodeAt, k

\* The first of them is none, and only the last of a pass has a newline.
LEMMA CodeTaken ==
  ASSUME NEW s \in Seq(Character), NEW n \in Nat, n < Len(Codes(s))
  PROVE  Taken(Codes(s)[n + 1]) = CodeAt(s, n)
<1>1. Len(Codes(s)) \in Nat /\ Len(s) \in Nat /\ 4 * Len(Codes(s)) <= Len(s) + 3
  BY CodeCount
<1>2. 4 * n + 1 \in 1..Len(s)
  BY ONLY <1>1, n \in Nat, n < Len(Codes(s))
<1>3. s[4 * n + 1] \in Character
  BY <1>2
<1>4. s[4 * n + 1] # 0
  BY <1>3 DEF Character
<1>5. CodeAt(s, n)[1] = s[4 * n + 1]
  BY ONLY <1>1, <1>2 DEF CodeAt
<1>6. QED BY <1>4, <1>5, CodesAre DEF Taken

LEMMA NewlineInLast ==
  ASSUME NEW s, EndsLast(s), NEW n \in Nat, n < Len(Codes(s))
  PROVE  HasNewline(Codes(s)[n + 1]) <=> n + 1 = Len(Codes(s))
<1> DEFINE all == Len(Codes(s))
           code == CodeAt(s, n)
<1>1. /\ s \in Seq(Character) /\ Len(s) > 0
      /\ \A i \in 1..Len(s) : s[i] = NL <=> i = Len(s)
  BY DEF EndsLast
<1>2. all \in Nat /\ Len(s) \in Nat /\ Len(s) <= 4 * all /\ 4 * all <= Len(s) + 3 /\ n < all
  BY <1>1, CodeCount
<1>3. Codes(s)[n + 1] = code
  BY <1>1, CodesAre
<1>4. HasNewline(code) <=> \E i \in 1..4 : code[i] = NL
  BY DEF HasNewline
<1>5. \A i \in 1..4 : code[i] = IF 4 * n + i <= Len(s) THEN s[4 * n + i] ELSE 0
  BY DEF CodeAt
<1>6. NL # 0
  BY CharFacts DEF Character
<1> HIDE DEF code, all
<1>7. \A i \in 1..4 : code[i] = NL <=> 4 * n + i = Len(s)
  <2>1. \A i \in 1..4 : 4 * n + i \in Nat /\ (4 * n + i <= Len(s) => 4 * n + i \in 1..Len(s))
    BY ONLY <1>2, n \in Nat
  <2>2. ASSUME NEW i \in 1..4, 4 * n + i <= Len(s) PROVE code[i] = NL <=> 4 * n + i = Len(s)
    BY ONLY <1>1, <1>5, <2>1, <2>2
  <2>3. ASSUME NEW i \in 1..4, ~(4 * n + i <= Len(s)) PROVE code[i] # NL /\ 4 * n + i # Len(s)
    <3>1. code[i] = 0
      BY ONLY <1>5, <2>3
    <3>2. 4 * n + i # Len(s)
      BY ONLY <1>2, <2>1, <2>3
    <3>3. QED BY ONLY <1>6, <3>1, <3>2
  <2>4. QED BY <2>2, <2>3
<1>8. (\E i \in 1..4 : 4 * n + i = Len(s)) <=> n + 1 = all
  <2>1. ASSUME NEW i \in 1..4, 4 * n + i = Len(s) PROVE n + 1 = all
    BY ONLY <1>2, <2>1, n \in Nat
  <2>2. ASSUME n + 1 = all PROVE \E i \in 1..4 : 4 * n + i = Len(s)
    <3>1. Len(s) - 4 * n \in 1..4 /\ 4 * n + (Len(s) - 4 * n) = Len(s)
      BY ONLY <1>2, <2>2, n \in Nat
    <3>2. QED BY ONLY <3>1
  <2>3. QED BY <2>1, <2>2
<1>9. (\E i \in 1..4 : code[i] = NL) <=> (\E i \in 1..4 : 4 * n + i = Len(s))
  BY ONLY <1>7
<1>10. QED BY <1>3, <1>4, <1>8, <1>9 DEF all

\* What is put together of n codes, and of one more.
LEMMA PaddedType ==
  ASSUME NEW s \in Seq(Character), NEW n \in Nat
  PROVE  /\ Padded(s, n) \in Seq(Char) /\ Len(Padded(s, n)) = 4 * n
         /\ \A i \in 1..(4 * n) : Padded(s, n)[i] = IF i <= Len(s) THEN s[i] ELSE 0
<1> DEFINE m == 4 * n
           p == Padded(s, n)
<1>1. m \in Nat /\ Len(s) \in Nat
  OBVIOUS
<1>2. p = [i \in 1..m |-> IF i <= Len(s) THEN s[i] ELSE 0]
  BY DEF Padded
<1> HIDE DEF m, p
<1>3. \A i \in 1..m : (IF i <= Len(s) THEN s[i] ELSE 0) \in Char
  <2>1. \A i \in 1..m : i <= Len(s) => i \in 1..Len(s)
    BY ONLY <1>1
  <2>2. (\A i \in 1..Len(s) : s[i] \in Char) /\ 0 \in Char
    BY TextIsChars, CharFacts
  <2>3. QED BY ONLY <2>1, <2>2
<1>4. p \in Seq(Char)
  BY ONLY <1>1, <1>2, <1>3
<1>5. Len(p) = m
  BY ONLY <1>1, <1>2, <1>4
<1>6. \A i \in 1..m : p[i] = IF i <= Len(s) THEN s[i] ELSE 0
  BY ONLY <1>2
<1>7. QED BY <1>4, <1>5, <1>6 DEF p, m

LEMMA NothingPadded == \A s : Padded(s, 0) = <<>>
BY DEF Padded

LEMMA PaddedGrows ==
  ASSUME NEW s \in Seq(Character), NEW n \in Nat, n < Len(Codes(s))
  PROVE  Padded(s, n) \o Taken(Codes(s)[n + 1]) = Padded(s, n + 1)
<1> DEFINE p == Padded(s, n)
           q == Padded(s, n + 1)
           code == CodeAt(s, n)
           t == p \o code
<1>1. /\ p \in Seq(Char) /\ Len(p) = 4 * n
      /\ \A i \in 1..(4 * n) : p[i] = IF i <= Len(s) THEN s[i] ELSE 0
  BY PaddedType
<1>2. /\ q \in Seq(Char) /\ Len(q) = 4 * (n + 1)
      /\ \A i \in 1..(4 * (n + 1)) : q[i] = IF i <= Len(s) THEN s[i] ELSE 0
  <2>1. n + 1 \in Nat
    OBVIOUS
  <2>2. QED BY <2>1, PaddedType
<1>3. code \in Seq(Char) /\ Len(code) = 4
  <2>1. Codes(s) \in Seq([1..4 -> Char]) /\ Len(Codes(s)) \in Nat
    BY CodesType, CodeCount
  <2>2. n + 1 \in 1..Len(Codes(s))
    BY <2>1
  <2>3. Codes(s)[n + 1] \in [1..4 -> Char]
    BY ONLY <2>1, <2>2
  <2>4. code \in [1..4 -> Char]
    BY <2>3, CodesAre
  <2> HIDE DEF code
  <2>5. QED BY <2>4, CodeIsText
<1>4. \A i \in 1..4 : code[i] = IF 4 * n + i <= Len(s) THEN s[4 * n + i] ELSE 0
  BY DEF CodeAt
<1>5. Taken(Codes(s)[n + 1]) = code
  BY CodeTaken
<1> HIDE DEF p, q, code
<1>6. /\ t \in Seq(Char) /\ Len(t) = Len(p) + Len(code)
      /\ \A i \in 1..(Len(p) + Len(code)) : t[i] = IF i <= Len(p) THEN p[i] ELSE code[i - Len(p)]
  <2>1. p \in Seq(Char) /\ code \in Seq(Char)
    BY <1>1, <1>3
  <2> HIDE DEF t
  <2>2. QED BY ONLY <2>1, Joined DEF t
<1> HIDE DEF t
<1>7. Len(t) = Len(q) /\ Len(t) = 4 * n + 4
  BY ONLY <1>1, <1>2, <1>3, <1>6, n \in Nat
<1>8. ASSUME NEW i \in 1..Len(t) PROVE t[i] = q[i]
  <2>1. i \in 1..(4 * n + 4) /\ i \in 1..(4 * (n + 1)) /\ i \in 1..(Len(p) + Len(code))
    BY ONLY <1>1, <1>3, <1>7, i \in 1..Len(t), n \in Nat
  <2>2. q[i] = IF i <= Len(s) THEN s[i] ELSE 0
    BY ONLY <1>2, <2>1
  <2>3. CASE i <= 4 * n
    <3>1. i \in 1..(4 * n)
      BY ONLY <2>1, <2>3, n \in Nat
    <3>2. t[i] = p[i]
      BY ONLY <1>1, <1>6, <2>1, <2>3
    <3>3. QED BY ONLY <1>1, <2>2, <3>1, <3>2
  <2>4. CASE ~(i <= 4 * n)
    <3>1. i - 4 * n \in 1..4 /\ 4 * n + (i - 4 * n) = i
      BY ONLY <2>1, <2>4, n \in Nat
    <3>2. t[i] = code[i - 4 * n]
      BY ONLY <1>1, <1>6, <2>1, <2>4
    <3>3. code[i - 4 * n] = IF 4 * n + (i - 4 * n) <= Len(s) THEN s[4 * n + (i - 4 * n)] ELSE 0
      BY ONLY <1>4, <3>1
    <3>4. QED BY ONLY <2>2, <3>1, <3>2, <3>3
  <2>5. QED BY ONLY <2>3, <2>4
<1>9. t = q
  BY ONLY <1>2, <1>6, <1>7, <1>8, SameSequence
<1>10. QED BY <1>5, <1>9 DEF t, p, q

\* The zeros behind a text do not count.
LEMMA SumOfPadded ==
  ASSUME NEW s \in Seq(Character)
  PROVE  CharSum(Padded(s, Len(Codes(s)))) = CharSum(s)
<1> DEFINE all == Len(Codes(s))
           p == Padded(s, all)
           m == Len(s)
<1>1. all \in Nat /\ m \in Nat /\ m <= 4 * all
  BY CodeCount
<1> HIDE DEF all
<1>2. /\ p \in Seq(Char) /\ Len(p) = 4 * all
      /\ \A i \in 1..(4 * all) : p[i] = IF i <= m THEN s[i] ELSE 0
  BY <1>1, PaddedType
<1> HIDE DEF p
<1>3. s \in Seq(Char)
  BY TextIsChars
<1>4. PICK f : Sums(f, s) /\ CharSum(s) = f[m]
  BY <1>3, SumIsLast
<1>5. PICK g : Sums(g, p) /\ CharSum(p) = g[Len(p)]
  BY <1>2, SumIsLast
<1>6. f[m] = g[m]
  <2>1. m \in 0..Len(s) /\ m <= Len(p)
    BY <1>1, <1>2
  <2>2. \A i \in 1..m : s[i] = p[i]
    <3>1. \A i \in 1..m : i \in 1..(4 * all) /\ i <= m
      BY ONLY <1>1
    <3>2. QED BY ONLY <1>2, <3>1
  <2> HIDE DEF m
  <2>3. QED BY ONLY <1>2, <1>3, <1>4, <1>5, <2>1, <2>2, SumsAgree
<1> HIDE DEF m
<1>7. g \in [0..(4 * all) -> Char] /\ \A k \in 1..(4 * all) : g[k] = Plus(g[k - 1], p[k])
  BY <1>2, <1>5 DEF Sums
<1> DEFINE S == {k \in Nat : m + k <= 4 * all => g[m + k] = g[m]}
<1>8. 0 \in S
  BY <1>1
<1>9. ASSUME NEW k \in Nat, k \in S PROVE k + 1 \in S
  <2>1. SUFFICES ASSUME m + (k + 1) <= 4 * all PROVE g[m + (k + 1)] = g[m]
    OBVIOUS
  <2>2. /\ m + (k + 1) \in 1..(4 * all) /\ (m + (k + 1)) - 1 = m + k /\ ~(m + (k + 1) <= m)
        /\ m + k <= 4 * all /\ m \in 0..(4 * all)
    BY ONLY <1>1, <2>1, k \in Nat
  <2>3. p[m + (k + 1)] = 0
    BY ONLY <1>2, <2>2
  <2>4. g[m + k] = g[m]
    BY <1>9, <2>2
  <2>5. g[m + (k + 1)] = Plus(g[m], 0)
    BY ONLY <1>7, <2>2, <2>3, <2>4
  <2>6. g[m] \in Char
    BY ONLY <1>7, <2>2
  <2>7. QED BY <2>5, <2>6, PlusLaws
<1> HIDE DEF S
<1>10. Nat \subseteq S
  BY <1>8, <1>9, Induction
<1>11. g[4 * all] = g[m]
  <2>1. 4 * all - m \in Nat /\ m + (4 * all - m) = 4 * all /\ m + (4 * all - m) <= 4 * all
    BY ONLY <1>1
  <2>2. 4 * all - m \in S
    BY ONLY <1>10, <2>1
  <2>3. g[m + (4 * all - m)] = g[m]
    BY <2>1, <2>2 DEF S
  <2>4. QED BY ONLY <2>1, <2>3
<1>12. QED BY <1>2, <1>4, <1>5, <1>6, <1>11 DEF p, all

-----------------------------------------------------------------------------
(* The fields, found again. *)

\* A text without a zero that a string begins with, up to a zero or its end.
LEMMA CStringIs ==
  ASSUME NEW s \in Seq(Char), NEW t \in Seq(Character), Len(t) <= Len(s),
         \A i \in 1..Len(t) : s[i] = t[i],
         Len(t) = Len(s) \/ s[Len(t) + 1] = 0
  PROVE  CString(s) = t
<1> DEFINE n == Len(t)
           m == Len(s)
           At(i) == (i = m + 1 \/ s[i] = 0) /\ \A j \in 1..(i - 1) : s[j] # 0
           z == CHOOSE i \in 1..(m + 1) : At(i)
<1>1. n \in Nat /\ m \in Nat /\ n <= m /\ (n = m \/ s[n + 1] = 0)
  OBVIOUS
<1>2. \A i \in 1..n : s[i] # 0
  <2>1. \A i \in 1..n : t[i] \in Character
    OBVIOUS
  <2>2. QED BY <2>1 DEF Character
<1> HIDE DEF n, m
<1>3. n + 1 \in 1..(m + 1) /\ At(n + 1)
  <2>1. n + 1 \in 1..(m + 1) /\ (n + 1) - 1 = n /\ (n = m => n + 1 = m + 1)
    BY ONLY <1>1
  <2>2. QED BY ONLY <1>1, <1>2, <2>1
<1>4. ASSUME NEW i \in 1..(m + 1), At(i) PROVE i = n + 1
  <2>1. CASE i < n + 1
    <3>1. i \in 1..n /\ i # m + 1
      BY ONLY <1>1, <2>1, i \in 1..(m + 1)
    <3>2. QED BY ONLY <1>2, <1>4, <3>1
  <2>2. CASE n + 1 < i
    <3>1. n + 1 \in 1..(i - 1) /\ n # m
      BY ONLY <1>1, <2>2, i \in 1..(m + 1)
    <3>2. QED BY ONLY <1>1, <1>4, <3>1
  <2>3. QED BY ONLY <1>1, <2>1, <2>2, i \in 1..(m + 1)
<1>5. z = n + 1
  <2>1. z \in 1..(m + 1) /\ At(z)
    BY ONLY <1>3
  <2> HIDE DEF z
  <2>2. QED BY <1>4, <2>1
<1>6. CString(s) = SubSeq(s, 1, n)
  <2>1. CString(s) = SubSeq(s, 1, z - 1)
    BY DEF CString, m
  <2> HIDE DEF z
  <2>2. z - 1 = n
    BY ONLY <1>1, <1>5
  <2>3. QED BY ONLY <2>1, <2>2
<1> DEFINE c == SubSeq(s, 1, n)
<1>7. c \in Seq(Char) /\ Len(c) = n /\ \A j \in 1..n : c[j] = s[j]
  <2>1. n \in 0..Len(s)
    BY <1>1 DEF m
  <2>2. QED BY <2>1, Pieces
<1> HIDE DEF c
<1>8. c = t
  <2>1. t \in Seq(Char)
    BY TextIsChars
  <2>2. Len(c) = Len(t) /\ \A i \in 1..Len(c) : c[i] = t[i]
    BY <1>7 DEF n
  <2>3. QED BY ONLY <1>7, <2>1, <2>2, SameSequence
<1>9. QED BY <1>6, <1>8 DEF c

LEMMA PieceFrom ==
  ASSUME NEW S, NEW s \in Seq(S), NEW a \in Nat, NEW b \in Nat, a <= b, b <= Len(s)
  PROVE  /\ SubSeq(s, a + 1, b) \in Seq(S) /\ Len(SubSeq(s, a + 1, b)) = b - a
         /\ \A i \in 1..(b - a) : SubSeq(s, a + 1, b)[i] = s[a + i]
<1> DEFINE first == a + 1
           piece == SubSeq(s, first, b)
<1>1. Len(s) \in Nat
  OBVIOUS
<1>2. /\ first \in Nat /\ b - first + 1 = b - a /\ b - a \in Nat
      /\ \A i \in first..b : i \in 1..Len(s)
      /\ \A i \in 1..(b - a) : first + i - 1 = a + i
      /\ first <= b <=> b - a # 0
  BY ONLY <1>1, a \in Nat, b \in Nat, a <= b, b <= Len(s)
<1> HIDE DEF first
<1>3. \A i \in first..b : s[i] \in S
  BY <1>2
<1>4. /\ piece \in Seq(S)
      /\ Len(piece) = IF first <= b THEN b - first + 1 ELSE 0
      /\ \A i \in 1..(b - first + 1) : piece[i] = s[first + i - 1]
  BY <1>2, <1>3, SubSeqProperties
<1> HIDE DEF piece
<1>5. piece \in Seq(S) /\ Len(piece) = b - a /\ \A i \in 1..(b - a) : piece[i] = s[a + i]
  BY ONLY <1>2, <1>4
<1>6. QED BY <1>5 DEF piece, first

\* The piece of a text that reads t.
LEMMA PieceReads ==
  ASSUME NEW s \in Seq(Char), NEW t \in Seq(Character), NEW a \in Nat, a + Len(t) <= Len(s),
         \A i \in 1..Len(t) : s[a + i] = t[i]
  PROVE  CString(SubSeq(s, a + 1, a + Len(t))) = t
<1> DEFINE n == Len(t)
           c == SubSeq(s, a + 1, a + n)
<1>1. n \in Nat /\ Len(s) \in Nat /\ a + n <= Len(s)
  OBVIOUS
<1>2. c \in Seq(Char) /\ Len(c) = n /\ \A i \in 1..n : c[i] = s[a + i]
  <2> DEFINE b == a + n
  <2> HIDE DEF n
  <2>1. b \in Nat /\ a <= b /\ b <= Len(s) /\ b - a = n
    BY ONLY <1>1, a \in Nat
  <2> HIDE DEF b
  <2> DEFINE piece == SubSeq(s, a + 1, b)
  <2> HIDE DEF piece
  <2>2. piece \in Seq(Char) /\ Len(piece) = b - a /\ \A i \in 1..(b - a) : piece[i] = s[a + i]
    BY ONLY <2>1, s \in Seq(Char), a \in Nat, PieceFrom DEF piece
  <2>3. piece \in Seq(Char) /\ Len(piece) = n /\ \A i \in 1..n : piece[i] = s[a + i]
    BY ONLY <2>1, <2>2
  <2>4. QED BY <2>3 DEF piece, b
<1> HIDE DEF c
<1>3. Len(t) <= Len(c) /\ Len(t) = Len(c) /\ \A i \in 1..Len(t) : c[i] = t[i]
  BY <1>1, <1>2
<1>4. CString(c) = t
  BY ONLY <1>2, <1>3, CStringIs, t \in Seq(Character)
<1>5. QED BY <1>4 DEF c, n

LEMMA IndexIs ==
  ASSUME NEW s \in Seq(Char), NEW char, NEW from \in Nat, NEW i \in Nat, from <= i,
         i < Len(CString(s)), s[i + 1] = char, \A j \in from..(i - 1) : s[j + 1] # char
  PROVE  IndexOf(s, char, from) = i
<1> DEFINE m == Len(CString(s))
           at == {j \in from..(m - 1) : s[j + 1] = char}
<1>1. m \in Nat
  BY CStringType
<1>2. i \in at
  BY <1>1
<1>3. ASSUME NEW j \in at PROVE i <= j
  <2>1. j \in from..(m - 1) /\ s[j + 1] = char
    OBVIOUS
  <2>2. ~(j \in from..(i - 1))
    BY <2>1
  <2> HIDE DEF m, at
  <2>3. QED BY ONLY <1>1, <2>1, <2>2, i \in Nat, from \in Nat
<1>4. IndexOf(s, char, from) = IF at = {} THEN -1 ELSE CHOOSE x \in at : \A j \in at : x <= j
  BY DEF IndexOf
<1>5. \A x \in at : x \in Nat
  BY <1>1
<1> HIDE DEF at
<1> DEFINE x == CHOOSE x \in at : \A j \in at : x <= j
<1>6. x \in at /\ \A j \in at : x <= j
  BY ONLY <1>2, <1>3
<1> HIDE DEF x
<1>7. x <= i /\ i <= x /\ x \in Nat
  BY ONLY <1>2, <1>3, <1>5, <1>6
<1>8. x = i
  BY ONLY <1>7, i \in Nat
<1>9. QED BY <1>2, <1>4, <1>8 DEF x

\* The newlines left at a fingerprint.
Left(s) == IF Len(s) % 4 = 0 THEN 0 ELSE 1

WithLeft(c, n) == c.fingerprint \o [i \in 1..n |-> NL]

LEMMA WithLeftIs ==
  ASSUME NEW c \in Channels, NEW n \in 0..1
  PROVE  LET t == WithLeft(c, n)
             f == Len(c.fingerprint)
         IN  /\ t \in Seq(Character) /\ Len(t) = f + n
             /\ \A i \in 1..f : t[i] = c.fingerprint[i]
             /\ n = 1 => t[f + 1] = NL
<1> DEFINE fp == c.fingerprint
           nl == [i \in 1..n |-> NL]
           t == fp \o nl
<1>1. fp \in Seq(Character)
  BY FieldsArePlain DEF PlainField
<1>2. nl \in Seq(Character) /\ Len(nl) = n /\ (n = 1 => nl[1] = NL)
  <2>1. NL \in Character /\ n \in Nat
    BY CharFacts
  <2>2. nl \in Seq(Character)
    BY ONLY <2>1
  <2>3. Len(nl) = n
    BY ONLY <2>1, <2>2
  <2>4. n = 1 => nl[1] = NL
    OBVIOUS
  <2>5. QED BY ONLY <2>2, <2>3, <2>4
<1> HIDE DEF fp, nl
<1>3. t \in Seq(Character) /\ Parts(t, fp, nl)
  BY ONLY <1>1, <1>2, JoinedText
<1>4. WithLeft(c, n) = t
  BY DEF WithLeft, fp, nl
<1> HIDE DEF t
<1>5. n = 1 => t[Len(fp) + 1] = NL
  BY ONLY <1>2, <1>3 DEF Parts
<1>6. QED BY ONLY <1>2, <1>3, <1>4, <1>5 DEF Parts, fp

\* The channel comes out of the codes of its text, with one newline more unless the
\* text filled its last code.
LEMMA SplitIs ==
  ASSUME NEW c \in Channels
  PROVE  LET s == ShareString(c) IN Split(Padded(s, Len(Codes(s)))) = WithNewlines(c, Left(s))
<1> DEFINE s == ShareString(c)
           all == Len(Codes(s))
           p == Padded(s, all)
           m == Len(s)
           n == Left(s)
           host == c.host
           url == c.url
           fp == c.fingerprint
           h == Len(host)
           u == Len(url)
           f == Len(fp)
           last == WithLeft(c, n)
<1>1. LaidOut(s, host, url, fp)
  BY ShareStringIs
<1>2. /\ PlainField(host) /\ PlainField(url) /\ PlainField(fp)
      /\ c = [host |-> host, url |-> url, fingerprint |-> fp]
  BY FieldsArePlain
<1>3. h \in Nat /\ u \in Nat /\ f \in Nat
  BY <1>2 DEF PlainField
<1>4. n \in 0..1
  BY DEF Left
<1>5. /\ last \in Seq(Character) /\ Len(last) = f + n
      /\ \A i \in 1..f : last[i] = fp[i]
      /\ n = 1 => last[f + 1] = NL
  BY <1>4, WithLeftIs
<1>6. [c EXCEPT !.fingerprint = last] = [host |-> host, url |-> url, fingerprint |-> last]
  <2> HIDE DEF host, url, fp, last
  <2>1. QED BY <1>2
<1>7. WithNewlines(c, n) = [c EXCEPT !.fingerprint = last]
  BY DEF WithNewlines, WithLeft
<1>8. n = IF m % 4 = 0 THEN 0 ELSE 1
  BY DEF Left
<1> HIDE DEF s, host, url, fp, last, n
<1>9. s \in Seq(Character) /\ m = h + u + f + 3
  BY ONLY <1>1 DEF LaidOut
<1>10. all \in Nat /\ m \in Nat /\ m <= 4 * all /\ 4 * all <= m + 3
  BY ONLY <1>9, CodeCount
<1> HIDE DEF all
<1>11. /\ p \in Seq(Char) /\ Len(p) = 4 * all
       /\ \A i \in 1..(4 * all) : p[i] = IF i <= m THEN s[i] ELSE 0
  BY ONLY <1>9, <1>10, PaddedType
<1> HIDE DEF p
<1>12. (\A i \in 1..m : p[i] = s[i]) /\ (m < 4 * all => p[m + 1] = 0)
  <2>1. /\ \A i \in 1..m : i \in 1..(4 * all) /\ i <= m
        /\ m < 4 * all => m + 1 \in 1..(4 * all) /\ ~(m + 1 <= m)
    BY ONLY <1>10
  <2>2. QED BY ONLY <1>11, <2>1
<1>13. CString(p) = s
  <2>1. m <= Len(p) /\ (m = Len(p) \/ m < 4 * all)
    BY ONLY <1>10, <1>11
  <2>2. m = Len(p) \/ p[m + 1] = 0
    BY ONLY <1>12, <2>1
  <2>3. QED BY ONLY <1>9, <1>11, <1>12, <2>1, <2>2, CStringIs
<1> HIDE DEF h, u, f, m
<1>14. /\ \A i \in 1..h : p[i] = host[i] /\ host[i] # CR
       /\ p[h + 1] = CR
       /\ \A i \in 1..u : p[h + 1 + i] = url[i] /\ url[i] # CR
       /\ p[h + u + 2] = CR
       /\ \A i \in 1..f : p[h + u + 2 + i] = fp[i]
       /\ p[h + u + 2 + (f + 1)] = NL
  <2>1. /\ \A i \in 1..h : i \in 1..m
        /\ h + 1 \in 1..m /\ h + u + 2 \in 1..m /\ h + u + f + 3 \in 1..m
        /\ \A i \in 1..u : h + 1 + i \in 1..m
        /\ \A i \in 1..f : h + u + 2 + i \in 1..m
        /\ h + u + 2 + (f + 1) = h + u + f + 3
    BY ONLY <1>3, <1>9
  <2>2. /\ \A i \in 1..h : s[i] = host[i]
        /\ s[h + 1] = CR
        /\ \A i \in 1..u : s[h + 1 + i] = url[i]
        /\ s[h + u + 2] = CR
        /\ \A i \in 1..f : s[h + u + 2 + i] = fp[i]
        /\ s[h + u + f + 3] = NL
    BY <1>1 DEF LaidOut, h, u, f
  <2>3. (\A i \in 1..h : host[i] # CR) /\ (\A i \in 1..u : url[i] # CR)
    BY <1>2 DEF PlainField, h, u
  <2>4. p[h + 1] = CR /\ p[h + u + 2] = CR /\ p[h + u + 2 + (f + 1)] = NL
    BY ONLY <1>12, <2>1, <2>2
  <2>5. \A i \in 1..h : p[i] = host[i]
    BY ONLY <1>12, <2>1, <2>2
  <2>6. \A i \in 1..u : p[h + 1 + i] = url[i]
    BY ONLY <1>12, <2>1, <2>2
  <2>7. \A i \in 1..f : p[h + u + 2 + i] = fp[i]
    BY ONLY <1>12, <2>1, <2>2
  <2>8. QED BY ONLY <2>3, <2>4, <2>5, <2>6, <2>7
<1> DEFINE second == h + 1 + u
<1>15. IndexOf(p, CR, 0) = h
  <2>1. 0 \in Nat /\ 0 <= h /\ h < Len(CString(p))
    <3>1. Len(CString(p)) = m
      BY <1>13 DEF m
    <3>2. QED BY ONLY <1>3, <1>9, <3>1
  <2>2. \A j \in 0..(h - 1) : p[j + 1] # CR
    <3>1. \A j \in 0..(h - 1) : j + 1 \in 1..h
      BY ONLY <1>3
    <3>2. QED BY ONLY <1>14, <3>1
  <2>3. QED BY ONLY <1>3, <1>11, <1>14, <2>1, <2>2, IndexIs
<1>16. IndexOf(p, CR, h + 1) = second
  <2> DEFINE from == h + 1
  <2>1. /\ from \in Nat /\ second \in Nat /\ from <= second /\ second < Len(CString(p))
        /\ second + 1 = h + u + 2
    <3>1. Len(CString(p)) = m
      BY <1>13 DEF m
    <3>2. QED BY ONLY <1>3, <1>9, <3>1
  <2>2. \A j \in from..(second - 1) : p[j + 1] # CR
    <3>1. \A j \in from..(second - 1) : j - h \in 1..u /\ h + 1 + (j - h) = j + 1
      BY ONLY <1>3
    <3>2. QED BY ONLY <1>14, <3>1
  <2>3. p[second + 1] = CR
    BY ONLY <1>14, <2>1
  <2> HIDE DEF from, second
  <2>4. IndexOf(p, CR, from) = second
    BY ONLY <1>11, <2>1, <2>2, <2>3, IndexIs
  <2>5. QED BY <2>4 DEF from
<1>17. Split(p) = [host        |-> Substring(p, 0, h),
                   url         |-> Substring(p, h + 1, second),
                   fingerprint |-> Substring(p, second + 1, 4 * all - 1)]
  <2> HIDE DEF second
  <2>1. QED BY ONLY <1>11, <1>15, <1>16 DEF Split
<1>18. ASSUME NEW left \in Nat, NEW right \in Nat, left <= right
       PROVE  Substring(p, left, right) = CString(SubSeq(p, left + 1, right))
  <2>1. right # -1
    OBVIOUS
  <2>2. QED BY ONLY <1>18, <2>1 DEF Substring
<1>19. Substring(p, 0, h) = host
  <2>1. 0 \in Nat /\ 0 <= h /\ 0 + h = h /\ 0 + h <= Len(p) /\ \A i \in 1..h : 0 + i = i
    BY ONLY <1>3, <1>9, <1>10, <1>11
  <2>2. \A i \in 1..h : p[0 + i] = host[i]
    BY ONLY <1>14, <2>1
  <2>3. host \in Seq(Character) /\ h = Len(host)
    BY <1>2 DEF PlainField, h
  <2>4. CString(SubSeq(p, 0 + 1, 0 + Len(host))) = host
    BY ONLY <1>11, <2>1, <2>2, <2>3, PieceReads
  <2>5. Substring(p, 0, h) = CString(SubSeq(p, 0 + 1, h))
    BY ONLY <1>3, <1>18, <2>1
  <2>6. QED BY ONLY <2>1, <2>3, <2>4, <2>5
<1>20. Substring(p, h + 1, second) = url
  <2> DEFINE from == h + 1
  <2>1. from \in Nat /\ second \in Nat /\ from <= second /\ from + u = second /\ from + u <= Len(p)
    BY ONLY <1>3, <1>9, <1>10, <1>11
  <2>2. \A i \in 1..u : p[from + i] = url[i]
    BY ONLY <1>14
  <2>3. url \in Seq(Character) /\ u = Len(url)
    BY <1>2 DEF PlainField, u
  <2> HIDE DEF from, second
  <2>4. CString(SubSeq(p, from + 1, from + Len(url))) = url
    BY ONLY <1>11, <2>1, <2>2, <2>3, PieceReads
  <2>5. Substring(p, from, second) = CString(SubSeq(p, from + 1, second))
    BY ONLY <1>18, <2>1
  <2>6. Substring(p, from, second) = url
    BY ONLY <2>1, <2>3, <2>4, <2>5
  <2>7. QED BY <2>6 DEF from
<1>21. Substring(p, second + 1, 4 * all - 1) = last
  <2> DEFINE from == second + 1
             right == 4 * all - 1
             r == SubSeq(p, from + 1, right)
  <2>1. /\ from \in Nat /\ right \in Nat /\ from <= right /\ from = h + u + 2
        /\ right = from + (4 * all - m + f) /\ right <= Len(p)
    BY ONLY <1>3, <1>9, <1>10, <1>11
  <2>2. /\ n = 0 => 4 * all = m
        /\ n = 1 => m < 4 * all
    BY ONLY <1>8, <1>10
  <2> HIDE DEF from, right, second
  <2>3. Substring(p, from, right) = CString(r)
    BY ONLY <1>18, <2>1
  <2>4. r \in Seq(Char) /\ Len(r) = right - from /\ \A i \in 1..(right - from) : r[i] = p[from + i]
    <3> HIDE DEF r
    <3>1. p \in Seq(Char) /\ from \in Nat /\ right \in Nat /\ from <= right /\ right <= Len(p)
      BY ONLY <1>11, <2>1
    <3>2. QED BY ONLY <3>1, PieceFrom DEF r
  <2> HIDE DEF r
  <2>5. Len(r) = 4 * all - m + f /\ Len(r) \in Nat /\ f + n <= Len(r)
    BY ONLY <1>3, <1>4, <1>10, <2>1, <2>2, <2>4
  <2>6. ASSUME NEW i \in 1..Len(last) PROVE r[i] = last[i]
    <3>1. i \in 1..(right - from) /\ (i \in 1..f \/ (n = 1 /\ i = f + 1))
      BY ONLY <1>3, <1>4, <1>5, <2>4, <2>5, i \in 1..Len(last)
    <3>2. r[i] = p[from + i]
      BY ONLY <2>4, <3>1
    <3>3. CASE i \in 1..f
      BY ONLY <1>5, <1>14, <2>1, <3>2, <3>3
    <3>4. CASE n = 1 /\ i = f + 1
      <4>1. p[from + i] = NL
        BY ONLY <1>14, <2>1, <3>4
      <4>2. last[i] = NL
        BY ONLY <1>5, <3>4
      <4>3. QED BY ONLY <3>2, <4>1, <4>2
    <3>5. QED BY ONLY <3>1, <3>3, <3>4
  <2>7. Len(last) = Len(r) \/ r[Len(last) + 1] = 0
    <3>1. CASE n = 0
      BY ONLY <1>3, <1>5, <1>10, <2>2, <2>5, <3>1
    <3>2. CASE n = 1 /\ f + 1 < Len(r)
      <4>1. /\ f + 2 \in 1..(right - from) /\ from + (f + 2) = m + 1 /\ Len(last) + 1 = f + 2
            /\ m < 4 * all
        BY ONLY <1>3, <1>5, <1>9, <1>10, <2>1, <2>4, <2>5, <3>2
      <4>2. r[f + 2] = p[m + 1]
        BY ONLY <2>4, <4>1
      <4>3. QED BY ONLY <1>12, <4>1, <4>2
    <3>3. CASE n = 1 /\ ~(f + 1 < Len(r))
      BY ONLY <1>3, <1>5, <2>5, <3>3
    <3>4. QED BY ONLY <1>4, <3>1, <3>2, <3>3
  <2>8. Len(last) <= Len(r)
    BY ONLY <1>5, <2>5
  <2>9. CString(r) = last
    BY ONLY <1>5, <2>4, <2>6, <2>7, <2>8, CStringIs
  <2>10. QED BY <2>3, <2>9 DEF from, right
<1>22. Split(p) = [host |-> host, url |-> url, fingerprint |-> last]
  <2> HIDE DEF second
  <2>1. QED BY ONLY <1>17, <1>19, <1>20, <1>21
<1>23. Split(p) = WithNewlines(c, n)
  BY ONLY <1>6, <1>7, <1>22
<1>24. QED BY <1>23 DEF p, all, s, n

-----------------------------------------------------------------------------
(* A receiver in step with its sender. *)

Pass(s)     == Append(Codes(s), ChecksumCode(s))
RestOfPass(s, n) == SubSeq(Pass(s), n + 1, Len(Codes(s)) + 1)

\* It holds what n codes bring; it waits for the next, or has it; or it has the sum too.
HoldsOf(s, n) ==
  /\ pc \in {"receive", "input"} /\ ~dataCompleted /\ ~dataVerified
  /\ received = Padded(s, n) /\ stringCompleted = (n = Len(Codes(s)))
Waits(s, n) == captured = NoCode /\ (outbox = RestOfPass(s, n) \/ (n = 0 /\ outbox = <<>>))
HasNext(s, n) == captured = Pass(s)[n + 1] /\ (outbox = RestOfPass(s, n + 1) \/ n = Len(Codes(s)))
HasAll(s) ==
  /\ pc = "input" /\ dataCompleted /\ dataVerified /\ stringCompleted
  /\ received = Padded(s, Len(Codes(s)))

Shares(s) == shareString = s /\ receiveShare

InStepWith(s) ==
  /\ Shares(s)
  /\ \/ \E n \in 0..Len(Codes(s)) : HoldsOf(s, n) /\ (Waits(s, n) \/ HasNext(s, n))
     \/ HasAll(s)

LEMMA InStepIs == ASSUME NEW c PROVE InStep(c) <=> InStepWith(ShareString(c))
BY DEF InStep, InStepWith, Shares, HoldsOf, Waits, HasNext, HasAll, Pass, RestOfPass

LEMMA InStepAfter == ASSUME NEW c PROVE InStep(c)' <=> InStepWith(ShareString(c))'
BY DEF InStep, InStepWith, Shares, HoldsOf, Waits, HasNext, HasAll, Pass, RestOfPass

\* The codes of a pass, and its rests.
LEMMA PassIs ==
  ASSUME NEW s \in Seq(Character)
  PROVE  LET all == Len(Codes(s))
         IN  /\ all \in Nat
             /\ RestOfPass(s, 0) = Pass(s)
             /\ Pass(s)[all + 1] = ChecksumCode(s)
             /\ \A n \in 0..(all - 1) : Pass(s)[n + 1] = Codes(s)[n + 1]
             /\ \A n \in 0..all :
                  /\ Pass(s)[n + 1] \in [1..4 -> Char]
                  /\ RestOfPass(s, n) # <<>> /\ Head(RestOfPass(s, n)) = Pass(s)[n + 1]
                  /\ Tail(RestOfPass(s, n)) = RestOfPass(s, n + 1)
<1> DEFINE codes == Codes(s)
           all == Len(codes)
           sum == ChecksumCode(s)
           pass == Append(codes, sum)
<1>1. codes \in Seq([1..4 -> Char]) /\ all \in Nat /\ sum \in [1..4 -> Char]
  BY CodesType, CodeCount, ChecksumCodeType
<1>2. Pass(s) = pass /\ \A n : RestOfPass(s, n) = SubSeq(pass, n + 1, all + 1)
  BY DEF Pass, RestOfPass
<1> HIDE DEF codes, sum
<1>3. /\ pass \in Seq([1..4 -> Char]) /\ Len(pass) = all + 1 /\ pass[all + 1] = sum
      /\ \A i \in 1..all : pass[i] = codes[i]
  BY ONLY <1>1
<1> HIDE DEF pass, all
<1>4. \A n \in 0..(all - 1) : pass[n + 1] = codes[n + 1]
  <2>1. \A n \in 0..(all - 1) : n + 1 \in 1..all
    BY ONLY <1>1
  <2>2. QED BY ONLY <1>3, <2>1
<1>5. SubSeq(pass, 0 + 1, all + 1) = pass
  BY ONLY <1>1, <1>3
<1>6. ASSUME NEW n \in 0..all
      PROVE  /\ pass[n + 1] \in [1..4 -> Char]
             /\ SubSeq(pass, n + 1, all + 1) # <<>>
             /\ Head(SubSeq(pass, n + 1, all + 1)) = pass[n + 1]
             /\ Tail(SubSeq(pass, n + 1, all + 1)) = SubSeq(pass, n + 1 + 1, all + 1)
  <2>1. n + 1 \in 1..(all + 1)
    BY ONLY <1>1, n \in 0..all
  <2>2. pass[n + 1] \in [1..4 -> Char]
    BY ONLY <1>3, <2>1
  <2>3. SubSeq(pass, n + 1, all + 1) # <<>>
    <3> DEFINE last == all + 1
               rest == SubSeq(pass, n + 1, last)
    <3>1. last \in Nat /\ n \in Nat /\ n <= last /\ last <= Len(pass) /\ last - n # 0
      BY ONLY <1>1, <1>3, n \in 0..all
    <3> HIDE DEF last
    <3>2. Len(rest) = last - n
      BY ONLY <1>3, <3>1, PieceFrom
    <3>3. Len(<<>>) = 0
      OBVIOUS
    <3> HIDE DEF rest
    <3>4. rest # <<>>
      BY ONLY <3>1, <3>2, <3>3, Zenon
    <3>5. QED BY <3>4 DEF rest, last
  <2>4. /\ Head(SubSeq(pass, n + 1, all + 1)) = pass[n + 1]
        /\ Tail(SubSeq(pass, n + 1, all + 1)) = SubSeq(pass, n + 1 + 1, all + 1)
    <3> DEFINE first == n + 1
               last == all + 1
    <3>1. first \in 1..Len(pass) /\ last \in first..Len(pass)
      BY ONLY <1>1, <1>3, <2>1
    <3> HIDE DEF first, last
    <3>2. /\ Head(SubSeq(pass, first, last)) = pass[first]
          /\ Tail(SubSeq(pass, first, last)) = SubSeq(pass, first + 1, last)
      BY ONLY <1>3, <3>1, HeadTailOfSubSeq
    <3>3. QED BY ONLY <3>2 DEF first, last
  <2>5. QED BY ONLY <2>2, <2>3, <2>4
<1>7. QED BY <1>1, <1>2, <1>3, <1>4, <1>5, <1>6 DEF codes, all, sum

LEMMA CodeIsReal ==
  ASSUME NEW code \in [1..4 -> Char] PROVE code # NoCode /\ code # Overflow
<1>1. DOMAIN code = 1..4
  OBVIOUS
<1>2. QED BY ONLY <1>1 DEF NoCode, Overflow

\* What the receiver holds it holds on, as long as it does nothing.
LEMMA HeldOn ==
  ASSUME NEW s, UNCHANGED receiver
  PROVE  /\ UNCHANGED offered /\ (HasAll(s) => HasAll(s)')
         /\ \A n : HoldsOf(s, n) => HoldsOf(s, n)'
BY DEF receiver, frame, HasAll, HoldsOf

LEMMA StartPassInStep ==
  ASSUME NEW s \in Seq(Character), InStepWith(s), StartPass
  PROVE  InStepWith(s)' /\ UNCHANGED offered
<1> DEFINE all == Len(Codes(s))
<1>1. /\ all \in Nat /\ RestOfPass(s, 0) = Pass(s)
      /\ \A n \in 0..all : RestOfPass(s, n) # <<>>
  BY PassIs
<1>2. Shares(s)
  BY DEF InStepWith
<1>3. Shares(s)' /\ outbox = <<>> /\ outbox' = Pass(s) /\ UNCHANGED receiver /\ captured' = captured
  BY <1>2 DEF StartPass, Shares, Pass, receiver
<1>4. CASE HasAll(s)
  BY <1>3, <1>4, HeldOn DEF InStepWith
<1>5. CASE \E n \in 0..all : HoldsOf(s, n) /\ (Waits(s, n) \/ HasNext(s, n))
  <2>1. PICK n \in 0..all : HoldsOf(s, n) /\ (Waits(s, n) \/ HasNext(s, n))
    BY <1>5
  <2>2. HoldsOf(s, n)' /\ UNCHANGED offered
    BY <1>3, <2>1, HeldOn
  <2>3. CASE Waits(s, n)
    <3>1. captured = NoCode /\ n = 0
      BY <1>1, <1>3, <2>3 DEF Waits
    <3>2. Waits(s, n)'
      BY <1>1, <1>3, <3>1 DEF Waits
    <3>3. QED BY <1>3, <2>2, <3>2 DEF InStepWith
  <2>4. CASE HasNext(s, n)
    <3>1. n # all => n + 1 \in 0..all
      BY ONLY <1>1, n \in 0..all
    <3>2. captured = Pass(s)[n + 1] /\ n = all
      BY <1>1, <1>3, <2>4, <3>1 DEF HasNext
    <3>3. HasNext(s, n)'
      BY <1>3, <3>2 DEF HasNext
    <3>4. QED BY <1>3, <2>2, <3>3 DEF InStepWith
  <2>5. QED BY <2>1, <2>3, <2>4
<1>6. QED BY <1>4, <1>5 DEF InStepWith

LEMMA SendInStep ==
  ASSUME NEW s \in Seq(Character), TypeOK, InStepWith(s), SendNEC, faults' = faults
  PROVE  InStepWith(s)' /\ UNCHANGED offered
<1> DEFINE all == Len(Codes(s))
<1>1. /\ all \in Nat
      /\ \A n \in 0..all :
           /\ Pass(s)[n + 1] \in [1..4 -> Char]
           /\ Head(RestOfPass(s, n)) = Pass(s)[n + 1]
           /\ Tail(RestOfPass(s, n)) = RestOfPass(s, n + 1)
  BY PassIs
<1>2. Shares(s)
  BY DEF InStepWith
<1>3. Shares(s)' /\ outbox # <<>> /\ outbox' = Tail(outbox) /\ UNCHANGED receiver
  BY <1>2 DEF SendNEC, Shares, receiver
<1>4. \/ Listening /\ captured' = Head(outbox)
      \/ ~Listening /\ captured = Overflow
  <2>1. faults \in Nat
    BY FaultsAssumption DEF TypeOK
  <2>2. faults' # faults + 1
    BY ONLY <2>1, faults' = faults
  <2>3. QED BY <1>2, <2>2 DEF SendNEC, Shares
<1>5. CASE HasAll(s)
  BY <1>3, <1>5, HeldOn DEF InStepWith
<1>6. CASE \E n \in 0..all : HoldsOf(s, n) /\ (Waits(s, n) \/ HasNext(s, n))
  <2>1. PICK n \in 0..all : HoldsOf(s, n) /\ (Waits(s, n) \/ HasNext(s, n))
    BY <1>6
  <2>2. HoldsOf(s, n)' /\ UNCHANGED offered
    BY <1>3, <2>1, HeldOn
  <2>3. CASE Waits(s, n)
    <3>1. Listening /\ outbox = RestOfPass(s, n)
      BY <1>3, <2>1, <2>3 DEF Waits, HoldsOf, Listening
    <3>2. captured' = Pass(s)[n + 1] /\ outbox' = RestOfPass(s, n + 1)
      BY <1>1, <1>3, <1>4, <3>1
    <3>3. HasNext(s, n)'
      BY <3>2 DEF HasNext
    <3>4. QED BY <1>3, <2>2, <3>3 DEF InStepWith
  <2>4. CASE HasNext(s, n)
    <3>1. captured \in [1..4 -> Char]
      BY <1>1, <2>4 DEF HasNext
    <3>2. captured # NoCode /\ captured # Overflow
      BY <3>1, CodeIsReal
    <3>3. QED BY <1>4, <3>2 DEF Listening
  <2>5. QED BY <2>1, <2>3, <2>4
<1>7. QED BY <1>5, <1>6 DEF InStepWith

\* The code that is taken.
LEMMA NextIsTaken ==
  ASSUME NEW s \in Seq(Character), InStepWith(s), pc = "receive", captured # NoCode
  PROVE  \E n \in 0..Len(Codes(s)) : HoldsOf(s, n) /\ HasNext(s, n) /\ captured \in [1..4 -> Char]
<1>1. ~HasAll(s)
  BY DEF HasAll
<1>2. PICK n \in 0..Len(Codes(s)) : HoldsOf(s, n) /\ (Waits(s, n) \/ HasNext(s, n))
  BY <1>1 DEF InStepWith
<1>3. HasNext(s, n)
  BY <1>2 DEF Waits
<1>4. captured \in [1..4 -> Char]
  <2>1. Pass(s)[n + 1] \in [1..4 -> Char]
    BY PassIs
  <2>2. QED BY <1>3, <2>1 DEF HasNext
<1>5. QED BY <1>2, <1>3, <1>4

LEMMA NoOverflowInStep ==
  ASSUME NEW s \in Seq(Character), InStepWith(s) PROVE ~DecodeOverflow
<1>1. SUFFICES ASSUME DecodeOverflow PROVE FALSE
  OBVIOUS
<1>2. pc = "receive" /\ captured = Overflow
  BY <1>1 DEF DecodeOverflow
<1>3. Overflow # NoCode
  BY DEF Overflow, NoCode
<1>4. captured \in [1..4 -> Char]
  BY <1>2, <1>3, NextIsTaken
<1>5. QED BY <1>2, <1>4, CodeIsReal

\* A code of the text.
LEMMA TextInStep ==
  ASSUME NEW s, EndsLast(s), InStepWith(s), DecodeText
  PROVE  InStepWith(s)' /\ UNCHANGED offered
<1> DEFINE all == Len(Codes(s))
<1>1. s \in Seq(Character)
  BY DEF EndsLast
<1>2. pc = "receive" /\ captured # NoCode /\ ~stringCompleted
  BY DEF DecodeText
<1>3. PICK n \in 0..all : HoldsOf(s, n) /\ HasNext(s, n)
  BY <1>1, <1>2, NextIsTaken
<1>4. all \in Nat /\ \A i \in 0..(all - 1) : Pass(s)[i + 1] = Codes(s)[i + 1]
  BY <1>1, PassIs
<1>5. n # all
  BY <1>2, <1>3 DEF HoldsOf
<1>6. n \in Nat /\ n < all /\ n \in 0..(all - 1) /\ n + 1 \in 0..all
  BY ONLY <1>4, <1>5, n \in 0..all
<1>7. captured = Codes(s)[n + 1] /\ outbox = RestOfPass(s, n + 1)
  BY <1>3, <1>4, <1>5, <1>6 DEF HasNext
<1>8. received' = Padded(s, n + 1)
  <2>1. received' = Padded(s, n) \o Taken(Codes(s)[n + 1])
    BY <1>3, <1>7 DEF DecodeText, HoldsOf
  <2>2. QED BY <1>1, <1>6, <2>1, PaddedGrows
<1>9. stringCompleted' = (n + 1 = all)
  <2>1. stringCompleted' = HasNewline(Codes(s)[n + 1])
    BY <1>7 DEF DecodeText
  <2>2. HasNewline(Codes(s)[n + 1]) <=> n + 1 = all
    BY <1>6, NewlineInLast
  <2>3. HasNewline(Codes(s)[n + 1]) \in BOOLEAN
    BY DEF HasNewline
  <2>4. QED BY <2>1, <2>2, <2>3
<1>10. HoldsOf(s, n + 1)'
  <2>1. pc' = "input" /\ UNCHANGED <<dataCompleted, dataVerified>>
    BY DEF DecodeText
  <2>2. ~dataCompleted /\ ~dataVerified
    BY <1>3 DEF HoldsOf
  <2>3. QED BY <1>8, <1>9, <2>1, <2>2 DEF HoldsOf
<1>11. Waits(s, n + 1)'
  BY <1>7 DEF DecodeText, Waits, sender
<1>12. Shares(s)' /\ UNCHANGED offered
  BY DEF InStepWith, Shares, DecodeText, sender
<1>13. QED BY <1>6, <1>10, <1>11, <1>12 DEF InStepWith

\* The code of the sum, that is right.
LEMMA SumInStep ==
  ASSUME NEW s \in Seq(Character), TypeOK, InStepWith(s), DecodeChecksum
  PROVE  InStepWith(s)' /\ UNCHANGED offered
<1> DEFINE all == Len(Codes(s))
<1>1. pc = "receive" /\ captured # NoCode /\ stringCompleted
  BY DEF DecodeChecksum
<1>2. PICK n \in 0..all : HoldsOf(s, n) /\ HasNext(s, n)
  BY <1>1, NextIsTaken
<1>3. n = all
  BY <1>1, <1>2 DEF HoldsOf
<1>4. captured = ChecksumCode(s)
  <2>1. Pass(s)[all + 1] = ChecksumCode(s)
    BY PassIs
  <2>2. QED BY <1>2, <1>3, <2>1 DEF HasNext
<1>5. received = Padded(s, all)
  BY <1>2, <1>3 DEF HoldsOf
<1>6. checksumRec = CharSum(s)
  BY <1>5, SumOfPadded DEF TypeOK
<1>7. captured[2] = CharSum(s)
  BY <1>4 DEF ChecksumCode
<1>8. dataVerified'
  BY <1>6, <1>7 DEF DecodeChecksum, Verified
<1>9. HasAll(s)'
  BY <1>1, <1>5, <1>8 DEF DecodeChecksum, HasAll
<1>10. Shares(s)' /\ UNCHANGED offered
  BY DEF InStepWith, Shares, DecodeChecksum, sender
<1>11. QED BY <1>9, <1>10 DEF InStepWith

\* The end of the loop's turn: of the receiving, if the user gives up or the sum is there.
LEMMA InputInStep ==
  ASSUME NEW s, NEW cancel \in BOOLEAN, InStepWith(s), DispatchInput(cancel)
  PROVE  \/ InStepWith(s)' /\ UNCHANGED offered
         \/ /\ pc' = "loop"
            /\ offered' = IF ~dataCompleted THEN offered
                          ELSE offered \cup {Split(Padded(s, Len(Codes(s))))}
<1> DEFINE all == Len(Codes(s))
<1>1. /\ receiveShare' = (receiveShare /\ ~cancel /\ ~dataVerified)
      /\ offered' = IF dataVerified THEN offered \cup {Split(received)} ELSE offered
      /\ cancel \/ dataCompleted => pc' = "loop"
      /\ ~(cancel \/ dataCompleted) => pc' = "receive" /\ UNCHANGED frame
      /\ UNCHANGED <<captured, sender>>
  BY DEF DispatchInput
<1>2. CASE HasAll(s)
  <2>1. dataCompleted /\ dataVerified /\ received = Padded(s, all)
    BY <1>2 DEF HasAll
  <2>2. pc' = "loop"
    BY <1>1, <2>1
  <2>3. QED BY <1>1, <2>1, <2>2
<1>3. CASE \E n \in 0..all : HoldsOf(s, n) /\ (Waits(s, n) \/ HasNext(s, n))
  <2>1. PICK n \in 0..all : HoldsOf(s, n) /\ (Waits(s, n) \/ HasNext(s, n))
    BY <1>3
  <2>2. ~dataCompleted /\ ~dataVerified
    BY <2>1 DEF HoldsOf
  <2>3. UNCHANGED offered
    BY <1>1, <2>2
  <2>4. CASE cancel
    BY <1>1, <2>2, <2>3, <2>4
  <2>5. CASE ~cancel
    <3>1. pc' = "receive" /\ UNCHANGED frame
      BY <1>1, <2>2, <2>5
    <3>2. Shares(s)'
      BY <1>1, <2>2, <2>5 DEF InStepWith, Shares, sender
    <3>3. HoldsOf(s, n)'
      BY <2>1, <3>1 DEF HoldsOf, frame
    <3>4. Waits(s, n)' \/ HasNext(s, n)'
      BY <1>1, <2>1 DEF Waits, HasNext, sender
    <3>5. QED BY <2>3, <3>2, <3>3, <3>4 DEF InStepWith
  <2>6. QED BY <2>4, <2>5
<1>4. QED BY <1>2, <1>3 DEF InStepWith

\* A receiver in step with the sender of a channel stays so to the end of the pass, and
\* then the channel is offered, exact but for the last newline (loop, both halves).
LEMMA StaysInStep ==
  ASSUME TypeOK, [Next]_vars, NEW c \in Channels, InStep(c), faults' = faults, ~ResetReceiver
  PROVE  \/ InStep(c)' /\ UNCHANGED offered
         \/ /\ pc' = "loop"
            /\ offered' = IF ~dataCompleted THEN offered
                          ELSE offered \cup {WithNewlines(c, Left(ShareString(c)))}
<1> DEFINE s == ShareString(c)
<1>1. EndsLast(s) /\ s \in Seq(Character) /\ s # <<>>
  <2>1. EndsLast(s)
    BY NewlineIsLast
  <2>2. s \in Seq(Character) /\ Len(s) > 0
    BY <2>1 DEF EndsLast
  <2> HIDE DEF s
  <2>3. QED BY <2>1, <2>2
<1>2. InStepWith(s) /\ (InStep(c)' <=> InStepWith(s)')
  BY InStepIs, InStepAfter
<1>3. Split(Padded(s, Len(Codes(s)))) = WithNewlines(c, Left(s))
  BY SplitIs
<1> HIDE DEF s
<1>4. shareString = s /\ pc \in {"receive", "input"} /\ faults \in Nat
  BY <1>2, FaultsAssumption DEF InStepWith, Shares, HoldsOf, HasAll, TypeOK
<1>5. ~(faults' = faults + 1)
  BY ONLY <1>4, faults' = faults
<1>6. CASE StartPass
  BY <1>1, <1>2, <1>6, StartPassInStep
<1>7. CASE SendNEC
  BY <1>1, <1>2, <1>7, SendInStep
<1>8. CASE DecodeText
  BY <1>1, <1>2, <1>8, TextInStep
<1>9. CASE DecodeChecksum
  BY <1>1, <1>2, <1>9, SumInStep
<1>10. CASE \E cancel \in BOOLEAN : DispatchInput(cancel)
  BY <1>2, <1>3, <1>10, InputInStep DEF s
<1>11. CASE UNCHANGED vars
  <2>1. UNCHANGED receiver /\ UNCHANGED <<shareString, outbox, captured>>
    BY <1>11 DEF vars, sender
  <2>2. InStepWith(s)'
    BY <1>2, <2>1 DEF InStepWith, Shares, HoldsOf, Waits, HasNext, HasAll, receiver, frame
  <2>3. QED BY <1>2, <2>1, <2>2 DEF receiver
<1>12. ~Share /\ ~StartReceiving /\ ~CancelOutside /\ ~EnterReceive
  BY <1>1, <1>4 DEF Share, StartReceiving, CancelOutside, EnterReceive
<1>13. ~CancelSharing /\ ~ResetSender /\ ~Noise
  BY <1>5 DEF CancelSharing, ResetSender, Noise
<1>14. ~DecodeOverflow
  BY <1>1, <1>2, NoOverflowInStep
<1>15. QED
  <2>1. CASE UNCHANGED vars
    BY <1>11, <2>1
  <2>2. CASE Next
    BY <1>6, <1>7, <1>8, <1>9, <1>10, <1>12, <1>13, <1>14, <2>2
       DEF Next, SenderNext, ReceiverNext, UserNext
  <2>3. QED BY <2>1, <2>2

\* What a receiver gets that was in step with its sender all along is the channel that
\* was sent, whatever its fields are: only a newline may be left at its fingerprint.
THEOREM InStepExact == Spec => InStepIsExact
<1>1. TypeOK /\ [Next]_vars =>
        [\A c \in Channels : InStep(c) /\ faults' = faults /\ ~ResetReceiver =>
           \/ InStep(c)' /\ UNCHANGED offered
           \/ /\ pc' = "loop"
              /\ offered' = IF ~dataCompleted THEN offered
                            ELSE offered \cup {WithNewlines(c, IF Len(ShareString(c)) % 4 = 0
                                                               THEN 0 ELSE 1)}]_vars
  BY StaysInStep DEF Left
<1>2. QED BY <1>1, TypeCorrect, PTL DEF Spec, InStepIsExact
=============================================================================

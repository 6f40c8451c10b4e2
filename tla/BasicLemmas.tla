---------------------------- MODULE BasicLemmas ----------------------------
(***************************************************************************)
(* Facts that the proofs of several components need: division by a sector's  *)
(* size, the least element of a set of numbers, induction, pieces of a       *)
(* sequence, that recursive definitions define something; and of texts, what *)
(* the operators of Kmp and UrlEncode make of them: the search for a needle, *)
(* the decoding of a value, whole or cut off, and the fields of a form and   *)
(* of a file.                                                               *)
(***************************************************************************)
EXTENDS Integers, Sequences, UrlEncode, Kmp, WellFoundedInduction, TLAPS

\* The quotient, and the start and the end of the block it numbers.
LEMMA Quotient ==
  ASSUME NEW a \in Int, NEW d \in Nat \ {0}
  PROVE  /\ a \div d \in Int
         /\ (a \div d) * d <= a
         /\ a < (a \div d) * d + d
OBVIOUS

\* Blocks do not overlap.
LEMMA BlocksApart ==
  ASSUME NEW q \in Int, NEW r \in Int, NEW d \in Nat \ {0}, q < r
  PROVE  q * d + d <= r * d
OBVIOUS

\* The quotient is the number of the block, and no other.
LEMMA QuotientUnique ==
  ASSUME NEW a \in Int, NEW q \in Int, NEW d \in Nat \ {0}, q * d <= a, a < q * d + d
  PROVE  a \div d = q
<1>1. a \div d \in Int /\ (a \div d) * d <= a /\ a < (a \div d) * d + d
  BY Quotient
<1>2. ~(a \div d < q)
  BY <1>1, BlocksApart
<1>3. ~(q < a \div d)
  BY <1>1, BlocksApart
<1>4. QED BY <1>1, <1>2, <1>3

\* The quotient grows with the number, and by one at most from one number to the next.
LEMMA QuotientMonotone ==
  ASSUME NEW a \in Int, NEW b \in Int, NEW d \in Nat \ {0}, a <= b
  PROVE  a \div d <= b \div d
<1>1. /\ a \div d \in Int /\ (a \div d) * d <= a /\ a < (a \div d) * d + d
      /\ b \div d \in Int /\ (b \div d) * d <= b /\ b < (b \div d) * d + d
  BY Quotient
<1>2. ~(b \div d < a \div d)
  BY <1>1, BlocksApart
<1>3. QED BY <1>1, <1>2

LEMMA QuotientOfNext ==
  ASSUME NEW a \in Int, NEW d \in Nat \ {0}
  PROVE  a \div d <= (a - 1) \div d + 1
<1> DEFINE q == (a - 1) \div d
<1>1. q \in Int /\ a - 1 < q * d + d
  BY Quotient
<1>2. a \div d \in Int /\ (a \div d) * d <= a
  BY Quotient
<1>3. (q + 1) * d = q * d + d
  BY <1>1
<1>4. ~(q + 1 < a \div d)
  BY <1>1, <1>2, <1>3, BlocksApart, q + 1 \in Int
<1>5. QED BY <1>1, <1>2, <1>4

\* In blocks of whole words a word does not reach into the next block.
LEMMA WordInBlock ==
  ASSUME NEW a \in Nat, NEW d \in Nat \ {0}, a % 4 = 0, d % 4 = 0
  PROVE  (a + 3) \div d = a \div d
<1> DEFINE q == a \div d
<1>1. q \in Int /\ q * d <= a /\ a < q * d + d
  BY Quotient
<1>2. PICK m \in Nat : d = 4 * m
  <2>1. d = 4 * (d \div 4) /\ d \div 4 \in Nat
    OBVIOUS
  <2>2. QED BY <2>1
<1>3. PICK k \in Nat : a = 4 * k
  <2>1. a = 4 * (a \div 4) /\ a \div 4 \in Nat
    OBVIOUS
  <2>2. QED BY <2>1
<1>4. q * d = 4 * (q * m) /\ q * m \in Int
  BY <1>1, <1>2
<1>5. a + 3 < q * d + d
  BY <1>1, <1>2, <1>3, <1>4
<1>6. QED BY <1>1, <1>5, QuotientUnique, a + 3 \in Int

\* Multiples of d: the sectors begin at them.
LEMMA Multiple ==
  ASSUME NEW a \in Int, NEW q \in Int, NEW d \in Nat \ {0}
  PROVE  /\ a % d = 0 => a = (a \div d) * d
         /\ a = q * d => a % d = 0
<1>1. a % d = a - (a \div d) * d
  OBVIOUS
<1>2. a = q * d => a \div d = q
  BY QuotientUnique
<1>3. a \div d \in Int
  BY Quotient
<1>4. QED BY <1>1, <1>2, <1>3

LEMMA MultiplesSum ==
  ASSUME NEW a \in Int, NEW b \in Int, NEW d \in Nat \ {0}, a % d = 0, b % d = 0
  PROVE  /\ (a + b) % d = 0 /\ (a - b) % d = 0 /\ d % d = 0
         /\ a < b => a + d <= b
<1> DEFINE p == a \div d
           q == b \div d
<1>1. p \in Int /\ q \in Int /\ a = p * d /\ b = q * d
  BY Multiple, Quotient
<1> HIDE DEF p, q
<1>2. a + b = (p + q) * d /\ a - b = (p - q) * d /\ d = 1 * d
  BY <1>1
<1>3. (a + b) % d = 0 /\ (a - b) % d = 0 /\ d % d = 0
  <2>1. /\ a + b \in Int /\ a - b \in Int /\ d \in Int
        /\ p + q \in Int /\ p - q \in Int /\ 1 \in Int
    BY <1>1
  <2>2. QED BY ONLY <1>2, <2>1, Multiple
<1>4. p < q => p * d + d <= q * d
  BY <1>1, BlocksApart
<1>5. a < b => p < q
  <2>1. ~(p < q) => q < p \/ p = q
    BY <1>1
  <2>2. q < p => q * d + d <= p * d
    BY <1>1, BlocksApart
  <2>3. QED BY <1>1, <2>1, <2>2
<1>6. QED BY <1>1, <1>2, <1>3, <1>4, <1>5

\* The block that begins at a.
LEMMA BlockOf ==
  ASSUME NEW a \in Int, NEW b \in Int, NEW d \in Nat \ {0}, a % d = 0
  PROVE  b \div d = a \div d <=> a <= b /\ b < a + d
<1>1. a = (a \div d) * d /\ a \div d \in Int
  BY Multiple, Quotient
<1>2. b \div d = a \div d => a <= b /\ b < a + d
  BY <1>1, Quotient
<1>3. a <= b /\ b < a + d => b \div d = a \div d
  BY <1>1, QuotientUnique
<1>4. QED BY <1>2, <1>3

-----------------------------------------------------------------------------
\* Every set of natural numbers with a member has a least one.
Less == {p \in Nat \X Nat : p[1] < p[2]}

LEMMA LeastNumber ==
  ASSUME NEW T \in SUBSET Nat, T # {}
  PROVE  \E x \in T : \A y \in T : x <= y
<1>1. IsWellFoundedOn(Less, Nat)
  BY ONLY NatLessThanWellFounded DEF OpToRel, Less
<1>2. \E x \in T : \A y \in T : ~(<<y, x>> \in Less)
  BY ONLY <1>1, WFMin, T \subseteq Nat, T # {}, Zenon
<1>3. \A x \in T, y \in T : ~(<<y, x>> \in Less) => x <= y
  BY DEF Less
<1>4. QED BY <1>2, <1>3

\* Induction, over a set.
LEMMA Induction ==
  ASSUME NEW S, 0 \in S, \A n \in Nat : n \in S => n + 1 \in S
  PROVE  Nat \subseteq S
<1>1. SUFFICES ASSUME Nat \ S # {} PROVE FALSE
  OBVIOUS
<1>2. PICK x \in Nat \ S : \A y \in Nat \ S : x <= y
  BY <1>1, LeastNumber, Nat \ S \in SUBSET Nat
<1>3. x # 0 /\ x - 1 \in Nat /\ x - 1 \in S
  BY <1>2
<1>4. QED BY <1>2, <1>3

-----------------------------------------------------------------------------
\* Sequences, put together and cut.
LEMMA Member == \A S : \A s \in Seq(S) : \A i \in 1..Len(s) : s[i] \in S
OBVIOUS

LEMMA Joined ==
  ASSUME NEW S, NEW s \in Seq(S), NEW t \in Seq(S)
  PROVE  /\ s \o t \in Seq(S)
         /\ Len(s \o t) = Len(s) + Len(t)
         /\ \A i \in 1..(Len(s) + Len(t)) : (s \o t)[i] = IF i <= Len(s) THEN s[i] ELSE t[i - Len(s)]
OBVIOUS

\* The first m members, and the rest.
LEMMA Pieces ==
  ASSUME NEW S, NEW buf \in Seq(S), NEW m \in 0..Len(buf)
  PROVE  /\ SubSeq(buf, 1, m) \in Seq(S)
         /\ Len(SubSeq(buf, 1, m)) = m
         /\ \A j \in 1..m : SubSeq(buf, 1, m)[j] = buf[j]
         /\ SubSeq(buf, m + 1, Len(buf)) \in Seq(S)
         /\ Len(SubSeq(buf, m + 1, Len(buf))) = Len(buf) - m
         /\ \A j \in 1..(Len(buf) - m) : SubSeq(buf, m + 1, Len(buf))[j] = buf[m + j]
OBVIOUS

\* Sequences are equal when their members are.
LEMMA SameSequence ==
  ASSUME NEW S, NEW s \in Seq(S), NEW t \in Seq(S), Len(s) = Len(t),
         \A i \in 1..Len(s) : s[i] = t[i]
  PROVE  s = t
OBVIOUS

-----------------------------------------------------------------------------
\* What is defined by recursion over 0..n exists, if each value follows from the one
\* before: so the definition means what it says.
Recursive(X, first, n, step) ==
  {f \in [0..n -> X] : f[0] = first /\ \A k \in 1..n : f[k] = step[k][f[k - 1]]}

LEMMA Recursion ==
  ASSUME NEW X, NEW first \in X, NEW n \in Nat, NEW step \in [1..n -> [X -> X]]
  PROVE  Recursive(X, first, n, step) # {}
<1> DEFINE Good(f, m) == f[0] = first /\ \A k \in 1..m : f[k] = step[k][f[k - 1]]
           S == {m \in Nat : m <= n => \E f \in [0..m -> X] : Good(f, m)}
<1>1. 0 \in S
  <2> DEFINE f == [k \in 0..0 |-> first]
  <2>1. f \in [0..0 -> X] /\ Good(f, 0)
    OBVIOUS
  <2>2. QED BY <2>1
<1>2. ASSUME NEW m \in Nat, m \in S PROVE m + 1 \in S
  <2>1. SUFFICES ASSUME m + 1 <= n PROVE \E f \in [0..(m + 1) -> X] : Good(f, m + 1)
    OBVIOUS
  <2>2. PICK g \in [0..m -> X] : Good(g, m)
    BY <1>2, <2>1
  <2> DEFINE f == [k \in 0..(m + 1) |-> IF k = m + 1 THEN step[m + 1][g[m]] ELSE g[k]]
  <2>3. step[m + 1][g[m]] \in X
    BY <2>1
  <2>4. f \in [0..(m + 1) -> X]
    BY <2>3
  <2>5. /\ f[0] = g[0] /\ \A k \in 1..m : f[k] = g[k] /\ f[k - 1] = g[k - 1]
        /\ f[m + 1] = step[m + 1][g[m]] /\ f[m] = g[m]
    OBVIOUS
  <2> HIDE DEF f
  <2>6. \A k \in 1..(m + 1) : k \in 1..m \/ (k = m + 1 /\ k - 1 = m)
    OBVIOUS
  <2>7. \A k \in 1..(m + 1) : f[k] = step[k][f[k - 1]]
    BY <2>2, <2>5, <2>6
  <2>8. Good(f, m + 1)
    BY <2>2, <2>5, <2>7
  <2>9. QED BY <2>4, <2>8
<1> HIDE DEF S
<1>3. Nat \subseteq S
  BY <1>1, <1>2, Induction
<1>4. QED BY <1>3 DEF S, Recursive
-----------------------------------------------------------------------------
\* The same, if a value follows from all the ones before it, here as a sequence, or
\* from all the ones behind it.
FromAllBefore(X, n, step) ==
  {f \in [1..n -> X] : \A k \in 1..n : f[k] = step[k][[i \in 1..(k - 1) |-> f[i]]]}

FromAllBehind(X, n, step) ==
  {f \in [1..n -> X] :
     \A i \in 1..n : f[i] = step[n + 1 - i][[j \in 1..(n - i) |-> f[n + 1 - j]]]}

LEMMA CourseOfValues ==
  ASSUME NEW X, NEW n \in Nat, NEW step \in [1..n -> [Seq(X) -> X]]
  PROVE  FromAllBefore(X, n, step) # {}
<1> DEFINE Q == Seq(X)
           longer == [k \in 1..n |-> [q \in Q |-> Append(q, step[k][q])]]
<1>1. longer \in [1..n -> [Q -> Q]] /\ <<>> \in Q
  OBVIOUS
<1>2. PICK g \in [0..n -> Q] : g[0] = <<>> /\ \A k \in 1..n : g[k] = longer[k][g[k - 1]]
  <2> HIDE DEF longer, Q
  <2>1. Recursive(Q, <<>>, n, longer) # {}
    BY ONLY <1>1, n \in Nat, Recursion
  <2>2. QED BY <2>1 DEF Recursive
<1>3. \A k \in 1..n : k - 1 \in 0..n /\ g[k - 1] \in Q
  BY <1>2
<1>4. \A k \in 1..n : g[k] = Append(g[k - 1], step[k][g[k - 1]]) /\ step[k][g[k - 1]] \in X
  BY <1>2, <1>3
<1> DEFINE f == [k \in 1..n |-> step[k][g[k - 1]]]
           S == {k \in Nat : k <= n => g[k] = [i \in 1..k |-> f[i]]}
<1>5. f \in [1..n -> X]
  BY <1>4
<1>6. 0 \in S
  BY <1>2
<1>7. ASSUME NEW k \in Nat, k \in S PROVE k + 1 \in S
  <2>1. SUFFICES ASSUME k + 1 <= n PROVE g[k + 1] = [i \in 1..(k + 1) |-> f[i]]
    OBVIOUS
  <2>2. k + 1 \in 1..n /\ (k + 1) - 1 = k /\ k <= n
    BY <2>1
  <2>3. g[k] = [i \in 1..k |-> f[i]] /\ f[k + 1] = step[k + 1][g[k]]
    BY <1>7, <2>2
  <2>4. g[k + 1] = Append(g[k], f[k + 1]) /\ g[k] \in Seq(X) /\ f[k + 1] \in X
    BY <1>3, <1>4, <2>2, <2>3
  <2> HIDE DEF f
  <2>5. Len(g[k]) = k
    BY ONLY <2>3, <2>4, k \in Nat
  <2>6. g[k + 1] \in Seq(X) /\ Len(g[k + 1]) = k + 1
    BY ONLY <2>4, <2>5
  <2>7. \A i \in 1..(k + 1) : g[k + 1][i] = f[i]
    BY ONLY <2>3, <2>4, <2>5
  <2>8. g[k + 1] = [i \in 1..Len(g[k + 1]) |-> g[k + 1][i]]
    <3>1. \A q \in Seq(X) : q = [i \in 1..Len(q) |-> q[i]]
      OBVIOUS
    <3>2. QED BY ONLY <2>6, <3>1
  <2>9. QED BY ONLY <2>6, <2>7, <2>8
<1>8. Nat \subseteq S
  <2> HIDE DEF S
  <2>1. QED BY <1>6, <1>7, Induction
<1>9. \A k \in 1..n : f[k] = step[k][[i \in 1..(k - 1) |-> f[i]]]
  <2>1. ASSUME NEW k \in 1..n PROVE g[k - 1] = [i \in 1..(k - 1) |-> f[i]]
    <3>1. k - 1 \in Nat /\ k - 1 <= n
      OBVIOUS
    <3>2. k - 1 \in S
      BY <1>8, <3>1
    <3>3. QED BY <3>1, <3>2
  <2> HIDE DEF f
  <2>2. SUFFICES ASSUME NEW k \in 1..n PROVE f[k] = step[k][[i \in 1..(k - 1) |-> f[i]]]
    OBVIOUS
  <2>3. f[k] = step[k][g[k - 1]]
    BY DEF f
  <2>4. QED BY ONLY <2>1, <2>3, k \in 1..n
<1>10. QED BY <1>5, <1>9 DEF FromAllBefore

LEMMA Backwards ==
  ASSUME NEW X, NEW n \in Nat, NEW step \in [1..n -> [Seq(X) -> X]]
  PROVE  FromAllBehind(X, n, step) # {}
<1>1. PICK g \in [1..n -> X] : \A k \in 1..n : g[k] = step[k][[i \in 1..(k - 1) |-> g[i]]]
  <2>1. FromAllBefore(X, n, step) # {}
    BY CourseOfValues
  <2>2. QED BY <2>1 DEF FromAllBefore
<1> DEFINE f == [i \in 1..n |-> g[n + 1 - i]]
<1>2. \A i \in 1..n : n + 1 - i \in 1..n
  OBVIOUS
<1>3. f \in [1..n -> X]
  <2> HIDE DEF f
  <2>1. \A i \in 1..n : g[n + 1 - i] \in X
    BY <1>1, <1>2
  <2>2. QED BY <2>1 DEF f
<1>4. ASSUME NEW i \in 1..n
      PROVE  f[i] = step[n + 1 - i][[j \in 1..(n - i) |-> f[n + 1 - j]]]
  <2>1. f[i] = step[n + 1 - i][[j \in 1..((n + 1 - i) - 1) |-> g[j]]]
    BY <1>1, <1>2
  <2>2. (n + 1 - i) - 1 = n - i
    OBVIOUS
  <2>3. \A j \in 1..(n - i) : n + 1 - j \in 1..n /\ n + 1 - (n + 1 - j) = j
    OBVIOUS
  <2>4. \A j \in 1..(n - i) : f[n + 1 - j] = g[j]
    BY <2>3
  <2> HIDE DEF f
  <2>5. [j \in 1..(n - i) |-> g[j]] = [j \in 1..(n - i) |-> f[n + 1 - j]]
    BY <2>4
  <2>6. QED BY <2>1, <2>2, <2>5
<1>5. QED BY <1>3, <1>4 DEF FromAllBehind

-----------------------------------------------------------------------------
(* Texts: the borders of a needle, and what kmp makes of what it reads. *)

\* The characters of any text: STRING, whose members the provers do not know, and those
\* that the codings give a meaning, that the keys are and that a multipart body has.
Special == {"=", "&", "%", "+", " ", "?", "2", "3", "5", "6", "d", "D", "b", "B", "k", "l", "m",
            "net", "pw", "ssid", "-", "c", "h", "\r", "\n"}
Characters   == STRING \cup Special

\* The first k characters of n are also the last k of its first i.
IsBorder(n, i, k) == \A j \in 1..k : n[j] = n[i - k + j]

\* b[i] is the longest proper border of the first i characters.
BorderIs(n, b, i) ==
  IF i = 0 THEN b[0] = -1
  ELSE /\ b[i] \in 0..(i - 1) /\ IsBorder(n, i, b[i])
       /\ \A k \in 0..(i - 1) : IsBorder(n, i, k) => k <= b[i]

\* r is the longest border of the first k characters, all of them included, that c may follow.
Best(n, k, c, r) ==
  /\ r \in -1..k
  /\ r # -1 => IsBorder(n, k, r) /\ n[r + 1] = c
  /\ \A j \in 0..k : IsBorder(n, k, j) /\ n[j + 1] = c => j <= r

LEMMA BorderOfAll == ASSUME NEW n, NEW k \in Nat PROVE IsBorder(n, k, k)
BY DEF IsBorder

LEMMA BorderOfBorder ==
  ASSUME NEW n, NEW i \in Nat, NEW k \in 0..i, NEW h \in 0..k, IsBorder(n, i, k)
  PROVE  IsBorder(n, k, h) <=> IsBorder(n, i, h)
<1>1. \A j \in 1..h : k - h + j \in 1..k /\ i - k + (k - h + j) = i - h + j
  OBVIOUS
<1>2. \A j \in 1..h : n[k - h + j] = n[i - h + j]
  BY <1>1 DEF IsBorder
<1>3. QED BY <1>2 DEF IsBorder

LEMMA LongerBorder ==
  ASSUME NEW n, NEW i \in Nat \ {0}, NEW k \in 0..(i - 1)
  PROVE  IsBorder(n, i, k + 1) <=> IsBorder(n, i - 1, k) /\ n[k + 1] = n[i]
<1>1. \A j \in 1..(k + 1) : i - (k + 1) + j = (i - 1) - k + j /\ (j \in 1..k \/ j = k + 1)
  OBVIOUS
<1>2. i - (k + 1) + (k + 1) = i /\ k + 1 \in 1..(k + 1) /\ \A j \in 1..k : j \in 1..(k + 1)
  OBVIOUS
<1>3. QED BY <1>1, <1>2 DEF IsBorder

-----------------------------------------------------------------------------
\* The way down the borders ends at the best of them.
LEMMA BestHere ==
  ASSUME NEW n, NEW c, NEW k \in Nat \cup {-1}, k = -1 \/ n[k + 1] = c
  PROVE  Best(n, k, c, k)
<1>1. CASE k = -1
  BY <1>1 DEF Best
<1>2. CASE k \in Nat
  BY <1>2, BorderOfAll DEF Best
<1>3. QED BY <1>1, <1>2

LEMMA BestBelow ==
  ASSUME NEW n, NEW c, NEW b, NEW k \in Nat, n[k + 1] # c, BorderIs(n, b, k),
         NEW r, Best(n, b[k], c, r)
  PROVE  Best(n, k, c, r) /\ b[k] \in -1..(k - 1)
<1>1. CASE k = 0
  BY <1>1 DEF Best, BorderIs
<1>2. CASE k # 0
  <2>1. b[k] \in 0..(k - 1) /\ IsBorder(n, k, b[k])
    BY <1>2 DEF BorderIs
  <2>2. r \in -1..k
    BY <2>1 DEF Best
  <2>3. r # -1 => IsBorder(n, k, r) /\ n[r + 1] = c
    BY <2>1, BorderOfBorder DEF Best
  <2>4. ASSUME NEW j \in 0..k, IsBorder(n, k, j), n[j + 1] = c PROVE j <= r
    <3>1. j \in 0..(k - 1)
      BY <2>4
    <3>2. j \in 0..b[k]
      BY <1>2, <2>1, <2>4, <3>1 DEF BorderIs
    <3>3. IsBorder(n, b[k], j)
      BY <2>1, <2>4, <3>2, BorderOfBorder
    <3>4. QED BY <2>4, <3>2, <3>3 DEF Best
  <2>5. QED BY <2>1, <2>2, <2>3, <2>4 DEF Best
<1>3. QED BY <1>1, <1>2

LEMMA BestIsOne ==
  ASSUME NEW n, NEW c, NEW k \in Nat \cup {-1}, NEW r, NEW s, Best(n, k, c, r), Best(n, k, c, s)
  PROVE  r = s
<1>1. r \in -1..k /\ s \in -1..k
  BY DEF Best
<1>2. r <= s
  BY <1>1 DEF Best
<1>3. s <= r
  BY <1>1 DEF Best
<1>4. QED BY <1>1, <1>2, <1>3

\* Strong induction, from -1 up.
LEMMA Upward ==
  ASSUME NEW S, NEW m \in Nat \cup {-1},
         \A k \in -1..m : (\A j \in -1..(k - 1) : j \in S) => k \in S
  PROVE  \A k \in -1..m : k \in S
<1> DEFINE T == {h \in Nat : \A k \in -1..m : k < h => k \in S}
<1>1. 0 \in T
  BY DEF T
<1>2. \A h \in Nat : h \in T => h + 1 \in T
  <2>1. SUFFICES ASSUME NEW h \in Nat, h \in T, NEW k \in -1..m, k < h + 1 PROVE k \in S
    OBVIOUS
  <2>2. \A j \in -1..(k - 1) : j \in S
    BY <2>1
  <2>3. QED BY <2>2
<1>3. Nat \subseteq T
  <2> HIDE DEF T
  <2>1. QED BY ONLY <1>1, <1>2, Induction
<1>4. ASSUME NEW k \in -1..m PROVE k \in S
  <2>1. m + 1 \in T
    BY <1>3
  <2>2. QED BY <2>1
<1>5. QED BY <1>4
LEMMA FallenIsBest ==
  ASSUME NEW n, NEW c, NEW b, NEW k \in Nat \cup {-1}, \A j \in 0..k : BorderIs(n, b, j)
  PROVE  Best(n, k, c, Fallen(n, b, k, c))
<1> DEFINE D == -1..k
           Stop(j) == j = -1 \/ n[j + 1] = c
           F == CHOOSE f : f = [j \in D |-> IF Stop(j) THEN j ELSE f[b[j]]]
           G == [j \in D |-> CHOOSE r : Best(n, j, c, r)]
<1>1. Fallen(n, b, k, c) = F[k]
  BY DEF Fallen
<1>2. \A j \in D : j = -1 \/ j \in Nat
  OBVIOUS
<1>3. ASSUME NEW j \in D, Stop(j) PROVE Best(n, j, c, j)
  BY <1>2, <1>3, BestHere
<1>4. ASSUME NEW j \in D, ~Stop(j)
      PROVE  /\ b[j] \in -1..(j - 1)
             /\ \A r : Best(n, b[j], c, r) => Best(n, j, c, r)
  <2>1. j \in Nat /\ BorderIs(n, b, j) /\ n[j + 1] # c
    BY <1>2, <1>4
  <2>2. b[j] \in -1..(j - 1)
    <3>1. CASE j = 0
      BY <2>1, <3>1 DEF BorderIs
    <3>2. CASE j # 0
      BY <2>1, <3>2 DEF BorderIs
    <3>3. QED BY <3>1, <3>2
  <2>3. QED BY ONLY <2>1, <2>2, BestBelow
<1> HIDE DEF Stop
<1>5. \A j \in D : \E r : Best(n, j, c, r)
  <2> DEFINE S == {j \in D : \E r : Best(n, j, c, r)}
  <2>1. ASSUME NEW j \in D, \A h \in -1..(j - 1) : h \in S PROVE j \in S
    BY <1>3, <1>4, <2>1
  <2> HIDE DEF S
  <2>2. \A j \in -1..k : j \in S
    BY ONLY <2>1, Upward
  <2>3. QED BY <2>2 DEF S
<1>6. \A j \in D : Best(n, j, c, G[j])
  BY <1>5
<1>7. G = [j \in D |-> IF Stop(j) THEN j ELSE G[b[j]]]
  <2>1. ASSUME NEW j \in D PROVE G[j] = IF Stop(j) THEN j ELSE G[b[j]]
    <3>1. Best(n, j, c, G[j])
      BY <1>6
    <3> HIDE DEF G
    <3>2. CASE Stop(j)
      <4>1. Best(n, j, c, j)
        BY <1>3, <3>2
      <4>2. G[j] = j
        BY ONLY <1>2, <3>1, <4>1, BestIsOne
      <4>3. QED BY <3>2, <4>2
    <3>3. CASE ~Stop(j)
      <4>1. b[j] \in D /\ \A r : Best(n, b[j], c, r) => Best(n, j, c, r)
        BY <1>4, <3>3
      <4>2. Best(n, j, c, G[b[j]])
        BY <1>6, <4>1
      <4>3. G[j] = G[b[j]]
        BY ONLY <1>2, <3>1, <4>2, BestIsOne
      <4>4. QED BY <3>3, <4>3
    <3>4. QED BY <3>2, <3>3
  <2>2. G = [j \in D |-> G[j]]
    OBVIOUS
  <2> HIDE DEF G
  <2>3. QED BY ONLY <2>1, <2>2
<1>8. F = [j \in D |-> IF Stop(j) THEN j ELSE F[b[j]]]
  <2> HIDE DEF G
  <2>1. QED BY <1>7
<1> HIDE DEF F
<1>9. \A j \in D : Best(n, j, c, F[j])
  <2> DEFINE S == {j \in D : Best(n, j, c, F[j])}
  <2>1. ASSUME NEW j \in D, \A h \in -1..(j - 1) : h \in S PROVE j \in S
    <3>1. F[j] = IF Stop(j) THEN j ELSE F[b[j]]
      BY <1>8
    <3>2. CASE Stop(j)
      BY <1>3, <3>1, <3>2
    <3>3. CASE ~Stop(j)
      <4>1. b[j] \in -1..(j - 1) /\ \A r : Best(n, b[j], c, r) => Best(n, j, c, r)
        BY <1>4, <3>3
      <4>2. b[j] \in S
        BY <2>1, <4>1
      <4>3. QED BY <3>1, <3>3, <4>1, <4>2
    <3>4. QED BY <3>2, <3>3
  <2> HIDE DEF S
  <2>2. \A j \in -1..k : j \in S
    BY ONLY <2>1, Upward
  <2>3. QED BY <2>2 DEF S
<1>10. QED BY <1>1, <1>9

-----------------------------------------------------------------------------
\* The table of borders.
LEMMA NextBorder ==
  ASSUME NEW n, NEW b, NEW i \in Nat \ {0}, \A j \in 0..(i - 1) : BorderIs(n, b, j),
         NEW next, next = Fallen(n, b, b[i - 1], n[i]) + 1
  PROVE  /\ next \in 0..(i - 1) /\ IsBorder(n, i, next)
         /\ \A k \in 0..(i - 1) : IsBorder(n, i, k) => k <= next
<1> DEFINE from == b[i - 1]
           r == Fallen(n, b, from, n[i])
<1>1. BorderIs(n, b, i - 1) /\ i - 1 \in Nat
  OBVIOUS
<1>2. from \in -1..(i - 2) /\ (from # -1 => IsBorder(n, i - 1, from))
  <2>1. CASE i = 1
    BY <1>1, <2>1 DEF BorderIs
  <2>2. CASE i # 1
    BY <1>1, <2>2 DEF BorderIs
  <2>3. QED BY <2>1, <2>2
<1> HIDE DEF from
<1>3. Best(n, from, n[i], r)
  BY <1>2, FallenIsBest
<1>4. next = r + 1
  BY DEF from
<1> HIDE DEF r
<1>5. r \in -1..from
  BY <1>3 DEF Best
<1>6. IsBorder(n, i, next)
  <2>1. CASE r = -1
    BY <1>4, <2>1 DEF IsBorder
  <2>2. CASE r # -1
    <3>1. r \in 0..from /\ r \in 0..(i - 1) /\ from \in 0..(i - 1)
      BY <1>2, <1>5, <2>2
    <3>2. IsBorder(n, from, r) /\ n[r + 1] = n[i]
      BY <1>3, <2>2 DEF Best
    <3>3. IsBorder(n, i - 1, r)
      <4>1. from \in 0..(i - 1) /\ IsBorder(n, i - 1, from)
        BY <1>2, <3>1
      <4>2. QED BY ONLY <1>1, <3>1, <3>2, <4>1, BorderOfBorder
    <3>4. QED BY <1>4, <3>1, <3>2, <3>3, LongerBorder
  <2>3. QED BY <2>1, <2>2
<1>7. ASSUME NEW k \in 0..(i - 1), IsBorder(n, i, k) PROVE k <= next
  <2>1. CASE k = 0
    BY <1>4, <1>5, <2>1
  <2>2. CASE k # 0
    <3>1. k - 1 \in 0..(i - 2) /\ k - 1 \in 0..(i - 1) /\ (k - 1) + 1 = k
      BY <2>2
    <3>2. IsBorder(n, i - 1, k - 1) /\ n[k] = n[i]
      BY <1>7, <3>1, LongerBorder
    <3>3. i - 1 # 0 /\ from \in 0..(i - 1) /\ IsBorder(n, i - 1, from) /\ k - 1 <= from
      BY <1>1, <1>2, <3>1, <3>2 DEF BorderIs, from
    <3>4. IsBorder(n, from, k - 1)
      <4>1. k - 1 \in 0..from
        BY <3>1, <3>3
      <4>2. QED BY ONLY <1>1, <3>2, <3>3, <4>1, BorderOfBorder
    <3>5. k - 1 <= r
      BY <3>1, <3>2, <3>3, <3>4, <1>3 DEF Best
    <3>6. QED BY <1>4, <1>5, <1>2, <3>5
  <2>3. QED BY <2>1, <2>2
<1>8. QED BY <1>2, <1>4, <1>5, <1>6, <1>7

LEMMA GreatestNumber ==
  ASSUME NEW m \in Nat, NEW T \in SUBSET (0..m), T # {}
  PROVE  \E x \in T : \A y \in T : y <= x
<1> DEFINE U == {m - x : x \in T}
<1>1. U \in SUBSET Nat /\ U # {}
  <2>1. \A x \in T : x \in Nat /\ x <= m
    OBVIOUS
  <2>2. \A x \in T : m - x \in Nat
    BY <2>1
  <2>3. QED BY <2>2
<1>2. PICK u \in U : \A v \in U : u <= v
  <2> HIDE DEF U
  <2>1. QED BY <1>1, LeastNumber
<1>3. PICK x \in T : u = m - x
  BY <1>2
<1>4. \A y \in T : m - x <= m - y
  BY <1>2, <1>3
<1>5. QED BY <1>4

LEMMA BorderIsRight ==
  ASSUME NEW n, Len(n) \in Nat
  PROVE  \A i \in 0..Len(n) : BorderIs(n, Border(n), i)
<1> DEFINE D == 0..Len(n)
           Onward(b, i) == Fallen(n, b, b[i - 1], n[i]) + 1
           B == CHOOSE b : b = [i \in D |-> IF i = 0 THEN -1 ELSE Onward(b, i)]
           Longest(i, k) == /\ k \in 0..(i - 1) /\ IsBorder(n, i, k)
                            /\ \A h \in 0..(i - 1) : IsBorder(n, i, h) => h <= k
           G == [i \in D |-> IF i = 0 THEN -1 ELSE CHOOSE k : Longest(i, k)]
<1>1. Border(n) = B
  BY DEF Border
<1>2. ASSUME NEW i \in D, i # 0 PROVE \E k : Longest(i, k)
  <2> DEFINE T == {k \in 0..(i - 1) : IsBorder(n, i, k)}
  <2>1. i - 1 \in Nat /\ T \in SUBSET (0..(i - 1))
    BY <1>2
  <2>2. 0 \in T
    BY <2>1 DEF IsBorder
  <2>3. PICK k \in T : \A h \in T : h <= k
    <3> HIDE DEF T
    <3>1. QED BY ONLY <2>1, <2>2, GreatestNumber
  <2>4. QED BY <2>3
<1>3. \A b : \A i \in D : i # 0 => (BorderIs(n, b, i) <=> Longest(i, b[i]))
  BY DEF BorderIs
<1>4. \A b : BorderIs(n, b, 0) <=> b[0] = -1
  BY DEF BorderIs
<1>5. \A i \in D : i = 0 \/ i \in Nat \ {0}
  OBVIOUS
<1>6. ASSUME NEW b, NEW i \in D, i # 0, \A j \in 0..(i - 1) : BorderIs(n, b, j)
      PROVE  Longest(i, Onward(b, i))
  BY <1>5, <1>6, NextBorder
<1>7. \A i \in D : \A k, h : Longest(i, k) /\ Longest(i, h) => k = h
  OBVIOUS
<1> HIDE DEF Longest
<1>8. \A i \in D : BorderIs(n, G, i)
  <2>1. \A i \in D : i # 0 => Longest(i, G[i])
    BY <1>2
  <2>2. G[0] = -1
    OBVIOUS
  <2> HIDE DEF G
  <2>3. QED BY <1>3, <1>4, <2>1, <2>2
<1>9. G = [i \in D |-> IF i = 0 THEN -1 ELSE Onward(G, i)]
  <2>1. G = [i \in D |-> G[i]] /\ G[0] = -1
    OBVIOUS
  <2> HIDE DEF G
  <2>2. ASSUME NEW i \in D, i # 0 PROVE G[i] = Onward(G, i)
    <3>1. Longest(i, G[i])
      BY <1>3, <1>8, <2>2
    <3>2. Longest(i, Onward(G, i))
      BY <1>6, <1>8, <2>2
    <3>3. QED BY <1>7, <3>1, <3>2
  <2>3. QED BY <2>1, <2>2
<1>10. B = [i \in D |-> IF i = 0 THEN -1 ELSE Onward(B, i)]
  <2> HIDE DEF G
  <2>1. QED BY <1>9
<1> HIDE DEF B
<1>11. \A i \in D : BorderIs(n, B, i)
  <2> DEFINE S == {i \in -1..Len(n) : i # -1 => BorderIs(n, B, i)}
  <2>1. ASSUME NEW i \in -1..Len(n), \A j \in -1..(i - 1) : j \in S PROVE i \in S
    <3>1. CASE i = -1
      BY <3>1
    <3>2. CASE i = 0
      <4>1. B[0] = -1
        BY <1>10
      <4>2. QED BY <1>4, <3>2, <4>1
    <3>3. CASE i \in D /\ i # 0
      <4>1. \A j \in 0..(i - 1) : BorderIs(n, B, j)
        BY <2>1
      <4>2. Longest(i, Onward(B, i))
        BY <1>6, <3>3, <4>1
      <4>3. B[i] = Onward(B, i)
        BY <1>10, <3>3
      <4>4. QED BY <1>3, <3>3, <4>2, <4>3
    <3>4. QED BY <2>1, <3>1, <3>2, <3>3
  <2> HIDE DEF S
  <2>2. \A i \in -1..Len(n) : i \in S
    BY ONLY Len(n) \in Nat, <2>1, Upward
  <2>3. QED BY <2>2 DEF S
<1>12. QED BY <1>1, <1>11
-----------------------------------------------------------------------------
\* The first k characters of n are the last ones of t.
EndsWith(n, t, k) == k <= Len(t) /\ \A j \in 1..k : n[j] = t[Len(t) - k + j]

\* n is in t, from i on.
Occurs(n, t, i) == \A j \in 1..Len(n) : t[i - 1 + j] = n[j]

LEMMA EndsAfter ==
  ASSUME NEW S, NEW n, NEW t \in Seq(S), NEW c \in S, NEW k \in Nat
  PROVE  EndsWith(n, Append(t, c), k + 1) <=> EndsWith(n, t, k) /\ n[k + 1] = c
<1> DEFINE u == Append(t, c)
<1>1. /\ Len(t) \in Nat /\ Len(u) = Len(t) + 1 /\ u[Len(t) + 1] = c
      /\ \A i \in 1..Len(t) : u[i] = t[i]
  OBVIOUS
<1> HIDE DEF u
<1>2. k + 1 <= Len(u) <=> k <= Len(t)
  BY <1>1
<1>3. CASE k <= Len(t)
  <2>1. \A j \in 1..k : /\ Len(u) - (k + 1) + j = Len(t) - k + j
                        /\ Len(t) - k + j \in 1..Len(t) /\ j \in 1..(k + 1)
    <3>1. SUFFICES ASSUME NEW j \in 1..k
                   PROVE  /\ Len(u) - (k + 1) + j = Len(t) - k + j
                          /\ Len(t) - k + j \in 1..Len(t) /\ j \in 1..(k + 1)
      OBVIOUS
    <3>2. j \in Nat /\ 1 <= j /\ j <= k
      OBVIOUS
    <3>3. Len(u) - (k + 1) + j = Len(t) - k + j
      BY ONLY <1>1, <3>2, k \in Nat
    <3>4. Len(t) - k + j \in 1..Len(t)
      BY ONLY <1>1, <1>3, <3>2, k \in Nat
    <3>5. j \in 1..(k + 1)
      BY ONLY <3>2, k \in Nat
    <3>6. QED BY <3>3, <3>4, <3>5
  <2>2. Len(u) - (k + 1) + (k + 1) = Len(t) + 1 /\ k + 1 \in 1..(k + 1)
    BY <1>1
  <2>3. \A j \in 1..(k + 1) : j \in 1..k \/ j = k + 1
    OBVIOUS
  <2>4. \A j \in 1..k : u[Len(u) - (k + 1) + j] = t[Len(t) - k + j]
    BY <1>1, <2>1
  <2>5. u[Len(u) - (k + 1) + (k + 1)] = c
    BY <1>1, <2>2
  <2>6. EndsWith(n, u, k + 1) => EndsWith(n, t, k) /\ n[k + 1] = c
    BY <1>3, <2>1, <2>2, <2>4, <2>5 DEF EndsWith
  <2>7. ASSUME EndsWith(n, t, k), n[k + 1] = c PROVE EndsWith(n, u, k + 1)
    <3>1. \A j \in 1..(k + 1) : n[j] = u[Len(u) - (k + 1) + j]
      BY <2>3, <2>4, <2>5, <2>7 DEF EndsWith
    <3>2. QED BY <1>2, <1>3, <3>1 DEF EndsWith
  <2>8. QED BY <2>6, <2>7 DEF u
<1>4. CASE ~(k <= Len(t))
  BY <1>2, <1>4 DEF EndsWith, u
<1>5. QED BY <1>3, <1>4

LEMMA EndsBorder ==
  ASSUME NEW S, NEW n, NEW t \in Seq(S), NEW s \in Nat, EndsWith(n, t, s), NEW k \in 0..s
  PROVE  IsBorder(n, s, k) <=> EndsWith(n, t, k)
<1>1. Len(t) \in Nat /\ s <= Len(t) /\ \A j \in 1..s : n[j] = t[Len(t) - s + j]
  BY DEF EndsWith
<1>2. \A j \in 1..k : s - k + j \in 1..s /\ Len(t) - s + (s - k + j) = Len(t) - k + j
  BY <1>1
<1>3. \A j \in 1..k : n[s - k + j] = t[Len(t) - k + j]
  BY <1>1, <1>2
<1>4. QED BY <1>1, <1>3 DEF IsBorder, EndsWith

\* What kmp has seen after each character is the longest beginning of the needle that
\* the text ends with.
LEMMA SeenIsLongest ==
  ASSUME NEW S, NEW n, Len(n) \in Nat, NEW t \in Seq(S), NEW c \in S, NEW seen \in 0..(Len(n) - 1),
         EndsWith(n, t, seen), \A k \in 0..Len(n) : EndsWith(n, t, k) => k <= seen,
         NEW next, next = Seen(n, Border(n), seen, c)
  PROVE  /\ next \in 0..(seen + 1) /\ EndsWith(n, Append(t, c), next)
         /\ \A k \in 0..Len(n) : EndsWith(n, Append(t, c), k) => k <= next
<1> DEFINE r == Fallen(n, Border(n), seen, c)
           u == Append(t, c)
<1>1. next = r + 1
  BY DEF Seen
<1>2. Best(n, seen, c, r)
  <2>1. \A j \in 0..seen : BorderIs(n, Border(n), j)
    BY BorderIsRight
  <2>2. seen \in Nat \cup {-1}
    OBVIOUS
  <2>3. QED BY ONLY <2>1, <2>2, FallenIsBest
<1> HIDE DEF r
<1>3. r \in -1..seen /\ seen \in Nat
  BY <1>2 DEF Best
<1>4. \A k \in Nat : EndsWith(n, u, k + 1) <=> EndsWith(n, t, k) /\ n[k + 1] = c
  BY EndsAfter
<1>5. \A k \in 0..seen : IsBorder(n, seen, k) <=> EndsWith(n, t, k)
  BY EndsBorder
<1>6. EndsWith(n, u, 0)
  <2>1. Len(u) \in Nat
    OBVIOUS
  <2>2. QED BY <2>1 DEF EndsWith
<1> HIDE DEF u
<1>7. EndsWith(n, u, next)
  <2>1. CASE r = -1
    BY <1>1, <1>6, <2>1
  <2>2. CASE r # -1
    <3>1. r \in Nat /\ r \in 0..seen
      BY <1>3, <2>2
    <3>2. IsBorder(n, seen, r) /\ n[r + 1] = c
      BY <1>2, <2>2 DEF Best
    <3>3. QED BY <1>1, <1>4, <1>5, <3>1, <3>2
  <2>3. QED BY <2>1, <2>2
<1>8. ASSUME NEW k \in 0..Len(n), EndsWith(n, u, k) PROVE k <= next
  <2>1. CASE k = 0
    BY <1>1, <1>3, <2>1
  <2>2. CASE k # 0
    <3>1. k - 1 \in Nat /\ k - 1 \in 0..Len(n) /\ (k - 1) + 1 = k
      BY <2>2
    <3>2. EndsWith(n, t, k - 1) /\ n[k] = c
      BY <1>4, <1>8, <3>1
    <3>3. k - 1 \in 0..seen
      BY <3>1, <3>2
    <3>4. k - 1 <= r
      BY <1>2, <1>5, <3>1, <3>2, <3>3 DEF Best
    <3>5. QED BY <1>1, <1>3, <3>4
  <2>3. QED BY <2>1, <2>2
<1>9. QED BY <1>1, <1>3, <1>7, <1>8 DEF u

-----------------------------------------------------------------------------
LEMMA OccursIs ==
  ASSUME NEW S, NEW n \in Seq(S), NEW t \in Seq(S), NEW i \in 1..(Len(t) - Len(n) + 1)
  PROVE  SubSeq(t, i, i + Len(n) - 1) = n <=> Occurs(n, t, i)
<1> DEFINE part == SubSeq(t, i, i + Len(n) - 1)
<1>1. /\ part \in Seq(S) /\ Len(part) = Len(n) /\ Len(n) \in Nat
      /\ \A j \in 1..Len(n) : part[j] = t[i - 1 + j]
  OBVIOUS
<1> HIDE DEF part
<1>2. part = n <=> \A j \in 1..Len(n) : part[j] = n[j]
  BY <1>1, SameSequence
<1>3. QED BY <1>1, <1>2 DEF Occurs, part

-----------------------------------------------------------------------------
Searches == [found : BOOLEAN, seen : Nat, held : Seq(Characters), written : Seq(Characters),
             read : Nat]

\* s has the beginning w of t as what is written.
HasWritten(s, t, w) ==
  Len(s.written) = w /\ w <= Len(t) /\ \A i \in 1..w : s.written[i] = t[i]

\* The needle has not come: the search has seen its longest beginning that the text
\* ends with, holds that back, and has written the rest.
Searching(n, t, s) ==
  /\ s.seen \in 0..(Len(n) - 1)
  /\ EndsWith(n, t, s.seen)
  /\ \A k \in 0..Len(n) : EndsWith(n, t, k) => k <= s.seen
  /\ Len(s.held) = s.seen /\ \A j \in 1..s.seen : s.held[j] = n[j]
  /\ HasWritten(s, t, Len(t) - s.seen)
  /\ s.read = Len(t)
  /\ \A i \in 1..(Len(t) - Len(n) + 1) : ~Occurs(n, t, i)

\* The needle was at f first, and nothing was read behind it.
FoundAt(n, t, s, f) ==
  /\ Occurs(n, t, f) /\ \A i \in 1..(f - 1) : ~Occurs(n, t, i)
  /\ HasWritten(s, t, f - 1)
  /\ s.read = f + Len(n) - 1

\* What was in the text stays where it is, and what the text ends with is there last.
LEMMA OccursAfter ==
  ASSUME NEW S, NEW n \in Seq(S), NEW t \in Seq(S), NEW c \in S,
         NEW i \in 1..(Len(t) - Len(n) + 1)
  PROVE  Occurs(n, Append(t, c), i) <=> Occurs(n, t, i)
<1>1. \A j \in 1..Len(n) : i - 1 + j \in 1..Len(t)
  OBVIOUS
<1>2. \A j \in 1..Len(t) : Append(t, c)[j] = t[j]
  OBVIOUS
<1>3. QED BY <1>1, <1>2 DEF Occurs

LEMMA OccursLast ==
  ASSUME NEW S, NEW n \in Seq(S), NEW t \in Seq(S), Len(n) <= Len(t)
  PROVE  Occurs(n, t, Len(t) - Len(n) + 1) <=> EndsWith(n, t, Len(n))
<1>1. \A j \in 1..Len(n) : Len(t) - Len(n) + 1 - 1 + j = Len(t) - Len(n) + j
  OBVIOUS
<1>2. QED BY <1>1 DEF Occurs, EndsWith

LEMMA WrittenAfter ==
  ASSUME NEW S, NEW t \in Seq(S), NEW c \in S, NEW s, NEW w \in Nat, HasWritten(s, t, w)
  PROVE  HasWritten(s, Append(t, c), w)
<1>1. \A j \in 1..Len(t) : Append(t, c)[j] = t[j]
  OBVIOUS
<1>2. Len(Append(t, c)) = Len(t) + 1 /\ Len(t) \in Nat
  OBVIOUS
<1>3. QED BY <1>1, <1>2 DEF HasWritten

LEMMA FoundStays ==
  ASSUME NEW n \in Seq(Characters), NEW t \in Seq(Characters), NEW c \in Characters, NEW s,
         NEW f \in 1..(Len(t) - Len(n) + 1), FoundAt(n, t, s, f)
  PROVE  FoundAt(n, Append(t, c), s, f)
<1>1. Occurs(n, Append(t, c), f)
  BY OccursAfter DEF FoundAt
<1>2. ASSUME NEW i \in 1..(f - 1) PROVE ~Occurs(n, Append(t, c), i)
  <2>1. i \in 1..(Len(t) - Len(n) + 1)
    OBVIOUS
  <2>2. QED BY <2>1, OccursAfter DEF FoundAt
<1>3. HasWritten(s, Append(t, c), f - 1)
  BY WrittenAfter DEF FoundAt
<1>4. QED BY <1>1, <1>2, <1>3 DEF FoundAt

\* The needle is not where it was not, unless the text ends with it now.
LEMMA StillNot ==
  ASSUME NEW n \in Seq(Characters), NEW t \in Seq(Characters), NEW c \in Characters,
         \A i \in 1..(Len(t) - Len(n) + 1) : ~Occurs(n, t, i)
  PROVE  \A i \in 1..(Len(t) - Len(n) + 1) : ~Occurs(n, Append(t, c), i)
BY OccursAfter

\* One character completes the needle.
LEMMA Completes ==
  ASSUME NEW n \in Seq(Characters), NEW t \in Seq(Characters), NEW c \in Characters,
         NEW s \in Searches, ~s.found, Searching(n, t, s),
         Seen(n, Border(n), s.seen, c) = Len(n)
  PROVE  LET next == KmpStep(n, Border(n), s, c)
             u == Append(t, c)
         IN  /\ next \in Searches /\ next.found
             /\ Len(u) - Len(n) + 1 \in 1..(Len(u) - Len(n) + 1)
             /\ FoundAt(n, u, next, Len(u) - Len(n) + 1)
<1> DEFINE next == KmpStep(n, Border(n), s, c)
           u == Append(t, c)
           f == Len(u) - Len(n) + 1
<1>1. next = [s EXCEPT !.found = TRUE, !.read = @ + 1, !.held = <<>>]
  BY DEF KmpStep
<1>2. next \in Searches /\ next.found /\ next.written = s.written /\ next.read = s.read + 1
  <2>1. s.read + 1 \in Nat /\ TRUE \in BOOLEAN /\ <<>> \in Seq(Characters)
    BY DEF Searches
  <2>2. next \in Searches
    BY <1>1, <2>1 DEF Searches
  <2>3. next.found /\ next.written = s.written /\ next.read = s.read + 1
    BY <1>1 DEF Searches
  <2>4. QED BY <2>2, <2>3
<1> HIDE DEF next
<1>3. /\ s.seen \in 0..(Len(n) - 1) /\ EndsWith(n, t, s.seen)
      /\ \A k \in 0..Len(n) : EndsWith(n, t, k) => k <= s.seen
  BY DEF Searching
<1>4. Len(n) \in Nat /\ Len(t) \in Nat
  OBVIOUS
<1>5. Len(n) \in 0..(s.seen + 1) /\ EndsWith(n, u, Len(n))
  BY <1>3, <1>4, SeenIsLongest
<1>6. u \in Seq(Characters) /\ Len(u) = Len(t) + 1 /\ s.seen = Len(n) - 1
  BY <1>3, <1>4, <1>5
<1> HIDE DEF u
<1>7. Len(n) <= Len(u)
  BY <1>5 DEF EndsWith
<1>8. Occurs(n, u, f)
  BY <1>5, <1>6, <1>7, OccursLast
<1>9. ASSUME NEW i \in 1..(f - 1) PROVE ~Occurs(n, u, i)
  <2>1. i \in 1..(Len(t) - Len(n) + 1)
    BY <1>4, <1>6
  <2>2. QED BY <2>1, StillNot DEF Searching, u
<1>10. HasWritten(next, u, f - 1)
  <2>1. f - 1 = Len(t) - s.seen /\ f - 1 \in Nat
    BY <1>4, <1>6, <1>7
  <2>2. HasWritten(s, u, f - 1)
    BY <2>1, WrittenAfter DEF Searching, u
  <2>3. QED BY <1>2, <2>2 DEF HasWritten
<1>11. next.read = f + Len(n) - 1
  BY <1>2, <1>4, <1>6 DEF Searching
<1>12. FoundAt(n, u, next, f) /\ f \in 1..f
  BY <1>4, <1>6, <1>7, <1>8, <1>9, <1>10, <1>11 DEF FoundAt
<1>13. QED BY <1>2, <1>12 DEF next, u

\* One character, and the search goes on.
LEMMA GoesOn ==
  ASSUME NEW n \in Seq(Characters), NEW t \in Seq(Characters), NEW c \in Characters,
         NEW s \in Searches, ~s.found, Searching(n, t, s),
         Seen(n, Border(n), s.seen, c) # Len(n)
  PROVE  LET next == KmpStep(n, Border(n), s, c)
         IN  next \in Searches /\ ~next.found /\ Searching(n, Append(t, c), next)
<1> DEFINE next == KmpStep(n, Border(n), s, c)
           u == Append(t, c)
           r == Seen(n, Border(n), s.seen, c)
           held == Append(s.held, c)
           free == Len(held) - r
           low == SubSeq(held, 1, free)
           high == SubSeq(held, free + 1, Len(held))
<1>1. next = [s EXCEPT !.seen = r, !.read = @ + 1, !.held = high, !.written = @ \o low]
  BY DEF KmpStep
<1>2. /\ s.seen \in 0..(Len(n) - 1) /\ EndsWith(n, t, s.seen)
      /\ \A k \in 0..Len(n) : EndsWith(n, t, k) => k <= s.seen
  BY DEF Searching
<1>3. Len(n) \in Nat /\ Len(t) \in Nat
  OBVIOUS
<1>4. /\ r \in 0..(s.seen + 1) /\ EndsWith(n, u, r)
      /\ \A k \in 0..Len(n) : EndsWith(n, u, k) => k <= r
  BY <1>2, <1>3, SeenIsLongest
<1>5. r # Len(n)
  OBVIOUS
<1> HIDE DEF r
<1>6. r \in 0..(Len(n) - 1)
  BY <1>2, <1>3, <1>4, <1>5
<1>7. s.held \in Seq(Characters) /\ s.written \in Seq(Characters) /\ s.read \in Nat
  BY DEF Searches
<1>8. /\ held \in Seq(Characters) /\ Len(held) = s.seen + 1 /\ held[s.seen + 1] = c
      /\ \A j \in 1..s.seen : held[j] = n[j]
  BY <1>7 DEF Searching
<1> HIDE DEF held
<1>9. free \in 0..(s.seen + 1) /\ free = s.seen + 1 - r /\ free \in 0..Len(held)
  BY <1>2, <1>4, <1>8
<1> HIDE DEF free
<1>10. /\ high \in Seq(Characters) /\ Len(high) = r
       /\ \A j \in 1..r : high[j] = held[free + j]
  <2>1. Len(held) - free = r
    <3>1. s.seen \in Int /\ r \in Int
      BY <1>2, <1>3, <1>4
    <3>2. QED BY ONLY <1>8, <1>9, <3>1
  <2>2. /\ high \in Seq(Characters) /\ Len(high) = Len(held) - free
        /\ \A j \in 1..(Len(held) - free) : high[j] = held[free + j]
    BY <1>8, <1>9, Pieces
  <2>3. QED BY <2>1, <2>2
<1>11. /\ low \in Seq(Characters) /\ Len(low) = free
       /\ \A j \in 1..free : low[j] = held[j]
  BY <1>8, <1>9, Pieces
<1> HIDE DEF low, high
<1>12. /\ next \in Searches /\ ~next.found /\ next.seen = r /\ next.read = s.read + 1
       /\ next.held = high /\ next.written = s.written \o low
  <2>1. r \in Nat /\ s.read + 1 \in Nat /\ s.written \o low \in Seq(Characters)
    BY <1>2, <1>4, <1>7, <1>11, Joined
  <2>2. next \in Searches
    BY <1>1, <1>10, <2>1 DEF Searches
  <2>3. /\ ~next.found /\ next.seen = r /\ next.read = s.read + 1
        /\ next.held = high /\ next.written = s.written \o low
    BY <1>1 DEF Searches
  <2>4. QED BY <2>2, <2>3
<1> HIDE DEF next
<1>13. u \in Seq(Characters) /\ Len(u) = Len(t) + 1 /\ u[Len(t) + 1] = c
       /\ \A i \in 1..Len(t) : u[i] = t[i]
  OBVIOUS
<1> HIDE DEF u
<1>14. s.seen <= Len(t) /\ \A j \in 1..s.seen : held[j] = t[Len(t) - s.seen + j]
  BY <1>2, <1>8 DEF EndsWith
<1>15. ASSUME NEW j \in 1..(s.seen + 1) PROVE held[j] = u[Len(t) - s.seen + j]
  <2>1. CASE j = s.seen + 1
    <3>1. Len(t) - s.seen + j = Len(t) + 1
      BY <1>2, <1>3, <2>1
    <3>2. QED BY <1>8, <1>13, <2>1, <3>1
  <2>2. CASE j \in 1..s.seen
    <3>1. Len(t) - s.seen + j \in 1..Len(t)
      BY <1>2, <1>3, <1>14, <2>2
    <3>2. QED BY <1>13, <1>14, <2>2, <3>1
  <2>3. QED BY <1>2, <2>1, <2>2
<1>16. \A j \in 1..r : next.held[j] = n[j]
  <2>1. SUFFICES ASSUME NEW j \in 1..r PROVE next.held[j] = n[j]
    OBVIOUS
  <2>2. free + j \in 1..(s.seen + 1)
    BY <1>2, <1>4, <1>9
  <2>5. Len(t) - s.seen + (free + j) = Len(u) - r + j
    BY <1>2, <1>3, <1>4, <1>9, <1>13
  <2>3. next.held[j] = u[Len(u) - r + j]
    BY <1>10, <1>12, <1>15, <2>2, <2>5
  <2>4. QED BY <1>4, <2>3 DEF EndsWith
<1>17. HasWritten(next, u, Len(u) - r)
  <2>1. /\ Len(s.written) = Len(t) - s.seen /\ Len(t) - s.seen \in Nat
        /\ \A i \in 1..(Len(t) - s.seen) : s.written[i] = t[i]
    BY <1>2, <1>3, <1>14 DEF Searching, HasWritten
  <2> DEFINE w == Len(t) - s.seen
  <2>5. /\ Len(next.written) = w + free
        /\ \A i \in 1..(w + free) :
             next.written[i] = IF i <= w THEN s.written[i] ELSE low[i - w]
    <3>1. /\ Len(s.written \o low) = Len(s.written) + Len(low)
          /\ \A i \in 1..(Len(s.written) + Len(low)) :
               (s.written \o low)[i] = IF i <= Len(s.written) THEN s.written[i]
                                                             ELSE low[i - Len(s.written)]
      BY <1>7, <1>11, Joined
    <3>2. QED BY <1>11, <1>12, <2>1, <3>1
  <2>6. w + free = Len(u) - r /\ w \in Nat
    BY <1>2, <1>3, <1>4, <1>9, <1>13, <2>1
  <2>7. Len(u) - r \in Nat /\ Len(u) - r <= Len(u)
    BY <1>3, <1>4, <1>9, <1>13, <2>6
  <2>2. Len(next.written) = Len(u) - r
    BY <2>5, <2>6
  <2>3. ASSUME NEW i \in 1..(Len(u) - r) PROVE next.written[i] = u[i]
    <3>1. CASE i \in 1..(Len(t) - s.seen)
      <4>1. next.written[i] = s.written[i]
        BY <2>1, <2>5, <2>6, <3>1
      <4>2. i \in 1..Len(t)
        BY <1>2, <1>3, <3>1
      <4>3. QED BY <1>13, <2>1, <3>1, <4>1, <4>2
    <3>2. CASE i \notin 1..(Len(t) - s.seen)
      <4> DEFINE j == i - w
      <4>1. i \in 1..(w + free) /\ ~(i <= w)
        BY <2>6, <3>2
      <4>2. j \in 1..free /\ j \in 1..(s.seen + 1)
        BY <1>2, <1>9, <2>6, <4>1
      <4>3. w + j = i
        BY <2>6
      <4>4. next.written[i] = held[j]
        BY <1>11, <2>5, <4>1, <4>2
      <4>5. QED BY <1>15, <4>2, <4>3, <4>4
    <3>3. QED BY <3>1, <3>2
  <2>8. QED BY <2>2, <2>3, <2>7 DEF HasWritten
<1>18. ASSUME NEW i \in 1..(Len(u) - Len(n) + 1) PROVE ~Occurs(n, u, i)
  <2>1. CASE i \in 1..(Len(t) - Len(n) + 1)
    BY <2>1, StillNot DEF Searching, u
  <2>2. CASE i \notin 1..(Len(t) - Len(n) + 1)
    <3>1. i = Len(u) - Len(n) + 1 /\ Len(n) <= Len(u)
      BY <1>3, <1>13, <2>2
    <3>2. ~EndsWith(n, u, Len(n))
      BY <1>3, <1>4, <1>6
    <3>3. QED BY <1>13, <3>1, <3>2, OccursLast
  <2>3. QED BY <2>1, <2>2
<1>19. next.read = Len(u)
  BY <1>12, <1>13 DEF Searching
<1>20. Len(next.held) = r
  BY <1>10, <1>12
<1>21. Searching(n, u, next)
  BY ONLY <1>4, <1>6, <1>12, <1>16, <1>17, <1>18, <1>19, <1>20 DEF Searching
<1>22. QED BY <1>12, <1>21 DEF next, u
-----------------------------------------------------------------------------
\* What a search is once it has read t: still searching, or the needle was in t.
HasRead(n, t, s) ==
  /\ s \in Searches
  /\ ~s.found => Searching(n, t, s)
  /\ s.found => \E f \in 1..(Len(t) - Len(n) + 1) : FoundAt(n, t, s, f)

LEMMA NothingIsRead ==
  ASSUME NEW n \in Seq(Characters), n # <<>>
  PROVE  HasRead(n, <<>>, NothingRead)
<1> DEFINE t == <<>>
           s == NothingRead
<1>1. Len(n) \in Nat \ {0} /\ t \in Seq(Characters) /\ Len(t) = 0
  OBVIOUS
<1>2. ~s.found /\ s.seen = 0 /\ s.held = <<>> /\ s.written = <<>> /\ s.read = 0
  BY DEF NothingRead
<1>3. s \in Searches
  <2>1. <<>> \in Seq(Characters)
    OBVIOUS
  <2>2. QED BY <2>1 DEF NothingRead, Searches
<1>4. Len(s.held) = 0 /\ Len(s.written) = 0
  BY <1>2
<1> HIDE DEF s, t
<1>5. EndsWith(n, t, 0) /\ \A k \in 0..Len(n) : EndsWith(n, t, k) => k <= 0
  BY <1>1 DEF EndsWith
<1>6. HasWritten(s, t, 0)
  BY <1>1, <1>4 DEF HasWritten
<1>7. \A i \in 1..(Len(t) - Len(n) + 1) : FALSE
  BY <1>1
<1>8. Len(t) - s.seen = 0 /\ s.seen \in 0..(Len(n) - 1)
  BY <1>1, <1>2
<1>9. Searching(n, t, s)
  BY <1>1, <1>2, <1>4, <1>5, <1>6, <1>7, <1>8 DEF Searching
<1>10. QED BY <1>2, <1>3, <1>9 DEF HasRead, s, t

LEMMA OneIsRead ==
  ASSUME NEW n \in Seq(Characters), n # <<>>, NEW t \in Seq(Characters), NEW c \in Characters,
         NEW s, HasRead(n, t, s)
  PROVE  HasRead(n, Append(t, c), KmpStep(n, Border(n), s, c))
<1> DEFINE m == Len(n)
           u == Append(t, c)
           next == KmpStep(n, Border(n), s, c)
<1>1. m \in Nat \ {0} /\ u \in Seq(Characters) /\ Len(u) = Len(t) + 1 /\ Len(t) \in Nat
  OBVIOUS
<1>2. s \in Searches
  BY DEF HasRead
<1>3. CASE s.found
  <2>1. next = s
    BY <1>3 DEF KmpStep
  <2>2. PICK f \in 1..(Len(t) - m + 1) : FoundAt(n, t, s, f)
    BY <1>3 DEF HasRead
  <2>3. FoundAt(n, u, s, f)
    BY <2>2, FoundStays
  <2>4. f \in 1..(Len(u) - m + 1)
    BY <1>1, <2>2
  <2> HIDE DEF u, next
  <2>5. QED BY <1>2, <1>3, <2>1, <2>3, <2>4 DEF HasRead, u, next
<1>4. CASE ~s.found /\ Seen(n, Border(n), s.seen, c) = m
  <2>1. Searching(n, t, s)
    BY <1>4 DEF HasRead
  <2>2. /\ next \in Searches /\ next.found
        /\ Len(u) - m + 1 \in 1..(Len(u) - m + 1)
        /\ FoundAt(n, u, next, Len(u) - m + 1)
    BY <1>2, <1>4, <2>1, Completes
  <2> HIDE DEF u, next
  <2>3. QED BY <2>2 DEF HasRead, u, next
<1>5. CASE ~s.found /\ Seen(n, Border(n), s.seen, c) # m
  <2>1. Searching(n, t, s)
    BY <1>5 DEF HasRead
  <2>2. next \in Searches /\ ~next.found /\ Searching(n, u, next)
    BY <1>2, <1>5, <2>1, GoesOn
  <2> HIDE DEF u, next
  <2>3. QED BY <2>2 DEF HasRead, u, next
<1>6. QED BY <1>3, <1>4, <1>5

\* A fold takes the members one after the other: its recursion, over the sets of those
\* taken already, defines something.
LEMMA LastMember ==
  ASSUME NEW m \in Nat, NEW s \in SUBSET (1..m), s # {}
  PROVE  Max(s) \in s /\ (m \in s => Max(s) = m)
<1>1. \E x \in s : \A y \in s : y <= x
  <2>1. PICK x0 \in s : TRUE
    OBVIOUS
  <2>2. s \in SUBSET (0..m) /\ x0 \in s
    OBVIOUS
  <2>3. QED BY ONLY <2>2, m \in Nat, GreatestNumber
<1>2. \E x \in s : \A y \in s : x >= y
  BY <1>1
<1> DEFINE last == Max(s)
<1>3. last \in s /\ \A y \in s : last >= y
  BY <1>2 DEF Max
<1> HIDE DEF last
<1>4. last \in 1..m /\ (m \in s => last >= m)
  BY <1>3
<1>5. m \in s => last = m
  BY ONLY <1>4, m \in Nat
<1>6. QED BY <1>3, <1>5 DEF last

LEMMA SearchSteps ==
  ASSUME NEW n, NEW h, NEW m \in Nat, DOMAIN h = 1..m
  PROVE  \E run : /\ run[0] = NothingRead /\ run[m] = KmpSearch(n, h)
                  /\ \A k \in 1..m : run[k] = KmpStep(n, Border(n), run[k - 1], h[k])
<1> DEFINE Then(s, i) == KmpStep(n, Border(n), s, h[i])
           Folds(f, k) == f = [s \in SUBSET (1..k) |->
                                 IF s = {} THEN NothingRead
                                 ELSE LET x == Max(s) IN Then(f[s \ {x}], x)]
           S == {k \in Nat : k <= m => \E f : Folds(f, k)}
           iter == CHOOSE f : f = [s \in SUBSET (DOMAIN h) |->
                                 IF s = {} THEN NothingRead
                                 ELSE LET x == Max(s) IN Then(f[s \ {x}], x)]
<1>1. KmpSearch(n, h) = iter[DOMAIN h]
  BY Zenon DEF KmpSearch, FoldLeft, MapThenFoldSet
<1> HIDE DEF Then
<1>2. 0 \in S
  <2> DEFINE f == [s \in SUBSET (1..0) |-> NothingRead]
  <2>1. \A s \in SUBSET (1..0) : s = {}
    OBVIOUS
  <2>2. Folds(f, 0)
    BY <2>1
  <2> HIDE DEF Folds
  <2>3. \E g : Folds(g, 0)
    BY <2>2
  <2>4. QED BY ONLY <2>3 DEF S
<1>3. ASSUME NEW k \in Nat, k \in S PROVE k + 1 \in S
  <2> HIDE DEF Folds
  <2>1. SUFFICES ASSUME k + 1 <= m PROVE \E f : Folds(f, k + 1)
    BY DEF S
  <2>2. PICK g : Folds(g, k)
    <3>1. k <= m
      BY ONLY <2>1, k \in Nat, m \in Nat
    <3>2. QED BY ONLY <1>3, <3>1 DEF S
  <2> USE DEF Folds
  <2> DEFINE f == [s \in SUBSET (1..(k + 1)) |->
                     IF k + 1 \in s THEN Then(g[s \ {k + 1}], k + 1) ELSE g[s]]
             step(s) == IF s = {} THEN NothingRead
                        ELSE LET x == Max(s) IN Then(f[s \ {x}], x)
  <2>3. \A s \in SUBSET (1..(k + 1)) :
          f[s] = IF k + 1 \in s THEN Then(g[s \ {k + 1}], k + 1) ELSE g[s]
    OBVIOUS
  <2>4. f = [s \in SUBSET (1..(k + 1)) |-> f[s]]
    OBVIOUS
  <2>5. \A s \in SUBSET (1..k) : s \in SUBSET (1..(k + 1)) /\ k + 1 \notin s
    OBVIOUS
  <2>6. \A s \in SUBSET (1..k) :
          g[s] = IF s = {} THEN NothingRead ELSE LET x == Max(s) IN Then(g[s \ {x}], x)
    BY <2>2
  <2> HIDE DEF f
  <2>7. \A s \in SUBSET (1..k) : f[s] = g[s]
    BY <2>3, <2>5
  <2>8. ASSUME NEW s \in SUBSET (1..(k + 1)) PROVE f[s] = step(s)
    <3>1. CASE k + 1 \in s
      <4>1. Max(s) = k + 1
        <5>1. k + 1 \in Nat /\ s # {}
          BY <3>1
        <5>2. QED BY ONLY <3>1, <5>1, s \in SUBSET (1..(k + 1)), LastMember
      <4>2. s \ {k + 1} \in SUBSET (1..k)
        OBVIOUS
      <4>3. QED BY <2>3, <2>7, <3>1, <4>1, <4>2
    <3>2. CASE k + 1 \notin s
      <4>1. s \in SUBSET (1..k)
        BY <3>2
      <4>2. s # {} => s \ {Max(s)} \in SUBSET (1..k)
        BY <4>1
      <4>3. QED BY <2>6, <2>7, <4>1, <4>2
    <3>3. QED BY <3>1, <3>2
  <2>9. Folds(f, k + 1)
    BY <2>4, <2>8
  <2>10. QED BY <2>9
<1>4. \E f : Folds(f, m)
  <2> HIDE DEF S, Folds
  <2>1. Nat \subseteq S
    BY ONLY <1>2, <1>3, Induction
  <2>2. QED BY ONLY <2>1, m \in Nat DEF S
<1>5. Folds(iter, m)
  BY <1>4
<1> HIDE DEF iter
<1>6. ASSUME NEW k \in 1..m PROVE iter[1..k] = Then(iter[1..(k - 1)], k)
  <2>1. 1..k \in SUBSET (1..m) /\ 1..k # {} /\ k \in 1..k /\ (1..k) \ {k} = 1..(k - 1)
    OBVIOUS
  <2>2. Max(1..k) = k
    <3>1. k \in Nat /\ 1..k \in SUBSET (1..k)
      OBVIOUS
    <3>2. QED BY ONLY <2>1, <3>1, LastMember
  <2>3. QED BY <1>5, <2>1, <2>2
<1>7. iter[1..0] = NothingRead
  <2>1. 1..0 = {} /\ 1..0 \in SUBSET (1..m)
    OBVIOUS
  <2>2. QED BY <1>5, <2>1
<1> DEFINE run == [k \in 0..m |-> iter[1..k]]
<1>8. run[0] = NothingRead /\ run[m] = iter[DOMAIN h]
  BY <1>7
<1>9. ASSUME NEW k \in 1..m PROVE run[k] = Then(run[k - 1], k)
  <2>1. k \in 0..m /\ k - 1 \in 0..m
    OBVIOUS
  <2>2. QED BY <1>6, <2>1
<1> HIDE DEF run
<1>10. QED BY <1>1, <1>8, <1>9 DEF Then

\* kmp over a whole text.
LEMMA SearchIs ==
  ASSUME NEW n \in Seq(Characters), n # <<>>, NEW h \in Seq(Characters)
  PROVE  HasRead(n, h, KmpSearch(n, h))
<1> DEFINE m == Len(h)
           part(k) == SubSeq(h, 1, k)
<1>1. m \in Nat /\ DOMAIN h = 1..m
  OBVIOUS
<1> HIDE DEF m
<1>2. PICK run : /\ run[0] = NothingRead /\ run[m] = KmpSearch(n, h)
                 /\ \A k \in 1..m : run[k] = KmpStep(n, Border(n), run[k - 1], h[k])
  BY <1>1, SearchSteps
<1> DEFINE S == {k \in Nat : k <= m => HasRead(n, part(k), run[k])}
<1>3. 0 \in S
  <2>1. part(0) = <<>>
    OBVIOUS
  <2>2. HasRead(n, <<>>, NothingRead)
    BY NothingIsRead
  <2>3. QED BY <1>2, <2>1, <2>2
<1>4. ASSUME NEW k \in Nat, k \in S PROVE k + 1 \in S
  <2>1. SUFFICES ASSUME k + 1 <= m PROVE HasRead(n, part(k + 1), run[k + 1])
    OBVIOUS
  <2>2. HasRead(n, part(k), run[k])
    BY <1>1, <1>4, <2>1
  <2>3. part(k) \in Seq(Characters) /\ h[k + 1] \in Characters /\ k + 1 \in 1..m
    BY <1>1, <2>1 DEF m
  <2>4. part(k + 1) = Append(part(k), h[k + 1])
    BY <1>1, <2>1 DEF m
  <2>5. run[k + 1] = KmpStep(n, Border(n), run[k], h[k + 1])
    BY <1>2, <2>3
  <2> HIDE DEF part
  <2>6. HasRead(n, Append(part(k), h[k + 1]), KmpStep(n, Border(n), run[k], h[k + 1]))
    BY <2>2, <2>3, OneIsRead
  <2>7. QED BY <2>4, <2>5, <2>6
<1>5. m \in S
  <2> HIDE DEF S
  <2>1. Nat \subseteq S
    BY ONLY <1>3, <1>4, Induction
  <2>2. QED BY <1>1, <2>1
<1>6. part(m) = h
  BY DEF m
<1> HIDE DEF part
<1>7. HasRead(n, part(m), run[m])
  BY <1>1, <1>5
<1>8. QED BY ONLY <1>2, <1>6, <1>7

-----------------------------------------------------------------------------
\* Of s, t comes behind the first o members.
Holds(s, o, t) == o \in Nat /\ o + Len(t) <= Len(s) /\ \A j \in 1..Len(t) : s[o + j] = t[j]

LEMMA JoinedHolds ==
  ASSUME NEW s \in Seq(Characters), NEW t \in Seq(Characters)
  PROVE  /\ s \o t \in Seq(Characters) /\ Len(s \o t) = Len(s) + Len(t)
         /\ Holds(s \o t, Len(s), t)
         /\ \A o : \A u \in Seq(Characters) : Holds(s, o, u) => Holds(s \o t, o, u)
<1> DEFINE st == s \o t
           m == Len(s)
<1>1. /\ st \in Seq(Characters) /\ Len(st) = m + Len(t) /\ Len(t) \in Nat /\ m \in Nat
      /\ \A i \in 1..(m + Len(t)) : st[i] = IF i <= m THEN s[i] ELSE t[i - m]
  <2>1. /\ st \in Seq(Characters) /\ Len(st) = m + Len(t)
        /\ \A i \in 1..(m + Len(t)) : st[i] = IF i <= m THEN s[i] ELSE t[i - m]
    BY Joined
  <2>2. Len(t) \in Nat /\ m \in Nat
    OBVIOUS
  <2>3. QED BY ONLY <2>1, <2>2
<1> HIDE DEF st, m
<1>2. Holds(st, m, t)
  <2>1. \A j \in 1..Len(t) : m + j \in 1..(m + Len(t)) /\ ~(m + j <= m) /\ (m + j) - m = j
    BY <1>1
  <2>2. \A j \in 1..Len(t) : st[m + j] = t[j]
    BY <1>1, <2>1
  <2>3. QED BY <1>1, <2>2 DEF Holds
<1>3. ASSUME NEW o, NEW u \in Seq(Characters), Holds(s, o, u) PROVE Holds(st, o, u)
  <2>1. o \in Nat /\ Len(u) \in Nat /\ o + Len(u) <= m /\ \A j \in 1..Len(u) : s[o + j] = u[j]
    <3>1. Len(u) \in Nat
      OBVIOUS
    <3>2. QED BY ONLY <1>3, <3>1 DEF Holds, m
  <2>2. \A j \in 1..Len(u) : o + j \in 1..(m + Len(t)) /\ o + j <= m
    BY <1>1, <2>1
  <2>3. \A j \in 1..Len(u) : st[o + j] = u[j]
    BY <1>1, <2>1, <2>2
  <2>4. o + Len(u) <= Len(st)
    BY <1>1, <2>1
  <2>5. QED BY <2>1, <2>3, <2>4 DEF Holds
<1>4. QED BY ONLY <1>1, <1>2, <1>3 DEF st, m

\* A beginning.
LEMMA PrefixIs ==
  ASSUME NEW s \in Seq(Characters), NEW t \in Seq(Characters), Len(s) <= Len(t),
         \A i \in 1..Len(s) : s[i] = t[i]
  PROVE  IsPrefix(s, t)
<1>1. Len(s) \in 0..Len(s) /\ Len(s) \in 0..Len(t)
  OBVIOUS
<1>2. /\ SubSeq(s, 1, Len(s)) \in Seq(Characters) /\ Len(SubSeq(s, 1, Len(s))) = Len(s)
      /\ \A i \in 1..Len(s) : SubSeq(s, 1, Len(s))[i] = s[i]
  BY <1>1, Pieces
<1>3. /\ SubSeq(t, 1, Len(s)) \in Seq(Characters) /\ Len(SubSeq(t, 1, Len(s))) = Len(s)
      /\ \A i \in 1..Len(s) : SubSeq(t, 1, Len(s))[i] = t[i]
  BY <1>1, Pieces
<1>4. SubSeq(s, 1, Len(s)) = SubSeq(t, 1, Len(s))
  BY <1>2, <1>3, SameSequence
<1>5. QED BY <1>4 DEF IsPrefix

-----------------------------------------------------------------------------
(* The coding of values: first, what FlattenSeq makes of pieces. *)

\* e is the pieces one after the other; the k-th ends at o[k].
Laid(pieces, e, o) ==
  /\ o \in [0..Len(pieces) -> Nat] /\ o[0] = 0 /\ o[Len(pieces)] = Len(e)
  /\ \A k \in 1..Len(pieces) :
       /\ o[k] = o[k - 1] + Len(pieces[k]) /\ o[k] <= Len(e)
       /\ \A j \in 1..Len(pieces[k]) : e[o[k - 1] + j] = pieces[k][j]

\* FlattenSeq lays out its pieces: all that is used of its recursion.
LEMMA FlattenSteps ==
  ASSUME NEW S, NEW pieces \in Seq(Seq(S)), Len(pieces) # 0
  PROVE  \E a \in [0..Len(pieces) -> Seq(S)] :
           /\ a[0] = <<>> /\ a[Len(pieces)] = FlattenSeq(pieces)
           /\ \A k \in 1..Len(pieces) : a[k] = a[k - 1] \o pieces[k]
<1> DEFINE n == Len(pieces)
           X == Seq(S)
           Added(k, s) == IF k = 1 THEN pieces[k] ELSE s \o pieces[k]
           At == CHOOSE f : f = [k \in 1..n |-> IF k = 1 THEN pieces[k] ELSE f[k - 1] \o pieces[k]]
           step == [k \in 1..n |-> [s \in X |-> Added(k, s)]]
<1>1. FlattenSeq(pieces) = At[n]
  BY DEF FlattenSeq
<1>2. n \in Nat \ {0} /\ <<>> \in X /\ \A k \in 1..n : pieces[k] \in X
  OBVIOUS
<1>3. \A k \in 1..n : \A s \in X : Added(k, s) \in X
  BY <1>2
<1> HIDE DEF n, X
<1>4. step \in [1..n -> [X -> X]]
  BY <1>3
<1>5. PICK g \in [0..n -> X] : g[0] = <<>> /\ \A k \in 1..n : g[k] = step[k][g[k - 1]]
  <2> HIDE DEF step, At
  <2>1. Recursive(X, <<>>, n, step) # {}
    BY ONLY <1>2, <1>4, Recursion, Zenon
  <2>2. QED BY ONLY <2>1 DEF Recursive
<1> DEFINE f == [k \in 1..n |-> g[k]]
<1>6. f = [k \in 1..n |-> IF k = 1 THEN pieces[k] ELSE f[k - 1] \o pieces[k]]
  <2>1. ASSUME NEW k \in 1..n
        PROVE  g[k] = IF k = 1 THEN pieces[k] ELSE g[k - 1] \o pieces[k]
    <3>1. k - 1 \in 0..n
      BY <1>2, <2>1
    <3>2. g[k - 1] \in X
      BY <3>1
    <3>3. g[k] = Added(k, g[k - 1])
      BY <1>5, <3>2
    <3>4. QED BY <3>3
  <2>2. \A k \in 1..n : k # 1 => k - 1 \in 1..n
    BY <1>2
  <2>3. QED BY ONLY <2>1, <2>2
<1>7. At = [k \in 1..n |-> IF k = 1 THEN pieces[k] ELSE At[k - 1] \o pieces[k]]
  <2> HIDE DEF f
  <2>1. QED BY ONLY <1>6
<1> HIDE DEF At, step
<1> DEFINE a == [k \in 0..n |-> IF k = 0 THEN <<>> ELSE At[k]]
           T == {k \in Nat : k <= n => a[k] \in X}
<1>8. \A k \in 1..n : At[k] = IF k = 1 THEN pieces[k] ELSE At[k - 1] \o pieces[k]
  BY ONLY <1>7
<1>9. \A s \in X : <<>> \o s = s
  BY DEF X
<1>10. \A k \in 1..n : a[k] = a[k - 1] \o pieces[k]
  <2>1. SUFFICES ASSUME NEW k \in 1..n PROVE a[k] = a[k - 1] \o pieces[k]
    OBVIOUS
  <2>2. CASE k = 1
    <3>1. a[k] = pieces[k] /\ a[k - 1] = <<>> /\ pieces[k] \in X
      BY <1>2, <1>8, <2>2
    <3>2. QED BY ONLY <1>9, <3>1
  <2>3. CASE k # 1
    <3>1. k \in 0..n /\ k - 1 \in 0..n /\ k # 0 /\ k - 1 # 0
      BY <1>2, <2>3
    <3>2. a[k] = At[k] /\ a[k - 1] = At[k - 1]
      BY ONLY <3>1
    <3> HIDE DEF a
    <3>3. QED BY <1>8, <2>3, <3>2
  <2>4. QED BY <2>2, <2>3
<1>11. a[0] = <<>> /\ a[n] = FlattenSeq(pieces)
  BY <1>1, <1>2
<1>12. a = [k \in 0..n |-> a[k]]
  OBVIOUS
<1> HIDE DEF a
<1>13. 0 \in T
  BY <1>2, <1>11
<1>14. ASSUME NEW k \in Nat, k \in T PROVE k + 1 \in T
  <2>1. SUFFICES ASSUME k + 1 <= n PROVE a[k + 1] \in X
    OBVIOUS
  <2>2. k + 1 \in 1..n /\ (k + 1) - 1 = k /\ k <= n
    BY <1>2, <2>1
  <2>3. a[k] \in X /\ pieces[k + 1] \in X /\ a[k + 1] = a[k] \o pieces[k + 1]
    BY <1>2, <1>10, <1>14, <2>2
  <2>4. QED BY ONLY <2>3 DEF X
<1> HIDE DEF T
<1>15. Nat \subseteq T
  BY ONLY <1>13, <1>14, Induction
<1>16. \A k \in 0..n : a[k] \in X
  BY <1>2, <1>15 DEF T
<1>17. a \in [0..n -> X]
  BY ONLY <1>12, <1>16
<1>18. QED BY ONLY <1>10, <1>11, <1>17 DEF n, X

LEMMA JoinedAt ==
  \A S : \A s, t \in Seq(S) :
    /\ s \o t \in Seq(S) /\ Len(s \o t) = Len(s) + Len(t)
    /\ \A i \in 1..Len(s) : (s \o t)[i] = s[i]
    /\ \A j \in 1..Len(t) : (s \o t)[Len(s) + j] = t[j]
OBVIOUS

LEMMA WithinSum ==
  ASSUME NEW x \in Nat, NEW l \in Nat, NEW y, y = x + l, NEW z \in Nat, y <= z
  PROVE  \A j \in 1..l : x + j \in 1..z
OBVIOUS

LEMMA FlattenIs ==
  ASSUME NEW S, NEW pieces \in Seq(Seq(S))
  PROVE  FlattenSeq(pieces) \in Seq(S) /\ \E o : Laid(pieces, FlattenSeq(pieces), o)
<1> DEFINE n == Len(pieces)
<1>1. CASE n = 0
  <2>1. FlattenSeq(pieces) = pieces /\ pieces = <<>>
    BY <1>1 DEF FlattenSeq
  <2> DEFINE o == [k \in 0..0 |-> 0]
  <2>2. Laid(<<>>, <<>>, o)
    BY DEF Laid
  <2>3. QED BY <2>1, <2>2
<1>2. CASE n # 0
  <2>1. PICK a \in [0..n -> Seq(S)] :
           /\ a[0] = <<>> /\ a[n] = FlattenSeq(pieces)
           /\ \A k \in 1..n : a[k] = a[k - 1] \o pieces[k]
    BY <1>2, FlattenSteps
  <2>2. n \in Nat /\ \A k \in 1..n : pieces[k] \in Seq(S) /\ k - 1 \in 0..n /\ k \in 0..n
    OBVIOUS
  <2> DEFINE o == [k \in 0..n |-> Len(a[k])]
  <2> HIDE DEF n
  <2>3. \A k \in 0..n : a[k] \in Seq(S) /\ o[k] = Len(a[k]) /\ o[k] \in Nat
    BY <2>1
  <2>4. o \in [0..n -> Nat] /\ o[0] = 0 /\ o[n] = Len(FlattenSeq(pieces))
    BY <2>1, <2>2, <2>3
  <2> HIDE DEF o
  <2>5. ASSUME NEW k \in 1..n
        PROVE  /\ o[k] = o[k - 1] + Len(pieces[k])
               /\ \A i \in 1..o[k - 1] : a[k][i] = a[k - 1][i]
               /\ \A j \in 1..Len(pieces[k]) : a[k][o[k - 1] + j] = pieces[k][j]
    <3>1. /\ a[k - 1] \in Seq(S) /\ pieces[k] \in Seq(S) /\ a[k] = a[k - 1] \o pieces[k]
          /\ o[k - 1] = Len(a[k - 1]) /\ o[k] = Len(a[k])
      BY <2>1, <2>2, <2>3
    <3> DEFINE s == a[k - 1]
               t == pieces[k]
    <3>2. s \in Seq(S) /\ t \in Seq(S) /\ a[k] = s \o t /\ o[k - 1] = Len(s) /\ o[k] = Len(s \o t)
      BY <3>1
    <3> HIDE DEF s, t
    <3>3. /\ Len(s \o t) = Len(s) + Len(t)
          /\ \A i \in 1..Len(s) : (s \o t)[i] = s[i]
          /\ \A j \in 1..Len(t) : (s \o t)[Len(s) + j] = t[j]
      BY ONLY <3>2, JoinedAt
    <3>4. /\ o[k] = o[k - 1] + Len(t)
          /\ \A i \in 1..o[k - 1] : a[k][i] = s[i]
          /\ \A j \in 1..Len(t) : a[k][o[k - 1] + j] = t[j]
      BY ONLY <3>2, <3>3
    <3>5. QED BY ONLY <3>4 DEF s, t
  <2> DEFINE T == {m \in Nat : m <= n =>
                     \A k \in 1..m :
                       /\ o[k] <= o[m]
                       /\ \A j \in 1..Len(pieces[k]) : a[m][o[k - 1] + j] = pieces[k][j]}
  <2>6. 0 \in T
    OBVIOUS
  <2>7. ASSUME NEW m \in Nat, m \in T PROVE m + 1 \in T
    <3>1. SUFFICES ASSUME m + 1 <= n, NEW k \in 1..(m + 1)
                   PROVE  /\ o[k] <= o[m + 1]
                          /\ \A j \in 1..Len(pieces[k]) : a[m + 1][o[k - 1] + j] = pieces[k][j]
      OBVIOUS
    <3>2. m + 1 \in 1..n /\ (m + 1) - 1 = m /\ m <= n /\ m \in 0..n /\ m + 1 \in 0..n
      BY <2>2, <3>1
    <3>3. /\ o[m + 1] = o[m] + Len(pieces[m + 1])
          /\ \A i \in 1..o[m] : a[m + 1][i] = a[m][i]
          /\ \A j \in 1..Len(pieces[m + 1]) : a[m + 1][o[m] + j] = pieces[m + 1][j]
      BY <2>5, <3>2
    <3>4. CASE k = m + 1
      <4>1. o[m + 1] \in Nat
        BY <2>3, <3>2
      <4>2. QED BY <3>2, <3>3, <3>4, <4>1
    <3>5. CASE k # m + 1
      <4>1. k \in 1..m /\ k \in 1..n /\ k - 1 \in 0..n /\ k \in 0..n
        BY <2>2, <3>1, <3>2, <3>5
      <4>2. o[k] <= o[m] /\ \A j \in 1..Len(pieces[k]) : a[m][o[k - 1] + j] = pieces[k][j]
        BY <2>7, <3>2, <4>1
      <4>3. /\ o[k - 1] \in Nat /\ o[k] \in Nat /\ o[m] \in Nat
            /\ Len(pieces[k]) \in Nat /\ Len(pieces[m + 1]) \in Nat
            /\ o[k] = o[k - 1] + Len(pieces[k])
        <5>1. pieces[k] \in Seq(S) /\ pieces[m + 1] \in Seq(S)
          BY <2>2, <3>2, <4>1
        <5>2. Len(pieces[k]) \in Nat /\ Len(pieces[m + 1]) \in Nat
          BY ONLY <5>1
        <5>3. o[k] = o[k - 1] + Len(pieces[k])
          BY ONLY <2>5, <4>1
        <5>4. o[k - 1] \in Nat /\ o[k] \in Nat /\ o[m] \in Nat
          BY ONLY <2>3, <3>2, <4>1
        <5>5. QED BY ONLY <5>2, <5>3, <5>4
      <4>4. o[k] <= o[m + 1]
        BY ONLY <3>3, <4>2, <4>3
      <4>5. \A j \in 1..Len(pieces[k]) : o[k - 1] + j \in 1..o[m]
        BY ONLY <4>2, <4>3, WithinSum
      <4>6. QED BY ONLY <3>3, <4>2, <4>4, <4>5
    <3>6. QED BY <3>4, <3>5
  <2> HIDE DEF T
  <2>8. Nat \subseteq T
    BY ONLY <2>6, <2>7, Induction
  <2>9. \A k \in 1..n :
          /\ o[k] <= o[n]
          /\ \A j \in 1..Len(pieces[k]) : a[n][o[k - 1] + j] = pieces[k][j]
    <3>1. n \in T /\ n <= n
      BY ONLY <2>2, <2>8
    <3>2. QED BY ONLY <3>1 DEF T
  <2>10. Laid(pieces, FlattenSeq(pieces), o)
    BY <2>1, <2>4, <2>5, <2>9 DEF Laid, n
  <2>11. FlattenSeq(pieces) \in Seq(S)
    BY <2>1, <2>2, <2>3
  <2>12. QED BY <2>10, <2>11
<1>3. QED BY <1>1, <1>2

-----------------------------------------------------------------------------
(* Decoding. *)

LEMMA HexType == ASSUME NEW h, NEW l PROVE HexToAscii(h, l) \in Characters
BY DEF HexToAscii, Characters, Special

Cut(s, i)   == i > Len(s) \/ (s[i] = "%" /\ i + 2 > Len(s))
Plain(c)    == IF c = "+" THEN " " ELSE c
\* f[i] is what decode_percent makes of s from its i-th character on.
Decoded(s, f) ==
  /\ f \in [1..(Len(s) + 1) -> Seq(Characters)]
  /\ \A i \in 1..(Len(s) + 1) :
       f[i] = IF Cut(s, i) THEN <<>>
              ELSE IF s[i] = "%" THEN <<HexToAscii(s[i + 1], s[i + 2])>> \o f[i + 3]
              ELSE <<Plain(s[i])>> \o f[i + 1]

LEMMA DecodeIs ==
  ASSUME NEW s \in Seq(Characters)
  PROVE  \E f : Decoded(s, f) /\ DecodePercent(s) = f[1]
<1> DEFINE n == Len(s) + 1
           X == Seq(Characters)
           From == CHOOSE f : f = [i \in 1..n |->
                     IF i > Len(s) \/ (s[i] = "%" /\ i + 2 > Len(s)) THEN <<>>
                     ELSE IF s[i] = "%" THEN <<HexToAscii(s[i + 1], s[i + 2])>> \o f[i + 3]
                     ELSE <<IF s[i] = "+" THEN " " ELSE s[i]>> \o f[i + 1]]
           At(i, q) == IF Cut(s, i) THEN <<>>
                       ELSE IF s[i] = "%" THEN <<HexToAscii(s[i + 1], s[i + 2])>> \o q[n - i - 2]
                       ELSE <<Plain(s[i])>> \o q[n - i]
           step == [k \in 1..n |-> [q \in Seq(X) |-> IF Len(q) = k - 1 THEN At(n + 1 - k, q) ELSE <<>>]]
<1>1. DecodePercent(s) = From[1]
  BY DEF DecodePercent
<1>2. n \in Nat /\ Len(s) \in Nat /\ n = Len(s) + 1 /\ \A i \in 1..Len(s) : s[i] \in Characters
  OBVIOUS
<1>3. <<>> \in X /\ \A c \in Characters : \A t \in X : <<c>> \o t \in X
  <2>1. \A S : \A c \in S, t \in Seq(S) : <<c>> \o t \in Seq(S)
    OBVIOUS
  <2>2. QED BY ONLY <2>1
<1>4. \A i \in 1..Len(s) : Plain(s[i]) \in Characters
  <2>1. " " \in Characters
    BY DEF Characters, Special
  <2>2. QED BY <1>2, <2>1 DEF Plain
<1> HIDE DEF n, X, At
<1>5. ASSUME NEW i \in 1..n, NEW q \in Seq(X), Len(q) = n - i PROVE At(i, q) \in X
  <2>1. CASE Cut(s, i)
    BY <1>3, <2>1 DEF At
  <2>2. CASE ~Cut(s, i) /\ s[i] = "%"
    <3>1. n - i - 2 \in 1..Len(q)
      BY <1>2, <1>5, <2>2 DEF Cut
    <3>2. q[n - i - 2] \in X
      BY ONLY <3>1, <1>5
    <3>3. HexToAscii(s[i + 1], s[i + 2]) \in Characters
      BY ONLY HexType
    <3>4. <<HexToAscii(s[i + 1], s[i + 2])>> \o q[n - i - 2] \in X
      BY ONLY <1>3, <3>2, <3>3
    <3>5. QED BY <2>2, <3>4 DEF At
  <2>3. CASE ~Cut(s, i) /\ s[i] # "%"
    <3>1. n - i \in 1..Len(q) /\ i \in 1..Len(s)
      BY <1>2, <1>5, <2>3 DEF Cut
    <3>2. q[n - i] \in X /\ Plain(s[i]) \in Characters
      BY <3>1, <1>4, <1>5
    <3>3. <<Plain(s[i])>> \o q[n - i] \in X
      BY ONLY <1>3, <3>2
    <3>4. QED BY <2>3, <3>3 DEF At
  <2>4. QED BY <2>1, <2>2, <2>3
<1>6. step \in [1..n -> [Seq(X) -> X]]
  <2>1. ASSUME NEW k \in 1..n, NEW q \in Seq(X), Len(q) = k - 1 PROVE At(n + 1 - k, q) \in X
    <3>1. n + 1 - k \in 1..n /\ Len(q) = n - (n + 1 - k)
      BY <1>2, <2>1
    <3>2. QED BY <1>5, <3>1
  <2>2. QED BY <1>3, <2>1
<1>7. PICK f \in [1..n -> X] :
        \A i \in 1..n : f[i] = step[n + 1 - i][[j \in 1..(n - i) |-> f[n + 1 - j]]]
  <2> HIDE DEF step, From
  <2>1. FromAllBehind(X, n, step) # {}
    BY ONLY <1>2, <1>6, Backwards
  <2>2. QED BY ONLY <2>1 DEF FromAllBehind
<1>8. ASSUME NEW i \in 1..n
      PROVE  f[i] = IF Cut(s, i) THEN <<>>
                    ELSE IF s[i] = "%" THEN <<HexToAscii(s[i + 1], s[i + 2])>> \o f[i + 3]
                    ELSE <<Plain(s[i])>> \o f[i + 1]
  <2> DEFINE q == [j \in 1..(n - i) |-> f[n + 1 - j]]
  <2>1. n + 1 - i \in 1..n /\ n - i \in Nat /\ n + 1 - (n + 1 - i) = i /\ (n + 1 - i) - 1 = n - i
    BY <1>2
  <2>2. \A j \in 1..(n - i) : n + 1 - j \in 1..n
    BY <1>2
  <2>3. q \in Seq(X) /\ Len(q) = n - i
    <3>1. q \in [1..(n - i) -> X]
      BY <2>2
    <3> HIDE DEF q
    <3>2. QED BY ONLY <2>1, <3>1
  <2>4. f[i] = step[n + 1 - i][q]
    BY <1>7
  <2>5. f[i] = At(i, q)
    <3> HIDE DEF q
    <3>1. step[n + 1 - i][q] = IF Len(q) = (n + 1 - i) - 1 THEN At(n + 1 - (n + 1 - i), q) ELSE <<>>
      BY <2>1, <2>3
    <3>2. QED BY ONLY <2>1, <2>3, <2>4, <3>1
  <2>6. ~Cut(s, i) => q[n - i] = f[i + 1]
    <3>1. ~Cut(s, i) => n - i \in 1..(n - i) /\ n + 1 - (n - i) = i + 1
      BY <1>2 DEF Cut
    <3>2. QED BY <3>1
  <2>7. ~Cut(s, i) /\ s[i] = "%" => q[n - i - 2] = f[i + 3]
    <3>1. ~Cut(s, i) /\ s[i] = "%" => n - i - 2 \in 1..(n - i) /\ n + 1 - (n - i - 2) = i + 3
      BY <1>2 DEF Cut
    <3>2. QED BY <3>1
  <2> HIDE DEF q
  <2>8. QED BY ONLY <2>5, <2>6, <2>7 DEF At
<1> DEFINE body(g, i) == IF i > Len(s) \/ (s[i] = "%" /\ i + 2 > Len(s)) THEN <<>>
                     ELSE IF s[i] = "%" THEN <<HexToAscii(s[i + 1], s[i + 2])>> \o g[i + 3]
                     ELSE <<IF s[i] = "+" THEN " " ELSE s[i]>> \o g[i + 1]
<1>9. f = [i \in 1..n |-> body(f, i)]
  <2>1. \A i \in 1..n : f[i] = body(f, i)
    BY <1>8 DEF Cut, Plain
  <2> HIDE DEF body
  <2>2. QED BY ONLY <1>7, <2>1
<1>10. From = [i \in 1..n |-> body(From, i)]
  <2>1. From = CHOOSE g : g = [i \in 1..n |-> body(g, i)]
    OBVIOUS
  <2> HIDE DEF From, body
  <2>2. QED BY ONLY <1>9, <2>1
<1> HIDE DEF From, step
<1>11. ASSUME NEW i \in 1..n
       PROVE  From[i] = IF Cut(s, i) THEN <<>>
                    ELSE IF s[i] = "%" THEN <<HexToAscii(s[i + 1], s[i + 2])>> \o From[i + 3]
                    ELSE <<Plain(s[i])>> \o From[i + 1]
  <2>1. From[i] = body(From, i)
    <3> HIDE DEF body
    <3>1. QED BY ONLY <1>10, i \in 1..n
  <2>2. QED BY <2>1 DEF Cut, Plain
<1> HIDE DEF body
\* It has the right type because each of its values comes of the ones behind it.
<1> DEFINE T == {k \in Nat : \A i \in 1..n : n - i < k => From[i] \in X}
<1>12. 0 \in T
  BY <1>2
<1>13. ASSUME NEW k \in Nat, k \in T PROVE k + 1 \in T
  <2>1. SUFFICES ASSUME NEW i \in 1..n, n - i < k + 1 PROVE From[i] \in X
    OBVIOUS
  <2>2. \A j \in 1..n : j > i => From[j] \in X
    BY <1>2, <1>13, <2>1
  <2>3. CASE Cut(s, i)
    BY <1>3, <1>11, <2>3
  <2>4. CASE ~Cut(s, i) /\ s[i] = "%"
    <3>1. i + 3 \in 1..n /\ i + 3 > i
      BY <1>2, <2>4 DEF Cut
    <3>2. From[i + 3] \in X /\ HexToAscii(s[i + 1], s[i + 2]) \in Characters
      BY ONLY <2>2, <3>1, HexType
    <3>3. QED BY <1>3, <1>11, <2>4, <3>2
  <2>5. CASE ~Cut(s, i) /\ s[i] # "%"
    <3>1. i + 1 \in 1..n /\ i + 1 > i /\ i \in 1..Len(s)
      BY <1>2, <2>5 DEF Cut
    <3>2. From[i + 1] \in X /\ Plain(s[i]) \in Characters
      BY ONLY <1>4, <2>2, <3>1
    <3>3. QED BY <1>3, <1>11, <2>5, <3>2
  <2>6. QED BY <2>3, <2>4, <2>5
<1> HIDE DEF T
<1>14. Nat \subseteq T
  BY ONLY <1>12, <1>13, Induction
<1>15. \A i \in 1..n : From[i] \in X
  <2>1. n + 1 \in T /\ \A i \in 1..n : n - i < n + 1
    BY ONLY <1>2, <1>14
  <2>2. QED BY ONLY <2>1 DEF T
<1>16. From \in [1..n -> X]
  BY ONLY <1>10, <1>15
<1>17. Decoded(s, From)
  BY ONLY <1>11, <1>16 DEF Decoded, n, X
<1>18. QED BY <1>1, <1>17

\* A piece that stands for one character.
DecodesTo(p, c) ==
  \/ Len(p) = 1 /\ p[1] # "%" /\ c = Plain(p[1])
  \/ Len(p) = 3 /\ p[1] = "%" /\ c = HexToAscii(p[2], p[3])

LEMMA PutBefore ==
  \A S : \A c \in S : \A s \in Seq(S) :
    /\ Len(<<c>> \o s) = Len(s) + 1 /\ (<<c>> \o s)[1] = c
    /\ \A j \in 1..Len(s) : (<<c>> \o s)[j + 1] = s[j]
OBVIOUS

\* One piece: what comes of it is its character, and then what comes of the rest.
LEMMA DecodesOne ==
  ASSUME NEW e \in Seq(Characters), NEW f, Decoded(e, f), NEW p \in Seq(Characters), NEW c, DecodesTo(p, c),
         NEW x \in Nat, x + Len(p) <= Len(e), \A j \in 1..Len(p) : e[x + j] = p[j]
  PROVE  f[x + 1] = <<c>> \o f[(x + Len(p)) + 1] /\ f[(x + Len(p)) + 1] \in Seq(Characters)
<1>1. Len(e) \in Nat /\ Len(p) \in Nat
  OBVIOUS
<1>2. CASE Len(p) = 1 /\ p[1] # "%" /\ c = Plain(p[1])
  <2>1. x + 1 \in 1..(Len(e) + 1) /\ x + 1 <= Len(e) /\ (x + 1) + 1 = (x + Len(p)) + 1
        /\ (x + Len(p)) + 1 \in 1..(Len(e) + 1)
    BY <1>1, <1>2
  <2>2. e[x + 1] = p[1]
    BY <1>2
  <2>3. ~Cut(e, x + 1)
    BY <1>2, <2>1, <2>2 DEF Cut
  <2>4. f[x + 1] = <<Plain(e[x + 1])>> \o f[(x + 1) + 1]
    BY <1>2, <2>1, <2>2, <2>3 DEF Decoded
  <2>5. f[(x + Len(p)) + 1] \in Seq(Characters)
    BY <2>1 DEF Decoded
  <2>6. QED BY ONLY <1>2, <2>1, <2>2, <2>4, <2>5
<1>3. CASE Len(p) = 3 /\ p[1] = "%" /\ c = HexToAscii(p[2], p[3])
  <2>1. x + 1 \in 1..(Len(e) + 1) /\ x + 1 <= Len(e) /\ (x + 1) + 3 = (x + Len(p)) + 1
        /\ (x + Len(p)) + 1 \in 1..(Len(e) + 1) /\ (x + 1) + 2 <= Len(e)
        /\ (x + 1) + 1 = x + 2 /\ (x + 1) + 2 = x + 3
    BY <1>1, <1>3
  <2>2. e[x + 1] = p[1] /\ e[x + 2] = p[2] /\ e[x + 3] = p[3]
    BY <1>3
  <2>3. ~Cut(e, x + 1)
    BY <2>1, <1>1 DEF Cut
  <2>4. f[x + 1] = <<HexToAscii(e[(x + 1) + 1], e[(x + 1) + 2])>> \o f[(x + 1) + 3]
    BY <1>3, <2>1, <2>2, <2>3 DEF Decoded
  <2>5. f[(x + Len(p)) + 1] \in Seq(Characters)
    BY <2>1 DEF Decoded
  <2>6. QED BY ONLY <1>3, <2>1, <2>2, <2>4, <2>5
<1>4. QED BY <1>2, <1>3 DEF DecodesTo

\* s is a beginning of t.
Begins(s, t) == Len(s) <= Len(t) /\ \A j \in 1..Len(s) : s[j] = t[j]

\* pieces stand for the characters of t.
StandFor(pieces, t) == Len(t) = Len(pieces) /\ \A k \in 1..Len(t) : DecodesTo(pieces[k], t[k])

\* n pieces are whole in d.
WholeIn(o, d, n) == n \in Nat /\ (\A k \in 0..n : o[k] <= Len(d)) /\ Cut(d, o[n] + 1)

\* Of a text that is cut somewhere, decoding gives the characters of the pieces that
\* are whole, and stops at the one that is not.
LEMMA DecodesUpTo ==
  ASSUME NEW pieces \in Seq(Seq(Characters)), NEW t \in Seq(Characters), StandFor(pieces, t),
         NEW e \in Seq(Characters), NEW o, Laid(pieces, e, o),
         NEW d \in Seq(Characters), Begins(d, e),
         NEW n, n <= Len(t), WholeIn(o, d, n)
  PROVE  /\ DecodePercent(d) \in Seq(Characters) /\ Len(DecodePercent(d)) = n
         /\ \A j \in 1..n : DecodePercent(d)[j] = t[j]
<1>1. /\ n \in Nat /\ Len(t) \in Nat /\ Len(d) \in Nat /\ n <= Len(t)
      /\ (\A k \in 1..n : k \in 1..Len(t) /\ k \in 1..Len(pieces) /\ k \in 0..n)
      /\ (\A k \in 0..n : o[k] <= Len(d)) /\ Cut(d, o[n] + 1)
      /\ Len(t) = Len(pieces) /\ (\A k \in 1..Len(t) : DecodesTo(pieces[k], t[k]))
      /\ \A j \in 1..Len(d) : d[j] = e[j]
  BY DEF WholeIn, StandFor, Begins
<1>3. PICK f : Decoded(d, f) /\ DecodePercent(d) = f[1]
  BY DecodeIs
<1>4. \A k \in 1..n : t[k] \in Characters /\ pieces[k] \in Seq(Characters) /\ DecodesTo(pieces[k], t[k])
  BY <1>1
<1>5. /\ o[0] = 0 /\ \A k \in 0..n : o[k] \in Nat /\ o[k] <= Len(d)
      /\ \A k \in 1..n :
           /\ o[k] = o[k - 1] + Len(pieces[k])
           /\ \A j \in 1..Len(pieces[k]) : e[o[k - 1] + j] = pieces[k][j]
  <2>1. /\ o \in [0..Len(pieces) -> Nat] /\ o[0] = 0
        /\ \A k \in 1..Len(pieces) :
             /\ o[k] = o[k - 1] + Len(pieces[k])
             /\ \A j \in 1..Len(pieces[k]) : e[o[k - 1] + j] = pieces[k][j]
    BY DEF Laid
  <2>2. \A k \in 0..n : k \in 0..Len(pieces)
    BY ONLY <1>1
  <2>3. \A k \in 0..n : o[k] \in Nat
    BY ONLY <2>1, <2>2
  <2>4. QED BY ONLY <1>1, <2>1, <2>3
<1>6. ASSUME NEW k \in 1..n
      PROVE  f[o[k - 1] + 1] = <<t[k]>> \o f[o[k] + 1] /\ f[o[k] + 1] \in Seq(Characters)
  <2> DEFINE x == o[k - 1]
             p == pieces[k]
  <2>1. k - 1 \in 0..n /\ k \in 0..n
    BY <1>1
  <2>2. /\ x \in Nat /\ p \in Seq(Characters) /\ DecodesTo(p, t[k]) /\ o[k] = x + Len(p)
        /\ x + Len(p) <= Len(d) /\ \A j \in 1..Len(p) : e[x + j] = p[j]
    BY <1>4, <1>5, <2>1
  <2> HIDE DEF x, p
  <2>3. \A j \in 1..Len(p) : x + j \in 1..Len(d)
    <3>1. Len(p) \in Nat
      BY ONLY <2>2
    <3>2. QED BY ONLY <1>1, <2>2, <3>1
  <2>4. \A j \in 1..Len(p) : d[x + j] = p[j]
    BY ONLY <1>1, <2>2, <2>3
  <2>5. f[x + 1] = <<t[k]>> \o f[(x + Len(p)) + 1] /\ f[(x + Len(p)) + 1] \in Seq(Characters)
    BY ONLY <1>3, <2>2, <2>4, DecodesOne, d \in Seq(Characters)
  <2>6. QED BY ONLY <2>2, <2>5 DEF x
<1> DEFINE From(m) == f[o[n - m] + 1]
           T == {m \in Nat : m <= n =>
                   From(m) \in Seq(Characters) /\ Len(From(m)) = m
                   /\ \A j \in 1..m : From(m)[j] = t[(n - m) + j]}
<1>7. 0 \in T
  <2>0. n \in 0..n
    BY ONLY <1>1
  <2>1. n - 0 = n /\ o[n] + 1 \in 1..(Len(d) + 1)
    BY ONLY <1>1, <1>5, <2>0
  <2>2. From(0) = f[o[n] + 1]
    BY ONLY <2>1
  <2>3. f[o[n] + 1] = <<>>
    BY ONLY <1>1, <1>3, <2>1 DEF Decoded
  <2>4. From(0) = <<>> /\ <<>> \in Seq(Characters) /\ Len(<<>>) = 0
    BY <2>2, <2>3
  <2> HIDE DEF From
  <2>5. \A j \in 1..0 : FALSE
    OBVIOUS
  <2>6. QED BY <2>4, <2>5
<1>8. ASSUME NEW m \in Nat, m \in T PROVE m + 1 \in T
  <2>1. SUFFICES ASSUME m + 1 <= n
                 PROVE  /\ From(m + 1) \in Seq(Characters) /\ Len(From(m + 1)) = m + 1
                        /\ \A j \in 1..(m + 1) : From(m + 1)[j] = t[(n - (m + 1)) + j]
    OBVIOUS
  <2> DEFINE k == n - m
             s == From(m)
  <2>2. k \in 1..n /\ n - (m + 1) = k - 1 /\ m <= n /\ (k - 1) + 1 = k
    BY <1>1, <2>1
  <2>3. s \in Seq(Characters) /\ Len(s) = m /\ \A j \in 1..m : s[j] = t[k + j]
    BY <1>8, <2>2
  <2>4. From(m + 1) = <<t[k]>> \o s /\ t[k] \in Characters
    BY <1>4, <1>6, <2>2
  <2> HIDE DEF s, From, T
  <2>5. /\ Len(<<t[k]>> \o s) = m + 1 /\ (<<t[k]>> \o s)[1] = t[k]
        /\ \A j \in 1..m : (<<t[k]>> \o s)[j + 1] = s[j]
    BY ONLY <2>3, <2>4, PutBefore
  <2>6. <<t[k]>> \o s \in Seq(Characters)
    BY ONLY <2>3, <2>4
  <2>7. ASSUME NEW j \in 1..(m + 1) PROVE From(m + 1)[j] = t[(k - 1) + j]
    <3>1. CASE j = 1
      BY <2>2, <2>4, <2>5, <3>1
    <3>2. CASE j # 1
      <4>1. j - 1 \in 1..m /\ (j - 1) + 1 = j /\ k + (j - 1) = (k - 1) + j
        BY <1>1, <2>2, <3>2
      <4>2. (<<t[k]>> \o s)[j] = s[j - 1] /\ s[j - 1] = t[k + (j - 1)]
        BY ONLY <2>3, <2>5, <4>1
      <4>3. QED BY ONLY <2>4, <4>1, <4>2
    <3>3. QED BY <3>1, <3>2
  <2>8. QED BY <2>2, <2>4, <2>5, <2>6, <2>7
<1>9. n \in T
  <2> HIDE DEF T
  <2>1. Nat \subseteq T
    BY ONLY <1>7, <1>8, Induction
  <2>2. QED BY <1>1, <2>1
<1>10. n - n = 0 /\ o[0] + 1 = 1 /\ n <= n
  BY <1>1, <1>5
<1>11. f[1] \in Seq(Characters) /\ Len(f[1]) = n /\ \A j \in 1..n : f[1][j] = t[j]
  <2>1. From(n) = f[1] /\ \A j \in 1..n : (n - n) + j = j
    BY <1>1, <1>10
  <2>2. QED BY <1>9, <1>10, <2>1
<1>12. QED BY ONLY <1>3, <1>11

\* A text that is coded comes out again, and of a beginning of the code a beginning of it.
LEMMA DecodesAll ==
  ASSUME NEW pieces \in Seq(Seq(Characters)), NEW t \in Seq(Characters), StandFor(pieces, t)
  PROVE  /\ DecodePercent(FlattenSeq(pieces)) = t
         /\ \A k \in 0..Len(FlattenSeq(pieces)) :
              LET part == DecodePercent(SubSeq(FlattenSeq(pieces), 1, k))
              IN  part \in Seq(Characters) /\ IsPrefix(part, t)
<1> DEFINE e == FlattenSeq(pieces)
           n == Len(t)
<1>1. /\ e \in Seq(Characters) /\ n \in Nat /\ n = Len(pieces) /\ Len(e) \in Nat
      /\ \A k \in 1..n : DecodesTo(pieces[k], t[k])
  BY FlattenIs DEF StandFor
<1>2. PICK o : Laid(pieces, e, o)
  BY FlattenIs
<1> HIDE DEF e
<1>3. /\ o[0] = 0 /\ o[n] = Len(e) /\ (\A k \in 0..n : o[k] \in Nat /\ o[k] <= Len(e))
      /\ \A k \in 1..n :
           /\ o[k] = o[k - 1] + Len(pieces[k])
           /\ \A j \in 1..Len(pieces[k]) : e[o[k - 1] + j] = pieces[k][j]
  <2>1. /\ o \in [0..n -> Nat] /\ o[0] = 0 /\ o[n] = Len(e)
        /\ \A k \in 1..n :
             /\ o[k] = o[k - 1] + Len(pieces[k]) /\ o[k] <= Len(e)
             /\ \A j \in 1..Len(pieces[k]) : e[o[k - 1] + j] = pieces[k][j]
    BY <1>1, <1>2 DEF Laid
  <2> HIDE DEF n
  <2>2. \A k \in 0..n : k = 0 \/ k \in 1..n
    BY <1>1
  <2>3. ASSUME NEW k \in 0..n PROVE o[k] \in Nat /\ o[k] <= Len(e)
    <3>1. o[k] \in Nat
      BY ONLY <2>1, k \in 0..n
    <3>2. o[k] <= Len(e)
      BY <1>1, <2>1, <2>2
    <3>3. QED BY ONLY <3>1, <3>2
  <2>4. QED BY ONLY <2>1, <2>3
<1>4. ASSUME NEW k \in 0..Len(e), NEW d, d = SubSeq(e, 1, k)
      PROVE  /\ DecodePercent(d) \in Seq(Characters) /\ IsPrefix(DecodePercent(d), t)
             /\ k = Len(e) => Len(DecodePercent(d)) = n
  <2>1. d \in Seq(Characters) /\ Len(d) = k /\ k \in Nat /\ \A j \in 1..Len(d) : d[j] = e[j]
    BY <1>1, <1>4, Pieces
  <2> DEFINE T == {m \in 0..n : \A i \in 0..m : o[i] <= k}
  <2>2. PICK m \in T : \A y \in T : y <= m
    <3>1. 0 \in T
      BY <1>1, <1>3, <2>1
    <3>2. T \in SUBSET (0..n) /\ T # {} /\ n \in Nat
      BY <1>1, <3>1
    <3> HIDE DEF T, n
    <3>3. QED BY ONLY <3>2, GreatestNumber
  <2> HIDE DEF n
  <2>3. m \in Nat /\ m \in 0..n /\ \A i \in 0..m : o[i] <= k
    BY <1>1, <2>2
  <2>4. o[m] \in Nat /\ o[m] <= k
    BY <1>3, <2>3
  <2>5. Cut(d, o[m] + 1)
    <3>1. CASE m = n
      <4>1. o[m] + 1 > Len(d)
        BY <1>1, <1>3, <2>1, <2>4, <3>1
      <4>2. QED BY <4>1 DEF Cut
    <3>2. CASE m # n
      <4> DEFINE p == pieces[m + 1]
      <4>1. m + 1 \in 1..n /\ m + 1 \in 0..n /\ (m + 1) - 1 = m /\ ~(m + 1 <= m)
        BY <1>1, <2>3, <3>2
      <4>2. o[m + 1] \in Nat /\ o[m + 1] > k
        <5>1. m + 1 \notin T
          BY ONLY <2>2, <4>1
        <5>2. PICK i \in 0..(m + 1) : ~(o[i] <= k)
          BY ONLY <4>1, <5>1 DEF T
        <5>3. i \notin 0..m
          BY <2>3, <5>2
        <5>4. i = m + 1
          BY <2>3, <5>2, <5>3
        <5>5. o[m + 1] \in Nat /\ ~(o[m + 1] <= k)
          BY ONLY <1>3, <4>1, <5>2, <5>4
        <5>6. QED BY ONLY <2>1, <5>5
      <4>3. /\ DecodesTo(p, t[m + 1]) /\ o[m + 1] = o[m] + Len(p)
            /\ \A j \in 1..Len(p) : e[o[m] + j] = p[j]
        BY <1>1, <1>3, <4>1
      <4> HIDE DEF p
      <4>4. CASE Len(p) = 1
        <5>1. o[m] + 1 > Len(d)
          BY <2>1, <4>2, <4>3, <4>4
        <5>2. QED BY <5>1 DEF Cut
      <4>5. CASE Len(p) = 3 /\ p[1] = "%"
        <5>1. CASE o[m] + 1 > Len(d)
          BY <5>1 DEF Cut
        <5>2. CASE ~(o[m] + 1 > Len(d))
          <6>1. o[m] + 1 \in 1..Len(d) /\ (o[m] + 1) + 2 > Len(d) /\ 1 \in 1..Len(p)
            <7>1. /\ Len(p) = 3 /\ o[m] \in Nat /\ Len(d) = k /\ k \in Nat
                  /\ o[m] + Len(p) > k /\ ~(o[m] + 1 > Len(d))
              BY ONLY <2>1, <2>4, <4>2, <4>3, <4>5, <5>2
            <7> HIDE DEF p
            <7>2. QED BY ONLY <7>1
          <6>2. d[o[m] + 1] = "%"
            BY ONLY <2>1, <4>3, <4>5, <6>1
          <6>3. QED BY <6>1, <6>2 DEF Cut
        <5>3. QED BY <5>1, <5>2
      <4>6. QED BY <4>3, <4>4, <4>5 DEF DecodesTo
    <3>3. QED BY <3>1, <3>2
  <2>6. /\ DecodePercent(d) \in Seq(Characters) /\ Len(DecodePercent(d)) = m
        /\ \A j \in 1..m : DecodePercent(d)[j] = t[j]
    <3>1. m <= Len(t) /\ WholeIn(o, d, m)
      BY <2>1, <2>3, <2>5 DEF n, WholeIn
    <3>2. Begins(d, e)
      BY <1>1, <2>1 DEF Begins
    <3>3. pieces \in Seq(Seq(Characters)) /\ t \in Seq(Characters) /\ StandFor(pieces, t)
      OBVIOUS
    <3>4. QED BY ONLY <1>1, <1>2, <2>1, <3>1, <3>2, <3>3, DecodesUpTo
  <2>7. IsPrefix(DecodePercent(d), t)
    <3>1. Len(DecodePercent(d)) <= Len(t)
      BY <1>1, <2>3, <2>6 DEF n
    <3>2. QED BY <2>6, <3>1, PrefixIs
  <2>8. k = Len(e) => m = n
    <3>1. SUFFICES ASSUME k = Len(e) PROVE m = n
      OBVIOUS
    <3>2. n \in T
      BY <1>1, <1>3, <3>1
    <3>3. n <= m
      BY ONLY <2>2, <3>2
    <3>4. QED BY <1>1, <2>3, <3>3
  <2>9. QED BY ONLY <2>6, <2>7, <2>8
<1>5. DecodePercent(e) = t
  <2> DEFINE d == SubSeq(e, 1, Len(e))
  <2>1. Len(e) \in 0..Len(e)
    BY <1>1
  <2>2. d = e
    <3>1. d \in Seq(Characters) /\ Len(d) = Len(e) /\ \A j \in 1..Len(e) : d[j] = e[j]
      BY <1>1, <2>1, Pieces
    <3> HIDE DEF d
    <3>2. QED BY <1>1, <3>1, SameSequence
  <2>3. DecodePercent(d) \in Seq(Characters) /\ IsPrefix(DecodePercent(d), t) /\ Len(DecodePercent(d)) = n
    BY ONLY <1>4, <2>1
  <2> HIDE DEF d
  <2> DEFINE q == DecodePercent(e)
  <2>4. q \in Seq(Characters) /\ Len(q) = Len(t) /\ SubSeq(q, 1, Len(q)) = SubSeq(t, 1, Len(q))
    BY <2>2, <2>3 DEF IsPrefix, n
  <2> HIDE DEF q
  <2>5. /\ \A j \in 1..Len(q) : SubSeq(q, 1, Len(q))[j] = q[j]
        /\ \A j \in 1..Len(q) : SubSeq(t, 1, Len(q))[j] = t[j]
    <3>1. Len(q) \in 0..Len(q) /\ Len(q) \in 0..Len(t)
      BY <2>4
    <3>2. QED BY <2>4, <3>1, Pieces
  <2>6. \A j \in 1..Len(q) : q[j] = t[j]
    BY ONLY <2>4, <2>5
  <2>7. q = t
    BY <2>4, <2>6, SameSequence
  <2>8. QED BY ONLY <2>7 DEF q
<1>6. \A k \in 0..Len(e) : LET part == DecodePercent(SubSeq(e, 1, k))
                           IN  part \in Seq(Characters) /\ IsPrefix(part, t)
  BY ONLY <1>4
<1>7. QED BY ONLY <1>5, <1>6 DEF e

-----------------------------------------------------------------------------
(* The fields of a form and of a file. *)

LEMMA DecodesLetter ==
  ASSUME NEW c \in Characters \ {"%", "+"}
  PROVE  DecodePercent(<<c>>) = <<c>>
<1>1. <<c>> \in Seq(Characters) /\ Len(<<c>>) = 1 /\ <<c>>[1] = c
  OBVIOUS
<1>2. PICK f : Decoded(<<c>>, f) /\ DecodePercent(<<c>>) = f[1]
  BY <1>1, DecodeIs
<1>3. DecodesTo(<<c>>, c)
  BY <1>1 DEF DecodesTo, Plain
<1>4. f[0 + 1] = <<c>> \o f[(0 + Len(<<c>>)) + 1]
  <2> DEFINE p == <<c>>
             x == 0
  <2>1. /\ p \in Seq(Characters) /\ Decoded(p, f) /\ DecodesTo(p, c) /\ x \in Nat
        /\ x + Len(p) <= Len(p) /\ \A j \in 1..Len(p) : p[x + j] = p[j]
    BY <1>1, <1>2, <1>3
  <2> HIDE DEF p, x
  <2>2. f[x + 1] = <<c>> \o f[(x + Len(p)) + 1]
    BY ONLY <2>1, DecodesOne
  <2>3. QED BY ONLY <2>2 DEF p, x
<1>5. 0 + 1 = 1 /\ (0 + Len(<<c>>)) + 1 = 2
  BY <1>1
<1>6. f[2] = <<>>
  <2>1. 2 \in 1..(Len(<<c>>) + 1) /\ Cut(<<c>>, 2)
    BY <1>1 DEF Cut
  <2>2. QED BY <1>2, <2>1 DEF Decoded
<1>7. <<c>> \o <<>> = <<c>>
  OBVIOUS
<1>8. QED BY ONLY <1>2, <1>4, <1>5, <1>6, <1>7

\* The next of some characters, or the end.
NextIs(s, i, stop, j) ==
  /\ j \in i..(Len(s) + 1)
  /\ j = Len(s) + 1 \/ s[j] \in stop
  /\ \A k \in i..(j - 1) : s[k] \notin stop

LEMMA NextOfIs ==
  ASSUME NEW s \in Seq(Characters), NEW i \in 1..(Len(s) + 1), NEW stop
  PROVE  NextIs(s, i, stop, NextOf(s, i, stop))
<1> DEFINE ends == {j \in i..(Len(s) + 1) : j = Len(s) + 1 \/ s[j] \in stop}
<1>1. Len(s) \in Nat /\ i \in Nat
  OBVIOUS
<1>2. ends \in SUBSET Nat /\ Len(s) + 1 \in ends
  BY <1>1
<1>3. PICK j \in ends : \A k \in ends : j <= k
  <2> HIDE DEF ends
  <2>1. QED BY <1>2, LeastNumber
<1>4. NextIs(s, i, stop, j)
  BY <1>1, <1>3 DEF NextIs
<1>5. \E k \in i..(Len(s) + 1) : NextIs(s, i, stop, k)
  BY <1>4 DEF NextIs
<1>6. NextOf(s, i, stop) = CHOOSE k \in i..(Len(s) + 1) : NextIs(s, i, stop, k)
  BY DEF NextOf, NextIs
<1>7. QED BY ONLY <1>5, <1>6

LEMMA NextIsOne ==
  ASSUME NEW s \in Seq(Characters), NEW i \in 1..(Len(s) + 1), NEW stop, NEW j, NextIs(s, i, stop, j)
  PROVE  NextOf(s, i, stop) = j
<1> DEFINE k == NextOf(s, i, stop)
<1>1. NextIs(s, i, stop, k)
  BY NextOfIs
<1> HIDE DEF k
<1>2. Len(s) \in Nat /\ i \in Nat /\ j \in Nat /\ k \in Nat
  BY <1>1 DEF NextIs
<1>3. ~(j < k)
  BY <1>1, <1>2 DEF NextIs
<1>4. ~(k < j)
  BY <1>1, <1>2 DEF NextIs
<1>5. QED BY <1>2, <1>3, <1>4 DEF k

\* The value of the field at i, and the end of it.
ValueAt(s, i) ==
  LET equals == NextOf(s, i, {"=", "&"})
      first  == IF equals <= Len(s) /\ s[equals] = "=" THEN equals + 1 ELSE equals
  IN  DecodePercent(SubSeq(s, first, NextOf(s, equals, {"&"}) - 1))
Behind(s, i) == IF i > Len(s) THEN i ELSE NextOf(s, i + 1, {"&"})

\* f[i] is the value of key in the fields of s from the one at i on.
Finds(s, key, f) ==
  \A i \in 1..(Len(s) + 1) :
    f[i] = IF KeyIs(s, i, key) THEN ValueAt(s, i)
           ELSE IF Behind(s, i) > Len(s) THEN NoValue ELSE f[Behind(s, i) + 1]

LEMMA GetKeyIs ==
  ASSUME NEW s \in Seq(Characters), NEW key
  PROVE  \E f : Finds(s, key, f) /\ GetKey(s, key) = f[1]
<1> DEFINE n == Len(s) + 1
           X == {ValueAt(s, i) : i \in 1..n} \cup {NoValue}
           Body(f, i) == IF KeyIs(s, i, key) THEN ValueAt(s, i)
                         ELSE IF Behind(s, i) > Len(s) THEN NoValue ELSE f[Behind(s, i) + 1]
           Find == CHOOSE f : f = [i \in 1..n |-> Body(f, i)]
           At(i, q) == IF KeyIs(s, i, key) THEN ValueAt(s, i)
                       ELSE IF Behind(s, i) > Len(s) THEN NoValue ELSE q[n - Behind(s, i)]
           step == [k \in 1..n |-> [q \in Seq(X) |-> IF Len(q) = k - 1 THEN At(n + 1 - k, q)
                                                     ELSE NoValue]]
<1>1. GetKey(s, key) = Find[1]
  BY DEF GetKey, ValueAt, Behind
<1>2. n \in Nat /\ Len(s) \in Nat /\ n = Len(s) + 1
  OBVIOUS
<1>3. \A i \in 1..n : Behind(s, i) <= Len(s) =>
        /\ Behind(s, i) \in Nat /\ Behind(s, i) > i
        /\ n - Behind(s, i) \in 1..(n - i) /\ n + 1 - (n - Behind(s, i)) = Behind(s, i) + 1
  <2>1. SUFFICES ASSUME NEW i \in 1..n, Behind(s, i) <= Len(s)
                 PROVE  Behind(s, i) \in Nat /\ Behind(s, i) > i
    <3> HIDE DEF n
    <3>1. QED BY ONLY <1>2, <2>1
  <2>2. i <= Len(s) /\ i + 1 \in 1..(Len(s) + 1)
    BY <1>2, <2>1 DEF Behind
  <2>3. Behind(s, i) = NextOf(s, i + 1, {"&"})
    BY <1>2, <2>2 DEF Behind
  <2>4. NextIs(s, i + 1, {"&"}, Behind(s, i))
    BY ONLY <2>2, <2>3, NextOfIs, s \in Seq(Characters)
  <2>5. QED BY <1>2, <2>4 DEF NextIs
<1>4. \A i \in 1..n : Behind(s, i) > Len(s) \/ Behind(s, i) <= Len(s)
  <2>1. SUFFICES ASSUME NEW i \in 1..n PROVE Behind(s, i) > Len(s) \/ Behind(s, i) <= Len(s)
    OBVIOUS
  <2>2. CASE i > Len(s)
    BY <1>2, <2>2 DEF Behind
  <2>3. CASE ~(i > Len(s))
    <3>1. i + 1 \in 1..(Len(s) + 1) /\ Behind(s, i) = NextOf(s, i + 1, {"&"})
      BY <1>2, <2>3 DEF Behind
    <3>2. NextIs(s, i + 1, {"&"}, Behind(s, i))
      BY ONLY <3>1, NextOfIs, s \in Seq(Characters)
    <3>3. QED BY <1>2, <3>2 DEF NextIs
  <2>4. QED BY <2>2, <2>3
<1>5. NoValue \in X /\ \A i \in 1..n : ValueAt(s, i) \in X
  OBVIOUS
<1> HIDE DEF n, X, At, Body
<1>6. ASSUME NEW i \in 1..n, NEW q \in Seq(X), Len(q) = n - i PROVE At(i, q) \in X
  <2>1. Behind(s, i) <= Len(s) => q[n - Behind(s, i)] \in X
    <3>1. Behind(s, i) <= Len(s) => n - Behind(s, i) \in 1..Len(q)
      BY <1>3, <1>6
    <3>2. \A j \in 1..Len(q) : q[j] \in X
      BY ONLY <1>6
    <3>3. QED BY ONLY <3>1, <3>2
  <2>2. At(i, q) \in {ValueAt(s, i), NoValue, q[n - Behind(s, i)]}
    BY DEF At
  <2>3. Behind(s, i) > Len(s) => At(i, q) \in {ValueAt(s, i), NoValue}
    BY DEF At
  <2>4. QED BY <1>4, <1>5, <2>1, <2>2, <2>3
<1>7. step \in [1..n -> [Seq(X) -> X]]
  <2>1. ASSUME NEW k \in 1..n, NEW q \in Seq(X), Len(q) = k - 1 PROVE At(n + 1 - k, q) \in X
    <3>1. n + 1 - k \in 1..n /\ Len(q) = n - (n + 1 - k)
      BY <1>2, <2>1
    <3>2. QED BY <1>6, <3>1
  <2>2. QED BY <1>5, <2>1
<1>8. PICK f \in [1..n -> X] :
        \A i \in 1..n : f[i] = step[n + 1 - i][[j \in 1..(n - i) |-> f[n + 1 - j]]]
  <2> HIDE DEF step, Find
  <2>1. FromAllBehind(X, n, step) # {}
    BY ONLY <1>2, <1>7, Backwards
  <2>2. QED BY ONLY <2>1 DEF FromAllBehind
<1>9. ASSUME NEW i \in 1..n PROVE f[i] = Body(f, i)
  <2> DEFINE q == [j \in 1..(n - i) |-> f[n + 1 - j]]
  <2>1. n + 1 - i \in 1..n /\ n - i \in Nat /\ n + 1 - (n + 1 - i) = i /\ (n + 1 - i) - 1 = n - i
    BY <1>2
  <2>2. \A j \in 1..(n - i) : n + 1 - j \in 1..n
    BY <1>2
  <2>3. q \in Seq(X) /\ Len(q) = n - i
    <3>1. q \in [1..(n - i) -> X]
      BY <2>2
    <3> HIDE DEF q
    <3>2. QED BY ONLY <2>1, <3>1
  <2>4. f[i] = step[n + 1 - i][q]
    BY <1>8
  <2>5. f[i] = At(i, q)
    <3> HIDE DEF q
    <3>1. step[n + 1 - i][q] = IF Len(q) = (n + 1 - i) - 1 THEN At(n + 1 - (n + 1 - i), q)
                               ELSE NoValue
      BY <2>1, <2>3
    <3>2. QED BY ONLY <2>1, <2>3, <2>4, <3>1
  <2>6. Behind(s, i) <= Len(s) => q[n - Behind(s, i)] = f[Behind(s, i) + 1]
    BY <1>3
  <2> HIDE DEF q
  <2>7. QED BY ONLY <1>4, <2>5, <2>6, i \in 1..n DEF At, Body
<1>10. f = [i \in 1..n |-> Body(f, i)]
  BY ONLY <1>8, <1>9
<1>11. Find = [i \in 1..n |-> Body(Find, i)]
  <2>1. Find = CHOOSE g : g = [i \in 1..n |-> Body(g, i)]
    OBVIOUS
  <2> HIDE DEF Find
  <2>2. QED BY ONLY <1>10, <2>1
<1> HIDE DEF Find, step
<1>12. \A i \in 1..n : Find[i] = Body(Find, i)
  BY ONLY <1>11
<1>13. Finds(s, key, Find)
  BY ONLY <1>12 DEF Finds, Body, n
<1>14. QED BY <1>1, <1>13

\* At i, s has a field with the key c and the encoded value e.
FieldAt(s, i, c, e) ==
  /\ i + 1 + Len(e) <= Len(s)
  /\ s[i] = c /\ s[i + 1] = "=" /\ \A j \in 1..Len(e) : s[i + 1 + j] = e[j]
  /\ i + 2 + Len(e) <= Len(s) => s[i + 2 + Len(e)] = "&"

Letters == Characters \ {"%", "+", "=", "&"}
Values  == Characters \ {"=", "&"}

LEMMA PieceIs ==
  \A S : \A s \in Seq(S) : \A a, b \in Nat : 1 <= a /\ a <= b + 1 /\ b <= Len(s) =>
    /\ SubSeq(s, a, b) \in Seq(S) /\ Len(SubSeq(s, a, b)) = b + 1 - a
    /\ \A j \in 1..(b + 1 - a) : SubSeq(s, a, b)[j] = s[a - 1 + j]
OBVIOUS

LEMMA FieldIs ==
  ASSUME NEW s \in Seq(Characters), NEW i \in 1..Len(s), NEW c \in Letters, NEW e \in Seq(Values),
         FieldAt(s, i, c, e)
  PROVE  /\ \A key : KeyIs(s, i, key) <=> key = <<c>>
         /\ ValueAt(s, i) = DecodePercent(e)
         /\ Behind(s, i) = i + 2 + Len(e)
<1> DEFINE m == Len(e)
<1>1. /\ m \in Nat /\ Len(s) \in Nat /\ i \in Nat /\ 1 <= i /\ i + 1 + m <= Len(s)
      /\ \A j \in 1..m : e[j] \in Values
  BY DEF FieldAt
<1>2. c \in Characters /\ c \notin {"%", "+", "=", "&"} /\ e \in Seq(Characters)
  BY DEF Letters, Values
<1>3. /\ s[i] = c /\ s[i + 1] = "=" /\ \A j \in 1..m : s[i + 1 + j] = e[j]
      /\ i + 2 + m <= Len(s) => s[i + 2 + m] = "&"
  BY DEF FieldAt
<1> HIDE DEF m
<1>4. NextOf(s, i, {"=", "&"}) = i + 1
  <2>1. i \in 1..(Len(s) + 1) /\ i + 1 \in i..(Len(s) + 1)
    BY <1>1
  <2>2. \A k \in i..((i + 1) - 1) : s[k] \notin {"=", "&"}
    <3>1. \A k \in i..((i + 1) - 1) : k = i
      BY <1>1
    <3>2. QED BY ONLY <1>2, <1>3, <3>1
  <2>3. NextIs(s, i, {"=", "&"}, i + 1)
    BY ONLY <1>3, <2>1, <2>2 DEF NextIs
  <2>4. QED BY <2>1, <2>3, NextIsOne
<1>5. NextOf(s, i + 1, {"&"}) = i + 2 + m
  <2>1. i + 1 \in 1..(Len(s) + 1) /\ i + 2 + m \in (i + 1)..(Len(s) + 1)
    BY <1>1
  <2>2. ASSUME NEW k \in (i + 1)..((i + 2 + m) - 1) PROVE s[k] \notin {"&"}
    <3>1. CASE k = i + 1
      BY ONLY <1>3, <3>1
    <3>2. CASE k # i + 1
      <4>1. k - i - 1 \in 1..m /\ i + 1 + (k - i - 1) = k
        BY <1>1, <3>2
      <4>2. s[k] = e[k - i - 1] /\ e[k - i - 1] \in Values
        BY ONLY <1>1, <1>3, <4>1
      <4>3. QED BY ONLY <4>2 DEF Values
    <3>3. QED BY <3>1, <3>2
  <2>3. i + 2 + m = Len(s) + 1 \/ s[i + 2 + m] \in {"&"}
    BY <1>1, <1>3
  <2>4. NextIs(s, i + 1, {"&"}, i + 2 + m)
    BY ONLY <2>1, <2>2, <2>3 DEF NextIs
  <2>5. QED BY ONLY <2>1, <2>4, NextIsOne, s \in Seq(Characters)
<1>6. SubSeq(s, i, (i + 1) - 1) = <<c>>
  <2>1. i \in Nat /\ (i + 1) - 1 = i /\ 1 <= i /\ i <= i + 1 /\ i <= Len(s) /\ i + 1 - i = 1
        /\ i - 1 + 1 = i
    BY <1>1
  <2>2. /\ SubSeq(s, i, i) \in Seq(Characters) /\ Len(SubSeq(s, i, i)) = i + 1 - i
        /\ \A j \in 1..(i + 1 - i) : SubSeq(s, i, i)[j] = s[i - 1 + j]
    BY ONLY <2>1, PieceIs, s \in Seq(Characters)
  <2>3. Len(SubSeq(s, i, i)) = 1 /\ SubSeq(s, i, i)[1] = c
    BY ONLY <1>3, <2>1, <2>2
  <2>4. <<c>> \in Seq(Characters) /\ Len(<<c>>) = 1 /\ <<c>>[1] = c
    BY <1>2
  <2>5. \A j \in 1..1 : j = 1
    OBVIOUS
  <2>6. SubSeq(s, i, i) = <<c>>
    BY ONLY <2>2, <2>3, <2>4, <2>5, SameSequence
  <2>7. QED BY ONLY <2>1, <2>6
<1>7. SubSeq(s, i + 2, (i + 2 + m) - 1) = e
  <2> DEFINE a == i + 2
             b == i + 1 + m
  <2>1. /\ a \in Nat /\ b \in Nat /\ 1 <= a /\ a <= b + 1 /\ b <= Len(s) /\ b + 1 - a = m
        /\ \A j \in 1..m : a - 1 + j = i + 1 + j
    BY <1>1
  <2>2. (i + 2 + m) - 1 = b
    BY <1>1
  <2> HIDE DEF a, b
  <2>3. /\ SubSeq(s, a, b) \in Seq(Characters) /\ Len(SubSeq(s, a, b)) = b + 1 - a
        /\ \A j \in 1..(b + 1 - a) : SubSeq(s, a, b)[j] = s[a - 1 + j]
    BY ONLY <2>1, PieceIs, s \in Seq(Characters)
  <2>4. Len(SubSeq(s, a, b)) = m /\ \A j \in 1..m : SubSeq(s, a, b)[j] = e[j]
    BY ONLY <1>3, <2>1, <2>3
  <2>5. SubSeq(s, a, b) = e
    BY ONLY <1>2, <2>3, <2>4, SameSequence DEF m
  <2>6. QED BY ONLY <2>2, <2>5 DEF a
<1>8. \A key : KeyIs(s, i, key) <=> key = <<c>>
  <2>1. DecodePercent(<<c>>) = <<c>>
    BY <1>2, DecodesLetter
  <2>2. \A j \in DOMAIN <<c>> : <<c>>[j] # "%"
    BY <1>2
  <2>3. SubSeq(s, i, NextOf(s, i, {"=", "&"}) - 1) = <<c>>
    BY ONLY <1>4, <1>6
  <2>4. QED BY ONLY <2>1, <2>2, <2>3 DEF KeyIs
<1>9. ValueAt(s, i) = DecodePercent(e)
  <2>1. i + 1 <= Len(s) /\ (i + 1) + 1 = i + 2
    BY <1>1
  <2>2. QED BY ONLY <1>3, <1>4, <1>5, <1>7, <2>1 DEF ValueAt
<1>10. Behind(s, i) = i + 2 + m
  BY <1>1, <1>5 DEF Behind
<1>11. QED BY <1>8, <1>9, <1>10 DEF m

\* A field, alone and with the end of one.
LEMMA FieldText ==
  ASSUME NEW c \in Letters, NEW e \in Seq(Values)
  PROVE  LET s == (<<c>> \o <<"=">>) \o e
         IN  /\ s \in Seq(Characters) /\ Len(s) = 2 + Len(e) /\ FieldAt(s, 1, c, e)
             /\ s \o <<"&">> \in Seq(Characters) /\ Len(s \o <<"&">>) = 3 + Len(e)
             /\ FieldAt(s \o <<"&">>, 1, c, e)
<1> DEFINE head == <<c>> \o <<"=">>
           s == head \o e
           whole == s \o <<"&">>
<1>1. /\ c \in Characters /\ "=" \in Characters /\ "&" \in Characters /\ e \in Seq(Characters) /\ Len(e) \in Nat
      /\ <<"&">> \in Seq(Characters)
  <2>1. c \in Characters /\ "=" \in Characters /\ "&" \in Characters
    BY DEF Letters, Characters, Special
  <2>2. e \in Seq(Characters) /\ Len(e) \in Nat
    BY DEF Values
  <2>3. \A d \in Characters : <<d>> \in Seq(Characters)
    OBVIOUS
  <2>4. QED BY ONLY <2>1, <2>2, <2>3
<1>2. head \in Seq(Characters) /\ Len(head) = 2 /\ head[1] = c /\ head[2] = "="
  <2> DEFINE a == <<c>>
             b == <<"=">>
  <2>1. /\ a \in Seq(Characters) /\ Len(a) = 1 /\ a[1] = c /\ 1 \in 1..1
        /\ b \in Seq(Characters) /\ Len(b) = 1 /\ b[1] = "="
    BY ONLY <1>1
  <2> HIDE DEF a, b
  <2>2. /\ a \o b \in Seq(Characters) /\ Len(a \o b) = Len(a) + Len(b)
        /\ \A i \in 1..Len(a) : (a \o b)[i] = a[i]
        /\ \A j \in 1..Len(b) : (a \o b)[Len(a) + j] = b[j]
    BY ONLY <2>1, JoinedAt
  <2>3. 1 + 1 = 2
    OBVIOUS
  <2>4. a \o b \in Seq(Characters) /\ Len(a \o b) = 2 /\ (a \o b)[1] = c /\ (a \o b)[2] = "="
    BY ONLY <2>1, <2>2, <2>3
  <2>5. QED BY ONLY <2>4 DEF a, b
<1> HIDE DEF head
<1>3. /\ s \in Seq(Characters) /\ Len(s) = 2 + Len(e)
      /\ \A i \in 1..2 : s[i] = head[i]
      /\ \A j \in 1..Len(e) : s[2 + j] = e[j]
  <2>1. /\ s \in Seq(Characters) /\ Len(s) = Len(head) + Len(e)
        /\ \A i \in 1..Len(head) : s[i] = head[i]
        /\ \A j \in 1..Len(e) : s[Len(head) + j] = e[j]
    BY ONLY <1>1, <1>2, JoinedAt
  <2> HIDE DEF s
  <2>2. QED BY ONLY <1>2, <2>1
<1> HIDE DEF s
<1>4. s[1] = c /\ s[1 + 1] = "="
  BY ONLY <1>2, <1>3
<1>5. FieldAt(s, 1, c, e)
  <2>1. 1 + 1 + Len(e) <= Len(s) /\ ~(1 + 2 + Len(e) <= Len(s))
    BY ONLY <1>1, <1>3
  <2>2. \A j \in 1..Len(e) : 1 + 1 + j = 2 + j
    OBVIOUS
  <2>3. \A j \in 1..Len(e) : s[1 + 1 + j] = e[j]
    BY ONLY <1>3, <2>2
  <2>4. QED BY ONLY <1>4, <2>1, <2>3 DEF FieldAt
<1>6. /\ whole \in Seq(Characters) /\ Len(whole) = Len(s) + Len(<<"&">>)
      /\ \A i \in 1..Len(s) : whole[i] = s[i]
      /\ \A j \in 1..Len(<<"&">>) : whole[Len(s) + j] = <<"&">>[j]
  BY ONLY <1>1, <1>3, JoinedAt
<1>7. Len(<<"&">>) = 1 /\ <<"&">>[1] = "&" /\ 1 \in 1..1
  OBVIOUS
<1> HIDE DEF whole
<1>8. /\ Len(whole) = 3 + Len(e) /\ whole[3 + Len(e)] = "&"
      /\ \A i \in 1..(2 + Len(e)) : whole[i] = s[i]
  <2>1. (2 + Len(e)) + 1 = 3 + Len(e)
    BY ONLY <1>1
  <2>2. QED BY ONLY <1>1, <1>3, <1>6, <1>7, <2>1
<1>9. FieldAt(whole, 1, c, e)
  <2>1. 1 + 1 + Len(e) <= Len(whole) /\ 1 + 2 + Len(e) = 3 + Len(e)
    BY ONLY <1>1, <1>8
  <2>2. whole[1] = c /\ whole[1 + 1] = "="
    <3>1. 1 \in 1..(2 + Len(e)) /\ 1 + 1 \in 1..(2 + Len(e))
      BY ONLY <1>1
    <3>2. QED BY ONLY <1>4, <1>8, <3>1
  <2>3. \A j \in 1..Len(e) : 1 + 1 + j = 2 + j /\ 2 + j \in 1..(2 + Len(e))
    BY ONLY <1>1
  <2>4. \A j \in 1..Len(e) : whole[1 + 1 + j] = e[j]
    BY ONLY <1>3, <1>8, <2>3
  <2>5. QED BY ONLY <1>8, <2>1, <2>2, <2>4 DEF FieldAt
<1>10. QED BY ONLY <1>3, <1>5, <1>6, <1>8, <1>9 DEF s, whole, head

\* Two fields, one behind the other, are found by their keys, and no other one is.
LEMMA TwoFields ==
  ASSUME NEW a \in Letters, NEW b \in Letters, a # b, NEW e \in Seq(Values), NEW g \in Seq(Values),
         NEW F \in Seq(Characters), NEW G \in Seq(Characters),
         Len(F) = 3 + Len(e), FieldAt(F, 1, a, e),
         Len(G) \in {2 + Len(g), 3 + Len(g)}, FieldAt(G, 1, b, g)
  PROVE  /\ GetKey(F \o G, <<a>>) = DecodePercent(e)
         /\ GetKey(F \o G, <<b>>) = DecodePercent(g)
         /\ Len(G) = 2 + Len(g) =>
              \A key : key \notin {<<a>>, <<b>>} => GetKey(F \o G, key) = NoValue
<1> DEFINE m == Len(e)
           r == Len(g)
           s == F \o G
           h == 4 + m
<1>1. /\ m \in Nat /\ r \in Nat /\ h \in Nat /\ h = 4 + m /\ Len(F) = 3 + m
      /\ Len(G) \in {2 + r, 3 + r}
  OBVIOUS
<1>2. <<a>> # <<b>>
  OBVIOUS
<1>3. /\ s \in Seq(Characters) /\ Len(s) = Len(F) + Len(G)
      /\ \A i \in 1..Len(F) : s[i] = F[i]
      /\ \A j \in 1..Len(G) : s[Len(F) + j] = G[j]
  BY ONLY JoinedAt, F \in Seq(Characters), G \in Seq(Characters)
<1>4. /\ F[1] = a /\ F[1 + 1] = "=" /\ \A j \in 1..m : F[1 + 1 + j] = e[j]
      /\ 1 + 2 + m <= Len(F) => F[1 + 2 + m] = "&"
  BY DEF FieldAt
<1>5. /\ G[1] = b /\ G[1 + 1] = "=" /\ \A j \in 1..r : G[1 + 1 + j] = g[j]
      /\ 1 + 2 + r <= Len(G) => G[1 + 2 + r] = "&"
  BY DEF FieldAt
<1> HIDE DEF m, s, h, r
<1>6. /\ Len(s) \in Nat /\ 1 \in 1..Len(s) /\ h \in 1..Len(s) /\ Len(G) \in Nat
      /\ 1 \in 1..(Len(s) + 1) /\ h \in 1..(Len(s) + 1)
      /\ 1 + 2 + m <= Len(s) /\ (1 + 2 + m) + 1 = h
      /\ h + 2 + r > Len(s) <=> Len(G) = 2 + r
  BY ONLY <1>1, <1>3
<1>7. FieldAt(s, 1, a, e)
  <2>1. 1 + 1 + m <= Len(s) /\ 1 \in 1..Len(F) /\ 1 + 1 \in 1..Len(F)
        /\ \A j \in 1..m : 1 + 1 + j \in 1..Len(F)
    BY ONLY <1>1, <1>3, <1>6
  <2>2. 1 + 2 + m \in 1..Len(F)
    BY ONLY <1>1
  <2>3. s[1] = a /\ s[1 + 1] = "=" /\ (\A j \in 1..m : s[1 + 1 + j] = e[j])
    BY ONLY <1>3, <1>4, <2>1
  <2>4. s[1 + 2 + m] = "&"
    <3>1. 1 + 2 + m <= Len(F)
      BY ONLY <1>1
    <3>2. QED BY ONLY <1>3, <1>4, <2>2, <3>1
  <2>5. QED BY ONLY <2>1, <2>3, <2>4 DEF FieldAt, m
<1>8. FieldAt(s, h, b, g)
  <2>1. /\ h + 1 + r <= Len(s)
        /\ h = Len(F) + 1 /\ h + 1 = Len(F) + (1 + 1) /\ 1 \in 1..Len(G) /\ 1 + 1 \in 1..Len(G)
        /\ h + 2 + r = Len(F) + (1 + 2 + r)
        /\ h + 2 + r <= Len(s) => 1 + 2 + r \in 1..Len(G) /\ 1 + 2 + r <= Len(G)
    BY ONLY <1>1, <1>3, <1>6
  <2>2. \A j \in 1..r : h + 1 + j = Len(F) + (1 + 1 + j) /\ 1 + 1 + j \in 1..Len(G)
    BY ONLY <1>1, <1>6
  <2>3. s[h] = b /\ s[h + 1] = "=" /\ (\A j \in 1..r : s[h + 1 + j] = g[j])
    BY ONLY <1>3, <1>5, <2>1, <2>2
  <2>4. h + 2 + r <= Len(s) => s[h + 2 + r] = "&"
    BY ONLY <1>3, <1>5, <2>1
  <2>5. QED BY ONLY <2>1, <2>3, <2>4 DEF FieldAt, r
<1>9. /\ \A key : KeyIs(s, 1, key) <=> key = <<a>>
      /\ ValueAt(s, 1) = DecodePercent(e) /\ Behind(s, 1) = 1 + 2 + m
  BY ONLY <1>3, <1>6, <1>7, FieldIs, a \in Letters, e \in Seq(Values) DEF m
<1>10. /\ \A key : KeyIs(s, h, key) <=> key = <<b>>
       /\ ValueAt(s, h) = DecodePercent(g) /\ Behind(s, h) = h + 2 + r
  BY ONLY <1>3, <1>6, <1>8, FieldIs, b \in Letters, g \in Seq(Values) DEF r
<1>11. ASSUME NEW key, key # <<a>>
       PROVE  /\ key = <<b>> => GetKey(s, key) = DecodePercent(g)
              /\ key # <<b>> /\ Len(G) = 2 + r => GetKey(s, key) = NoValue
  <2>1. PICK f : Finds(s, key, f) /\ GetKey(s, key) = f[1]
    BY ONLY <1>3, GetKeyIs
  <2>2. ~(1 + 2 + m > Len(s))
    BY ONLY <1>1, <1>6
  <2>3. f[1] = f[h]
    BY ONLY <1>6, <1>9, <1>11, <2>1, <2>2 DEF Finds
  <2>4. f[h] = IF key = <<b>> THEN DecodePercent(g)
               ELSE IF h + 2 + r > Len(s) THEN NoValue ELSE f[(h + 2 + r) + 1]
    BY ONLY <1>6, <1>10, <2>1 DEF Finds
  <2>5. QED BY ONLY <1>6, <2>1, <2>3, <2>4
<1>12. GetKey(s, <<a>>) = DecodePercent(e)
  <2>1. PICK f : Finds(s, <<a>>, f) /\ GetKey(s, <<a>>) = f[1]
    BY ONLY <1>3, GetKeyIs
  <2>2. QED BY ONLY <1>6, <1>9, <2>1 DEF Finds
<1>13. QED BY ONLY <1>2, <1>11, <1>12 DEF s, r

-----------------------------------------------------------------------------
(* Fields that are cut. *)

\* Behind the last character there is an empty field, ...
LEMMA NothingAtEnd ==
  ASSUME NEW s \in Seq(Characters)
  PROVE  /\ \A key : KeyIs(s, Len(s) + 1, key) => key = <<>>
         /\ Behind(s, Len(s) + 1) = Len(s) + 1
         /\ SubSeq(s, Len(s) + 1, Len(s)) = <<>> /\ DecodePercent(<<>>) = <<>>
         /\ \A stop : NextOf(s, Len(s) + 1, stop) = Len(s) + 1
<1> DEFINE i == Len(s) + 1
<1>1. Len(s) \in Nat /\ i \in 1..(Len(s) + 1) /\ i > Len(s) /\ i - 1 = Len(s) /\ i = Len(s) + 1
  OBVIOUS
<1> HIDE DEF i
<1>2. ASSUME NEW stop PROVE NextOf(s, i, stop) = i
  <2>1. i \in i..(Len(s) + 1) /\ \A k \in i..(i - 1) : FALSE
    BY ONLY <1>1
  <2>2. NextIs(s, i, stop, i)
    BY ONLY <1>1, <2>1 DEF NextIs
  <2>3. QED BY ONLY <1>1, <2>2, NextIsOne, s \in Seq(Characters)
<1>3. SubSeq(s, i, Len(s)) = <<>>
  <2> DEFINE u == SubSeq(s, i, Len(s))
  <2>1. i \in Nat /\ Len(s) \in Nat /\ 1 <= i /\ i <= Len(s) + 1 /\ Len(s) <= Len(s) /\ Len(s) + 1 - i = 0
    BY <1>1
  <2>2. u \in Seq(Characters) /\ Len(u) = Len(s) + 1 - i
    BY ONLY <2>1, PieceIs, s \in Seq(Characters)
  <2> HIDE DEF u
  <2>3. u = <<>>
    BY <2>1, <2>2
  <2>4. QED BY <2>3 DEF u
<1>4. DecodePercent(<<>>) = <<>>
  <2>1. <<>> \in Seq(Characters) /\ Len(<<>>) = 0 /\ 1 \in 1..(0 + 1) /\ 1 > 0
    OBVIOUS
  <2>2. PICK f : Decoded(<<>>, f) /\ DecodePercent(<<>>) = f[1]
    BY <2>1, DecodeIs
  <2>3. Cut(<<>>, 1)
    BY ONLY <2>1 DEF Cut
  <2>4. QED BY ONLY <2>1, <2>2, <2>3 DEF Decoded
<1>5. ASSUME NEW key, KeyIs(s, i, key) PROVE key = <<>>
  <2>1. NextOf(s, i, {"=", "&"}) - 1 = Len(s)
    BY ONLY <1>1, <1>2
  <2>2. QED BY ONLY <1>3, <1>4, <1>5, <2>1 DEF KeyIs
<1>6. Behind(s, i) = i
  BY ONLY <1>1 DEF Behind
<1>7. QED BY ONLY <1>2, <1>3, <1>4, <1>5, <1>6 DEF i

\* ... and a last character alone is a key without a value.
LEMMA BareKey ==
  ASSUME NEW s \in Seq(Characters), NEW c \in Letters, Len(s) # 0, s[Len(s)] = c
  PROVE  /\ \A key : KeyIs(s, Len(s), key) <=> key = <<c>>
         /\ ValueAt(s, Len(s)) = <<>>
         /\ Behind(s, Len(s)) = Len(s) + 1
<1> DEFINE i == Len(s)
<1>1. /\ Len(s) = i /\ i \in Nat /\ i \in 1..(Len(s) + 1) /\ i + 1 \in 1..(Len(s) + 1)
      /\ (i + 1) - 1 = i /\ i + 1 > Len(s) /\ ~(i > Len(s)) /\ i + 1 \in i..(Len(s) + 1)
      /\ i + 1 = Len(s) + 1 /\ ~(i + 1 <= Len(s)) /\ s[i] = c /\ 1 <= i /\ i <= Len(s)
      /\ i + 1 - i = 1 /\ i - 1 + 1 = i /\ i <= i + 1
  OBVIOUS
<1>2. c \in Characters /\ c \notin {"%", "+", "=", "&"}
  BY DEF Letters
<1> HIDE DEF i
<1>3. NextOf(s, i, {"=", "&"}) = i + 1
  <2>1. \A k \in i..((i + 1) - 1) : k = i
    BY ONLY <1>1
  <2>2. \A k \in i..((i + 1) - 1) : s[k] \notin {"=", "&"}
    BY ONLY <1>1, <1>2, <2>1
  <2>3. NextIs(s, i, {"=", "&"}, i + 1)
    BY ONLY <1>1, <2>2 DEF NextIs
  <2>4. QED BY ONLY <1>1, <2>3, NextIsOne, s \in Seq(Characters)
<1>4. NextOf(s, i + 1, {"&"}) = i + 1
  <2>1. NextOf(s, Len(s) + 1, {"&"}) = Len(s) + 1
    BY ONLY NothingAtEnd, s \in Seq(Characters)
  <2>2. QED BY ONLY <1>1, <2>1
<1>5. SubSeq(s, i, (i + 1) - 1) = <<c>>
  <2>0. i \in Nat /\ 1 <= i /\ i <= i + 1 /\ i <= Len(s)
    BY ONLY <1>1
  <2>1. /\ SubSeq(s, i, i) \in Seq(Characters) /\ Len(SubSeq(s, i, i)) = i + 1 - i
        /\ \A j \in 1..(i + 1 - i) : SubSeq(s, i, i)[j] = s[i - 1 + j]
    BY ONLY <2>0, PieceIs, s \in Seq(Characters)
  <2>2. Len(SubSeq(s, i, i)) = 1 /\ SubSeq(s, i, i)[1] = c
    BY ONLY <1>1, <2>1
  <2>3. <<c>> \in Seq(Characters) /\ Len(<<c>>) = 1 /\ <<c>>[1] = c
    BY <1>2
  <2>4. \A j \in 1..1 : j = 1
    OBVIOUS
  <2>5. SubSeq(s, i, i) = <<c>>
    BY ONLY <2>1, <2>2, <2>3, <2>4, SameSequence
  <2>6. QED BY ONLY <1>1, <2>5
<1>6. \A key : KeyIs(s, i, key) <=> key = <<c>>
  <2>1. DecodePercent(<<c>>) = <<c>>
    BY <1>2, DecodesLetter
  <2>2. \A j \in DOMAIN <<c>> : <<c>>[j] # "%"
    BY <1>2
  <2>3. SubSeq(s, i, NextOf(s, i, {"=", "&"}) - 1) = <<c>>
    BY ONLY <1>3, <1>5
  <2>4. QED BY ONLY <2>1, <2>2, <2>3 DEF KeyIs
<1>7. ValueAt(s, i) = <<>>
  <2>1. SubSeq(s, i + 1, (i + 1) - 1) = <<>> /\ DecodePercent(<<>>) = <<>>
    <3>1. /\ SubSeq(s, Len(s) + 1, Len(s)) = <<>> /\ DecodePercent(<<>>) = <<>>
      BY ONLY NothingAtEnd, s \in Seq(Characters)
    <3>2. QED BY ONLY <1>1, <3>1
  <2>2. QED BY ONLY <1>1, <1>3, <1>4, <2>1 DEF ValueAt
<1>8. Behind(s, i) = i + 1
  BY ONLY <1>1, <1>4 DEF Behind
<1>9. QED BY ONLY <1>6, <1>7, <1>8 DEF i

\* Of the two fields there is nothing under b, or e under a and a beginning of g under b.
CutTo(s, a, b, e, g) ==
  \/ GetKey(s, <<b>>) = NoValue
  \/ /\ GetKey(s, <<a>>) = DecodePercent(e)
     /\ \E k \in 0..Len(g) : GetKey(s, <<b>>) = DecodePercent(SubSeq(g, 1, k))

\* Of two fields that are cut somewhere, there is nothing under the second key, or
\* all of the first value and a beginning of the second one.
LEMMA CutFields ==
  ASSUME NEW a \in Letters, NEW b \in Letters, a # b, NEW e \in Seq(Values), NEW g \in Seq(Values),
         NEW F \in Seq(Characters), NEW G \in Seq(Characters),
         Len(F) = 3 + Len(e), FieldAt(F, 1, a, e), Len(G) = 2 + Len(g), FieldAt(G, 1, b, g),
         NEW n \in 0..Len(F \o G)
  PROVE  CutTo(SubSeq(F \o G, 1, n), a, b, e, g)
<1> DEFINE body == SubSeq(F \o G, 1, n)
<1>0. SUFFICES CutTo(body, a, b, e, g)
  OBVIOUS
<1> DEFINE m == Len(e)
           r == Len(g)
           h == 4 + m
           s == F \o G
<1>1. <<a>> # <<b>> /\ <<b>> # <<>> /\ a \in Characters /\ b \in Characters
  BY DEF Letters
<1>2. /\ s \in Seq(Characters) /\ Len(s) = Len(F) + Len(G)
      /\ \A i \in 1..Len(F) : s[i] = F[i]
      /\ \A j \in 1..Len(G) : s[Len(F) + j] = G[j]
  BY ONLY JoinedAt, F \in Seq(Characters), G \in Seq(Characters)
<1>3. m \in Nat /\ r \in Nat /\ Len(F) = 3 + m /\ Len(G) = 2 + r
  OBVIOUS
<1>4. /\ F[1] = a /\ F[2] = "=" /\ F[3 + m] = "&" /\ \A j \in 1..m : F[2 + j] = e[j]
  <2>1. 1 + 1 = 2 /\ 1 + 2 + m = 3 + m /\ 1 + 2 + m <= Len(F)
    BY ONLY <1>3
  <2>2. QED BY <2>1 DEF FieldAt
<1>5. /\ G[1] = b /\ G[2] = "=" /\ \A j \in 1..r : G[2 + j] = g[j]
  <2>1. 1 + 1 = 2
    OBVIOUS
  <2>2. QED BY <2>1 DEF FieldAt
<1> HIDE DEF m, r, s, body
<1>6. n \in Nat /\ n <= 5 + m + r /\ n <= Len(s)
  <2>1. n \in 0..Len(s) /\ Len(s) \in Nat
    BY <1>2 DEF s
  <2>2. QED BY ONLY <1>2, <1>3, <2>1
<1>7. body \in Seq(Characters) /\ Len(body) = n /\ \A j \in 1..n : body[j] = s[j]
  <2>1. n \in 0..Len(s) /\ body = SubSeq(s, 1, n)
    BY <1>2, <1>6 DEF s, body
  <2>2. QED BY ONLY <1>2, <2>1, Pieces
<1>8. /\ n >= 1 => body[1] = a
      /\ n >= 2 => body[2] = "="
      /\ n >= 3 + m => body[3 + m] = "&"
      /\ n >= h => body[h] = b
      /\ \A j \in 1..m : 2 + j <= n => body[2 + j] = e[j]
  <2>1. ASSUME NEW j \in 1..(3 + m), j <= n PROVE body[j] = F[j]
    <3>1. j \in 1..n /\ j \in 1..Len(F)
      BY ONLY <1>3, <1>6, <2>1
    <3>2. QED BY ONLY <1>2, <1>7, <3>1
  <2>2. 1 \in 1..(3 + m) /\ 2 \in 1..(3 + m) /\ 3 + m \in 1..(3 + m) /\ \A j \in 1..m : 2 + j \in 1..(3 + m)
    BY ONLY <1>3
  <2>3. ASSUME n >= h PROVE body[h] = b
    <3>1. h \in 1..n /\ h = Len(F) + 1 /\ 1 \in 1..Len(G)
      BY ONLY <1>3, <1>6, <2>3
    <3>2. QED BY ONLY <1>2, <1>5, <1>7, <3>1
  <2>4. /\ n >= 1 => 1 <= n
        /\ n >= 2 => 2 <= n
        /\ n >= 3 + m => 3 + m <= n
    BY ONLY <1>3, <1>6
  <2>5. QED BY ONLY <1>4, <2>1, <2>2, <2>3, <2>4
<1>9. CASE n = 0
  <2>1. ~KeyIs(body, 1, <<b>>) /\ Behind(body, 1) > Len(body) /\ 1 \in 1..(Len(body) + 1)
    <3>1. Len(body) + 1 = 1 /\ 1 > Len(body)
      BY ONLY <1>7, <1>9
    <3>2. /\ KeyIs(body, Len(body) + 1, <<b>>) => <<b>> = <<>>
          /\ Behind(body, Len(body) + 1) = Len(body) + 1
      BY ONLY <1>7, NothingAtEnd
    <3>3. QED BY ONLY <1>1, <1>9, <3>1, <3>2
  <2>2. PICK f : Finds(body, <<b>>, f) /\ GetKey(body, <<b>>) = f[1]
    BY ONLY <1>7, GetKeyIs
  <2>3. QED BY ONLY <2>1, <2>2 DEF Finds, CutTo
<1>10. CASE n = 1
  <2>1. /\ \A key : KeyIs(body, 1, key) <=> key = <<a>>
        /\ Behind(body, 1) > Len(body) /\ 1 \in 1..(Len(body) + 1)
    <3>1. Len(body) = 1 /\ Len(body) # 0 /\ body[Len(body)] = a /\ 1 + 1 > 1
      BY ONLY <1>7, <1>8, <1>10
    <3>2. /\ \A key : KeyIs(body, Len(body), key) <=> key = <<a>>
          /\ Behind(body, Len(body)) = Len(body) + 1
      BY ONLY <1>7, <3>1, BareKey, a \in Letters
    <3>3. 1 \in 1..(Len(body) + 1)
      BY ONLY <3>1
    <3>4. QED BY ONLY <3>1, <3>2, <3>3
  <2>2. PICK f : Finds(body, <<b>>, f) /\ GetKey(body, <<b>>) = f[1]
    BY ONLY <1>7, GetKeyIs
  <2>3. QED BY ONLY <1>1, <2>1, <2>2 DEF Finds, CutTo
<1>11. CASE n \in 2..(2 + m)
  <2> DEFINE d == SubSeq(e, 1, n - 2)
  <2>1. d \in Seq(Values) /\ Len(d) = n - 2 /\ \A j \in 1..(n - 2) : d[j] = e[j]
    <3>1. n - 2 \in 0..Len(e)
      BY <1>3, <1>6, <1>11 DEF m
    <3>2. QED BY ONLY <3>1, Pieces, e \in Seq(Values)
  <2> HIDE DEF d
  <2>2. FieldAt(body, 1, a, d)
    <3>1. /\ n >= 1 /\ n >= 2 /\ 1 + 1 = 2 /\ 1 + 1 + Len(d) <= Len(body)
          /\ ~(1 + 2 + Len(d) <= Len(body))
      BY ONLY <1>3, <1>6, <1>7, <1>11, <2>1
    <3>2. \A j \in 1..Len(d) : j \in 1..m /\ 2 + j <= n
      <4>1. Len(d) = n - 2 /\ n \in 2..(2 + m) /\ m \in Nat
        BY ONLY <1>3, <1>11, <2>1
      <4>2. QED BY ONLY <4>1
    <3>3. \A j \in 1..Len(d) : body[2 + j] = d[j]
      BY ONLY <1>8, <2>1, <3>2
    <3>4. body[1] = a /\ body[1 + 1] = "="
      BY ONLY <1>8, <3>1
    <3>5. QED BY ONLY <3>1, <3>3, <3>4 DEF FieldAt
  <2>3. 1 \in 1..Len(body) /\ 1 \in 1..(Len(body) + 1) /\ 1 + 2 + Len(d) > Len(body)
    BY ONLY <1>6, <1>7, <1>11, <2>1, <1>3
  <2>4. /\ \A key : KeyIs(body, 1, key) <=> key = <<a>>
        /\ Behind(body, 1) = 1 + 2 + Len(d)
    BY ONLY <1>7, <2>1, <2>2, <2>3, FieldIs, a \in Letters
  <2>5. PICK f : Finds(body, <<b>>, f) /\ GetKey(body, <<b>>) = f[1]
    BY ONLY <1>7, GetKeyIs
  <2>6. QED BY ONLY <1>1, <2>3, <2>4, <2>5 DEF Finds, CutTo
<1>12. CASE n \in {3 + m, h}
  <2>1. FieldAt(body, 1, a, e) /\ Len(e) = m
    <3>1. /\ n >= 1 /\ n >= 2 /\ n >= 3 + m /\ 1 + 1 = 2 /\ 1 + 1 + m <= Len(body) /\ 1 + 2 + m = 3 + m
          /\ \A j \in 1..m : 2 + j <= n
      BY ONLY <1>3, <1>6, <1>7, <1>12
    <3>2. /\ body[1] = a /\ body[1 + 1] = "=" /\ body[1 + 2 + m] = "&"
          /\ \A j \in 1..m : body[1 + 1 + j] = e[j]
      BY ONLY <1>8, <3>1
    <3>3. QED BY ONLY <3>1, <3>2 DEF FieldAt, m
  <2>2. /\ 1 \in 1..Len(body) /\ 1 \in 1..(Len(body) + 1) /\ h \in 1..(Len(body) + 1)
        /\ ~(1 + 2 + m > Len(body)) /\ (1 + 2 + m) + 1 = h
    BY ONLY <1>3, <1>6, <1>7, <1>12
  <2>3. /\ \A key : KeyIs(body, 1, key) <=> key = <<a>>
        /\ ValueAt(body, 1) = DecodePercent(e)
        /\ Behind(body, 1) = 1 + 2 + m
    BY ONLY <1>7, <2>1, <2>2, FieldIs, a \in Letters, e \in Seq(Values)
  <2>4. GetKey(body, <<a>>) = DecodePercent(e)
    <3>1. PICK f : Finds(body, <<a>>, f) /\ GetKey(body, <<a>>) = f[1]
      BY ONLY <1>7, GetKeyIs
    <3>2. QED BY ONLY <2>2, <2>3, <3>1 DEF Finds
  <2>5. PICK f : Finds(body, <<b>>, f) /\ GetKey(body, <<b>>) = f[1]
    BY ONLY <1>7, GetKeyIs
  <2>6. f[1] = f[h]
    BY ONLY <1>1, <2>2, <2>3, <2>5 DEF Finds
  <2>7. CASE n = 3 + m
    <3>1. Len(body) + 1 = h /\ h > Len(body)
      BY ONLY <1>3, <1>7, <2>7
    <3>2. /\ KeyIs(body, Len(body) + 1, <<b>>) => <<b>> = <<>>
          /\ Behind(body, Len(body) + 1) = Len(body) + 1
      BY ONLY <1>7, NothingAtEnd
    <3>3. f[h] = NoValue
      BY ONLY <1>1, <2>2, <2>5, <3>1, <3>2 DEF Finds
    <3>4. QED BY ONLY <2>5, <2>6, <3>3 DEF CutTo
  <2>8. CASE n = h
    <3>1. Len(body) = h /\ Len(body) # 0 /\ n >= h
      BY ONLY <1>3, <1>7, <2>8
    <3>2. body[Len(body)] = b
      BY ONLY <1>8, <3>1
    <3>3. /\ \A key : KeyIs(body, Len(body), key) <=> key = <<b>>
          /\ ValueAt(body, Len(body)) = <<>>
      BY ONLY <1>7, <3>1, <3>2, BareKey, b \in Letters
    <3>4. f[h] = <<>>
      BY ONLY <2>2, <2>5, <3>1, <3>3 DEF Finds
    <3>5. 0 \in 0..Len(g) /\ <<>> = DecodePercent(SubSeq(g, 1, 0))
      <4>1. DecodePercent(<<>>) = <<>>
        BY ONLY <1>7, NothingAtEnd
      <4>2. 0 \in 0..Len(g)
        OBVIOUS
      <4>3. SubSeq(g, 1, 0) = <<>>
        <5>1. Len(SubSeq(g, 1, 0)) = 0 /\ SubSeq(g, 1, 0) \in Seq(Values)
          BY <4>2, Pieces
        <5> DEFINE q == SubSeq(g, 1, 0)
        <5> HIDE DEF q
        <5>2. Len(q) = 0 /\ q \in Seq(Values)
          BY ONLY <5>1 DEF q
        <5>3. q = <<>>
          BY <5>2
        <5>4. QED BY <5>3 DEF q
      <4>4. QED BY ONLY <4>1, <4>2, <4>3
    <3>6. QED BY ONLY <2>4, <2>5, <2>6, <3>4, <3>5 DEF CutTo
  <2>9. QED BY ONLY <1>12, <2>7, <2>8
<1>13. CASE n > h
  <2> DEFINE i == n - (3 + m)
             part == SubSeq(G, 1, i)
             d == SubSeq(g, 1, i - 2)
  <2>1. /\ i \in 0..Len(G) /\ i - 2 \in 0..r /\ i \in Nat /\ Len(F) + i = n /\ i >= 2
        /\ 1 \in 1..i /\ 2 \in 1..i /\ (\A j \in 1..(i - 2) : 2 + j \in 1..i /\ j \in 1..r)
        /\ (\A j \in 1..i : j \in 1..Len(G)) /\ i - 2 \in Nat
    BY ONLY <1>3, <1>6, <1>13
  <2>2. part \in Seq(Characters) /\ Len(part) = i /\ \A j \in 1..i : part[j] = G[j]
    BY ONLY <2>1, Pieces, G \in Seq(Characters)
  <2>3. d \in Seq(Values) /\ Len(d) = i - 2 /\ \A j \in 1..(i - 2) : d[j] = g[j]
    BY ONLY <2>1, Pieces, g \in Seq(Values) DEF r
  <2>4. i - 2 \in 0..Len(g) /\ d = SubSeq(g, 1, i - 2)
    BY <2>1 DEF r
  <2> HIDE DEF i, part, d
  <2>5. FieldAt(part, 1, b, d)
    <3>1. /\ 1 + 1 + Len(d) <= Len(part) /\ 1 + 1 = 2
          /\ ~(1 + 2 + Len(d) <= Len(part))
      BY ONLY <2>1, <2>2, <2>3
    <3>2. part[1] = b /\ part[1 + 1] = "=" /\ \A j \in 1..Len(d) : part[1 + 1 + j] = d[j]
      BY ONLY <1>5, <2>1, <2>2, <2>3, <3>1
    <3>3. QED BY ONLY <3>1, <3>2 DEF FieldAt
  <2>6. body = F \o part
    <3>0. part \in Seq(Characters)
      BY ONLY <2>2
    <3>1. /\ F \o part \in Seq(Characters) /\ Len(F \o part) = Len(F) + Len(part)
          /\ \A j \in 1..Len(F) : (F \o part)[j] = F[j]
          /\ \A j \in 1..Len(part) : (F \o part)[Len(F) + j] = part[j]
      BY ONLY <3>0, JoinedAt, F \in Seq(Characters)
    <3> DEFINE q == F \o part
    <3> HIDE DEF q
    <3>2. /\ q \in Seq(Characters) /\ Len(q) = n
          /\ \A j \in 1..Len(F) : q[j] = F[j]
          /\ \A j \in 1..i : q[Len(F) + j] = part[j]
      BY ONLY <2>1, <2>2, <3>1 DEF q
    <3>3. ASSUME NEW j \in 1..n PROVE body[j] = q[j]
      <4>1. CASE j \in 1..Len(F)
        BY ONLY <1>2, <1>7, <3>2, <4>1, j \in 1..n
      <4>2. CASE j \notin 1..Len(F)
        <5>1. j - Len(F) \in 1..i /\ Len(F) + (j - Len(F)) = j
          BY ONLY <1>3, <1>6, <2>1, <4>2, j \in 1..n
        <5>2. j - Len(F) \in 1..Len(G)
          BY ONLY <2>1, <5>1
        <5>3. s[Len(F) + (j - Len(F))] = G[j - Len(F)] /\ part[j - Len(F)] = G[j - Len(F)]
              /\ q[Len(F) + (j - Len(F))] = part[j - Len(F)]
          BY ONLY <1>2, <2>2, <3>2, <5>1, <5>2
        <5>4. QED BY ONLY <1>7, <5>1, <5>3, j \in 1..n
      <4>3. QED BY ONLY <4>1, <4>2
    <3>4. body = q
      BY ONLY <1>7, <3>2, <3>3, SameSequence
    <3>5. QED BY ONLY <3>4 DEF q
  <2>7. Len(part) \in {2 + Len(d), 3 + Len(d)}
    BY ONLY <2>1, <2>2, <2>3
  <2>8. /\ GetKey(F \o part, <<a>>) = DecodePercent(e)
        /\ GetKey(F \o part, <<b>>) = DecodePercent(d)
    BY <2>2, <2>3, <2>5, <2>7, TwoFields
  <2>9. QED BY ONLY <2>4, <2>6, <2>8 DEF CutTo
<1>14. QED
  <2>1. n = 0 \/ n = 1 \/ n \in 2..(2 + m) \/ n \in {3 + m, h} \/ n > h
    BY ONLY <1>3, <1>6
  <2>2. QED BY ONLY <1>9, <1>10, <1>11, <1>12, <1>13, <2>1

-----------------------------------------------------------------------------
(* The two ways a value is encoded. *)

LEMMA CodeIs ==
  ASSUME NEW b \in Values, NEW d \in Values
  PROVE  <<"%", b, d>> \in Seq(Values) /\ DecodesTo(<<"%", b, d>>, HexToAscii(b, d))
<1> DEFINE p == <<"%", b, d>>
<1>1. "%" \in Values
  BY DEF Values, Characters, Special
<1>2. p \in Seq(Values) /\ Len(p) = 3 /\ p[1] = "%" /\ p[2] = b /\ p[3] = d
  BY <1>1
<1> HIDE DEF p
<1>3. DecodesTo(p, HexToAscii(b, d))
  BY ONLY <1>2 DEF DecodesTo
<1>4. QED BY ONLY <1>2, <1>3 DEF p

LEMMA ParamIs ==
  ASSUME NEW c \in Characters
  PROVE  Param(c) \in Seq(Values) /\ DecodesTo(Param(c), c)
<1>1. /\ "%" \in Values /\ "3" \in Values /\ "D" \in Values /\ "2" \in Values /\ "6" \in Values
      /\ "5" \in Values /\ "B" \in Values /\ "+" \in Values
  BY DEF Values, Characters, Special
<1>2. \A b, d \in Values :
        <<"%", b, d>> \in Seq(Values) /\ DecodesTo(<<"%", b, d>>, HexToAscii(b, d))
  BY CodeIs
<1>3. \A a \in Values : <<a>> \in Seq(Values) /\ Len(<<a>>) = 1 /\ <<a>>[1] = a
  OBVIOUS
<1>4. CASE c = "="
  <2>1. Param(c) = <<"%", "3", "D">> /\ HexToAscii("3", "D") = "="
    BY <1>4 DEF Param, HexToAscii
  <2>2. QED BY ONLY <1>1, <1>2, <1>4, <2>1
<1>5. CASE c = "&"
  <2>1. Param(c) = <<"%", "2", "6">> /\ HexToAscii("2", "6") = "&"
    BY <1>5 DEF Param, HexToAscii
  <2>2. QED BY ONLY <1>1, <1>2, <1>5, <2>1
<1>6. CASE c = "%"
  <2>1. Param(c) = <<"%", "2", "5">> /\ HexToAscii("2", "5") = "%"
    BY <1>6 DEF Param, HexToAscii
  <2>2. QED BY ONLY <1>1, <1>2, <1>6, <2>1
<1>7. CASE c = "+"
  <2>1. Param(c) = <<"%", "2", "B">> /\ HexToAscii("2", "B") = "+"
    BY <1>7 DEF Param, HexToAscii
  <2>2. QED BY ONLY <1>1, <1>2, <1>7, <2>1
<1>8. CASE c = " "
  <2>1. Param(c) = <<"+">> /\ Plain("+") = " "
    BY <1>8 DEF Param, Plain
  <2>2. QED BY <1>1, <1>3, <1>8, <2>1 DEF DecodesTo
<1>9. CASE c \notin {"=", "&", "%", "+", " "}
  <2>1. Param(c) = <<c>> /\ Plain(c) = c /\ c \in Values /\ c # "%"
    BY <1>9 DEF Param, Plain, Values
  <2>2. QED BY <1>3, <2>1 DEF DecodesTo
<1>10. QED BY <1>4, <1>5, <1>6, <1>7, <1>8, <1>9

LEMMA EscapedIs ==
  ASSUME NEW c \in Characters \ {"%", "+"}
  PROVE  Escaped(c) \in Seq(Values) /\ DecodesTo(Escaped(c), c)
<1>1. /\ "%" \in Values /\ "3" \in Values /\ "d" \in Values /\ "2" \in Values /\ "6" \in Values
  BY DEF Values, Characters, Special
<1>2. \A b, d \in Values :
        <<"%", b, d>> \in Seq(Values) /\ DecodesTo(<<"%", b, d>>, HexToAscii(b, d))
  BY CodeIs
<1>3. CASE c = "="
  <2>1. Escaped(c) = <<"%", "3", "d">> /\ HexToAscii("3", "d") = "="
    BY <1>3 DEF Escaped, HexToAscii
  <2>2. QED BY ONLY <1>1, <1>2, <1>3, <2>1
<1>4. CASE c = "&"
  <2>1. Escaped(c) = <<"%", "2", "6">> /\ HexToAscii("2", "6") = "&"
    BY <1>4 DEF Escaped, HexToAscii
  <2>2. QED BY ONLY <1>1, <1>2, <1>4, <2>1
<1>5. CASE c \notin {"=", "&"}
  <2>1. Escaped(c) = <<c>> /\ Plain(c) = c /\ c \in Values /\ c # "%"
    BY <1>5 DEF Escaped, Plain, Values
  <2>2. <<c>> \in Seq(Values) /\ Len(<<c>>) = 1 /\ <<c>>[1] = c
    BY <2>1
  <2>3. QED BY <2>1, <2>2 DEF DecodesTo
<1>6. QED BY <1>3, <1>4, <1>5

\* What decoding makes of e is t, and of each beginning of e a beginning of t.
Yields(e, t) ==
  /\ DecodePercent(e) = t
  /\ \A k \in 0..Len(e) : LET part == DecodePercent(SubSeq(e, 1, k))
                         IN  part \in Seq(Characters) /\ IsPrefix(part, t)

\* What is written of a text, a piece for each character.
LEMMA CodedIs ==
  ASSUME NEW t \in Seq(Characters), NEW pieces, pieces = [i \in DOMAIN t |-> pieces[i]],
         \A i \in DOMAIN t : pieces[i] \in Seq(Values) /\ DecodesTo(pieces[i], t[i])
  PROVE  FlattenSeq(pieces) \in Seq(Values) /\ Yields(FlattenSeq(pieces), t)
<1>1. DOMAIN t = 1..Len(t) /\ Len(t) \in Nat
  OBVIOUS
<1>2. pieces \in [1..Len(t) -> Seq(Values)] /\ pieces \in [1..Len(t) -> Seq(Characters)]
  BY <1>1 DEF Values
<1>3. \A S : \A p \in [1..Len(t) -> S] : p \in Seq(S) /\ Len(p) = Len(t)
  BY <1>1
<1>4. pieces \in Seq(Seq(Values)) /\ pieces \in Seq(Seq(Characters)) /\ Len(t) = Len(pieces)
  BY ONLY <1>2, <1>3
<1>5. FlattenSeq(pieces) \in Seq(Values)
  BY ONLY <1>4, FlattenIs
<1>6. StandFor(pieces, t)
  BY <1>1, <1>4 DEF StandFor
<1>7. QED BY ONLY <1>4, <1>5, <1>6, DecodesAll, t \in Seq(Characters) DEF Yields

LEMMA LetterEscaped ==
  ASSUME NEW c \in Letters
  PROVE  WriteEscaped(<<c>>) = <<c>>
<1> DEFINE t == <<c>>
           pieces == [i \in DOMAIN t |-> Escaped(t[i])]
           e == FlattenSeq(pieces)
<1>1. c \in Values /\ c \in Characters \ {"%", "+"} /\ Escaped(c) = <<c>>
  BY DEF Letters, Values, Escaped
<1>2. t \in Seq(Values) /\ Len(t) = 1 /\ t[1] = c /\ DOMAIN t = {1} /\ \A j \in 1..1 : j = 1
  BY <1>1
<1>3. pieces = <<t>>
  <2>1. pieces = [i \in {1} |-> Escaped(c)]
    BY <1>2
  <2>2. \A x : [i \in {1} |-> x] = <<x>>
    OBVIOUS
  <2> HIDE DEF pieces
  <2>3. pieces = <<Escaped(c)>>
    BY ONLY <2>1, <2>2
  <2>4. QED BY <1>1, <2>3
<1>4. WriteEscaped(<<c>>) = e
  BY DEF WriteEscaped
<1> HIDE DEF t, pieces
<1>5. pieces \in Seq(Seq(Values)) /\ Len(pieces) = 1 /\ pieces[1] = t
  BY ONLY <1>2, <1>3
<1>6. e \in Seq(Values)
  BY <1>5, FlattenIs
<1>7. PICK o : Laid(pieces, e, o)
  BY <1>5, FlattenIs
<1> HIDE DEF e
<1>8. Len(e) = 1 /\ e[1] = c
  <2>1. /\ o[0] = 0 /\ o[1] = Len(e) /\ o[1] = o[1 - 1] + Len(pieces[1])
        /\ \A j \in 1..Len(pieces[1]) : e[o[1 - 1] + j] = pieces[1][j]
    BY ONLY <1>5, <1>7 DEF Laid
  <2>2. 1 - 1 = 0 /\ 0 + 1 = 1 /\ 1 \in 1..1
    OBVIOUS
  <2>3. QED BY ONLY <1>2, <1>5, <2>1, <2>2
<1>9. e = t
  <2>1. Len(e) = Len(t) /\ \A i \in 1..Len(e) : e[i] = t[i]
    BY ONLY <1>2, <1>8
  <2>2. QED BY ONLY <1>2, <1>6, <2>1, SameSequence
<1>10. QED BY ONLY <1>4, <1>9 DEF t

\* What a form and a file are, field for field.
LEMMA FormField ==
  ASSUME NEW c, NEW t \in Seq(Characters)
  PROVE  \E e \in Seq(Values) :
           Yields(e, t) /\ ParamKeyValue(<<c>>, t) = (<<c>> \o <<"=">>) \o e
<1> DEFINE pieces == [i \in DOMAIN t |-> Param(t[i])]
           e == FlattenSeq(pieces)
<1>1. \A i \in DOMAIN t : pieces[i] \in Seq(Values) /\ DecodesTo(pieces[i], t[i])
  BY ParamIs
<1>2. pieces = [i \in DOMAIN t |-> pieces[i]]
  OBVIOUS
<1>3. ParamKeyValue(<<c>>, t) = (<<c>> \o <<"=">>) \o e
  BY DEF ParamKeyValue
<1> HIDE DEF pieces
<1>4. e \in Seq(Values) /\ Yields(e, t)
  BY ONLY <1>1, <1>2, CodedIs, t \in Seq(Characters)
<1> HIDE DEF e
<1>5. QED BY ONLY <1>3, <1>4

\* A text that the reading side gives back as it was written.
Plaintext(t) == \A i \in DOMAIN t : t[i] \notin {"%", "+"}

LEMMA FileField ==
  ASSUME NEW c \in Letters, NEW t \in Seq(Characters), Plaintext(t)
  PROVE  \E e \in Seq(Values) :
           DecodePercent(e) = t /\ WriteKeyValue(<<c>>, t) = ((<<c>> \o <<"=">>) \o e) \o <<"&">>
<1> DEFINE pieces == [i \in DOMAIN t |-> Escaped(t[i])]
           e == FlattenSeq(pieces)
<1>1. \A i \in DOMAIN t : t[i] \in Characters \ {"%", "+"}
  BY DEF Plaintext
<1>2. \A i \in DOMAIN t : pieces[i] \in Seq(Values) /\ DecodesTo(pieces[i], t[i])
  BY <1>1, EscapedIs
<1>3. pieces = [i \in DOMAIN t |-> pieces[i]]
  OBVIOUS
<1>4. WriteEscaped(<<c>>) = <<c>> /\ WriteEscaped(t) = e
  BY LetterEscaped DEF WriteEscaped
<1> HIDE DEF pieces
<1>5. e \in Seq(Values) /\ DecodePercent(e) = t
  BY ONLY <1>2, <1>3, CodedIs, t \in Seq(Characters) DEF Yields
<1> HIDE DEF e
<1>6. WriteKeyValue(<<c>>, t) = ((<<c>> \o <<"=">>) \o e) \o <<"&">>
  BY ONLY <1>4 DEF WriteKeyValue
<1>7. QED BY ONLY <1>5, <1>6

\* A key that is one character of no meaning.
IsKey(k) == \E c \in Letters : k = <<c>>

\* Two values come out of a form again, each under its own key and nothing under another.
LEMMA FormsAre ==
  ASSUME NEW k, IsKey(k), NEW l, IsKey(l), k # l,
         NEW t \in Seq(Characters), NEW u \in Seq(Characters),
         NEW first, first = ParamKeyValue(k, t), NEW second, second = ParamKeyValue(l, u)
  PROVE  LET form == (first \o <<"&">>) \o second
         IN  /\ form \in Seq(Characters)
             /\ GetKey(form, k) = t /\ GetKey(form, l) = u
             /\ \A key : key \notin {k, l} => GetKey(form, key) = NoValue
<1>1. PICK a \in Letters : k = <<a>>
  BY DEF IsKey
<1>2. PICK b \in Letters : l = <<b>>
  BY DEF IsKey
<1>3. PICK e \in Seq(Values) : DecodePercent(e) = t /\ first = (<<a>> \o <<"=">>) \o e
  BY <1>1, FormField DEF Yields
<1>4. PICK g \in Seq(Values) : DecodePercent(g) = u /\ second = (<<b>> \o <<"=">>) \o g
  BY <1>2, FormField DEF Yields
<1> DEFINE F == first \o <<"&">>
<1>5. F \in Seq(Characters) /\ Len(F) = 3 + Len(e) /\ FieldAt(F, 1, a, e)
  BY ONLY <1>3, FieldText, a \in Letters
<1>6. second \in Seq(Characters) /\ Len(second) = 2 + Len(g) /\ FieldAt(second, 1, b, g)
  BY ONLY <1>4, FieldText, b \in Letters
<1> HIDE DEF F
<1>7. F \o second \in Seq(Characters)
  BY ONLY <1>5, <1>6, JoinedAt
<1>8. /\ GetKey(F \o second, <<a>>) = DecodePercent(e)
      /\ GetKey(F \o second, <<b>>) = DecodePercent(g)
      /\ \A key : key \notin {<<a>>, <<b>>} => GetKey(F \o second, key) = NoValue
  <2>1. Len(second) \in {2 + Len(g), 3 + Len(g)}
    BY ONLY <1>6
  <2>2. /\ a \in Letters /\ b \in Letters /\ a # b /\ e \in Seq(Values) /\ g \in Seq(Values)
    BY <1>1, <1>2, <1>3, <1>4
  <2>3. QED BY ONLY <1>5, <1>6, <2>1, <2>2, TwoFields
<1>9. QED BY ONLY <1>1, <1>2, <1>3, <1>4, <1>7, <1>8 DEF F

\* Of a form that is cut somewhere there is no second value, or all of the first one and
\* a beginning of the second.
LEMMA CutFormsAre ==
  ASSUME NEW k, IsKey(k), NEW l, IsKey(l), k # l,
         NEW t \in Seq(Characters), NEW u \in Seq(Characters),
         NEW first, first = ParamKeyValue(k, t), NEW second, second = ParamKeyValue(l, u),
         NEW n \in 0..Len((first \o <<"&">>) \o second)
  PROVE  LET body == SubSeq((first \o <<"&">>) \o second, 1, n)
         IN  \/ GetKey(body, l) = NoValue
             \/ /\ GetKey(body, k) = t
                /\ GetKey(body, l) \in Seq(Characters) /\ IsPrefix(GetKey(body, l), u)
<1>1. PICK a \in Letters : k = <<a>>
  BY DEF IsKey
<1>2. PICK b \in Letters : l = <<b>>
  BY DEF IsKey
<1>3. PICK e \in Seq(Values) : Yields(e, t) /\ first = (<<a>> \o <<"=">>) \o e
  BY <1>1, FormField
<1>4. PICK g \in Seq(Values) : Yields(g, u) /\ second = (<<b>> \o <<"=">>) \o g
  BY <1>2, FormField
<1> DEFINE F == first \o <<"&">>
           body == SubSeq(F \o second, 1, n)
<1>5. F \in Seq(Characters) /\ Len(F) = 3 + Len(e) /\ FieldAt(F, 1, a, e)
  BY ONLY <1>3, FieldText, a \in Letters
<1>6. second \in Seq(Characters) /\ Len(second) = 2 + Len(g) /\ FieldAt(second, 1, b, g)
  BY ONLY <1>4, FieldText, b \in Letters
<1>7. n \in 0..Len(F \o second) /\ body = SubSeq(F \o second, 1, n)
  OBVIOUS
<1> HIDE DEF F, body
<1>8. CutTo(body, a, b, e, g)
  <2>1. a \in Letters /\ b \in Letters /\ a # b /\ e \in Seq(Values) /\ g \in Seq(Values)
    BY <1>1, <1>2, <1>3, <1>4
  <2>2. QED BY ONLY <1>5, <1>6, <1>7, <2>1, CutFields
<1>9. /\ DecodePercent(e) = t
      /\ \A i \in 0..Len(g) : /\ DecodePercent(SubSeq(g, 1, i)) \in Seq(Characters)
                              /\ IsPrefix(DecodePercent(SubSeq(g, 1, i)), u)
  BY ONLY <1>3, <1>4 DEF Yields
<1>10. \/ GetKey(body, l) = NoValue
       \/ /\ GetKey(body, k) = t
          /\ GetKey(body, l) \in Seq(Characters) /\ IsPrefix(GetKey(body, l), u)
  BY ONLY <1>1, <1>2, <1>8, <1>9 DEF CutTo
<1>11. QED BY ONLY <1>10 DEF body, F

\* Two values without "%" and "+" come out of a file again.
LEMMA FilesAre ==
  ASSUME NEW k, IsKey(k), NEW l, IsKey(l), k # l,
         NEW t \in Seq(Characters), NEW u \in Seq(Characters), Plaintext(t), Plaintext(u),
         NEW first, first = WriteKeyValue(k, t), NEW second, second = WriteKeyValue(l, u)
  PROVE  GetKey(first \o second, k) = t /\ GetKey(first \o second, l) = u
<1>1. PICK a \in Letters : k = <<a>>
  BY DEF IsKey
<1>2. PICK b \in Letters : l = <<b>>
  BY DEF IsKey
<1>3. PICK e \in Seq(Values) :
        DecodePercent(e) = t /\ first = ((<<a>> \o <<"=">>) \o e) \o <<"&">>
  BY <1>1, FileField
<1>4. PICK g \in Seq(Values) :
        DecodePercent(g) = u /\ second = ((<<b>> \o <<"=">>) \o g) \o <<"&">>
  BY <1>2, FileField
<1>5. first \in Seq(Characters) /\ Len(first) = 3 + Len(e) /\ FieldAt(first, 1, a, e)
  BY ONLY <1>3, FieldText, a \in Letters
<1>6. second \in Seq(Characters) /\ Len(second) = 3 + Len(g) /\ FieldAt(second, 1, b, g)
  BY ONLY <1>4, FieldText, b \in Letters
<1>7. /\ GetKey(first \o second, <<a>>) = DecodePercent(e)
      /\ GetKey(first \o second, <<b>>) = DecodePercent(g)
  <2>1. Len(second) \in {2 + Len(g), 3 + Len(g)}
    BY ONLY <1>6
  <2>2. /\ a \in Letters /\ b \in Letters /\ a # b /\ e \in Seq(Values) /\ g \in Seq(Values)
    BY <1>1, <1>2, <1>3, <1>4
  <2>3. QED BY ONLY <1>5, <1>6, <2>1, <2>2, TwoFields
<1>8. QED BY ONLY <1>1, <1>2, <1>3, <1>4, <1>7

=============================================================================

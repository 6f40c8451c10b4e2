-------------------------------- MODULE Kmp --------------------------------
(***************************************************************************)
(* kmp (WebServer.cpp): reads a stream up to a needle and copies what comes  *)
(* before it.  Characters that may be the beginning of the needle are held   *)
(* in a ring buffer of its length until they are known not to be.           *)
(***************************************************************************)
EXTENDS Integers, Sequences, SequencesExt

\* Down the borders from k, as far as the next character of the needle is not c.
Fallen(needle, border, k, c) ==
  LET Fall[j \in -1..k] == IF j = -1 \/ needle[j + 1] = c THEN j ELSE Fall[border[j]]
  IN  Fall[k]

\* border[i]: the length of the longest proper border of the first i characters
Border_None(needle) == [i \in 0..Len(needle) |-> IF i = 0 THEN -1 ELSE 0]
Border(needle) ==
  LET B[i \in 0..Len(needle)] ==
        IF i = 0 THEN -1 ELSE Fallen(needle, B, B[i - 1], needle[i]) + 1
  IN  B

\* How much of the needle is seen once c has been read.
Seen_Restarts(needle, border, seen, c) == IF needle[seen + 1] = c THEN seen + 1 ELSE 0
Seen(needle, border, seen, c) == Fallen(needle, border, seen, c) + 1

\* One character: it completes the needle, or it is held, and what can no longer
\* be a part of the needle is written.
KmpStep(needle, border, s, c) ==
  IF s.found THEN s
  ELSE LET seen == Seen(needle, border, s.seen, c)
           held == Append(s.held, c)
           free == Len(held) - seen
       IN  IF seen = Len(needle)
           THEN [s EXCEPT !.found = TRUE, !.read = @ + 1, !.held = <<>>]
           ELSE [s EXCEPT !.seen = seen, !.read = @ + 1,
                          !.held = SubSeq(held, free + 1, Len(held)),
                          !.written = @ \o SubSeq(held, 1, free)]

NothingRead == [found |-> FALSE, seen |-> 0, held |-> <<>>, written |-> <<>>, read |-> 0]

\* The stream ends where no byte is available.
KmpSearch(needle, haystack) ==
  LET border == Border(needle)
  IN  FoldLeft(LAMBDA s, c : KmpStep(needle, border, s, c), NothingRead, haystack)

Rest(haystack, result) == SubSeq(haystack, result.read + 1, Len(haystack))
=============================================================================

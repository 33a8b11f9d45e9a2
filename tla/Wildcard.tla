------------------------------ MODULE Wildcard ------------------------------
(***************************************************************************)
(* Patterns of file names (system.cpp, wildcard_match).  A pattern and a   *)
(* name are sequences of characters; the code's recursion over the rest of *)
(* both is a function of the two positions.                                *)
(***************************************************************************)
EXTENDS Naturals, Sequences, FiniteSetsExt

CONSTANTS
  Chars,     \* characters of names
  tolower    \* a character -> its small form

Star   == "*"
AnyOne == "?"

ASSUME WildcardAssumption ==
  /\ tolower \in [Chars -> Chars]
  /\ Star \notin Chars /\ AnyOne \notin Chars

SameChar(p, c) == p = AnyOne \/ tolower[p] = tolower[c]

\* Faulty: the rest of the pattern is not tried where the star stands for nothing.
wildcard_match_greedy(pattern, text) ==
  LET match[i \in 1 .. Len(pattern) + 1] ==
        LET rest == {k \in i .. Len(pattern) : pattern[k] # Star} IN
        [j \in 1 .. Len(text) + 1 |->
           IF i > Len(pattern) THEN j > Len(text)
           ELSE IF pattern[i] = Star
           THEN rest = {} \/ \E k \in j + 1 .. Len(text) : match[Min(rest)][k]
           ELSE /\ j <= Len(text)
                /\ SameChar(pattern[i], text[j])
                /\ match[i + 1][j + 1]]
  IN  match[1][1]

\* Stars in a row are one, a star at the end takes everything, and the rest of the
\* pattern behind another one is tried at every character that is left.
wildcard_match(pattern, text) ==
  LET match[i \in 1 .. Len(pattern) + 1] ==
        LET rest == {k \in i .. Len(pattern) : pattern[k] # Star} IN
        [j \in 1 .. Len(text) + 1 |->
           IF i > Len(pattern) THEN j > Len(text)
           ELSE IF pattern[i] = Star
           THEN rest = {} \/ \E k \in j .. Len(text) : match[Min(rest)][k]
           ELSE /\ j <= Len(text)
                /\ SameChar(pattern[i], text[j])
                /\ match[i + 1][j + 1]]
  IN  match[1][1]

\* What a pattern means: the text falls into one piece for each of its characters,
\* of any length for a star and of one fitting character otherwise.
Fits(pattern, text) ==
  \E cut \in [0 .. Len(pattern) -> 0 .. Len(text)] :
    /\ cut[0] = 0 /\ cut[Len(pattern)] = Len(text)
    /\ \A i \in 1 .. Len(pattern) :
         IF pattern[i] = Star THEN cut[i - 1] <= cut[i]
         ELSE cut[i] = cut[i - 1] + 1 /\ SameChar(pattern[i], text[cut[i]])
=============================================================================

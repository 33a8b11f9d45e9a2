---------------------------- MODULE ProfileProofs ----------------------------
(***************************************************************************)
(* Proofs about Profile.  Every call of _SetPrivateProfileString replaces  *)
(* one stretch of lines by another; what Get reads outside of the stretch  *)
(* is what it read before.                                                 *)
(***************************************************************************)
EXTENDS Profile, TLAPS, SequenceTheorems, FiniteSetTheorems, WellFoundedInduction

-----------------------------------------------------------------------------
(* Numbers. *)

\* A set of line numbers has a first ...
LEMMA FirstLine ==
  ASSUME NEW T \in SUBSET Nat, T # {}
  PROVE  Min(T) \in T /\ \A n \in T : Min(T) <= n
<1> DEFINE R == {p \in Nat \X Nat : p[1] < p[2]}
<1>1. IsWellFoundedOn(R, Nat)
  BY NatLessThanWellFounded DEF OpToRel
<1> HIDE DEF R
<1>2. PICK m \in T : \A n \in T : <<n, m>> \notin R
  BY <1>1, WFMin
<1>3. \A n \in T : ~(n < m)
  BY <1>2 DEF R
<1>4. \E x \in T : \A n \in T : x <= n
  BY <1>3
<1> QED BY <1>4 DEF Min

\* ... and, in a file, a last.
LEMMA LastLine ==
  ASSUME NEW N \in Nat, NEW T \in SUBSET (0 .. N), T # {}
  PROVE  Max(T) \in T /\ \A n \in T : n <= Max(T)
<1>1. PICK U : U = {N - x : x \in T}
  OBVIOUS
<1>2. U \in SUBSET Nat /\ U # {}
  <2>1. \A x \in 0 .. N : N - x \in Nat
    OBVIOUS
  <2> QED BY <1>1, <2>1
<1>3. PICK u \in U : \A y \in U : u <= y
  BY <1>2, FirstLine
<1>4. PICK m \in T : u = N - m
  BY <1>1
<1>5. ASSUME NEW n \in T PROVE n <= m
  <2>1. N - n \in U
    BY <1>1
  <2>2. N - m <= N - n /\ m \in 0 .. N /\ n \in 0 .. N
    BY <1>3, <1>4, <2>1
  <2> QED BY <2>2
<1>6. \E x \in T : \A n \in T : x >= n
  BY <1>5
<1> QED BY <1>6 DEF Max

-----------------------------------------------------------------------------
(* Sections. *)

IsHeader(line) == line.kind = "header"

\* h is the header above line i, or 0 if there is none.
Heads(f, i, h) ==
  /\ h \in 0 .. i - 1
  /\ h # 0 => IsHeader(f[h])
  /\ \A j \in h + 1 .. i - 1 : ~IsHeader(f[j])

Named(f, h) == IF h = 0 THEN Empty ELSE Trim[f[h].name]

\* There is one for every line, also the one behind the last, ...
LEMMA HeadExists ==
  ASSUME NEW f, NEW i \in Nat, i > 0
  PROVE  \E h \in 0 .. i - 1 : Heads(f, i, h)
<1>1. PICK T : T = {j \in 1 .. i - 1 : IsHeader(f[j])} \cup {0}
  OBVIOUS
<1>2. PICK m \in Nat : m = i - 1
  <2>1. i - 1 \in Nat
    OBVIOUS
  <2> QED BY <2>1
<1>3. T \in SUBSET (0 .. m) /\ T # {}
  BY <1>1, <1>2
<1>4. PICK h : h \in T /\ \A n \in T : n <= h
  BY <1>3, LastLine
<1>5. h \in 0 .. i - 1 /\ (h # 0 => IsHeader(f[h]))
  BY <1>1, <1>2, <1>3, <1>4
<1>6. ASSUME NEW j \in h + 1 .. i - 1, IsHeader(f[j]) PROVE FALSE
  <2>1. h \in Nat /\ j \in 1 .. i - 1
    BY <1>5
  <2>2. j <= h
    BY <1>1, <1>4, <1>6, <2>1
  <2> QED BY <2>1, <2>2
<1> QED BY <1>5, <1>6 DEF Heads

\* ... and it names the section.
LEMMA HeadNames ==
  ASSUME NEW f, NEW i \in Nat, i > 0, NEW h, Heads(f, i, h)
  PROVE  SectionOf(f, i) = Named(f, h)
<1>1. PICK T : T = {j \in 1 .. i - 1 : f[j].kind = "header"}
  OBVIOUS
<1>2. h \in 0 .. i - 1
  BY DEF Heads
<1>3. ASSUME NEW j \in T PROVE j <= h
  <2>1. j \in 1 .. i - 1 /\ IsHeader(f[j])
    BY <1>1 DEF IsHeader
  <2>2. j \notin h + 1 .. i - 1
    BY <2>1 DEF Heads
  <2> QED BY <1>2, <2>1, <2>2
<1>4. CASE h = 0
  <2>1. T = {}
    BY <1>1, <1>3, <1>4
  <2> QED BY <1>1, <1>4, <2>1 DEF SectionOf, Named
<1>5. CASE h # 0
  <2>1. h \in T
    BY <1>1, <1>2, <1>5 DEF Heads, IsHeader
  <2>2. T \in SUBSET (0 .. i)
    BY <1>1
  <2>3. PICK m : m = Max(T) /\ m \in T /\ \A n \in T : n <= m
    BY <2>1, <2>2, LastLine
  <2>4. Max(T) = h
    <3>1. m <= h /\ h <= m /\ m \in 0 .. i
      BY <1>3, <2>1, <2>2, <2>3
    <3>2. m = h
      BY <1>2, <3>1
    <3> QED BY <2>3, <3>2
  <2> QED BY <1>1, <1>5, <2>1, <2>4 DEF SectionOf, Named
<1> QED BY <1>4, <1>5

-----------------------------------------------------------------------------
(* Edits. *)

File == Seq(Line)

\* g is f with the lines a + 1 .. b replaced by others, which are a + 1 .. c of g.
Spliced(f, g, a, b, c) ==
  /\ a \in 0 .. Len(f) /\ b \in a .. Len(f) /\ c \in a .. Len(g)
  /\ Len(f) - b = Len(g) - c
  /\ \A i \in 1 .. a : g[i] = f[i]
  /\ \A i \in b + 1 .. Len(f) : g[(i - b) + c] = f[i]

\* The lines behind the stretch keep their section: the stretch has no headers,
\* or they begin with one.
Clean(f, g, a, b, c) ==
  \/ /\ \A i \in a + 1 .. b : ~IsHeader(f[i])
     /\ \A i \in a + 1 .. c : ~IsHeader(g[i])
  \/ b = Len(f)
  \/ b < Len(f) /\ IsHeader(f[b + 1])

\* The edit that takes it back.
LEMMA SpliceBack ==
  ASSUME NEW f \in File, NEW g \in File, NEW a, NEW b, NEW c,
         Spliced(f, g, a, b, c), Clean(f, g, a, b, c)
  PROVE  Spliced(g, f, a, c, b) /\ Clean(g, f, a, c, b)
<1>1. PICK m \in Nat, n \in Nat : m = Len(f) /\ n = Len(g)
  BY DEF File
<1>2. /\ a \in Nat /\ b \in Nat /\ c \in Nat /\ a <= b /\ b <= m /\ a <= c /\ c <= n
      /\ m - b = n - c
      /\ \A i \in 1 .. a : g[i] = f[i]
      /\ \A i \in b + 1 .. m : g[(i - b) + c] = f[i]
  BY <1>1 DEF Spliced
<1>3. ASSUME NEW i \in c + 1 .. n PROVE f[(i - c) + b] = g[i]
  <2>1. PICK k \in Nat : k = i - c
    <3>1. i - c \in Nat
      BY <1>2
    <3> QED BY <3>1
  <2>2. k + b \in b + 1 .. m /\ ((k + b) - b) + c = i
    BY <1>2, <2>1
  <2> QED BY <1>2, <2>1, <2>2
<1>4. Spliced(g, f, a, c, b)
  BY <1>1, <1>2, <1>3 DEF Spliced
<1>5. CASE b = m
  <2>1. c = n
    BY <1>2, <1>5
  <2> QED BY <1>1, <1>4, <2>1 DEF Clean
<1>6. CASE b < m /\ IsHeader(f[b + 1])
  <2>1. b + 1 \in b + 1 .. m /\ ((b + 1) - b) + c = c + 1 /\ c < n
    BY <1>2, <1>6
  <2>2. g[c + 1] = f[b + 1]
    BY <1>2, <2>1
  <2> QED BY <1>1, <1>4, <1>6, <2>1, <2>2 DEF Clean
<1>7. CASE /\ \A i \in a + 1 .. b : ~IsHeader(f[i])
           /\ \A i \in a + 1 .. c : ~IsHeader(g[i])
  BY <1>4, <1>7 DEF Clean
<1> QED BY <1>1, <1>5, <1>6, <1>7 DEF Clean

\* Where a line outside of the stretch goes.
Moved(a, b, c, i) == IF i <= a THEN i ELSE (i - b) + c

Kept(f, a, b) == {i \in DOMAIN f : i <= a \/ i > b}

\* The numbers of an edit.
LEMMA SpliceFacts ==
  ASSUME NEW f \in File, NEW g \in File, NEW a, NEW b, NEW c, Spliced(f, g, a, b, c)
  PROVE  \E m, n \in Nat :
           /\ m = Len(f) /\ n = Len(g) /\ DOMAIN f = 1 .. m /\ DOMAIN g = 1 .. n
           /\ a \in Nat /\ b \in Nat /\ c \in Nat /\ a <= b /\ b <= m /\ a <= c /\ c <= n
           /\ m - b = n - c
           /\ \A i \in 1 .. a : g[i] = f[i]
           /\ \A i \in b + 1 .. m : g[(i - b) + c] = f[i]
<1>1. PICK m \in Nat, n \in Nat :
        m = Len(f) /\ n = Len(g) /\ DOMAIN f = 1 .. m /\ DOMAIN g = 1 .. n
  BY DEF File
<1>2. /\ a \in Nat /\ b \in Nat /\ c \in Nat /\ a <= b /\ b <= m /\ a <= c /\ c <= n
      /\ m - b = n - c
      /\ \A i \in 1 .. a : g[i] = f[i]
      /\ \A i \in b + 1 .. m : g[(i - b) + c] = f[i]
  BY <1>1 DEF Spliced
<1> QED BY <1>1, <1>2

\* It is the same line, at its place among the others, ...
LEMMA MovedLine ==
  ASSUME NEW f \in File, NEW g \in File, NEW a, NEW b, NEW c, Spliced(f, g, a, b, c),
         NEW i \in Kept(f, a, b)
  PROVE  /\ Moved(a, b, c, i) \in Kept(g, a, c) /\ g[Moved(a, b, c, i)] = f[i]
         /\ Moved(a, c, b, Moved(a, b, c, i)) = i
         /\ \A j \in Kept(f, a, b) : i <= j => Moved(a, b, c, i) <= Moved(a, b, c, j)
<1>1. PICK m \in Nat, n \in Nat :
        /\ m = Len(f) /\ n = Len(g) /\ DOMAIN f = 1 .. m /\ DOMAIN g = 1 .. n
        /\ a \in Nat /\ b \in Nat /\ c \in Nat /\ a <= b /\ b <= m /\ a <= c /\ c <= n
        /\ m - b = n - c
        /\ \A x \in 1 .. a : g[x] = f[x]
        /\ \A x \in b + 1 .. m : g[(x - b) + c] = f[x]
  BY SpliceFacts
<1>2. i \in 1 .. m /\ (i <= a \/ i > b)
  BY <1>1 DEF Kept
<1>3. CASE i <= a
  <2>1. Moved(a, b, c, i) = i /\ Moved(a, c, b, i) = i
    BY <1>3 DEF Moved
  <2>2. i \in 1 .. n /\ g[i] = f[i]
    BY <1>1, <1>2, <1>3
  <2>3. ASSUME NEW j \in Kept(f, a, b), i <= j PROVE i <= Moved(a, b, c, j)
    <3>1. j \in 1 .. m /\ (j <= a \/ j > b)
      BY <1>1 DEF Kept
    <3>2. CASE j <= a
      BY <2>3, <3>2 DEF Moved
    <3>3. CASE ~(j <= a)
      <4>1. i <= (j - b) + c
        BY <1>1, <1>2, <1>3, <3>1, <3>3
      <4> QED BY <3>3, <4>1 DEF Moved
    <3> QED BY <3>2, <3>3
  <2> QED BY <1>1, <1>3, <2>1, <2>2, <2>3 DEF Kept
<1>4. CASE ~(i <= a)
  <2>1. i \in b + 1 .. m
    BY <1>1, <1>2, <1>4
  <2>2. PICK k \in Nat : k = (i - b) + c /\ k > c /\ k <= n /\ (k - c) + b = i
    <3>1. (i - b) + c \in Nat /\ (i - b) + c > c /\ (i - b) + c <= n /\ (((i - b) + c) - c) + b = i
      BY <1>1, <2>1
    <3> QED BY <3>1
  <2>3. Moved(a, b, c, i) = k /\ g[k] = f[i]
    BY <1>1, <1>4, <2>1, <2>2 DEF Moved
  <2>4. k \in 1 .. n /\ ~(k <= a)
    BY <1>1, <2>2
  <2>5. Moved(a, c, b, k) = i
    BY <2>2, <2>4 DEF Moved
  <2>6. ASSUME NEW j \in Kept(f, a, b), i <= j PROVE k <= Moved(a, b, c, j)
    <3>1. j \in 1 .. m /\ ~(j <= a)
      BY <1>1, <1>2, <1>4, <2>6 DEF Kept
    <3>2. k <= (j - b) + c
      BY <1>1, <1>2, <2>2, <2>6, <3>1
    <3> QED BY <3>1, <3>2 DEF Moved
  <2> QED BY <1>1, <2>2, <2>3, <2>4, <2>5, <2>6 DEF Kept
<1> QED BY <1>3, <1>4

\* ... and in the section it was in.
LEMMA MovedSection ==
  ASSUME NEW f \in File, NEW g \in File, NEW a, NEW b, NEW c,
         Spliced(f, g, a, b, c), Clean(f, g, a, b, c),
         NEW i \in Kept(f, a, b), ~IsHeader(f[i])
  PROVE  SectionOf(g, Moved(a, b, c, i)) = SectionOf(f, i)
<1>1. PICK m \in Nat, n \in Nat :
        /\ m = Len(f) /\ n = Len(g) /\ DOMAIN f = 1 .. m /\ DOMAIN g = 1 .. n
        /\ a \in Nat /\ b \in Nat /\ c \in Nat /\ a <= b /\ b <= m /\ a <= c /\ c <= n
        /\ m - b = n - c
        /\ \A x \in 1 .. a : g[x] = f[x]
        /\ \A x \in b + 1 .. m : g[(x - b) + c] = f[x]
  BY SpliceFacts
<1>2. i \in 1 .. m /\ (i <= a \/ i > b)
  BY <1>1 DEF Kept
<1>3. PICK h \in 0 .. i - 1 : Heads(f, i, h)
  BY <1>2, HeadExists
<1>4. SectionOf(f, i) = Named(f, h)
  BY <1>2, <1>3, HeadNames
<1>5. CASE i <= a
  <2>1. Moved(a, b, c, i) = i
    BY <1>5 DEF Moved
  <2>2. \A x \in 1 .. i - 1 : g[x] = f[x]
    BY <1>1, <1>2, <1>5
  <2>3. Heads(g, i, h) /\ Named(g, h) = Named(f, h)
    <3>1. h # 0 => h \in 1 .. i - 1
      BY <1>2
    <3>2. \A j \in h + 1 .. i - 1 : j \in 1 .. i - 1
      BY <1>2
    <3> QED BY <1>3, <2>2, <3>1, <3>2 DEF Heads, Named
  <2>4. SectionOf(g, i) = Named(g, h)
    BY <1>2, <2>3, HeadNames
  <2> QED BY <1>4, <2>1, <2>3, <2>4
<1>6. CASE i > b
  <2>1. PICK k \in Nat : k = (i - b) + c /\ k > c /\ k <= n /\ k > 0
    <3>1. (i - b) + c \in Nat /\ (i - b) + c > c /\ (i - b) + c <= n /\ (i - b) + c > 0
      BY <1>1, <1>2, <1>6
    <3> QED BY <3>1
  <2>2. Moved(a, b, c, i) = k
    BY <1>1, <1>2, <1>6, <2>1 DEF Moved
  <2>3. ASSUME NEW y \in c + 1 .. k - 1 PROVE (y - c) + b \in b + 1 .. i - 1 /\ g[y] = f[(y - c) + b]
    <3>1. PICK x \in Nat : x = (y - c) + b /\ x \in b + 1 .. i - 1 /\ (x - b) + c = y
      <4>1. (y - c) + b \in Nat /\ (y - c) + b \in b + 1 .. i - 1 /\ (((y - c) + b) - b) + c = y
        BY <1>1, <1>2, <2>1
      <4> QED BY <4>1
    <3>2. x \in b + 1 .. m
      BY <1>1, <1>2, <3>1
    <3> QED BY <1>1, <3>1, <3>2
  <2>4. CASE h > b
    <3>1. PICK j \in Nat : j = (h - b) + c /\ j \in 1 .. k - 1 /\ j > c /\ g[j] = f[h]
      <4>1. (h - b) + c \in Nat /\ (h - b) + c \in 1 .. k - 1 /\ (h - b) + c > c /\ h \in b + 1 .. m
        BY <1>1, <1>2, <1>3, <2>1, <2>4
      <4>2. g[(h - b) + c] = f[h]
        BY <1>1, <4>1
      <4> QED BY <4>1, <4>2
    <3>2. IsHeader(g[j]) /\ h # 0 /\ j # 0
      BY <1>1, <1>3, <2>4, <3>1 DEF Heads
    <3>3. ASSUME NEW y \in j + 1 .. k - 1 PROVE ~IsHeader(g[y])
      <4>1. y \in c + 1 .. k - 1 /\ (y - c) + b \in h + 1 .. i - 1
        BY <1>1, <1>2, <1>3, <2>1, <2>4, <3>1
      <4> QED BY <1>3, <2>3, <4>1 DEF Heads
    <3>4. Heads(g, k, j)
      BY <3>1, <3>2, <3>3 DEF Heads
    <3>5. Named(g, j) = Named(f, h)
      BY <3>1, <3>2 DEF Named
    <3>6. SectionOf(g, k) = Named(g, j)
      BY <2>1, <3>4, HeadNames
    <3> QED BY <1>4, <2>2, <3>5, <3>6
  <2>5. CASE ~(h > b)
    <3>1. ~(b < m /\ IsHeader(f[b + 1]))
      <4>1. ASSUME IsHeader(f[b + 1]) PROVE FALSE
        <5>1. i # b + 1
          BY <4>1
        <5>2. b + 1 \in h + 1 .. i - 1
          BY <1>1, <1>2, <1>3, <1>6, <2>5, <5>1
        <5> QED BY <1>3, <4>1, <5>2 DEF Heads
      <4> QED BY <4>1
    <3>2. b # m
      BY <1>1, <1>2, <1>6
    <3>3. /\ \A x \in a + 1 .. b : ~IsHeader(f[x])
          /\ \A x \in a + 1 .. c : ~IsHeader(g[x])
      BY <1>1, <3>1, <3>2 DEF Clean
    <3>4. h <= a
      <4>1. h \notin a + 1 .. b \/ h = 0
        BY <1>3, <3>3 DEF Heads
      <4> QED BY <1>1, <1>2, <1>3, <2>5, <4>1
    <3>5. h \in 0 .. k - 1
      BY <1>1, <1>2, <1>3, <2>1, <3>4
    <3>6. h # 0 => g[h] = f[h]
      BY <1>1, <1>2, <1>3, <3>4
    <3>7. ASSUME NEW y \in h + 1 .. k - 1 PROVE ~IsHeader(g[y])
      <4>1. CASE y <= a
        <5>1. y \in 1 .. a /\ y \in h + 1 .. i - 1
          BY <1>1, <1>2, <1>3, <1>6, <4>1
        <5> QED BY <1>1, <1>3, <5>1 DEF Heads
      <4>2. CASE y > a /\ y <= c
        <5>1. y \in a + 1 .. c
          BY <1>1, <1>2, <1>3, <4>2
        <5> QED BY <3>3, <5>1
      <4>3. CASE y > c
        <5>1. y \in c + 1 .. k - 1
          BY <1>1, <1>2, <1>3, <2>1, <4>3
        <5>2. PICK x : x = (y - c) + b /\ x \in b + 1 .. i - 1 /\ g[y] = f[x]
          BY <2>3, <5>1
        <5>3. x \in h + 1 .. i - 1
          BY <1>1, <1>2, <1>3, <2>5, <5>2
        <5> QED BY <1>3, <5>2, <5>3 DEF Heads
      <4>4. y <= a \/ (y > a /\ y <= c) \/ y > c
        BY <1>1, <1>2, <1>3
      <4> QED BY <4>1, <4>2, <4>3, <4>4
    <3>8. Heads(g, k, h) /\ Named(g, h) = Named(f, h)
      BY <1>3, <3>5, <3>6, <3>7 DEF Heads, Named
    <3>9. SectionOf(g, k) = Named(g, h)
      BY <2>1, <3>8, HeadNames
    <3> QED BY <1>4, <2>2, <3>8, <3>9
  <2> QED BY <2>4, <2>5
<1> QED BY <1>2, <1>5, <1>6

\* A line that Get finds outside of the stretch is found again.
LEMMA MovedFits ==
  ASSUME NEW f \in File, NEW g \in File, NEW a, NEW b, NEW c,
         Spliced(f, g, a, b, c), Clean(f, g, a, b, c),
         NEW t, NEW k, NEW i \in Kept(f, a, b), i \in Fits(f, t, k)
  PROVE  Moved(a, b, c, i) \in Fits(g, t, k)
<1>1. f[i].kind = "pair" /\ Trim[f[i].name] = k /\ SectionOf(f, i) = t
  BY DEF Fits
<1>2. PICK j : j = Moved(a, b, c, i)
  OBVIOUS
<1>3. j \in Kept(g, a, c) /\ g[j] = f[i]
  BY <1>2, MovedLine
<1>4. SectionOf(g, j) = t
  BY <1>1, <1>2, MovedSection DEF IsHeader
<1> QED BY <1>1, <1>2, <1>3, <1>4 DEF Fits, Kept

\* An edit that touches no line of a setting leaves the setting alone.
LEMMA LookupKept ==
  ASSUME NEW f \in File, NEW g \in File, NEW a, NEW b, NEW c,
         Spliced(f, g, a, b, c), Clean(f, g, a, b, c), NEW t, NEW k,
         Fits(f, t, k) \in SUBSET Kept(f, a, b), Fits(g, t, k) \in SUBSET Kept(g, a, c)
  PROVE  Lookup(g, t, k) = Lookup(f, t, k)
<1>1. Spliced(g, f, a, c, b) /\ Clean(g, f, a, c, b)
  BY SpliceBack
<1>2. Fits(f, t, k) \in SUBSET Nat /\ Fits(g, t, k) \in SUBSET Nat
  BY DEF Fits, File
<1>3. CASE Fits(f, t, k) = {}
  <2>1. Fits(g, t, k) = {}
    BY <1>1, <1>3, MovedFits
  <2> QED BY <1>3, <2>1 DEF Lookup
<1>4. CASE Fits(f, t, k) # {}
  <2>1. PICK i : i = Min(Fits(f, t, k)) /\ i \in Fits(f, t, k) /\ \A x \in Fits(f, t, k) : i <= x
    BY <1>2, <1>4, FirstLine
  <2>2. PICK j : j = Moved(a, b, c, i)
    OBVIOUS
  <2>3. j \in Fits(g, t, k) /\ g[j] = f[i]
    BY <2>1, <2>2, MovedFits, MovedLine
  <2>4. ASSUME NEW y \in Fits(g, t, k) PROVE j <= y
    <3>1. PICK x : x = Moved(a, c, b, y)
      OBVIOUS
    <3>2. x \in Fits(f, t, k)
      BY <1>1, <3>1, MovedFits
    <3>3. Moved(a, b, c, x) = y
      BY <1>1, <3>1, MovedLine
    <3>4. i <= x /\ x \in Kept(f, a, b) /\ i \in Kept(f, a, b)
      BY <2>1, <3>2
    <3>5. j <= Moved(a, b, c, x)
      BY <2>2, <3>4, MovedLine
    <3> QED BY <3>3, <3>5
  <2>5. PICK q : q = Min(Fits(g, t, k)) /\ q \in Fits(g, t, k) /\ \A x \in Fits(g, t, k) : q <= x
    BY <1>2, <2>3, FirstLine
  <2>6. q = j
    <3>1. q <= j /\ j <= q /\ q \in Nat /\ j \in Nat
      BY <1>2, <2>3, <2>4, <2>5
    <3> QED BY <3>1
  <2>7. Fits(g, t, k) # {}
    BY <2>3
  <2> QED BY <1>4, <2>1, <2>3, <2>5, <2>6, <2>7 DEF Lookup
<1> QED BY <1>3, <1>4

\* A setting that has one line.
LEMMA LookupOne ==
  ASSUME NEW f \in File, NEW t, NEW k, NEW i, Fits(f, t, k) = {i}
  PROVE  Lookup(f, t, k) = Trim[f[i].value]
<1>1. {i} \in SUBSET Nat /\ {i} # {}
  BY DEF Fits, File
<1>2. Min({i}) = i
  BY <1>1, FirstLine
<1> QED BY <1>2 DEF Lookup

-----------------------------------------------------------------------------
(* The edits that _SetPrivateProfileString makes. *)

\* p is s with t behind it, m and n their lengths.
Joined(p, s, t, m, n) ==
  /\ Len(p) = m + n
  /\ \A x \in 1 .. m : p[x] = s[x]
  /\ \A x \in 1 .. n : p[m + x] = t[x]

LEMMA JoinFacts ==
  ASSUME NEW S, NEW s \in Seq(S), NEW t \in Seq(S)
  PROVE  s \o t \in Seq(S) /\ Joined(s \o t, s, t, Len(s), Len(t))
<1>1. PICK m \in Nat, n \in Nat : m = Len(s) /\ n = Len(t)
  OBVIOUS
<1>2. /\ s \o t \in Seq(S) /\ Len(s \o t) = m + n
      /\ \A x \in 1 .. m + n : (s \o t)[x] = IF x <= m THEN s[x] ELSE t[x - m]
  BY <1>1, ConcatProperties
<1>3. \A x \in 1 .. m : x \in 1 .. m + n /\ x <= m
  BY <1>1
<1>4. \A x \in 1 .. n : m + x \in 1 .. m + n /\ ~(m + x <= m) /\ (m + x) - m = x
  BY <1>1
<1>5. /\ \A x \in 1 .. m : (s \o t)[x] = s[x]
      /\ \A x \in 1 .. n : (s \o t)[m + x] = t[x]
  BY <1>2, <1>3, <1>4
<1>6. Joined(s \o t, s, t, m, n)
  BY <1>2, <1>5 DEF Joined
<1> QED BY <1>1, <1>2, <1>6, Zenon

\* Lines taken out and others put in.
Edited(f, a, mid, b) == SubSeq(f, 1, a) \o mid \o SubSeq(f, b + 1, Len(f))

EditFits(f, a, mid, b, d) == a <= b /\ b <= Len(f) /\ d = a + Len(mid)

\* The lines put in are the new stretch.
Holds(g, a, mid) == \A j \in 1 .. Len(mid) : g[a + j] = mid[j]

LEMMA SpliceMade ==
  ASSUME NEW f \in File, NEW mid \in File, NEW a \in Nat, NEW b \in Nat, NEW d \in Nat,
         EditFits(f, a, mid, b, d)
  PROVE  /\ Edited(f, a, mid, b) \in File
         /\ Spliced(f, Edited(f, a, mid, b), a, b, d) /\ Holds(Edited(f, a, mid, b), a, mid)
<1>0. PICK m \in Nat, l \in Nat :
        m = Len(f) /\ l = Len(mid) /\ a <= b /\ b <= m /\ d = a + l
  BY DEF EditFits, File
<1> PICK g : g = Edited(f, a, mid, b)
  OBVIOUS
<1>1. m = Len(f) /\ l = Len(mid) /\ d = a + l /\ g = Edited(f, a, mid, b)
  BY <1>0
<1>2. PICK u, w : u = SubSeq(f, 1, a) /\ w = SubSeq(f, b + 1, m)
  OBVIOUS
<1>3. a \in Nat /\ b \in Nat /\ a <= b /\ b <= m
  BY <1>0
<1>4. \A x \in 1 .. m : f[x] \in Line
  BY <1>1 DEF File
<1>5. u \in Seq(Line) /\ Len(u) = a /\ \A x \in 1 .. a : u[x] = f[x]
  <2>1. \A x \in 1 .. a : f[x] \in Line
    BY <1>3, <1>4
  <2>2. /\ u \in Seq(Line) /\ Len(u) = IF 1 <= a THEN a - 1 + 1 ELSE 0
        /\ \A x \in 1 .. a - 1 + 1 : u[x] = f[1 + x - 1]
    BY <1>2, <1>3, <2>1, SubSeqProperties
  <2>3. a - 1 + 1 = a /\ (~(1 <= a) => a = 0) /\ \A x \in 1 .. a : 1 + x - 1 = x
    BY <1>3
  <2> QED BY <2>2, <2>3
<1>6. w \in Seq(Line) /\ Len(w) = m - b /\ \A x \in 1 .. m - b : w[x] = f[b + x]
  <2>1. \A x \in b + 1 .. m : f[x] \in Line
    BY <1>3, <1>4
  <2>2. /\ w \in Seq(Line) /\ Len(w) = IF b + 1 <= m THEN m - (b + 1) + 1 ELSE 0
        /\ \A x \in 1 .. m - (b + 1) + 1 : w[x] = f[(b + 1) + x - 1]
    BY <1>2, <1>3, <2>1, SubSeqProperties
  <2>3. m - (b + 1) + 1 = m - b /\ (~(b + 1 <= m) => m - b = 0)
    BY <1>3
  <2>4. \A x \in 1 .. m - b : (b + 1) + x - 1 = b + x
    BY <1>3
  <2> QED BY <2>2, <2>3, <2>4
<1>7. PICK v : v = u \o mid
  OBVIOUS
<1>8. /\ v \in Seq(Line) /\ Len(v) = a + l
      /\ \A x \in 1 .. a : v[x] = f[x]
      /\ \A x \in 1 .. l : v[a + x] = mid[x]
  <2>1. mid \in Seq(Line)
    BY DEF File
  <2>2. u \in Seq(Line) /\ a = Len(u) /\ a \in Nat /\ l = Len(mid)
    BY <1>1, <1>3, <1>5
  <2>3. /\ u \o mid \in Seq(Line) /\ Len(u \o mid) = a + l
        /\ \A x \in 1 .. a : (u \o mid)[x] = u[x]
        /\ \A x \in 1 .. l : (u \o mid)[a + x] = mid[x]
    <3>1. u \o mid \in Seq(Line) /\ Joined(u \o mid, u, mid, Len(u), Len(mid))
      BY <2>1, <2>2, JoinFacts, Zenon
    <3>2. Joined(u \o mid, u, mid, a, l)
      BY <2>2, <3>1, Zenon
    <3> QED BY <3>1, <3>2, Zenon DEF Joined
  <2> QED BY <1>5, <1>7, <2>3
<1>9. PICK r \in Nat : r = m - b
  <2>1. m - b \in Nat
    BY <1>1, <1>3
  <2> QED BY <2>1
<1>10. g = v \o w
  BY <1>1, <1>2, <1>7 DEF Edited
<1>11. /\ g \in Seq(Line) /\ Len(g) = d + r
       /\ \A x \in 1 .. d : g[x] = v[x]
       /\ \A x \in 1 .. r : g[d + x] = f[b + x]
  <2>1. v \in Seq(Line) /\ d = Len(v) /\ w \in Seq(Line) /\ r = Len(w)
    BY <1>1, <1>6, <1>8, <1>9
  <2>2. /\ v \o w \in Seq(Line) /\ Len(v \o w) = d + r
        /\ \A x \in 1 .. d : (v \o w)[x] = v[x]
        /\ \A x \in 1 .. r : (v \o w)[d + x] = w[x]
    <3>1. v \o w \in Seq(Line) /\ Joined(v \o w, v, w, Len(v), Len(w))
      BY <2>1, JoinFacts, Zenon
    <3>2. Joined(v \o w, v, w, d, r)
      BY <2>1, <3>1, Zenon
    <3> QED BY <3>1, <3>2, Zenon DEF Joined
  <2>3. \A x \in 1 .. r : w[x] = f[b + x]
    BY <1>6, <1>9
  <2> QED BY <1>10, <2>2, <2>3
<1>12. ASSUME NEW i \in b + 1 .. m PROVE g[(i - b) + d] = f[i]
  <2>1. PICK x \in Nat : x = i - b /\ x \in 1 .. r /\ b + x = i /\ x + d = d + x
    <3>1. i - b \in Nat /\ i - b \in 1 .. r /\ b + (i - b) = i /\ (i - b) + d = d + (i - b)
      BY <1>3, <1>9
    <3> QED BY <3>1
  <2> QED BY <1>11, <2>1
<1>13. \A i \in 1 .. a : g[i] = f[i]
  <2>1. \A i \in 1 .. a : i \in 1 .. d
    BY <1>1, <1>3, <1>9
  <2> QED BY <1>8, <1>11, <2>1
<1>14. \A j \in 1 .. l : g[a + j] = mid[j]
  <2>1. \A j \in 1 .. l : a + j \in 1 .. d
    BY <1>1, <1>3, <1>9
  <2> QED BY <1>8, <1>11, <2>1
<1>15. /\ d \in a .. Len(g) /\ m - b = Len(g) - d /\ Len(g) = d + (m - b)
       /\ a \in 0 .. m /\ b \in a .. m
  <2>1. PICK n \in Nat : n = Len(g) /\ n = d + r
    <3>1. d + r \in Nat
      BY <1>9
    <3> QED BY <1>11, <3>1
  <2>2. d \in a .. n /\ m - b = n - d /\ n = d + (m - b)
    BY <1>1, <1>3, <1>9, <2>1
  <2> QED BY <1>3, <2>1, <2>2
<1>16. Spliced(f, g, a, b, d)
  BY <1>1, <1>12, <1>13, <1>15 DEF Spliced
<1>17. Holds(g, a, mid)
  BY <1>1, <1>14 DEF Holds
<1> QED BY <1>1, <1>11, <1>16, <1>17 DEF File

\* A file without indented headers.
Plain(f) == \A i \in DOMAIN f : ~f[i].indented

\* g is f after a call for section s that took away and put in lines of s only, with
\* names in K.
EditOf(f, g, s, K, a, b, c) ==
  /\ g \in File /\ Spliced(f, g, a, b, c) /\ Clean(f, g, a, b, c)
  /\ \A i \in a + 1 .. b : f[i].kind = "pair" => SectionOf(f, i) = s /\ Trim[f[i].name] \in K
  /\ \A i \in a + 1 .. c : g[i].kind = "pair" => SectionOf(g, i) = s /\ Trim[g[i].name] \in K

\* Other sections, and other keys, are as they were.
LEMMA EditLookup ==
  ASSUME NEW f \in File, NEW g, NEW s, NEW K, NEW a, NEW b, NEW c,
         EditOf(f, g, s, K, a, b, c), NEW t, NEW k, t # s \/ k \notin K
  PROVE  Lookup(g, t, k) = Lookup(f, t, k)
<1>1. g \in File /\ Spliced(f, g, a, b, c) /\ Clean(f, g, a, b, c)
  BY DEF EditOf
<1>2. PICK m \in Nat, n \in Nat :
        /\ DOMAIN f = 1 .. m /\ DOMAIN g = 1 .. n
        /\ a \in Nat /\ b \in Nat /\ c \in Nat /\ a <= b /\ b <= m /\ a <= c /\ c <= n
  BY <1>1, SpliceFacts
<1>3. ASSUME NEW i \in Fits(f, t, k) PROVE i \in Kept(f, a, b)
  <2>1. i \in 1 .. m /\ f[i].kind = "pair" /\ Trim[f[i].name] = k /\ SectionOf(f, i) = t
    BY <1>2 DEF Fits
  <2>2. i \notin a + 1 .. b
    BY <2>1 DEF EditOf
  <2>3. i <= a \/ i > b
    BY <1>2, <2>1, <2>2
  <2> QED BY <1>2, <2>1, <2>3 DEF Kept
<1>4. ASSUME NEW i \in Fits(g, t, k) PROVE i \in Kept(g, a, c)
  <2>1. i \in 1 .. n /\ g[i].kind = "pair" /\ Trim[g[i].name] = k /\ SectionOf(g, i) = t
    BY <1>2 DEF Fits
  <2>2. i \notin a + 1 .. c
    BY <2>1 DEF EditOf
  <2>3. i <= a \/ i > c
    BY <1>2, <2>1, <2>2
  <2> QED BY <1>2, <2>1, <2>3 DEF Kept
<1> QED BY <1>1, <1>3, <1>4, LookupKept

\* The firmware's names have no blanks around them.
LEMMA NameFacts ==
  ASSUME NEW s \in Sections \cup Keys
  PROVE  s \in Texts /\ Trim[s] = s /\ s # Empty
BY ProfileAssumption

LEMMA PairFacts ==
  ASSUME NEW k \in Keys, NEW v \in Values
  PROVE  /\ Pair(k, v) \in Line /\ ~Pair(k, v).indented
         /\ Pair(k, v).kind = "pair" /\ Pair(k, v).name = k /\ Pair(k, v).value = v
<1>1. k \in Texts /\ v \in Texts
  BY ProfileAssumption
<1> QED BY <1>1 DEF Pair, Line

\* A line of the key is in a section of the name, below a header of it.
LEMMA KeyLineFacts ==
  ASSUME NEW f \in File, Plain(f), NEW s \in Sections, NEW k, NEW i \in KeyLines(f, s, k)
  PROVE  /\ i \in DOMAIN f /\ f[i].kind = "pair" /\ f[i].name = k /\ SectionOf(f, i) = s
         /\ \E h \in HeadersOf(f, s) : Heads(f, i, h)
<1>1. /\ i \in DOMAIN f /\ f[i].kind = "pair" /\ f[i].name = k
      /\ \E h \in HeadersOf(f, s) : h < i /\ \A j \in PlainHeaders(f) : j <= h \/ i < j
  BY DEF KeyLines
<1>2. PICK h \in HeadersOf(f, s) : h < i /\ \A j \in PlainHeaders(f) : j <= h \/ i < j
  BY <1>1
<1>3. PICK m \in Nat : DOMAIN f = 1 .. m
  BY DEF File
<1>4. h \in 1 .. m /\ i \in 1 .. m /\ IsHeader(f[h]) /\ f[h].name = s
  BY <1>1, <1>2, <1>3 DEF HeadersOf, PlainHeaders, IsHeader
<1>5. ASSUME NEW j \in h + 1 .. i - 1 PROVE ~IsHeader(f[j])
  <2>1. j \in 1 .. m /\ ~(j <= h) /\ ~(i < j)
    BY <1>3, <1>4
  <2>2. j \notin PlainHeaders(f)
    BY <1>2, <2>1
  <2> QED BY <1>3, <2>1, <2>2 DEF PlainHeaders, Plain, IsHeader
<1>6. h \in 0 .. i - 1 /\ h # 0 /\ i \in Nat /\ i > 0
  BY <1>2, <1>3, <1>4
<1>7. Heads(f, i, h)
  BY <1>4, <1>5, <1>6 DEF Heads
<1>8. SectionOf(f, i) = Named(f, h)
  BY <1>6, <1>7, HeadNames
<1>9. Named(f, h) = s
  BY <1>4, <1>6, NameFacts DEF Named
<1> QED BY <1>1, <1>7, <1>8, <1>9

\* The section that Set works on reaches from its header to the next one it knows.
LEMMA SectionSpan ==
  ASSUME NEW f \in File, NEW s, HeadersOf(f, s) # {}
  PROVE  \E m \in Nat, a \in Nat, e \in Nat :
           /\ m = Len(f) /\ DOMAIN f = 1 .. m /\ a = SectionStart(f, s) /\ e = SectionEnd(f, s)
           /\ a \in HeadersOf(f, s) /\ a \in 1 .. m /\ e \in a + 1 .. m + 1
           /\ e <= m => e \in PlainHeaders(f)
           /\ \A j \in a + 1 .. e - 1 : j \in 1 .. m /\ j \notin PlainHeaders(f)
<1>1. PICK m \in Nat : m = Len(f) /\ DOMAIN f = 1 .. m
  BY DEF File
<1>2. HeadersOf(f, s) \in SUBSET (1 .. m) /\ HeadersOf(f, s) \in SUBSET (0 .. m)
  BY <1>1 DEF HeadersOf, PlainHeaders
<1>3. PICK a : a = SectionStart(f, s) /\ a \in HeadersOf(f, s)
  BY <1>2, LastLine DEF SectionStart
<1>4. a \in 1 .. m
  BY <1>2, <1>3
<1>5. PICK T : T = {i \in PlainHeaders(f) : i > a} \cup {m + 1}
  OBVIOUS
<1>6. T \in SUBSET Nat /\ T # {} /\ \A x \in T : x \in a + 1 .. m + 1
  BY <1>1, <1>4, <1>5 DEF PlainHeaders
<1>7. PICK e : e = SectionEnd(f, s) /\ e \in T /\ \A x \in T : e <= x
  <2>1. SectionEnd(f, s) = Min(T)
    BY <1>1, <1>3, <1>5 DEF SectionEnd
  <2> QED BY <1>6, <2>1, FirstLine
<1>8. e \in a + 1 .. m + 1 /\ e \in Nat
  BY <1>6, <1>7
<1>9. e <= m => e \in PlainHeaders(f)
  BY <1>1, <1>5, <1>7, <1>8
<1>10. ASSUME NEW j \in a + 1 .. e - 1 PROVE j \in 1 .. m /\ j \notin PlainHeaders(f)
  <2>1. j \in 1 .. m /\ j > a /\ ~(e <= j)
    BY <1>1, <1>4, <1>8
  <2> QED BY <1>5, <1>7, <2>1
<1> QED BY <1>1, <1>3, <1>4, <1>7, <1>8, <1>9, <1>10

LEMMA SectionFacts ==
  ASSUME NEW f \in File, Plain(f), NEW s \in Sections, HeadersOf(f, s) # {}
  PROVE  \E m \in Nat, a \in Nat, e \in Nat :
           /\ m = Len(f) /\ DOMAIN f = 1 .. m /\ a = SectionStart(f, s) /\ e = SectionEnd(f, s)
           /\ a \in HeadersOf(f, s) /\ a \in 1 .. m /\ e \in a + 1 .. m + 1
           /\ e <= m => IsHeader(f[e])
           /\ \A i \in a + 1 .. e : Heads(f, i, a) /\ SectionOf(f, i) = s
<1>1. PICK m \in Nat, a \in Nat, e \in Nat :
        /\ m = Len(f) /\ DOMAIN f = 1 .. m /\ a = SectionStart(f, s) /\ e = SectionEnd(f, s)
        /\ a \in HeadersOf(f, s) /\ a \in 1 .. m /\ e \in a + 1 .. m + 1
        /\ e <= m => e \in PlainHeaders(f)
        /\ \A j \in a + 1 .. e - 1 : j \in 1 .. m /\ j \notin PlainHeaders(f)
  BY SectionSpan
<1>2. IsHeader(f[a]) /\ f[a].name = s /\ (e <= m => IsHeader(f[e]))
  BY <1>1 DEF HeadersOf, PlainHeaders, IsHeader
<1>3. \A j \in a + 1 .. e - 1 : ~IsHeader(f[j])
  BY <1>1 DEF PlainHeaders, Plain, IsHeader
<1>4. ASSUME NEW i \in a + 1 .. e PROVE Heads(f, i, a) /\ SectionOf(f, i) = s
  <2>1. i \in Nat /\ i > 0 /\ a \in 0 .. i - 1 /\ a # 0
    BY <1>1
  <2>2. \A j \in a + 1 .. i - 1 : j \in a + 1 .. e - 1
    BY <1>1
  <2>3. Heads(f, i, a)
    BY <1>2, <1>3, <2>1, <2>2 DEF Heads
  <2>4. SectionOf(f, i) = Named(f, a)
    BY <2>1, <2>3, HeadNames
  <2> QED BY <1>2, <2>1, <2>3, <2>4, NameFacts DEF Named
<1> QED BY <1>1, <1>2, <1>4

\* The value of a key that is there is replaced, ...
LEMMA ReplaceFacts ==
  ASSUME NEW f \in File, Plain(f), NEW s \in Sections, NEW k \in Keys, NEW v \in Values,
         NEW i \in KeyLines(f, s, k), NEW g, g = [f EXCEPT ![i] = Pair(k, v)]
  PROVE  EditOf(f, g, s, {k}, i - 1, i, i) /\ g[i] = Pair(k, v) /\ i \in Nat /\ i > 0
<1>1. PICK m \in Nat : m = Len(f) /\ DOMAIN f = 1 .. m
  BY DEF File
<1>2. i \in 1 .. m /\ f[i].kind = "pair" /\ f[i].name = k /\ SectionOf(f, i) = s
  BY <1>1, KeyLineFacts
<1>3. Pair(k, v) \in Line /\ Pair(k, v).kind = "pair" /\ Pair(k, v).name = k /\ Trim[k] = k
  <2>1. Trim[k] = k
    BY NameFacts
  <2>2. Pair(k, v) \in Line /\ Pair(k, v).kind = "pair" /\ Pair(k, v).name = k
    BY PairFacts
  <2> QED BY <2>1, <2>2
<1>4. /\ g \in Seq(Line) /\ Len(g) = m /\ DOMAIN g = 1 .. m /\ g[i] = Pair(k, v)
      /\ \A j \in 1 .. m : j # i => g[j] = f[j]
  BY <1>1, <1>2, <1>3 DEF File
<1>5. PICK a \in Nat : a = i - 1 /\ a + 1 = i /\ a <= m /\ a < i
  <2>1. i - 1 \in Nat /\ (i - 1) + 1 = i /\ i - 1 <= m /\ i - 1 < i
    BY <1>2
  <2> QED BY <2>1
<1>6. Spliced(f, g, a, i, i)
  <2>1. a \in 0 .. m /\ i \in a .. m /\ m - i = m - i
    BY <1>2, <1>5
  <2>2. \A j \in 1 .. a : g[j] = f[j]
    <3>1. \A j \in 1 .. a : j \in 1 .. m /\ j # i
      BY <1>2, <1>5
    <3> QED BY <1>4, <3>1
  <2>3. ASSUME NEW j \in i + 1 .. m PROVE g[(j - i) + i] = f[j]
    <3>1. j \in 1 .. m /\ j # i /\ (j - i) + i = j
      BY <1>2
    <3> QED BY <1>4, <3>1
  <2> QED BY <1>1, <1>4, <2>1, <2>2, <2>3 DEF Spliced
<1>7. a + 1 .. i = {i}
  BY <1>2, <1>5
<1>8. Clean(f, g, a, i, i)
  <2>1. ~IsHeader(f[i]) /\ ~IsHeader(g[i])
    BY <1>2, <1>3, <1>4 DEF IsHeader
  <2> QED BY <1>7, <2>1 DEF Clean
<1>9. SectionOf(g, i) = s
  <2>1. PICK h : Heads(f, i, h) /\ h \in HeadersOf(f, s)
    BY KeyLineFacts
  <2>2. h \in 1 .. i - 1 /\ f[h].name = s
    BY <1>1, <2>1 DEF Heads, HeadersOf, PlainHeaders
  <2>3. \A j \in 1 .. i - 1 : g[j] = f[j]
    <3>1. \A j \in 1 .. i - 1 : j \in 1 .. m /\ j # i
      BY <1>2
    <3> QED BY <1>4, <3>1
  <2>4. \A j \in h + 1 .. i - 1 : j \in 1 .. i - 1
    BY <1>2, <2>2
  <2>5. h # 0 /\ h \in 0 .. i - 1 /\ i \in Nat /\ i > 0
    BY <1>2, <2>2
  <2>6. Heads(g, i, h)
    BY <2>1, <2>2, <2>3, <2>4, <2>5 DEF Heads
  <2>7. Named(g, h) = s
    BY <2>2, <2>3, <2>5, NameFacts DEF Named
  <2> QED BY <2>5, <2>6, <2>7, HeadNames
<1>10. Trim[f[i].name] = k /\ Trim[g[i].name] = k
  BY <1>2, <1>3, <1>4
<1>11. EditOf(f, g, s, {k}, a, i, i)
  BY <1>2, <1>4, <1>6, <1>7, <1>8, <1>9, <1>10 DEF EditOf, File
<1> QED BY <1>2, <1>4, <1>5, <1>11

\* ... a new one comes to the end of the section, ...
LEMMA InsertFacts ==
  ASSUME NEW f \in File, Plain(f), NEW s \in Sections, NEW k \in Keys, NEW v \in Values,
         HeadersOf(f, s) # {}, NEW e, e = SectionEnd(f, s), NEW g, g = InsertAt(f, e, Pair(k, v))
  PROVE  EditOf(f, g, s, {k}, e - 1, e - 1, e) /\ g[e] = Pair(k, v) /\ e \in Nat /\ e > 0
<1>1. PICK m \in Nat, a \in Nat :
        /\ m = Len(f) /\ DOMAIN f = 1 .. m /\ e \in Nat
        /\ a \in HeadersOf(f, s) /\ a \in 1 .. m /\ e \in a + 1 .. m + 1
        /\ e <= m => IsHeader(f[e])
        /\ \A i \in a + 1 .. e : Heads(f, i, a) /\ SectionOf(f, i) = s
  BY SectionFacts
<1>2. PICK z \in Nat : z = e - 1 /\ z + 1 = e /\ z <= m /\ a <= z
  <2>1. e - 1 \in Nat /\ (e - 1) + 1 = e /\ e - 1 <= m /\ a <= e - 1
    BY <1>1
  <2> QED BY <2>1
<1>3. Pair(k, v) \in Line /\ Pair(k, v).kind = "pair" /\ Pair(k, v).name = k /\ Trim[k] = k
  <2>1. Trim[k] = k
    BY NameFacts
  <2>2. Pair(k, v) \in Line /\ Pair(k, v).kind = "pair" /\ Pair(k, v).name = k
    BY PairFacts
  <2> QED BY <2>1, <2>2
<1>4. PICK mid \in File : mid = <<Pair(k, v)>> /\ Len(mid) = 1 /\ mid[1] = Pair(k, v)
  <2>1. /\ <<Pair(k, v)>> \in Seq(Line) /\ Len(<<Pair(k, v)>>) = 1
        /\ <<Pair(k, v)>>[1] = Pair(k, v)
    BY <1>3
  <2> QED BY <2>1 DEF File
<1>5. g = Edited(f, z, mid, z)
  BY <1>1, <1>2, <1>4 DEF InsertAt, Edited
<1>6. z <= z /\ z <= m /\ m = Len(f)
  BY <1>1, <1>2
<1>7. PICK l \in Nat : l = Len(mid) /\ e = z + l /\ l = 1
  BY <1>2, <1>4
<1>8. g \in File /\ Spliced(f, g, z, z, e) /\ g[e] = Pair(k, v)
  <2>1. /\ g \in File /\ Spliced(f, g, z, z, e)
        /\ \A j \in 1 .. l : g[z + j] = mid[j]
    <3>1. e \in Nat
      BY <1>1
    <3>2. EditFits(f, z, mid, z, e)
      BY <1>6, <1>7 DEF EditFits
    <3>3. /\ Edited(f, z, mid, z) \in File /\ Spliced(f, Edited(f, z, mid, z), z, z, e)
          /\ Holds(Edited(f, z, mid, z), z, mid)
      BY <3>1, <3>2, SpliceMade
    <3>4. g \in File /\ Spliced(f, g, z, z, e) /\ Holds(g, z, mid)
      BY <1>5, <3>3
    <3> QED BY <1>7, <3>4, Zenon DEF Holds
  <2>2. 1 \in 1 .. l /\ z + 1 = e
    BY <1>2, <1>7
  <2> QED BY <1>4, <2>1, <2>2
<1>9. z + 1 .. e = {e} /\ z + 1 .. z = {}
  BY <1>1, <1>2
<1>10. Clean(f, g, z, z, e)
  <2>1. ~IsHeader(g[e])
    BY <1>3, <1>8 DEF IsHeader
  <2> QED BY <1>9, <2>1 DEF Clean
<1>11. SectionOf(g, e) = s
  <2>1. \A j \in 1 .. z : g[j] = f[j]
    BY <1>8 DEF Spliced
  <2>2. Heads(f, e, a)
    <3>1. e \in a + 1 .. e
      BY <1>1
    <3> QED BY <1>1, <3>1
  <2>3. a \in 0 .. e - 1 /\ a # 0 /\ a \in 1 .. z /\ e > 0
    BY <1>1, <1>2
  <2>4. \A j \in a + 1 .. e - 1 : j \in 1 .. z
    BY <1>1, <1>2
  <2>5. Heads(g, e, a)
    BY <2>1, <2>2, <2>3, <2>4 DEF Heads
  <2>6. g[a].name = s
    BY <1>1, <2>1, <2>3 DEF HeadersOf
  <2>7. Named(g, a) = s
    BY <2>3, <2>6, NameFacts DEF Named
  <2> QED BY <1>1, <2>3, <2>5, <2>7, HeadNames
<1>12. Trim[g[e].name] = k
  BY <1>3, <1>8
<1>13. EditOf(f, g, s, {k}, z, z, e)
  BY <1>8, <1>9, <1>10, <1>11, <1>12 DEF EditOf
<1> QED BY <1>1, <1>2, <1>8, <1>13

\* ... or into a new section at the end of the file.
Added(f, g, s, pair, m, n) ==
  /\ m = Len(f) /\ n > 1 /\ n - 1 > m /\ g[n] = pair /\ g[n - 1] = Header(s, FALSE)
  /\ \A i \in m + 1 .. n : i = n \/ i = n - 1 \/ g[i] = Blank

LEMMA SectionAddedFacts ==
  ASSUME NEW f \in File, NEW s \in Sections, NEW k \in Keys, NEW v \in Values,
         NEW g, g = WithSection(f, s, Pair(k, v))
  PROVE  \E m, n \in Nat : EditOf(f, g, s, {k}, m, m, n) /\ Added(f, g, s, Pair(k, v), m, n)
<1>1. PICK m \in Nat : m = Len(f) /\ DOMAIN f = 1 .. m
  BY DEF File
<1>2. /\ Header(s, FALSE) \in Line /\ Pair(k, v) \in Line /\ Blank \in Line
      /\ IsHeader(Header(s, FALSE)) /\ Header(s, FALSE).name = s /\ ~IsHeader(Pair(k, v))
      /\ Pair(k, v).name = k /\ Trim[k] = k /\ Header(s, FALSE).kind # "pair"
      /\ Blank.kind # "pair"
  <2>1. Trim[k] = k
    BY NameFacts
  <2>2. Pair(k, v) \in Line /\ Pair(k, v).kind = "pair" /\ Pair(k, v).name = k
    BY PairFacts
  <2>3. s \in Texts /\ Empty \in Texts
    BY ProfileAssumption
  <2>4. Header(s, FALSE) \in Line /\ Blank \in Line
    BY <2>3 DEF Header, Blank, Line
  <2>5. Header(s, FALSE).kind = "header" /\ Header(s, FALSE).name = s /\ Blank.kind = "blank"
    BY DEF Header, Blank
  <2> QED BY <2>1, <2>2, <2>4, <2>5 DEF IsHeader
<1>3. PICK gap \in File : /\ gap = (IF f # <<>> /\ Last(f) # Blank THEN <<Blank>> ELSE <<>>)
                          /\ Len(gap) \in Nat /\ \A i \in 1 .. Len(gap) : gap[i] = Blank
  <2>1. CASE f # <<>> /\ Last(f) # Blank
    <3>1. <<Blank>> \in Seq(Line) /\ Len(<<Blank>>) = 1 /\ \A i \in 1 .. 1 : <<Blank>>[i] = Blank
      BY <1>2
    <3> QED BY <2>1, <3>1 DEF File
  <2>2. CASE ~(f # <<>> /\ Last(f) # Blank)
    <3>1. <<>> \in Seq(Line) /\ Len(<<>>) = 0 /\ 1 .. 0 = {}
      OBVIOUS
    <3> QED BY <2>2, <3>1 DEF File
  <2> QED BY <2>1, <2>2
<1>4. PICK l \in Nat : l = Len(gap)
  BY <1>3
<1>5. PICK two \in File : /\ two = <<Header(s, FALSE), Pair(k, v)>> /\ Len(two) = 2
                          /\ two[1] = Header(s, FALSE) /\ two[2] = Pair(k, v)
  <2>1. PICK x \in Line, y \in Line : x = Header(s, FALSE) /\ y = Pair(k, v)
    BY <1>2
  <2>2. <<x, y>> \in Seq(Line) /\ Len(<<x, y>>) = 2 /\ <<x, y>>[1] = x /\ <<x, y>>[2] = y
    OBVIOUS
  <2> QED BY <2>1, <2>2 DEF File
<1>6. PICK u \in File : /\ u = f \o gap /\ Len(u) = m + l
                        /\ \A x \in 1 .. m : u[x] = f[x]
                        /\ \A x \in 1 .. l : u[m + x] = gap[x]
  <2>1. f \in Seq(Line) /\ gap \in Seq(Line) /\ m = Len(f) /\ l = Len(gap)
    BY <1>1, <1>4 DEF File
  <2>2. /\ f \o gap \in Seq(Line) /\ Len(f \o gap) = m + l
        /\ \A x \in 1 .. m : (f \o gap)[x] = f[x]
        /\ \A x \in 1 .. l : (f \o gap)[m + x] = gap[x]
    <3>1. f \o gap \in Seq(Line) /\ Joined(f \o gap, f, gap, Len(f), Len(gap))
      BY <2>1, JoinFacts, Zenon
    <3>2. Joined(f \o gap, f, gap, m, l)
      BY <2>1, <3>1, Zenon
    <3> QED BY <3>1, <3>2, Zenon DEF Joined
  <2> QED BY <2>2 DEF File
<1>7. PICK d \in Nat : d = m + l
  OBVIOUS
<1>8. /\ u \o two \in Seq(Line) /\ Len(u \o two) = d + 2
      /\ \A x \in 1 .. d : (u \o two)[x] = u[x]
      /\ \A x \in 1 .. 2 : (u \o two)[d + x] = two[x]
  <2>1. PICK t \in Nat : t = 2
    OBVIOUS
  <2>2. u \in Seq(Line) /\ two \in Seq(Line) /\ d = Len(u) /\ t = Len(two)
    BY <1>5, <1>6, <1>7, <2>1 DEF File
  <2>3. /\ u \o two \in Seq(Line) /\ Len(u \o two) = d + t
        /\ \A x \in 1 .. d : (u \o two)[x] = u[x]
        /\ \A x \in 1 .. t : (u \o two)[d + x] = two[x]
    <3>1. u \o two \in Seq(Line) /\ Joined(u \o two, u, two, Len(u), Len(two))
      BY <2>2, JoinFacts, Zenon
    <3>2. Joined(u \o two, u, two, d, t)
      BY <2>2, <3>1, Zenon
    <3> QED BY <3>1, <3>2, Zenon DEF Joined
  <2> QED BY <2>1, <2>3
<1>9. g = u \o two
  BY <1>3, <1>5, <1>6 DEF WithSection
<1>10. PICK n \in Nat : n = d + 2 /\ n = Len(g) /\ n - 1 = d + 1
  BY <1>7, <1>8, <1>9
<1>11. g \in File /\ g[n] = Pair(k, v) /\ g[n - 1] = Header(s, FALSE)
  <2>1. 1 \in 1 .. 2 /\ 2 \in 1 .. 2
    OBVIOUS
  <2> QED BY <1>5, <1>8, <1>9, <1>10, <2>1 DEF File
<1>12. \A x \in 1 .. m : g[x] = f[x]
  <2>1. \A x \in 1 .. m : x \in 1 .. d
    BY <1>7
  <2> QED BY <1>6, <1>8, <1>9, <2>1
<1>13. ASSUME NEW i \in m + 1 .. n PROVE i = n \/ i = n - 1 \/ g[i] = Blank
  <2>1. CASE i <= d
    <3>1. PICK x \in Nat : x = i - m /\ x \in 1 .. l /\ m + x = i /\ i \in 1 .. d
      <4>1. i - m \in Nat /\ i - m \in 1 .. l /\ m + (i - m) = i /\ i \in 1 .. d
        BY <1>7, <2>1
      <4> QED BY <4>1
    <3>2. g[i] = u[i] /\ u[i] = gap[x]
      BY <1>6, <1>8, <1>9, <3>1
    <3>3. gap[x] = Blank
      BY <1>3, <1>4, <3>1
    <3> QED BY <3>2, <3>3
  <2>2. CASE ~(i <= d)
    BY <1>7, <1>10, <2>2
  <2> QED BY <2>1, <2>2
<1>14. Spliced(f, g, m, m, n)
  <2>1. m \in 0 .. m /\ m \in m .. m /\ n \in m .. n /\ m - m = n - n /\ m + 1 .. m = {}
    BY <1>7, <1>10
  <2> QED BY <1>1, <1>10, <1>12, <2>1 DEF Spliced
<1>15. Clean(f, g, m, m, n)
  BY <1>1 DEF Clean
<1>16. ASSUME NEW i \in m + 1 .. n, g[i].kind = "pair"
       PROVE  SectionOf(g, i) = s /\ Trim[g[i].name] \in {k}
  <2>1. i = n
    BY <1>2, <1>11, <1>13, <1>16
  <2>2. Trim[g[i].name] = k
    BY <1>2, <1>11, <2>1
  <2>3. n > 0 /\ n - 1 \in 0 .. n - 1 /\ n - 1 # 0 /\ (n - 1) + 1 .. n - 1 = {}
    BY <1>7, <1>10
  <2>4. Heads(g, n, n - 1)
    BY <1>2, <1>11, <2>3 DEF Heads
  <2>5. SectionOf(g, n) = Named(g, n - 1)
    BY <2>3, <2>4, HeadNames
  <2>6. Named(g, n - 1) = s
    BY <1>2, <1>11, <2>3, NameFacts DEF Named
  <2> QED BY <2>1, <2>2, <2>5, <2>6
<1>17. m + 1 .. m = {}
  BY <1>1
<1>18. EditOf(f, g, s, {k}, m, m, n)
  BY <1>11, <1>14, <1>15, <1>16, <1>17 DEF EditOf
<1>19. n > 1 /\ n - 1 > m
  BY <1>7, <1>10
<1>20. Added(f, g, s, Pair(k, v), m, n)
  BY <1>1, <1>11, <1>13, <1>19 DEF Added
<1> QED BY <1>18, <1>20

\* A key that is deleted takes its line with it, ...
LEMMA RemoveFacts ==
  ASSUME NEW f \in File, Plain(f), NEW s \in Sections, NEW k \in Keys,
         NEW i \in KeyLines(f, s, k), NEW g, g = RemoveAt(f, i)
  PROVE  EditOf(f, g, s, {k}, i - 1, i, i - 1) /\ i \in Nat /\ i > 0
<1>1. PICK m \in Nat : m = Len(f) /\ DOMAIN f = 1 .. m
  BY DEF File
<1>2. i \in 1 .. m /\ f[i].kind = "pair" /\ f[i].name = k /\ SectionOf(f, i) = s
  BY <1>1, KeyLineFacts
<1>3. PICK z \in Nat : z = i - 1 /\ z <= i /\ z + 1 = i
  <2>1. i - 1 \in Nat /\ i - 1 <= i /\ (i - 1) + 1 = i
    BY <1>2
  <2> QED BY <2>1
<1>4. PICK mid \in File : mid = <<>> /\ Len(mid) = 0
  <2>1. <<>> \in Seq(Line) /\ Len(<<>>) = 0
    OBVIOUS
  <2> QED BY <2>1 DEF File
<1>5. g = Edited(f, z, mid, i)
  <2>1. \A q \in Seq(Line) : q \o <<>> = q
    BY ConcatEmptySeq
  <2>2. SubSeq(f, 1, z) \in Seq(Line)
    <3>1. \A x \in 1 .. z : f[x] \in Line
      BY <1>1, <1>2, <1>3 DEF File
    <3> QED BY <1>3, <3>1, SubSeqProperties
  <2> QED BY <1>1, <1>3, <1>4, <2>1, <2>2 DEF RemoveAt, Edited
<1>6. g \in File /\ Spliced(f, g, z, i, z)
  <2>1. i \in Nat /\ EditFits(f, z, mid, i, z)
    BY <1>1, <1>2, <1>3, <1>4 DEF EditFits
  <2>2. /\ Edited(f, z, mid, i) \in File /\ Spliced(f, Edited(f, z, mid, i), z, i, z)
    BY <2>1, SpliceMade
  <2> QED BY <1>5, <2>2
<1>7. z + 1 .. i = {i} /\ z + 1 .. z = {}
  BY <1>2, <1>3
<1>8. Clean(f, g, z, i, z)
  BY <1>2, <1>7 DEF Clean, IsHeader
<1>9. Trim[f[i].name] = k
  BY <1>2, NameFacts
<1>10. EditOf(f, g, s, {k}, z, i, z)
  BY <1>2, <1>6, <1>7, <1>8, <1>9 DEF EditOf
<1> QED BY <1>2, <1>3, <1>10

\* ... and a section that is deleted all of its lines.
LEMMA DropFacts ==
  ASSUME NEW f \in File, Plain(f), NEW s \in Sections, HeadersOf(f, s) # {},
         NEW g, g = WithoutSection(f, s)
  PROVE  \E m \in Nat, a \in Nat, z \in Nat, e \in Nat :
           /\ m = Len(f) /\ DOMAIN f = 1 .. m /\ a \in HeadersOf(f, s)
           /\ z + 1 = a /\ a <= e /\ e <= m /\ (e < m => IsHeader(f[e + 1]))
           /\ EditOf(f, g, s, Texts, z, e, z)
<1>1. PICK m \in Nat, a \in Nat, y \in Nat :
        /\ m = Len(f) /\ DOMAIN f = 1 .. m /\ a = SectionStart(f, s) /\ y = SectionEnd(f, s)
        /\ a \in HeadersOf(f, s) /\ a \in 1 .. m /\ y \in a + 1 .. m + 1
        /\ y <= m => IsHeader(f[y])
        /\ \A i \in a + 1 .. y : Heads(f, i, a) /\ SectionOf(f, i) = s
  BY SectionFacts
<1>0. a \in 1 .. m /\ y \in a + 1 .. m + 1
  BY <1>1
<1>2. PICK z \in Nat, e \in Nat : /\ z = a - 1 /\ z + 1 = a /\ e = y - 1 /\ e + 1 = y
                                  /\ z <= e /\ a <= e /\ e <= m
  <2>1. a - 1 \in Nat /\ (a - 1) + 1 = a
    BY <1>1
  <2>2. y - 1 \in Nat /\ (y - 1) + 1 = y /\ a <= y - 1 /\ y - 1 <= m /\ a - 1 <= y - 1
    BY <1>1
  <2> QED BY <2>1, <2>2
<1>3. PICK mid \in File : mid = <<>> /\ Len(mid) = 0
  <2>1. <<>> \in Seq(Line) /\ Len(<<>>) = 0
    OBVIOUS
  <2> QED BY <2>1 DEF File
<1>4. g = Edited(f, z, mid, e)
  <2>1. \A q \in Seq(Line) : q \o <<>> = q
    BY ConcatEmptySeq
  <2>2. SubSeq(f, 1, z) \in Seq(Line)
    <3>1. \A x \in 1 .. z : f[x] \in Line
      <4>1. \A x \in 1 .. z : x \in DOMAIN f
        BY <1>1, <1>2
      <4> QED BY <4>1 DEF File
    <3> QED BY <1>2, <3>1, SubSeqProperties
  <2>3. g = SubSeq(f, 1, a - 1) \o SubSeq(f, y, m)
    BY <1>1 DEF WithoutSection
  <2> QED BY <1>1, <1>2, <1>3, <2>1, <2>2, <2>3 DEF Edited
<1>5. g \in File /\ Spliced(f, g, z, e, z)
  <2>1. EditFits(f, z, mid, e, z)
    BY <1>1, <1>2, <1>3 DEF EditFits
  <2>2. /\ Edited(f, z, mid, e) \in File /\ Spliced(f, Edited(f, z, mid, e), z, e, z)
    BY <2>1, SpliceMade
  <2> QED BY <1>4, <2>2
<1>6. Clean(f, g, z, e, z)
  <2>1. e = m \/ (e < m /\ IsHeader(f[e + 1]))
    BY <1>1, <1>2
  <2> QED BY <1>1, <2>1 DEF Clean
<1>7. ASSUME NEW i \in z + 1 .. e, f[i].kind = "pair"
      PROVE  SectionOf(f, i) = s /\ Trim[f[i].name] \in Texts
  <2>1. i \in 1 .. m /\ i # a
    <3>1. f[a].kind = "header"
      BY <1>1 DEF HeadersOf, PlainHeaders
    <3>2. i # a
      BY <1>7, <3>1
    <3> QED BY <1>0, <1>2, <3>2
  <2>2. i \in a + 1 .. y
    BY <1>0, <1>2, <2>1
  <2>3. f[i] \in Line
    BY <1>1, <2>1 DEF File
  <2>4. Trim[f[i].name] \in Texts
    BY <2>3, ProfileAssumption DEF Line
  <2> QED BY <1>1, <2>2, <2>4
<1>8. z + 1 .. z = {}
  BY <1>2
<1>9. EditOf(f, g, s, Texts, z, e, z)
  BY <1>5, <1>6, <1>7, <1>8 DEF EditOf
<1>10. e < m => IsHeader(f[e + 1])
  BY <1>1, <1>2
<1> QED BY <1>1, <1>2, <1>9, <1>10

-----------------------------------------------------------------------------
(* The calls. *)

LEMMA LastKeyLine ==
  ASSUME NEW f \in File, NEW s, NEW k, KeyLines(f, s, k) # {}
  PROVE  Max(KeyLines(f, s, k)) \in KeyLines(f, s, k)
<1>1. PICK m \in Nat : DOMAIN f = 1 .. m
  BY DEF File
<1>2. KeyLines(f, s, k) \in SUBSET (0 .. m)
  BY <1>1 DEF KeyLines
<1> QED BY <1>2, LastLine

\* Whatever the file is like, a call makes a file of it.
LEMMA EditedTyped ==
  ASSUME NEW f \in File, NEW mid \in File, NEW a \in Nat, NEW b \in Nat, a <= b, b <= Len(f)
  PROVE  Edited(f, a, mid, b) \in File
<1>1. PICK d \in Nat : d = a + Len(mid)
  <2>1. Len(mid) \in Nat
    BY DEF File
  <2> QED BY <2>1
<1>2. EditFits(f, a, mid, b, d)
  BY <1>1 DEF EditFits
<1> QED BY <1>2, SpliceMade

\* Nothing put in.
LEMMA CutTyped ==
  ASSUME NEW f \in File, NEW a \in Nat, NEW b \in Nat, a <= b, b <= Len(f)
  PROVE  /\ SubSeq(f, 1, a) \o SubSeq(f, b + 1, Len(f)) = Edited(f, a, <<>>, b)
         /\ SubSeq(f, 1, a) \o SubSeq(f, b + 1, Len(f)) \in File
<1>1. PICK m \in Nat : m = Len(f) /\ \A x \in 1 .. m : f[x] \in Line
  BY DEF File
<1>2. \A q \in Seq(Line) : q \o <<>> = q
  BY ConcatEmptySeq
<1>3. SubSeq(f, 1, a) \in Seq(Line)
  <2>1. \A x \in 1 .. a : f[x] \in Line
    BY <1>1
  <2> QED BY <2>1, SubSeqProperties
<1>4. SubSeq(f, 1, a) \o SubSeq(f, b + 1, Len(f)) = Edited(f, a, <<>>, b)
  BY <1>2, <1>3 DEF Edited
<1>5. <<>> \in File
  BY DEF File
<1> QED BY <1>4, <1>5, EditedTyped

LEMMA SetTyped ==
  ASSUME NEW f \in File, NEW s \in Sections, NEW k \in Keys, NEW v \in Values
  PROVE  WithPair(f, s, k, v) \in File
<1>1. Pair(k, v) \in Line
  BY PairFacts
<1>2. CASE KeyLines(f, s, k) # {}
  <2>1. PICK i : i = Max(KeyLines(f, s, k)) /\ i \in KeyLines(f, s, k)
    BY <1>2, LastKeyLine
  <2>2. i \in DOMAIN f
    BY <2>1 DEF KeyLines
  <2>3. [f EXCEPT ![i] = Pair(k, v)] \in Seq(Line)
    BY <1>1, <2>2 DEF File
  <2> QED BY <1>2, <2>1, <2>3 DEF WithPair, File
<1>3. CASE KeyLines(f, s, k) = {} /\ HeadersOf(f, s) # {}
  <2>1. PICK m \in Nat, a \in Nat, e \in Nat :
          m = Len(f) /\ e = SectionEnd(f, s) /\ a \in 1 .. m /\ e \in a + 1 .. m + 1
    BY <1>3, SectionSpan
  <2>2. PICK z \in Nat : z = e - 1 /\ z + 1 = e /\ z <= m /\ z <= z
    <3>1. e - 1 \in Nat /\ (e - 1) + 1 = e /\ e - 1 <= m /\ e - 1 <= e - 1
      BY <2>1
    <3> QED BY <3>1
  <2>3. WithPair(f, s, k, v) = Edited(f, z, <<Pair(k, v)>>, z)
    BY <1>3, <2>1, <2>2 DEF WithPair, InsertAt, Edited
  <2>4. <<Pair(k, v)>> \in File
    BY <1>1 DEF File
  <2> QED BY <2>1, <2>2, <2>3, <2>4, EditedTyped
<1>4. CASE KeyLines(f, s, k) = {} /\ HeadersOf(f, s) = {}
  <2>1. PICK g : g = WithSection(f, s, Pair(k, v))
    OBVIOUS
  <2>2. \E m, n \in Nat : EditOf(f, g, s, {k}, m, m, n)
    BY <2>1, SectionAddedFacts
  <2>3. g \in File
    BY <2>2 DEF EditOf
  <2> QED BY <1>4, <2>1, <2>3 DEF WithPair
<1> QED BY <1>2, <1>3, <1>4

LEMMA DeleteTyped ==
  ASSUME NEW f \in File, NEW s \in Sections, NEW k \in Keys
  PROVE  WithoutKey(f, s, k) \in File
<1>1. CASE KeyLines(f, s, k) # {}
  <2>1. PICK i : i = Max(KeyLines(f, s, k)) /\ i \in KeyLines(f, s, k)
    BY <1>1, LastKeyLine
  <2>2. PICK m \in Nat : m = Len(f) /\ i \in 1 .. m
    <3>1. i \in DOMAIN f
      BY <2>1 DEF KeyLines
    <3> QED BY <3>1 DEF File
  <2>3. PICK z \in Nat : z = i - 1 /\ z <= i /\ i \in Nat /\ i <= m
    <3>1. i - 1 \in Nat /\ i - 1 <= i /\ i \in Nat /\ i <= m
      BY <2>2
    <3> QED BY <3>1
  <2>4. SubSeq(f, 1, z) \o SubSeq(f, i + 1, Len(f)) \in File
    BY <2>2, <2>3, CutTyped
  <2> QED BY <1>1, <2>1, <2>3, <2>4 DEF WithoutKey, RemoveAt
<1>2. CASE KeyLines(f, s, k) = {}
  BY <1>2 DEF WithoutKey
<1> QED BY <1>1, <1>2

LEMMA DropTyped ==
  ASSUME NEW f \in File, NEW s \in Sections
  PROVE  WithoutSection(f, s) \in File
<1>1. CASE HeadersOf(f, s) # {}
  <2>1. PICK m \in Nat, a \in Nat, e \in Nat :
          /\ m = Len(f) /\ a = SectionStart(f, s) /\ e = SectionEnd(f, s)
          /\ a \in 1 .. m /\ e \in a + 1 .. m + 1
    BY <1>1, SectionSpan
  <2>2. PICK y \in Nat, z \in Nat : y = a - 1 /\ z = e - 1 /\ z + 1 = e /\ y <= z /\ z <= m
    <3>1. a - 1 \in Nat /\ e - 1 \in Nat /\ (e - 1) + 1 = e /\ a - 1 <= e - 1 /\ e - 1 <= m
      BY <2>1
    <3> QED BY <3>1
  <2>3. SubSeq(f, 1, y) \o SubSeq(f, z + 1, Len(f)) \in File
    BY <2>1, <2>2, CutTyped
  <2> QED BY <1>1, <2>1, <2>2, <2>3 DEF WithoutSection
<1>2. CASE HeadersOf(f, s) = {}
  BY <1>2 DEF WithoutSection
<1> QED BY <1>1, <1>2

\* A call changes lines of one section, and where it is about a key, of that key.
Changes(f, g, s, K) == \E a, b, c \in Nat : EditOf(f, g, s, K, a, b, c)

LEMMA SetChanges ==
  ASSUME NEW f \in File, Plain(f), NEW s \in Sections, NEW k \in Keys, NEW v \in Values
  PROVE  Changes(f, WithPair(f, s, k, v), s, {k})
<1>1. PICK g : g = WithPair(f, s, k, v)
  OBVIOUS
<1>2. CASE KeyLines(f, s, k) # {}
  <2>1. PICK i : i = Max(KeyLines(f, s, k)) /\ i \in KeyLines(f, s, k)
    BY <1>2, LastKeyLine
  <2>2. g = [f EXCEPT ![i] = Pair(k, v)]
    BY <1>1, <1>2, <2>1 DEF WithPair
  <2>3. EditOf(f, g, s, {k}, i - 1, i, i) /\ i \in Nat /\ i > 0
    BY <2>1, <2>2, ReplaceFacts
  <2>4. i - 1 \in Nat
    BY <2>3
  <2> QED BY <1>1, <2>3, <2>4 DEF Changes
<1>3. CASE KeyLines(f, s, k) = {} /\ HeadersOf(f, s) # {}
  <2>1. PICK e : e = SectionEnd(f, s)
    OBVIOUS
  <2>2. g = InsertAt(f, e, Pair(k, v))
    BY <1>1, <1>3, <2>1 DEF WithPair
  <2>3. EditOf(f, g, s, {k}, e - 1, e - 1, e) /\ e \in Nat /\ e > 0
    BY <1>3, <2>1, <2>2, InsertFacts
  <2>4. e - 1 \in Nat
    BY <2>3
  <2> QED BY <1>1, <2>3, <2>4 DEF Changes
<1>4. CASE KeyLines(f, s, k) = {} /\ HeadersOf(f, s) = {}
  <2>1. g = WithSection(f, s, Pair(k, v))
    BY <1>1, <1>4 DEF WithPair
  <2>2. PICK m \in Nat, n \in Nat : EditOf(f, g, s, {k}, m, m, n)
    BY <2>1, SectionAddedFacts
  <2> QED BY <1>1, <2>2 DEF Changes
<1> QED BY <1>2, <1>3, <1>4

LEMMA DeleteChanges ==
  ASSUME NEW f \in File, Plain(f), NEW s \in Sections, NEW k \in Keys, KeyLines(f, s, k) # {}
  PROVE  Changes(f, WithoutKey(f, s, k), s, {k})
<1>1. PICK i : i = Max(KeyLines(f, s, k)) /\ i \in KeyLines(f, s, k)
  BY LastKeyLine
<1>2. PICK g : g = WithoutKey(f, s, k)
  OBVIOUS
<1>3. g = RemoveAt(f, i)
  BY <1>1, <1>2 DEF WithoutKey
<1>4. EditOf(f, g, s, {k}, i - 1, i, i - 1) /\ i \in Nat /\ i > 0
  BY <1>1, <1>3, RemoveFacts
<1>5. i - 1 \in Nat
  BY <1>4
<1> QED BY <1>2, <1>4, <1>5 DEF Changes

LEMMA DropChanges ==
  ASSUME NEW f \in File, Plain(f), NEW s \in Sections, HeadersOf(f, s) # {}
  PROVE  Changes(f, WithoutSection(f, s), s, Texts)
<1>1. PICK g : g = WithoutSection(f, s)
  OBVIOUS
<1>2. PICK z \in Nat, e \in Nat : EditOf(f, g, s, Texts, z, e, z)
  BY <1>1, DropFacts
<1> QED BY <1>1, <1>2 DEF Changes

\* What Get answers about the other sections is what it answered before.
LEMMA OthersKept ==
  ASSUME NEW f \in File, NEW g, NEW s, NEW K, Changes(f, g, s, K)
  PROVE  \A t, k : t # s \/ k \notin K => Lookup(g, t, k) = Lookup(f, t, k)
<1>1. PICK a \in Nat, b \in Nat, c \in Nat : EditOf(f, g, s, K, a, b, c)
  BY DEF Changes
<1> QED BY <1>1, EditLookup

-----------------------------------------------------------------------------
(* One section at most. *)

Typed == lines \in File

LEMMA TypedInit == Init => Typed
<1>1. <<>> \in Seq(Line)
  OBVIOUS
<1> QED BY <1>1, ProfileAssumption DEF Init, Typed, File

\* What a step does to the file.
LEMMA StepEdits ==
  ASSUME [Next]_vars, lines' # lines
  PROVE  \E s \in Sections :
           \/ lines' = WithoutSection(lines, s)
           \/ \E k \in Keys : \/ lines' = WithoutKey(lines, s, k)
                              \/ \E v \in Values : lines' = WithPair(lines, s, k, v)
<1>1. ~SetRefused /\ ~Restart /\ lines' # lines /\ ~(UNCHANGED vars)
  BY DEF SetRefused, Restart, vars
<1>2. ~ \E s \in Sections \cup {Empty}, k \in Keys, def \in Defaults : Get(s, k, def)
  BY DEF Get
<1>3. PICK s \in Sections : \/ DeleteSection(s)
                            \/ \E k \in Keys : \/ DeleteKey(s, k)
                                               \/ \E v \in Values : SetKey(s, k, v)
  BY <1>1, <1>2 DEF Next
<1>4. \A new : Write(new) => lines' = new
  BY DEF Write
<1>5. CASE DeleteSection(s)
  BY <1>4, <1>5 DEF DeleteSection
<1>6. CASE \E k \in Keys : DeleteKey(s, k)
  BY <1>4, <1>6 DEF DeleteKey
<1>7. CASE \E k \in Keys, v \in Values : SetKey(s, k, v)
  BY <1>4, <1>7 DEF SetKey
<1> QED BY <1>3, <1>5, <1>6, <1>7

LEMMA TypedNext == Typed /\ [Next]_vars => Typed'
<1> SUFFICES ASSUME Typed, [Next]_vars PROVE lines' \in File
  BY DEF Typed
<1>1. CASE lines' = lines
  BY <1>1 DEF Typed
<1>2. CASE lines' # lines
  <2>1. PICK f \in File : f = lines
    BY DEF Typed
  <2> QED BY <1>2, <2>1, StepEdits, SetTyped, DeleteTyped, DropTyped
<1> QED BY <1>1, <1>2

\* A step that writes another file changes one section of it.
LEMMA StepChanges ==
  ASSUME NEW f \in File, Plain(f), NEW g, g # f, NEW s \in Sections,
         \/ g = WithoutSection(f, s)
         \/ \E k \in Keys : \/ g = WithoutKey(f, s, k)
                            \/ \E v \in Values : g = WithPair(f, s, k, v)
  PROVE  \A t, k : t # s => Lookup(g, t, k) = Lookup(f, t, k)
<1>1. CASE g = WithoutSection(f, s)
  <2>1. HeadersOf(f, s) # {}
    BY <1>1 DEF WithoutSection
  <2>2. Changes(f, g, s, Texts)
    BY <1>1, <2>1, DropChanges
  <2> QED BY <2>2, OthersKept
<1>2. ASSUME NEW k \in Keys, g = WithoutKey(f, s, k)
      PROVE  \A t, x : t # s => Lookup(g, t, x) = Lookup(f, t, x)
  <2>1. KeyLines(f, s, k) # {}
    BY <1>2 DEF WithoutKey
  <2>2. Changes(f, g, s, {k})
    BY <1>2, <2>1, DeleteChanges
  <2> QED BY <2>2, OthersKept
<1>3. ASSUME NEW k \in Keys, NEW v \in Values, g = WithPair(f, s, k, v)
      PROVE  \A t, x : t # s => Lookup(g, t, x) = Lookup(f, t, x)
  <2>1. Changes(f, g, s, {k})
    BY <1>3, SetChanges
  <2> QED BY <2>1, OthersKept
<1> QED BY <1>1, <1>2, <1>3

\* With Get's reading, a call changes settings of one section at most, though
\* Set works on line numbers.
THEOREM CallsChangeOneSection == Spec => OneSectionChanges
<1>1. Typed /\ [Next]_vars =>
        [(lines' # lines /\ \A i \in DOMAIN lines : ~lines[i].indented) =>
           Cardinality({s \in Sections \cup {Empty} :
                          Settings(lines, s)' # Settings(lines, s)}) <= 1]_vars
  <2> SUFFICES ASSUME Typed, [Next]_vars, lines' # lines,
                      \A i \in DOMAIN lines : ~lines[i].indented
               PROVE  Cardinality({s \in Sections \cup {Empty} :
                                     Settings(lines, s)' # Settings(lines, s)}) <= 1
    OBVIOUS
  <2>1. PICK s \in Sections : 
           \/ lines' = WithoutSection(lines, s)
           \/ \E k \in Keys : \/ lines' = WithoutKey(lines, s, k)
                              \/ \E v \in Values : lines' = WithPair(lines, s, k, v)
    BY StepEdits
  <2>2. PICK f \in File : f = lines
    BY DEF Typed
  <2>3. PICK g : g = lines'
    OBVIOUS
  <2>4. Plain(f) /\ g # f
    BY <2>2, <2>3 DEF Plain
  <2>5. \A t, k : t # s => Lookup(g, t, k) = Lookup(f, t, k)
    <3>1. \/ g = WithoutSection(f, s)
          \/ \E k \in Keys : \/ g = WithoutKey(f, s, k)
                             \/ \E v \in Values : g = WithPair(f, s, k, v)
      BY <2>1, <2>2, <2>3
    <3> QED BY <2>4, <3>1, StepChanges
  <2>6. \A t : Settings(lines, t) = [k \in Keys |-> Lookup(f, t, k)]
    BY <2>2 DEF Settings
  <2>7. \A t : Settings(lines, t)' = [k \in Keys |-> Lookup(g, t, k)]
    BY <2>3 DEF Settings
  <2>8. PICK D : D = {t \in Sections \cup {Empty} : Settings(lines, t)' # Settings(lines, t)}
    OBVIOUS
  <2>9. D \subseteq {s}
    BY <2>5, <2>6, <2>7, <2>8
  <2>10. IsFiniteSet({s}) /\ Cardinality({s}) = 1
    BY FS_Singleton
  <2>11. IsFiniteSet(D) /\ Cardinality(D) <= 1
    BY <2>9, <2>10, FS_Subset
  <2> QED BY <2>8, <2>11
<1> QED BY <1>1, TypedInit, TypedNext, PTL DEF Spec, OneSectionChanges

-----------------------------------------------------------------------------
(* Tidy files. *)

LEMMA TidyLines ==
  ASSUME NEW f \in File, Tidy(f)
  PROVE  /\ Plain(f) /\ \A i \in DOMAIN f : Trim[f[i].name] = f[i].name
         /\ \A i, j \in DOMAIN f :
              IsHeader(f[i]) /\ IsHeader(f[j]) /\ f[i].name = f[j].name => i = j
         /\ \A i, j \in DOMAIN f :
              /\ f[i].kind = "pair" /\ f[j].kind = "pair"
              /\ f[i].name = f[j].name /\ SectionOf(f, i) = SectionOf(f, j)
              => i = j
<1>1. Plain(f) /\ \A i \in DOMAIN f : Trim[f[i].name] = f[i].name
  BY DEF Tidy, Plain
<1>2. \A i \in DOMAIN f : IsHeader(f[i]) => i \in PlainHeaders(f)
  BY <1>1 DEF PlainHeaders, Plain, IsHeader
<1>3. \A i, j \in PlainHeaders(f) : f[i].name = f[j].name => i = j
  BY DEF Tidy
<1>4. \A i, j \in DOMAIN f :
        /\ f[i].kind = "pair" /\ f[j].kind = "pair"
        /\ f[i].name = f[j].name /\ SectionOf(f, i) = SectionOf(f, j)
        => i = j
  BY DEF Tidy
<1>5. ASSUME NEW i \in DOMAIN f, NEW j \in DOMAIN f, IsHeader(f[i]), IsHeader(f[j]),
             f[i].name = f[j].name
      PROVE  i = j
  BY <1>2, <1>3, <1>5
<1> QED BY <1>1, <1>4, <1>5, Zenon

\* The line of a named section is below a header of the name, ...
LEMMA TidyHead ==
  ASSUME NEW f \in File, Tidy(f), NEW s \in Sections, NEW i \in DOMAIN f, SectionOf(f, i) = s
  PROVE  \E h \in HeadersOf(f, s) : h \in Nat /\ h > 0 /\ Heads(f, i, h)
<1>1. PICK m \in Nat : DOMAIN f = 1 .. m
  BY DEF File
<1>2. i \in Nat /\ i > 0 /\ i <= m
  BY <1>1
<1>3. PICK h \in 0 .. i - 1 : Heads(f, i, h)
  BY <1>2, HeadExists
<1>4. Named(f, h) = s
  BY <1>2, <1>3, HeadNames
<1>5. h # 0 /\ Trim[f[h].name] = s
  BY <1>4, NameFacts DEF Named
<1>6. h \in DOMAIN f /\ IsHeader(f[h]) /\ h \in Nat /\ h > 0
  BY <1>1, <1>2, <1>3, <1>5 DEF Heads
<1>7. f[h].name = s /\ ~f[h].indented
  BY <1>5, <1>6, TidyLines DEF Plain
<1> QED BY <1>3, <1>6, <1>7 DEF HeadersOf, PlainHeaders, IsHeader

\* ... so that both handlers find the same lines, ...
LEMMA TidyKeyLines ==
  ASSUME NEW f \in File, Tidy(f), NEW s \in Sections, NEW k \in Keys
  PROVE  KeyLines(f, s, k) = Fits(f, s, k)
<1>1. ASSUME NEW i \in KeyLines(f, s, k) PROVE i \in Fits(f, s, k)
  <2>1. i \in DOMAIN f /\ f[i].kind = "pair" /\ f[i].name = k /\ SectionOf(f, i) = s
    BY TidyLines, KeyLineFacts
  <2>2. Trim[k] = k
    BY NameFacts
  <2> QED BY <2>1, <2>2 DEF Fits
<1>2. ASSUME NEW i \in Fits(f, s, k) PROVE i \in KeyLines(f, s, k)
  <2>1. i \in DOMAIN f /\ f[i].kind = "pair" /\ Trim[f[i].name] = k /\ SectionOf(f, i) = s
    BY DEF Fits
  <2>2. f[i].name = k
    BY <2>1, TidyLines
  <2>3. PICK h \in HeadersOf(f, s) : h \in Nat /\ h > 0 /\ Heads(f, i, h)
    BY <2>1, TidyHead
  <2>4. PICK m \in Nat : DOMAIN f = 1 .. m
    BY DEF File
  <2>5. h < i
    BY <2>1, <2>3, <2>4 DEF Heads
  <2>6. ASSUME NEW j \in PlainHeaders(f) PROVE j <= h \/ i < j
    <3>1. j \in 1 .. m /\ IsHeader(f[j]) /\ j # i
      BY <2>1, <2>4 DEF PlainHeaders, IsHeader
    <3>2. j \notin h + 1 .. i - 1
      BY <2>3, <3>1 DEF Heads
    <3> QED BY <2>1, <2>3, <2>4, <3>1, <3>2
  <2> QED BY <2>1, <2>2, <2>5, <2>6 DEF KeyLines
<1> QED BY <1>1, <1>2

\* ... one at most.
LEMMA TidyFits ==
  ASSUME NEW f \in File, Tidy(f), NEW s, NEW k, NEW i \in Fits(f, s, k), NEW j \in Fits(f, s, k)
  PROVE  i = j
<1>1. /\ i \in DOMAIN f /\ f[i].kind = "pair" /\ Trim[f[i].name] = k /\ SectionOf(f, i) = s
      /\ j \in DOMAIN f /\ f[j].kind = "pair" /\ Trim[f[j].name] = k /\ SectionOf(f, j) = s
  BY DEF Fits
<1>2. f[i].name = k /\ f[j].name = k
  BY <1>1, TidyLines
<1> QED BY <1>1, <1>2, TidyLines

\* New lines that keep a file tidy: at most one header, of a section that was not
\* there, and at most one pair, of a key that has no other line.
NewLines(f, g, s, a, b, c) ==
  /\ \A i \in a + 1 .. c : Trim[g[i].name] = g[i].name /\ ~g[i].indented
  /\ \A i \in a + 1 .. c : IsHeader(g[i]) => g[i].name = s /\ HeadersOf(f, s) = {}
  /\ \A i, j \in a + 1 .. c : g[i].kind = g[j].kind /\ g[i].kind # "blank" => i = j
  /\ \A i \in a + 1 .. c : g[i].kind = "pair" =>
                             Fits(f, s, g[i].name) \cap Kept(f, a, b) = {}

\* A line of the edited file is new or was there before.
LEMMA OldOrNew ==
  ASSUME NEW f \in File, NEW g \in File, NEW a, NEW b, NEW c, Spliced(f, g, a, b, c),
         Clean(f, g, a, b, c), NEW i \in DOMAIN g, i \notin a + 1 .. c
  PROVE  \E x \in Kept(f, a, b) :
           /\ x \in DOMAIN f /\ g[i] = f[x] /\ i = Moved(a, b, c, x)
           /\ ~IsHeader(f[x]) => SectionOf(g, i) = SectionOf(f, x)
<1>1. PICK m \in Nat, n \in Nat :
        /\ DOMAIN f = 1 .. m /\ DOMAIN g = 1 .. n
        /\ a \in Nat /\ b \in Nat /\ c \in Nat /\ a <= b /\ b <= m /\ a <= c /\ c <= n
  BY SpliceFacts
<1>2. i \in Kept(g, a, c)
  <2>1. i <= a \/ i > c
    BY <1>1
  <2> QED BY <2>1 DEF Kept
<1>3. Spliced(g, f, a, c, b) /\ Clean(g, f, a, c, b)
  BY SpliceBack
<1>4. PICK x : x = Moved(a, c, b, i)
  OBVIOUS
<1>5. x \in Kept(f, a, b) /\ f[x] = g[i] /\ Moved(a, b, c, x) = i
  BY <1>2, <1>3, <1>4, MovedLine
<1>6. x \in DOMAIN f
  BY <1>5 DEF Kept
<1>7. ~IsHeader(f[x]) => SectionOf(g, i) = SectionOf(f, x)
  BY <1>5, MovedSection
<1> QED BY <1>5, <1>6, <1>7

LEMMA TidyKept ==
  ASSUME NEW f \in File, Tidy(f), NEW g, NEW s, NEW K, NEW a, NEW b, NEW c,
         EditOf(f, g, s, K, a, b, c), NewLines(f, g, s, a, b, c)
  PROVE  Tidy(g)
<1>1. g \in File /\ Spliced(f, g, a, b, c) /\ Clean(f, g, a, b, c)
  BY DEF EditOf
<1>2. ASSUME NEW i \in DOMAIN g PROVE Trim[g[i].name] = g[i].name /\ ~g[i].indented
  <2>1. CASE i \in a + 1 .. c
    BY <2>1 DEF NewLines
  <2>2. CASE i \notin a + 1 .. c
    <3>1. PICK x \in DOMAIN f : g[i] = f[x]
      BY <1>1, <2>2, OldOrNew
    <3> QED BY <3>1, TidyLines DEF Plain
  <2> QED BY <2>1, <2>2
<1>3. ASSUME NEW i \in DOMAIN g, NEW j \in DOMAIN g, i \in a + 1 .. c, j \notin a + 1 .. c,
             IsHeader(g[i]), IsHeader(g[j]), g[i].name = g[j].name
      PROVE  FALSE
  <2>1. g[i].name = s /\ HeadersOf(f, s) = {}
    BY <1>3 DEF NewLines
  <2>2. PICK x \in DOMAIN f : g[j] = f[x]
    BY <1>1, <1>3, OldOrNew
  <2>3. ~f[x].indented
    BY TidyLines DEF Plain
  <2>4. x \in HeadersOf(f, s)
    BY <1>3, <2>1, <2>2, <2>3 DEF HeadersOf, PlainHeaders, IsHeader
  <2> QED BY <2>1, <2>4
<1>4. ASSUME NEW i \in DOMAIN g, NEW j \in DOMAIN g,
             IsHeader(g[i]), IsHeader(g[j]), g[i].name = g[j].name
      PROVE  i = j
  <2>1. CASE i \in a + 1 .. c /\ j \in a + 1 .. c
    BY <1>4, <2>1 DEF NewLines, IsHeader
  <2>2. CASE i \notin a + 1 .. c /\ j \notin a + 1 .. c
    <3>1. PICK x \in DOMAIN f : g[i] = f[x] /\ i = Moved(a, b, c, x)
      BY <1>1, <2>2, OldOrNew
    <3>2. PICK y \in DOMAIN f : g[j] = f[y] /\ j = Moved(a, b, c, y)
      BY <1>1, <2>2, OldOrNew
    <3>3. x = y
      BY <1>4, <3>1, <3>2, TidyLines
    <3> QED BY <3>1, <3>2, <3>3
  <2> QED BY <1>3, <1>4, <2>1, <2>2
<1>5. ASSUME NEW i \in DOMAIN g, NEW j \in DOMAIN g, i \in a + 1 .. c, j \notin a + 1 .. c,
             g[i].kind = "pair", g[j].kind = "pair", g[i].name = g[j].name,
             SectionOf(g, i) = SectionOf(g, j)
      PROVE  FALSE
  <2>1. SectionOf(g, i) = s /\ Fits(f, s, g[i].name) \cap Kept(f, a, b) = {}
    BY <1>5 DEF NewLines, EditOf
  <2>2. PICK x \in Kept(f, a, b) : /\ x \in DOMAIN f /\ g[j] = f[x]
                                   /\ ~IsHeader(f[x]) => SectionOf(g, j) = SectionOf(f, x)
    BY <1>1, <1>5, OldOrNew
  <2>3. f[x].kind = "pair" /\ SectionOf(f, x) = s
    BY <1>5, <2>1, <2>2 DEF IsHeader
  <2>4. Trim[f[x].name] = g[i].name
    BY <1>5, <2>2, TidyLines
  <2>5. x \in Fits(f, s, g[i].name)
    BY <2>2, <2>3, <2>4 DEF Fits
  <2> QED BY <2>1, <2>2, <2>5
<1>6. ASSUME NEW i \in DOMAIN g, NEW j \in DOMAIN g,
             g[i].kind = "pair", g[j].kind = "pair", g[i].name = g[j].name,
             SectionOf(g, i) = SectionOf(g, j)
      PROVE  i = j
  <2>1. CASE i \in a + 1 .. c /\ j \in a + 1 .. c
    BY <1>6, <2>1 DEF NewLines
  <2>2. CASE i \notin a + 1 .. c /\ j \notin a + 1 .. c
    <3>1. PICK x \in DOMAIN f : /\ g[i] = f[x] /\ i = Moved(a, b, c, x)
                                /\ ~IsHeader(f[x]) => SectionOf(g, i) = SectionOf(f, x)
      BY <1>1, <2>2, OldOrNew
    <3>2. PICK y \in DOMAIN f : /\ g[j] = f[y] /\ j = Moved(a, b, c, y)
                                /\ ~IsHeader(f[y]) => SectionOf(g, j) = SectionOf(f, y)
      BY <1>1, <2>2, OldOrNew
    <3>3. ~IsHeader(f[x]) /\ ~IsHeader(f[y])
      BY <1>6, <3>1, <3>2 DEF IsHeader
    <3>4. x = y
      BY <1>6, <3>1, <3>2, <3>3, TidyLines
    <3> QED BY <3>1, <3>2, <3>4
  <2>3. CASE i \in a + 1 .. c /\ j \notin a + 1 .. c
    BY <1>5, <1>6, <2>3
  <2>4. CASE i \notin a + 1 .. c /\ j \in a + 1 .. c
    <3>1. g[j].name = g[i].name /\ SectionOf(g, j) = SectionOf(g, i)
      BY <1>6
    <3> QED BY <1>5, <1>6, <2>4, <3>1
  <2> QED BY <2>1, <2>2, <2>3, <2>4
<1>7. \A i, j \in PlainHeaders(g) : g[i].name = g[j].name => i = j
  BY <1>4 DEF PlainHeaders, IsHeader
<1> QED BY <1>2, <1>6, <1>7 DEF Tidy

\* A setting whose lines are all edited has new lines only.
LEMMA NewFits ==
  ASSUME NEW f \in File, NEW g, NEW s, NEW K, NEW a, NEW b, NEW c,
         EditOf(f, g, s, K, a, b, c), NEW k, Fits(f, s, k) \cap Kept(f, a, b) = {}
  PROVE  \A i \in Fits(g, s, k) : i \in a + 1 .. c /\ g[i].kind = "pair"
<1>1. g \in File /\ Spliced(f, g, a, b, c) /\ Clean(f, g, a, b, c)
  BY DEF EditOf
<1>2. ASSUME NEW i \in Fits(g, s, k), i \notin a + 1 .. c PROVE FALSE
  <2>1. i \in DOMAIN g /\ g[i].kind = "pair" /\ Trim[g[i].name] = k /\ SectionOf(g, i) = s
    BY DEF Fits
  <2>2. PICK x \in Kept(f, a, b) : /\ x \in DOMAIN f /\ g[i] = f[x]
                                   /\ ~IsHeader(f[x]) => SectionOf(g, i) = SectionOf(f, x)
    BY <1>1, <1>2, <2>1, OldOrNew
  <2>3. x \in Fits(f, s, k)
    BY <2>1, <2>2 DEF Fits, IsHeader
  <2> QED BY <2>2, <2>3
<1>3. \A i \in Fits(g, s, k) : g[i].kind = "pair"
  BY DEF Fits
<1> QED BY <1>2, <1>3

\* After a key is set it has one line, the last one of the edit.
LEMMA SetFits ==
  ASSUME NEW f \in File, NEW g, NEW s, NEW a, NEW b, NEW c, NEW k \in Keys, NEW v \in Values,
         EditOf(f, g, s, {k}, a, b, c), Fits(f, s, k) \cap Kept(f, a, b) = {},
         NewLines(f, g, s, a, b, c), c \in a + 1 .. c, g[c] = Pair(k, v)
  PROVE  Lookup(g, s, k) = Trim[v]
<1>1. g \in File /\ Spliced(f, g, a, b, c)
  BY DEF EditOf
<1>2. g[c].kind = "pair" /\ g[c].name = k /\ g[c].value = v /\ Trim[k] = k
  <2>1. Trim[k] = k
    BY NameFacts
  <2>2. Pair(k, v).kind = "pair" /\ Pair(k, v).name = k /\ Pair(k, v).value = v
    BY PairFacts
  <2> QED BY <2>1, <2>2
<1>3. c \in DOMAIN g
  <2>1. PICK n \in Nat : DOMAIN g = 1 .. n /\ a \in Nat /\ c \in Nat /\ c <= n
    BY <1>1, SpliceFacts
  <2> QED BY <2>1
<1>4. SectionOf(g, c) = s
  BY <1>2 DEF EditOf
<1>5. c \in Fits(g, s, k)
  BY <1>2, <1>3, <1>4 DEF Fits
<1>6. ASSUME NEW i \in Fits(g, s, k) PROVE i = c
  <2>1. i \in a + 1 .. c /\ g[i].kind = "pair"
    BY NewFits
  <2> QED BY <1>2, <2>1 DEF NewLines
<1>7. Fits(g, s, k) = {c}
  BY <1>5, <1>6
<1>8. Lookup(g, s, k) = Trim[g[c].value]
  BY <1>1, <1>7, LookupOne
<1> QED BY <1>2, <1>8

\* After it is deleted it has none.
LEMMA GoneFits ==
  ASSUME NEW f \in File, NEW g, NEW s, NEW K, NEW a \in Nat, NEW b, NEW k,
         EditOf(f, g, s, K, a, b, a), Fits(f, s, k) \cap Kept(f, a, b) = {}
  PROVE  Lookup(g, s, k) = Empty /\ NewLines(f, g, s, a, b, a)
<1>1. a + 1 .. a = {}
  OBVIOUS
<1>2. Fits(g, s, k) = {}
  BY <1>1, NewFits
<1> QED BY <1>1, <1>2 DEF Lookup, NewLines

-----------------------------------------------------------------------------
(* The file is the table of settings. *)

\* What a call for key k of section s, that sets it to w, does to a tidy file.
Puts(f, g, s, k, w) ==
  /\ Tidy(g) /\ Lookup(g, s, k) = w
  /\ \A t, x : t # s \/ x # k => Lookup(g, t, x) = Lookup(f, t, x)

LEMMA PutReplaces ==
  ASSUME NEW f \in File, Tidy(f), NEW s \in Sections, NEW k \in Keys, NEW v \in Values,
         NEW i \in KeyLines(f, s, k)
  PROVE  Puts(f, [f EXCEPT ![i] = Pair(k, v)], s, k, Trim[v])
<1>1. PICK g : g = [f EXCEPT ![i] = Pair(k, v)]
  OBVIOUS
<1>2. EditOf(f, g, s, {k}, i - 1, i, i) /\ g[i] = Pair(k, v) /\ i \in Nat /\ i > 0
  <2>1. Plain(f)
    BY TidyLines
  <2>2. EditOf(f, g, s, {k}, i - 1, i, i) /\ i \in Nat /\ i > 0
    BY <1>1, <2>1, ReplaceFacts
  <2>3. i \in DOMAIN f
    BY DEF KeyLines
  <2>4. g[i] = Pair(k, v)
    BY <1>1, <2>3 DEF File
  <2> QED BY <2>2, <2>4
<1>3. PICK a \in Nat : a = i - 1 /\ a + 1 = i
  <2>1. i - 1 \in Nat /\ (i - 1) + 1 = i
    BY <1>2
  <2> QED BY <2>1
<1>4. a + 1 .. i = {i} /\ EditOf(f, g, s, {k}, a, i, i)
  BY <1>2, <1>3
<1>5. Fits(f, s, k) \cap Kept(f, a, i) = {}
  <2>1. i \in Fits(f, s, k)
    BY TidyKeyLines
  <2>2. \A j \in Fits(f, s, k) : j = i
    BY <2>1, TidyFits
  <2>3. i \notin Kept(f, a, i)
    BY <1>2, <1>3 DEF Kept
  <2> QED BY <2>2, <2>3
<1>6. Pair(k, v).name = k /\ Trim[k] = k /\ ~Pair(k, v).indented /\ Pair(k, v).kind = "pair"
  <2>1. Trim[k] = k
    BY NameFacts
  <2> QED BY <2>1, PairFacts
<1>7. NewLines(f, g, s, a, i, i)
  BY <1>2, <1>4, <1>5, <1>6 DEF NewLines, IsHeader
<1>8. Tidy(g)
  BY <1>4, <1>7, TidyKept
<1>9. Lookup(g, s, k) = Trim[v]
  BY <1>2, <1>4, <1>5, <1>7, SetFits
<1>10. \A t, x : t # s \/ x # k => Lookup(g, t, x) = Lookup(f, t, x)
  BY <1>4, EditLookup
<1> QED BY <1>1, <1>8, <1>9, <1>10 DEF Puts

LEMMA PutInserts ==
  ASSUME NEW f \in File, Tidy(f), NEW s \in Sections, NEW k \in Keys, NEW v \in Values,
         KeyLines(f, s, k) = {}, HeadersOf(f, s) # {}
  PROVE  Puts(f, InsertAt(f, SectionEnd(f, s), Pair(k, v)), s, k, Trim[v])
<1>0. PICK e : e = SectionEnd(f, s)
  OBVIOUS
<1>1. PICK g : g = InsertAt(f, e, Pair(k, v))
  OBVIOUS
<1>2. EditOf(f, g, s, {k}, e - 1, e - 1, e) /\ g[e] = Pair(k, v) /\ e \in Nat /\ e > 0
  BY <1>0, <1>1, TidyLines, InsertFacts
<1>3. PICK a \in Nat : a = e - 1 /\ a + 1 = e
  <2>1. e - 1 \in Nat /\ (e - 1) + 1 = e
    BY <1>2
  <2> QED BY <2>1
<1>4. a + 1 .. e = {e} /\ EditOf(f, g, s, {k}, a, a, e)
  BY <1>2, <1>3
<1>5. Fits(f, s, k) \cap Kept(f, a, a) = {}
  BY TidyKeyLines
<1>6. Pair(k, v).name = k /\ Trim[k] = k /\ ~Pair(k, v).indented /\ Pair(k, v).kind = "pair"
  <2>1. Trim[k] = k
    BY NameFacts
  <2> QED BY <2>1, PairFacts
<1>7. NewLines(f, g, s, a, a, e)
  BY <1>2, <1>4, <1>5, <1>6 DEF NewLines, IsHeader
<1>8. Tidy(g)
  BY <1>4, <1>7, TidyKept
<1>9. Lookup(g, s, k) = Trim[v]
  BY <1>2, <1>4, <1>5, <1>7, SetFits
<1>10. \A t, x : t # s \/ x # k => Lookup(g, t, x) = Lookup(f, t, x)
  BY <1>4, EditLookup
<1> QED BY <1>0, <1>1, <1>8, <1>9, <1>10 DEF Puts

LEMMA PutAdds ==
  ASSUME NEW f \in File, Tidy(f), NEW s \in Sections, NEW k \in Keys, NEW v \in Values,
         KeyLines(f, s, k) = {}, HeadersOf(f, s) = {}
  PROVE  Puts(f, WithSection(f, s, Pair(k, v)), s, k, Trim[v])
<1>1. PICK g : g = WithSection(f, s, Pair(k, v))
  OBVIOUS
<1>2. PICK m \in Nat, n \in Nat :
        EditOf(f, g, s, {k}, m, m, n) /\ Added(f, g, s, Pair(k, v), m, n)
  BY <1>1, SectionAddedFacts
<1>3. /\ n > 1 /\ n - 1 > m /\ g[n] = Pair(k, v) /\ g[n - 1] = Header(s, FALSE)
      /\ \A i \in m + 1 .. n : i = n \/ i = n - 1 \/ g[i] = Blank
  BY <1>2 DEF Added
<1>4. EditOf(f, g, s, {k}, m, m, n) /\ n \in m + 1 .. n
  BY <1>2, <1>3
<1>5. Fits(f, s, k) \cap Kept(f, m, m) = {}
  BY TidyKeyLines
<1>6. /\ Pair(k, v).name = k /\ ~Pair(k, v).indented /\ Pair(k, v).kind = "pair"
      /\ Header(s, FALSE).kind = "header" /\ Header(s, FALSE).name = s
      /\ Blank.kind = "blank" /\ Blank.name = Empty
      /\ ~Header(s, FALSE).indented /\ ~Blank.indented
  <2>1. Pair(k, v).name = k /\ ~Pair(k, v).indented /\ Pair(k, v).kind = "pair"
    BY PairFacts
  <2> QED BY <2>1 DEF Header, Blank
<1>7. Trim[k] = k /\ Trim[s] = s /\ Trim[Empty] = Empty
  BY NameFacts, ProfileAssumption
<1>8. NewLines(f, g, s, m, m, n)
  <2>1. \A i \in m + 1 .. n : Trim[g[i].name] = g[i].name /\ ~g[i].indented
    BY <1>3, <1>6, <1>7
  <2>2. \A i \in m + 1 .. n : IsHeader(g[i]) => g[i].name = s /\ HeadersOf(f, s) = {}
    BY <1>3, <1>6 DEF IsHeader
  <2>3. \A i, j \in m + 1 .. n : g[i].kind = g[j].kind /\ g[i].kind # "blank" => i = j
    BY <1>3, <1>6
  <2>4. \A i \in m + 1 .. n : g[i].kind = "pair" =>
                               Fits(f, s, g[i].name) \cap Kept(f, m, m) = {}
    BY <1>3, <1>5, <1>6
  <2> QED BY <2>1, <2>2, <2>3, <2>4 DEF NewLines
<1>9. Tidy(g)
  BY <1>4, <1>8, TidyKept
<1>10. Lookup(g, s, k) = Trim[v]
  BY <1>3, <1>4, <1>5, <1>8, SetFits
<1>11. \A t, x : t # s \/ x # k => Lookup(g, t, x) = Lookup(f, t, x)
  BY <1>4, EditLookup
<1> QED BY <1>1, <1>9, <1>10, <1>11 DEF Puts

LEMMA SetPuts ==
  ASSUME NEW f \in File, Tidy(f), NEW s \in Sections, NEW k \in Keys, NEW v \in Values
  PROVE  Puts(f, WithPair(f, s, k, v), s, k, Trim[v])
<1>1. CASE KeyLines(f, s, k) # {}
  <2>1. PICK i : i = Max(KeyLines(f, s, k)) /\ i \in KeyLines(f, s, k)
    BY <1>1, LastKeyLine
  <2>2. WithPair(f, s, k, v) = [f EXCEPT ![i] = Pair(k, v)]
    BY <1>1, <2>1 DEF WithPair
  <2>3. Puts(f, [f EXCEPT ![i] = Pair(k, v)], s, k, Trim[v])
    BY <2>1, PutReplaces
  <2> QED BY <2>2, <2>3
<1>2. CASE KeyLines(f, s, k) = {} /\ HeadersOf(f, s) # {}
  BY <1>2, PutInserts DEF WithPair
<1>3. CASE KeyLines(f, s, k) = {} /\ HeadersOf(f, s) = {}
  BY <1>3, PutAdds DEF WithPair
<1> QED BY <1>1, <1>2, <1>3

LEMMA DeletePuts ==
  ASSUME NEW f \in File, Tidy(f), NEW s \in Sections, NEW k \in Keys
  PROVE  Puts(f, WithoutKey(f, s, k), s, k, Empty)
<1>0. KeyLines(f, s, k) = Fits(f, s, k)
  BY TidyKeyLines
<1>1. CASE KeyLines(f, s, k) = {}
  BY <1>0, <1>1 DEF WithoutKey, Puts, Lookup
<1>2. CASE KeyLines(f, s, k) # {}
  <2>1. PICK i : i = Max(KeyLines(f, s, k)) /\ i \in KeyLines(f, s, k)
    BY <1>2, LastKeyLine
  <2>2. PICK g : g = WithoutKey(f, s, k)
    OBVIOUS
  <2>3. g = RemoveAt(f, i)
    BY <1>2, <2>1, <2>2 DEF WithoutKey
  <2>4. EditOf(f, g, s, {k}, i - 1, i, i - 1) /\ i \in Nat /\ i > 0
    <3>1. Plain(f)
      BY TidyLines
    <3> QED BY <2>1, <2>3, <3>1, RemoveFacts
  <2>5. PICK a \in Nat : a = i - 1 /\ a + 1 = i
    <3>1. i - 1 \in Nat /\ (i - 1) + 1 = i
      BY <2>4
    <3> QED BY <3>1
  <2>6. EditOf(f, g, s, {k}, a, i, a)
    BY <2>4, <2>5
  <2>7. Fits(f, s, k) \cap Kept(f, a, i) = {}
    <3>1. \A j \in Fits(f, s, k) : j = i
      BY <1>0, <2>1, TidyFits
    <3>2. i \notin Kept(f, a, i)
      BY <2>4, <2>5 DEF Kept
    <3> QED BY <3>1, <3>2
  <2>8. Lookup(g, s, k) = Empty /\ NewLines(f, g, s, a, i, a)
    BY <2>6, <2>7, GoneFits
  <2>9. Tidy(g)
    BY <2>6, <2>8, TidyKept
  <2>10. \A t, x : t # s \/ x # k => Lookup(g, t, x) = Lookup(f, t, x)
    BY <2>6, EditLookup
  <2> QED BY <2>2, <2>8, <2>9, <2>10 DEF Puts
<1> QED BY <1>1, <1>2

\* What a call that deletes section s does.
Drops(f, g, s) ==
  /\ Tidy(g) /\ \A k : Lookup(g, s, k) = Empty
  /\ \A t, x : t # s => Lookup(g, t, x) = Lookup(f, t, x)

LEMMA DropDrops ==
  ASSUME NEW f \in File, Tidy(f), NEW s \in Sections
  PROVE  Drops(f, WithoutSection(f, s), s)
<1>1. CASE HeadersOf(f, s) = {}
  <2>1. \A k : Fits(f, s, k) = {}
    <3> SUFFICES ASSUME NEW k, NEW i \in Fits(f, s, k) PROVE FALSE
      OBVIOUS
    <3>1. i \in DOMAIN f /\ SectionOf(f, i) = s
      BY DEF Fits
    <3> QED BY <1>1, <3>1, TidyHead
  <2> QED BY <1>1, <2>1 DEF WithoutSection, Drops, Lookup
<1>2. CASE HeadersOf(f, s) # {}
  <2>1. PICK g : g = WithoutSection(f, s)
    OBVIOUS
  <2>2. PICK m \in Nat, a \in Nat, z \in Nat, e \in Nat :
          /\ m = Len(f) /\ DOMAIN f = 1 .. m /\ a \in HeadersOf(f, s)
          /\ z + 1 = a /\ a <= e /\ e <= m /\ (e < m => IsHeader(f[e + 1]))
          /\ EditOf(f, g, s, Texts, z, e, z)
    <3>1. Plain(f)
      BY TidyLines
    <3> QED BY <1>2, <2>1, <3>1, DropFacts
  <2>3. ASSUME NEW k, NEW i \in Fits(f, s, k) PROVE i \notin Kept(f, z, e)
    <3>1. i \in 1 .. m /\ f[i].kind = "pair" /\ SectionOf(f, i) = s
      BY <2>2 DEF Fits
    <3>2. PICK h \in HeadersOf(f, s) : h \in Nat /\ h > 0 /\ Heads(f, i, h)
      BY <2>2, <3>1, TidyHead
    <3>3. h = a
      BY <2>2, <3>2 DEF Tidy, HeadersOf
    <3>4. i > a
      BY <2>2, <3>1, <3>2, <3>3 DEF Heads
    <3>5. ~(i > e)
      <4> SUFFICES ASSUME i > e PROVE FALSE
        OBVIOUS
      <4>1. e < m /\ e + 1 <= i
        BY <2>2, <3>1
      <4>2. IsHeader(f[e + 1]) /\ e + 1 # i
        BY <2>2, <3>1, <4>1 DEF IsHeader
      <4>3. e + 1 \in a + 1 .. i - 1
        BY <2>2, <3>1, <4>1, <4>2
      <4> QED BY <3>2, <3>3, <4>2, <4>3 DEF Heads
    <3>6. ~(i <= z)
      BY <2>2, <3>1, <3>4
    <3> QED BY <3>5, <3>6 DEF Kept
  <2>4. \A k : Lookup(g, s, k) = Empty /\ NewLines(f, g, s, z, e, z)
    <3> SUFFICES ASSUME NEW k PROVE Lookup(g, s, k) = Empty /\ NewLines(f, g, s, z, e, z)
      OBVIOUS
    <3>1. Fits(f, s, k) \cap Kept(f, z, e) = {}
      BY <2>3
    <3> QED BY <2>2, <3>1, GoneFits
  <2>5. Tidy(g)
    BY <2>2, <2>4, TidyKept
  <2>6. \A t, x : t # s => Lookup(g, t, x) = Lookup(f, t, x)
    BY <2>2, EditLookup
  <2> QED BY <2>1, <2>4, <2>5, <2>6 DEF Drops
<1> QED BY <1>1, <1>2

-----------------------------------------------------------------------------
(* Profile implements ProfileStore. *)

Cells == Sections \X Keys

Table(f) == [x \in Cells |-> Lookup(f, x[1], x[2])]

LEMMA LookupTyped ==
  ASSUME NEW f \in File, NEW s, NEW k
  PROVE  Lookup(f, s, k) \in Texts
<1>1. CASE Fits(f, s, k) = {}
  BY <1>1, ProfileAssumption DEF Lookup
<1>2. CASE Fits(f, s, k) # {}
  <2>1. Fits(f, s, k) \in SUBSET Nat
    BY DEF Fits, File
  <2>2. PICK i \in Fits(f, s, k) : i = Min(Fits(f, s, k))
    BY <1>2, <2>1, FirstLine
  <2>3. f[i] \in Line
    BY DEF Fits, File
  <2>4. Trim[f[i].value] \in Texts
    BY <2>3, ProfileAssumption DEF Line
  <2> QED BY <1>2, <2>2, <2>4 DEF Lookup
<1> QED BY <1>1, <1>2

LEMMA TableTyped ==
  ASSUME NEW f \in File
  PROVE  Table(f) \in [Cells -> Texts]
BY LookupTyped DEF Table

\* A table in which one setting has another value.
Other(table, s, k, w) == [table EXCEPT ![<<s, k>>] = w]

LEMMA PutTable ==
  ASSUME NEW f, NEW g, NEW s, NEW k, NEW w, Puts(f, g, s, k, w)
  PROVE  Table(g) = Other(Table(f), s, k, w)
<1>1. ASSUME NEW x \in Cells PROVE Table(g)[x] = [Table(f) EXCEPT ![<<s, k>>] = w][x]
  <2>1. x = <<x[1], x[2]>>
    BY DEF Cells
  <2>2. CASE x = <<s, k>>
    BY <2>2 DEF Table, Puts
  <2>3. CASE x # <<s, k>>
    <3>1. x[1] # s \/ x[2] # k
      BY <2>1, <2>3
    <3>2. Lookup(g, x[1], x[2]) = Lookup(f, x[1], x[2])
      BY <3>1 DEF Puts
    <3> QED BY <2>3, <3>2 DEF Table
  <2> QED BY <2>2, <2>3
<1>2. DOMAIN Table(f) = Cells /\ DOMAIN Table(g) = Cells
  BY DEF Table
<1>3. Table(g) = [Table(f) EXCEPT ![<<s, k>>] = w]
  BY <1>1, <1>2 DEF Table
<1> QED BY <1>3 DEF Other

LEMMA DropTable ==
  ASSUME NEW f, NEW g, NEW s, Drops(f, g, s)
  PROVE  Table(g) = [x \in Cells |-> IF x[1] = s THEN Empty ELSE Table(f)[x]]
<1>1. ASSUME NEW x \in Cells
      PROVE  Lookup(g, x[1], x[2]) = IF x[1] = s THEN Empty ELSE Table(f)[x]
  <2>1. Table(f)[x] = Lookup(f, x[1], x[2])
    BY DEF Table
  <2> QED BY <2>1 DEF Drops
<1> QED BY <1>1 DEF Table

\* The abstract variables.
StoreOf  == [x \in Sections \X Keys |->
               IF tidy THEN Lookup(lines, x[1], x[2]) ELSE Empty]
RetOf    == IF tidy THEN ret ELSE 0
AnswerOf == IF tidy /\ named THEN answer ELSE Nothing

\* The answer to the last question, if that was about a section.
Shown == IF named THEN answer ELSE Nothing

LEMMA StoreTidy ==
  ASSUME tidy
  PROVE  StoreOf = Table(lines) /\ RetOf = ret /\ AnswerOf = Shown
BY DEF StoreOf, RetOf, AnswerOf, Shown, Table, Cells

LEMMA StoreTidyNext ==
  ASSUME tidy, tidy' = tidy
  PROVE  StoreOf' = Table(lines') /\ RetOf' = ret' /\ AnswerOf' = Shown'
BY DEF StoreOf, RetOf, AnswerOf, Shown, Table, Cells

LEMMA StoreUntidy ==
  ASSUME ~tidy, tidy' = tidy
  PROVE  StoreOf' = StoreOf /\ RetOf' = RetOf /\ AnswerOf' = AnswerOf
BY DEF StoreOf, RetOf, AnswerOf

\* A call that writes the file is a change of the table.
LEMMA WriteMatches ==
  ASSUME NEW new, tidy, Write(new)
  PROVE  Store!Change(Table(new))
<1>1. /\ tidy' = tidy /\ Shown' = Shown
      /\ \/ lines' = new /\ ret' = 1
         \/ ret' = 0 /\ lines' = lines
  BY DEF Write, Shown
<1>2. StoreOf = Table(lines) /\ RetOf = ret /\ AnswerOf = Shown
  BY StoreTidy
<1>3. StoreOf' = Table(lines') /\ RetOf' = ret' /\ AnswerOf' = Shown'
  BY <1>1, StoreTidyNext
<1>4. /\ AnswerOf' = AnswerOf
      /\ \/ RetOf' = 1 /\ StoreOf' = Table(new)
         \/ RetOf' = 0 /\ StoreOf' = StoreOf
  BY <1>1, <1>2, <1>3
<1> QED BY <1>4 DEF Store!Change, StoreOf, RetOf, AnswerOf

\* Without a file there are no lines, and a tidy file stays tidy.
ProfileInv ==
  /\ lines \in File /\ tidy \in BOOLEAN
  /\ ~exists => lines = <<>>
  /\ tidy => Tidy(lines)

LEMMA SetMatches ==
  ASSUME ProfileInv, tidy, NEW s \in Sections, NEW k \in Keys, NEW v \in Values, SetKey(s, k, v)
  PROVE  Store!Put(s, k, v)
<1>1. lines \in File /\ Tidy(lines)
  BY DEF ProfileInv
<1>2. PICK f \in File : f = lines
  BY <1>1
<1>3. Puts(f, WithPair(f, s, k, v), s, k, Trim[v])
  BY <1>1, <1>2, SetPuts
<1>4. Table(WithPair(f, s, k, v)) = Other(Table(f), s, k, Trim[v])
  BY <1>3, PutTable
<1>5. Store!Change(Table(WithPair(f, s, k, v)))
  BY <1>2, WriteMatches DEF SetKey
<1>6. StoreOf = Table(f)
  BY <1>2, StoreTidy
<1>7. Store!Change(Other(StoreOf, s, k, Trim[v]))
  BY <1>4, <1>5, <1>6
<1> QED BY <1>7 DEF Store!Put, StoreOf, Other

LEMMA DeleteMatches ==
  ASSUME ProfileInv, tidy, NEW s \in Sections, NEW k \in Keys, DeleteKey(s, k)
  PROVE  Store!Delete(s, k)
<1>1. lines \in File /\ Tidy(lines)
  BY DEF ProfileInv
<1>2. PICK f \in File : f = lines
  BY <1>1
<1>3. Puts(f, WithoutKey(f, s, k), s, k, Empty)
  BY <1>1, <1>2, DeletePuts
<1>4. Table(WithoutKey(f, s, k)) = Other(Table(f), s, k, Empty)
  BY <1>3, PutTable
<1>5. Store!Change(Table(WithoutKey(f, s, k)))
  BY <1>2, WriteMatches DEF DeleteKey
<1>6. StoreOf = Table(f)
  BY <1>2, StoreTidy
<1>7. Store!Change(Other(StoreOf, s, k, Empty))
  BY <1>4, <1>5, <1>6
<1> QED BY <1>7 DEF Store!Delete, StoreOf, Other

LEMMA DropMatches ==
  ASSUME ProfileInv, tidy, NEW s \in Sections, DeleteSection(s)
  PROVE  Store!DeleteSection(s)
<1>1. lines \in File /\ Tidy(lines)
  BY DEF ProfileInv
<1>2. PICK f \in File : f = lines
  BY <1>1
<1>3. Drops(f, WithoutSection(f, s), s)
  BY <1>1, <1>2, DropDrops
<1>4. Table(WithoutSection(f, s)) = [x \in Cells |-> IF x[1] = s THEN Empty ELSE Table(f)[x]]
  BY <1>3, DropTable
<1>5. Store!Change(Table(WithoutSection(f, s)))
  BY <1>2, WriteMatches DEF DeleteSection
<1>6. StoreOf = Table(f)
  BY <1>2, StoreTidy
<1>7. Store!Change([x \in Sections \X Keys |-> IF x[1] = s THEN Empty ELSE StoreOf[x]])
  BY <1>4, <1>5, <1>6 DEF Cells
<1> QED BY <1>7 DEF Store!DeleteSection, StoreOf

LEMMA RefuseMatches ==
  ASSUME tidy, SetRefused
  PROVE  Store!Reject
<1>1. tidy' = tidy /\ Shown' = Shown /\ lines' = lines /\ ret' = 0
  BY DEF SetRefused, Shown
<1>2. StoreOf = Table(lines) /\ AnswerOf = Shown
  BY StoreTidy
<1>3. StoreOf' = Table(lines') /\ RetOf' = ret' /\ AnswerOf' = Shown'
  BY <1>1, StoreTidyNext
<1>4. RetOf' = 0 /\ AnswerOf' = AnswerOf /\ StoreOf' = StoreOf
  BY <1>1, <1>2, <1>3
<1> QED BY <1>4 DEF Store!Reject, StoreOf, RetOf, AnswerOf

LEMMA AskMatches ==
  ASSUME tidy, exists, NEW s \in Sections, NEW k \in Keys, NEW def \in Defaults,
         Get(s, k, def), ~crashed'
  PROVE  Store!Ask(s, k, def)
<1>1. /\ tidy' = tidy /\ ret' = ret /\ lines' = lines /\ lines # <<>>
      /\ answer' = IF Lookup(lines, s, k) = Empty THEN def ELSE Lookup(lines, s, k)
      /\ named' = (s # Empty)
  BY DEF Get
<1>2. s # Empty
  BY ProfileAssumption
<1>3. Shown' = answer'
  BY <1>1, <1>2 DEF Shown
<1>4. StoreOf = Table(lines) /\ RetOf = ret
  BY StoreTidy
<1>5. StoreOf' = Table(lines') /\ RetOf' = ret' /\ AnswerOf' = Shown'
  BY <1>1, StoreTidyNext
<1>6. Table(lines)[<<s, k>>] = Lookup(lines, s, k)
  BY DEF Table, Cells
<1>7. /\ RetOf' = RetOf /\ StoreOf' = StoreOf
      /\ AnswerOf' = IF StoreOf[<<s, k>>] = Empty THEN def ELSE StoreOf[<<s, k>>]
  BY <1>1, <1>3, <1>4, <1>5, <1>6
<1> QED BY <1>7 DEF Store!Ask, StoreOf, RetOf, AnswerOf

\* A question without a section or without a file is not about the table.
LEMMA UnaskedMatches ==
  ASSUME tidy, NEW s, NEW k, NEW def, Get(s, k, def), ~crashed', s = Empty \/ ~exists
  PROVE  Store!Unasked
<1>1. /\ tidy' = tidy /\ ret' = ret /\ lines' = lines
      /\ named' = (s # Empty)
      /\ ~exists => answer' = Nothing
  BY DEF Get
<1>2. Shown' = Nothing
  BY <1>1 DEF Shown
<1>3. StoreOf = Table(lines) /\ RetOf = ret
  BY StoreTidy
<1>4. StoreOf' = Table(lines') /\ RetOf' = ret' /\ AnswerOf' = Shown'
  BY <1>1, StoreTidyNext
<1>5. RetOf' = RetOf /\ StoreOf' = StoreOf /\ AnswerOf' = Nothing
  BY <1>1, <1>2, <1>3, <1>4
<1> QED BY <1>5 DEF Store!Unasked, StoreOf, RetOf, AnswerOf

\* Each call of a tidy file does what ProfileStore says of it.
LEMMA CallsMatchTidy ==
  ASSUME ProfileInv, tidy
  PROVE  CallsMatch
BY SetMatches, DeleteMatches, DropMatches, RefuseMatches, AskMatches DEF CallsMatch

LEMMA ProfileInvInit == Init => ProfileInv
<1> SUFFICES ASSUME Init PROVE ProfileInv
  OBVIOUS
<1>1. lines \in File
  BY TypedInit DEF Typed
<1>2. ~exists => lines = <<>>
  BY DEF Init
<1>3. tidy \in BOOLEAN /\ (tidy => Tidy(lines))
  BY DEF Init, Tidy
<1> QED BY <1>1, <1>2, <1>3 DEF ProfileInv

LEMMA ProfileInvNext == ProfileInv /\ [Next]_vars => ProfileInv'
<1> SUFFICES ASSUME ProfileInv, [Next]_vars PROVE ProfileInv'
  OBVIOUS
<1>1. lines' \in File
  BY TypedNext DEF Typed, ProfileInv
<1>2. \A new : Write(new) => tidy' = tidy /\ (exists' = TRUE \/ (exists' = exists /\ lines' = lines))
  BY DEF Write
<1>3. tidy' = tidy /\ (exists' = TRUE \/ (exists' = exists /\ lines' = lines))
  <2>1. CASE \E s \in Sections : DeleteSection(s)
    BY <1>2, <2>1 DEF DeleteSection
  <2>2. CASE \E s \in Sections, k \in Keys : DeleteKey(s, k)
    BY <1>2, <2>2 DEF DeleteKey
  <2>3. CASE \E s \in Sections, k \in Keys, v \in Values : SetKey(s, k, v)
    BY <1>2, <2>3 DEF SetKey
  <2>4. CASE \E s \in Sections \cup {Empty}, k \in Keys, def \in Defaults : Get(s, k, def)
    BY <2>4 DEF Get
  <2>5. CASE SetRefused \/ Restart \/ UNCHANGED vars
    BY <2>5 DEF SetRefused, Restart, vars
  <2> QED BY <2>1, <2>2, <2>3, <2>4, <2>5 DEF Next
<1>4. tidy => Tidy(lines')
  <2> SUFFICES ASSUME tidy, lines' # lines PROVE Tidy(lines')
    BY DEF ProfileInv
  <2>1. PICK f \in File : f = lines /\ Tidy(f)
    BY DEF ProfileInv
  <2>2. PICK s \in Sections :
          \/ lines' = WithoutSection(f, s)
          \/ \E k \in Keys : \/ lines' = WithoutKey(f, s, k)
                             \/ \E v \in Values : lines' = WithPair(f, s, k, v)
    BY <2>1, StepEdits
  <2>3. Tidy(WithoutSection(f, s))
    BY <2>1, DropDrops DEF Drops
  <2>4. \A k \in Keys : Tidy(WithoutKey(f, s, k))
    BY <2>1, DeletePuts DEF Puts
  <2>5. \A k \in Keys, v \in Values : Tidy(WithPair(f, s, k, v))
    BY <2>1, SetPuts DEF Puts
  <2> QED BY <2>2, <2>3, <2>4, <2>5
<1>5. tidy' \in BOOLEAN /\ (~exists' => lines' = <<>>) /\ (tidy' => Tidy(lines'))
  BY <1>3, <1>4 DEF ProfileInv
<1> QED BY <1>1, <1>5 DEF ProfileInv

LEMMA StoreInit ==
  ASSUME ProfileInv, Init
  PROVE  Store!Init
<1>1. StoreOf \in [Sections \X Keys -> Texts]
  <2>1. \A x \in Sections \X Keys : Lookup(lines, x[1], x[2]) \in Texts
    BY LookupTyped DEF ProfileInv
  <2>2. Empty \in Texts
    BY ProfileAssumption
  <2> QED BY <2>1, <2>2 DEF StoreOf
<1>2. RetOf = 0 /\ AnswerOf = Nothing
  BY DEF Init, RetOf, AnswerOf
<1> QED BY <1>1, <1>2 DEF Store!Init, StoreOf, RetOf, AnswerOf

\* A step of the handlers is a step of the table or changes nothing of it.
LEMMA StoreStep ==
  ASSUME ProfileInv, [Next]_vars
  PROVE  Store!Next \/ (StoreOf' = StoreOf /\ RetOf' = RetOf /\ AnswerOf' = AnswerOf)
<1> DEFINE Same == StoreOf' = StoreOf /\ RetOf' = RetOf /\ AnswerOf' = AnswerOf
<1>1. ASSUME tidy' = tidy, lines' = lines, ret' = ret, answer' = answer, named' = named
      PROVE  Same
  BY <1>1 DEF StoreOf, RetOf, AnswerOf
<1> HIDE DEF Same
<1>2. CASE tidy
  <2>1. ASSUME NEW s \in Sections, DeleteSection(s) PROVE Store!Next
    <3>1. Store!DeleteSection(s)
      BY <1>2, <2>1, DropMatches
    <3> QED BY <3>1 DEF Store!Next
  <2>2. ASSUME NEW s \in Sections, NEW k \in Keys, DeleteKey(s, k) PROVE Store!Next
    <3>1. Store!Delete(s, k)
      BY <1>2, <2>2, DeleteMatches
    <3> QED BY <3>1 DEF Store!Next
  <2>3. ASSUME NEW s \in Sections, NEW k \in Keys, NEW v \in Values, SetKey(s, k, v)
        PROVE  Store!Next
    <3>1. Store!Put(s, k, v)
      BY <1>2, <2>3, SetMatches
    <3> QED BY <3>1 DEF Store!Next
  <2>4. ASSUME NEW s \in Sections \cup {Empty}, NEW k \in Keys, NEW def \in Defaults,
               Get(s, k, def)
        PROVE  Store!Next \/ Same
    <3>1. CASE ~crashed' /\ s \in Sections /\ exists
      <4>1. Store!Ask(s, k, def)
        BY <1>2, <2>4, <3>1, AskMatches
      <4> QED BY <3>1, <4>1 DEF Store!Next
    <3>2. CASE crashed'
      <4>1. exists /\ lines = <<>>
        BY <2>4, <3>2 DEF Get
      <4>2. tidy' = tidy /\ lines' = lines /\ ret' = ret /\ answer' = answer /\ named' = named
        BY <2>4, <3>2, <4>1 DEF Get
      <4> QED BY <1>1, <4>2
    <3>3. CASE ~crashed' /\ (s = Empty \/ ~exists)
      <4>1. Store!Unasked
        BY <1>2, <2>4, <3>3, UnaskedMatches
      <4> QED BY <4>1 DEF Store!Next
    <3> QED BY <3>1, <3>2, <3>3
  <2>5. ASSUME SetRefused PROVE Store!Next
    <3>1. Store!Reject
      BY <1>2, <2>5, RefuseMatches
    <3> QED BY <3>1 DEF Store!Next
  <2>6. ASSUME Restart \/ UNCHANGED vars PROVE Same
    <3>1. tidy' = tidy /\ lines' = lines /\ ret' = ret /\ answer' = answer /\ named' = named
      BY <2>6 DEF Restart, vars
    <3> QED BY <1>1, <3>1
  <2>7. Store!Next \/ Same
    BY <2>1, <2>2, <2>3, <2>4, <2>5, <2>6 DEF Next
  <2> QED BY <2>7 DEF Same
<1>3. CASE ~tidy
  <2>1. \A new : Write(new) => tidy' = tidy
    BY DEF Write
  <2>2. tidy' = tidy
    BY <2>1 DEF Next, DeleteSection, DeleteKey, SetKey, Get, SetRefused, Restart, vars
  <2> QED BY <1>3, <2>2, StoreUntidy
<1> QED BY <1>2, <1>3

\* As long as the file starts out missing or tidy, every question about a section of
\* a file that is there is answered with the value set last or the default, and every
\* call of _SetPrivateProfileString does what ProfileStore says of it.
THEOREM FilesAreTables == Spec => ImplementsStore
<1>1. Spec => []ProfileInv
  BY ProfileInvInit, ProfileInvNext, PTL DEF Spec
<1>2. ProfileInv /\ Init => Store!Init
  BY StoreInit
<1>3. ProfileInv /\ [Next]_vars => [Store!Next]_<<StoreOf, RetOf, AnswerOf>>
  BY StoreStep
<1>4. ProfileInv /\ [Next]_vars => [tidy => CallsMatch]_vars
  BY CallsMatchTidy
<1>5. Spec => Store!Spec
  BY <1>1, <1>2, <1>3, PTL DEF Spec, Store!Spec, StoreOf, RetOf, AnswerOf
<1>6. Spec => [][tidy => CallsMatch]_vars
  BY <1>1, <1>4, PTL DEF Spec
<1> QED BY <1>5, <1>6 DEF ImplementsStore
=============================================================================

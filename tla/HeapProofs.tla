----------------------------- MODULE HeapProofs -----------------------------
(***************************************************************************)
(* Proofs about the dynamic heap, for every base, size and sequence of     *)
(* requests.                                                               *)
(*                                                                         *)
(* The two tables are compared byte by byte: FreeAt and BlockAt say which  *)
(* free extent and which block a byte belongs to.  Layout says that each   *)
(* table lists extents that are apart, that no two free extents touch, and *)
(* that every byte is in exactly one extent.  Coalescing looks only at the *)
(* nearest neighbours of an extent, so that the least and the greatest     *)
(* element of a set of addresses must be shown to exist and to be the      *)
(* neighbours (LeastNat, GreatestNat).  HInv adds the types, that what was *)
(* filled is not more than was asked for, and that cookies and contents    *)
(* are what they were unless the guest itself overran a block.             *)
(***************************************************************************)
EXTENDS Heap, TLAPS, WellFoundedInduction

-----------------------------------------------------------------------------
(* Numbers.                                                                *)

\* A set of natural numbers has a least element.
LEMMA LeastNat ==
  ASSUME NEW T \in SUBSET Nat, T # {}
  PROVE  \E x \in T : \A y \in T : x <= y
<1> DEFINE R == {p \in Nat \X Nat : p[1] < p[2]}
<1>1. IsWellFoundedOn(R, Nat)
  BY NatLessThanWellFounded DEF OpToRel
<1> HIDE DEF R
<1>2. PICK x \in T : \A y \in T : ~ (<<y, x>> \in R)
  BY <1>1, WFMin
<1>3. \A y \in T : ~(y < x)
  BY <1>2 DEF R
<1>. QED BY <1>3

\* A bounded one has a greatest.
LEMMA GreatestNat ==
  ASSUME NEW T \in SUBSET Nat, T # {}, NEW n \in Nat, \A t \in T : t <= n
  PROVE  \E x \in T : \A y \in T : y <= x
<1> DEFINE U == {n - t : t \in T}
<1>1. U \in SUBSET Nat
  OBVIOUS
<1>2. PICK t0 \in T : TRUE
  OBVIOUS
<1>3. n - t0 \in U
  OBVIOUS
<1> HIDE DEF U
<1>4. PICK u \in U : \A y \in U : u <= y
  BY <1>1, <1>3, LeastNat
<1>5. PICK x \in T : u = n - x
  BY DEF U
<1>6. \A y \in T : n - y \in U
  BY DEF U
<1>. QED BY <1>4, <1>5, <1>6

\* CHOOSE finds them.
LEMMA GreatestFacts ==
  ASSUME NEW T \in SUBSET Nat, T # {}, NEW n \in Nat, \A t \in T : t <= n
  PROVE  Greatest(T) \in T /\ \A y \in T : y <= Greatest(T)
  BY GreatestNat DEF Greatest

\* The same for the smallest.
LEMMA LeastFacts ==
  ASSUME NEW T \in SUBSET Nat, T # {}
  PROVE  Least(T) \in T /\ \A y \in T : Least(T) <= y
  BY LeastNat DEF Least

\* Sums and differences of aligned numbers are aligned.
LEMMA AlignedSum ==
  ASSUME NEW a \in Int, NEW b \in Int, Aligned(a), Aligned(b)
  PROVE  Aligned(a + b) /\ Aligned(a - b) 
  BY DEF Aligned, kHeapAlign

\* Rounding up.
LEMMA AlignUpFacts ==
  ASSUME NEW n \in Nat
  PROVE  /\ AlignUp(n) \in Nat /\ Aligned(AlignUp(n)) /\ AlignUp(n) >= n
         /\ Aligned(n) => AlignUp(n) = n
  BY DEF AlignUp, Aligned, kHeapAlign

\* What is aligned is a multiple of the size of a cookie, cookie or not.
LEMMA AlignedWord ==
  ASSUME NEW a \in Int, Aligned(a)
  PROVE  a % kCookieSize = 0 /\ (a + kCookieSize) % kCookieSize = 0
  BY DEF Aligned, kHeapAlign, kCookieSize

\* Multiples of the size of a cookie.
LEMMA WordSum ==
  ASSUME NEW a \in Int, NEW b \in Int, NEW c \in Int,
         a % kCookieSize = 0, b % kCookieSize = 0, c % kCookieSize = 0
  PROVE  (a + (b - c)) % kCookieSize = 0
  BY DEF kCookieSize

\* The heap's ends are aligned.
LEMMA HeapEnds ==
  /\ HeapBase \in Nat /\ HeapBase > 0 /\ HeapEnd \in Nat /\ HeapSize \in Nat
  /\ HeapBase < HeapEnd /\ HeapEnd = HeapBase + HeapSize
  /\ Aligned(HeapBase) /\ Aligned(HeapSize) /\ Aligned(HeapEnd)
  BY HeapAssumption, AlignedSum DEF HeapEnd, Aligned
-----------------------------------------------------------------------------
(* The free list.                                                          *)

\* A free list as the code keeps it: aligned extents inside the heap, none empty,
\* and no two of them touching.
FreeList(f) ==
  /\ f \in [DOMAIN f -> Nat]
  /\ \A s \in DOMAIN f : /\ s \in Nat /\ Aligned(s) /\ HeapBase <= s
                         /\ f[s] \in Nat /\ f[s] > 0 /\ Aligned(f[s])
                         /\ s + f[s] <= HeapEnd
  /\ \A s, u \in DOMAIN f : s # u => s + f[s] < u \/ u + f[u] < s

\* Byte a is in a free extent.
FreeAt(f, a) == \E s \in DOMAIN f : s <= a /\ a < s + f[s]

\* The byte where a free extent starts is free, and belongs to no other one.
LEMMA ExtentFree ==
  ASSUME NEW f, FreeList(f), NEW s \in DOMAIN f
  PROVE  /\ FreeAt(f, s)
         /\ \A a \in Nat : s <= a /\ a < s + f[s] => FreeAt(f, a)
  BY DEF FreeList, FreeAt

\* List f with extents D replaced by one from lo to hi.
Replaced(f, D, lo, hi) ==
  [x \in (DOMAIN f \ D) \cup {lo} |-> IF x = lo THEN hi - lo ELSE f[x]]

\* Extents D are replaced by one from lo to hi that keeps away from the others.
LEMMA ReplaceExtents ==
  ASSUME NEW f, FreeList(f), NEW D, NEW lo \in Nat, NEW hi \in Nat,
         Aligned(lo), Aligned(hi), HeapBase <= lo, lo < hi, hi <= HeapEnd,
         \A x \in DOMAIN f \ D : x + f[x] < lo \/ hi < x
  PROVE  /\ FreeList(Replaced(f, D, lo, hi))
         /\ \A a \in Nat : FreeAt(Replaced(f, D, lo, hi), a) <=>
              \/ lo <= a /\ a < hi
              \/ \E x \in DOMAIN f \ D : x <= a /\ a < x + f[x]
<1> DEFINE S == (DOMAIN f \ D) \cup {lo}
           g == Replaced(f, D, lo, hi)
<1>1. lo \notin DOMAIN f \ D
  BY DEF FreeList
<1>2. hi - lo \in Nat /\ hi - lo > 0 /\ Aligned(hi - lo) /\ lo + (hi - lo) = hi
  BY AlignedSum
<1>3. DOMAIN g = S /\ g[lo] = hi - lo /\ \A x \in DOMAIN f \ D : g[x] = f[x]
  BY <1>1 DEF Replaced
<1>4. g \in [S -> Nat]
  BY <1>2 DEF FreeList, Replaced
<1> HIDE DEF g
<1>5. \A s \in S : /\ s \in Nat /\ Aligned(s) /\ HeapBase <= s
                   /\ g[s] \in Nat /\ g[s] > 0 /\ Aligned(g[s])
                   /\ s + g[s] <= HeapEnd
  BY <1>2, <1>3 DEF FreeList
<1>6. ASSUME NEW s \in S, NEW u \in S, s # u
      PROVE  s + g[s] < u \/ u + g[u] < s
  <2>1. CASE s = lo
    BY <2>1, <1>2, <1>3, <1>6 DEF FreeList
  <2>2. CASE u = lo
    BY <2>2, <1>2, <1>3, <1>6 DEF FreeList
  <2>3. CASE s # lo /\ u # lo
    BY <2>3, <1>3, <1>6 DEF FreeList
  <2>. QED BY <2>1, <2>2, <2>3
<1>7. FreeList(g)
  BY <1>3, <1>4, <1>5, <1>6 DEF FreeList
<1>8. ASSUME NEW a \in Nat
      PROVE  FreeAt(g, a) <=> \/ lo <= a /\ a < hi
                              \/ \E x \in DOMAIN f \ D : x <= a /\ a < x + f[x]
  BY <1>2, <1>3 DEF FreeAt
<1>. QED BY <1>7, <1>8 DEF g

\* Extent s leaves the list.
LEMMA DropExtent ==
  ASSUME NEW f, FreeList(f), NEW s \in DOMAIN f
  PROVE  /\ FreeList(Drop(f, s))
         /\ \A a \in Nat : FreeAt(Drop(f, s), a) <=> FreeAt(f, a) /\ ~(s <= a /\ a < s + f[s])
<1> DEFINE g == Drop(f, s)
<1>1. DOMAIN g = DOMAIN f \ {s} /\ \A x \in DOMAIN f \ {s} : g[x] = f[x]
  BY DEF Drop
<1>2. g \in [DOMAIN f \ {s} -> Nat]
  BY DEF FreeList, Drop
<1> HIDE DEF g
<1>3. FreeList(g)
  BY <1>1, <1>2 DEF FreeList
<1>4. ASSUME NEW a \in Nat
      PROVE  FreeAt(g, a) <=> FreeAt(f, a) /\ ~(s <= a /\ a < s + f[s])
  BY <1>1 DEF FreeAt, FreeList
<1>. QED BY <1>3, <1>4 DEF g

\* The front of extent s is cut off, or all of it.
LEMMA CutFront ==
  ASSUME NEW f, FreeList(f), NEW s \in DOMAIN f, NEW n \in Nat, n > 0, Aligned(n), n <= f[s]
  PROVE  LET g == NonEmpty(Put(Drop(f, s), s + n, f[s] - n))
         IN  /\ FreeList(g)
             /\ \A a \in Nat : FreeAt(g, a) <=> FreeAt(f, a) /\ ~(s <= a /\ a < s + n)
<1> DEFINE h == Put(Drop(f, s), s + n, f[s] - n)
           lo == s + n
           hi == s + f[s]
           k  == Replaced(f, {s}, lo, hi)
<1>1. /\ s \in Nat /\ f[s] \in Nat /\ Aligned(s) /\ Aligned(f[s]) /\ HeapBase <= s
      /\ s + f[s] <= HeapEnd
  BY DEF FreeList
<1>2. \A x \in DOMAIN f \ {s} : x \in Nat /\ f[x] \in Nat /\ f[x] > 0
                                /\ (x + f[x] < s \/ s + f[s] < x)
  BY DEF FreeList
<1>3. lo \notin DOMAIN f \ {s}
  BY <1>1, <1>2
<1>4. h = k
  BY <1>1, <1>3 DEF Put, Drop, Replaced
<1>5. CASE n < f[s]
  <2>1. NonEmpty(h) = k
    BY <1>1, <1>2, <1>3, <1>4, <1>5 DEF NonEmpty, Replaced
  <2>2. lo \in Nat /\ hi \in Nat /\ Aligned(lo) /\ Aligned(hi) /\ HeapBase <= lo /\ lo < hi
        /\ hi <= HeapEnd
    <3>1. Aligned(lo) /\ Aligned(hi)
      BY <1>1 DEF Aligned, kHeapAlign
    <3>2. HeapBase \in Nat /\ HeapEnd \in Nat
      BY HeapEnds
    <3>3. lo \in Nat /\ hi \in Nat /\ HeapBase <= lo /\ lo < hi /\ hi <= HeapEnd
      BY <1>1, <1>5, <3>2
    <3>. QED BY <3>1, <3>3
  <2>3. \A x \in DOMAIN f \ {s} : x + f[x] < lo \/ hi < x
    BY <1>1, <1>2
  <2> HIDE DEF lo, hi, h
  <2>4. FreeList(k) /\ \A a \in Nat : FreeAt(k, a) <=>
                         \/ lo <= a /\ a < hi
                         \/ \E x \in DOMAIN f \ {s} : x <= a /\ a < x + f[x]
    BY <2>2, <2>3, ReplaceExtents
  <2> HIDE DEF k
  <2>5. ASSUME NEW a \in Nat
        PROVE  FreeAt(k, a) <=> FreeAt(f, a) /\ ~(s <= a /\ a < s + n)
    BY <1>1, <1>2, <1>5, <2>4 DEF FreeAt, lo, hi
  <2>. QED BY <2>1, <2>4, <2>5 DEF h
<1>6. CASE n = f[s]
  <2>1. NonEmpty(h) = Drop(f, s)
    <3>1. k[lo] = 0 /\ \A x \in DOMAIN f \ {s} : k[x] = f[x]
      BY <1>1, <1>3, <1>6 DEF Replaced
    <3>2. {y \in DOMAIN k : k[y] > 0} = DOMAIN f \ {s}
      BY <1>2, <1>3, <3>1 DEF Replaced
    <3> HIDE DEF h, k
    <3>3. NonEmpty(k) = [x \in DOMAIN f \ {s} |-> k[x]]
      BY <3>2 DEF NonEmpty
    <3>. QED BY <1>4, <3>1, <3>3 DEF Drop
  <2>. QED BY <1>6, <2>1, DropExtent DEF h
<1>. QED BY <1>1, <1>5, <1>6

\* HeapAlloc's cut: the extent's start is aligned, so nothing stays in front.
LEMMA CarveFacts ==
  ASSUME NEW f, FreeList(f), NEW s \in DOMAIN f, NEW n \in Nat, n > 0, Aligned(n), Fits(f, s, n)
  PROVE  /\ AlignUp(s) = s /\ n <= f[s]
         /\ FreeList(Carve(f, s, n))
         /\ \A a \in Nat : FreeAt(Carve(f, s, n), a) <=> FreeAt(f, a) /\ ~(s <= a /\ a < s + n)
<1>1. s \in Nat /\ f[s] \in Nat /\ f[s] > 0 /\ AlignUp(s) = s
  BY AlignUpFacts DEF FreeList
<1>2. n <= f[s]
  BY <1>1 DEF Fits
<1> DEFINE h0 == Put(Put(Drop(f, s), s, 0), s + n, s + f[s] - (s + n))
           h  == Put(Drop(f, s), s + n, f[s] - n)
<1>3. Carve(f, s, n) = NonEmpty(h0)
  BY <1>1 DEF Carve
<1>4. NonEmpty(h0) = NonEmpty(h)
  <2>1. DOMAIN h0 = DOMAIN h \cup {s} /\ h0[s] = 0 /\ \A x \in DOMAIN h : x # s => h0[x] = h[x]
    BY <1>1 DEF Put, Drop
  <2>2. s \notin DOMAIN h
    BY <1>1 DEF Put, Drop
  <2> HIDE DEF h0, h
  <2>3. {y \in DOMAIN h0 : h0[y] > 0} = {y \in DOMAIN h : h[y] > 0}
    BY <2>1, <2>2
  <2>. QED BY <2>1, <2>2, <2>3 DEF NonEmpty
<1>. QED BY <1>1, <1>2, <1>3, <1>4, CutFront

\* The preceding extent is merged exactly if it ends where the released one starts.
LEMMA MergePrevFacts ==
  ASSUME NEW f, FreeList(f), NEW start \in Nat
  PROVE  /\ MergePrev(f, start) => LET p == Greatest(Preceding(f, start))
                                   IN  p \in DOMAIN f /\ p + f[p] = start
         /\ ~MergePrev(f, start) => \A s \in DOMAIN f : s + f[s] # start
<1> DEFINE T == Preceding(f, start)
<1>1. T \in SUBSET Nat /\ \A t \in T : t <= start /\ t \in DOMAIN f
  BY DEF FreeList, Preceding
<1>2. T # {} => Greatest(T) \in T /\ \A y \in T : y <= Greatest(T)
  BY <1>1, GreatestFacts
<1>3. MergePrev(f, start) => Greatest(T) \in DOMAIN f /\ Greatest(T) + f[Greatest(T)] = start
  BY <1>1, <1>2 DEF MergePrev
<1>4. ASSUME NEW s \in DOMAIN f, s + f[s] = start PROVE MergePrev(f, start)
  <2>1. s \in T
    BY <1>4 DEF Preceding, FreeList
  <2>2. Greatest(T) \in T /\ s <= Greatest(T)
    BY <1>2, <2>1
  <2>3. Greatest(T) = s
    BY <1>1, <1>4, <2>2 DEF FreeList
  <2>. QED BY <1>4, <2>1, <2>3 DEF MergePrev
<1>. QED BY <1>3, <1>4

\* A released extent none of whose bytes is free lies clear of the free extents.
LEMMA ReleasedClear ==
  ASSUME NEW f, FreeList(f), NEW start \in Nat, NEW size \in Nat, size > 0,
         \A a \in Nat : start <= a /\ a < start + size => ~FreeAt(f, a),
         NEW x \in DOMAIN f
  PROVE  x + f[x] <= start \/ start + size <= x
<1>1. x \in Nat /\ f[x] \in Nat /\ f[x] > 0
  BY DEF FreeList
<1>2. CASE start <= x /\ x < start + size
  <2>1. FreeAt(f, x)
    BY <1>1 DEF FreeAt
  <2>. QED BY <1>1, <1>2, <2>1
<1>3. CASE x < start /\ start < x + f[x]
  <2>1. FreeAt(f, start)
    BY <1>1, <1>3 DEF FreeAt
  <2>. QED BY <2>1
<1>. QED BY <1>1, <1>2, <1>3

\* Releasing an extent adds its bytes, and no others, to the free ones, and leaves
\* no two free extents touching.
LEMMA CoalesceFacts ==
  ASSUME NEW f, FreeList(f), NEW start \in Nat, NEW size \in Nat, size > 0,
         Aligned(start), Aligned(size), HeapBase <= start, start + size <= HeapEnd,
         \A a \in Nat : start <= a /\ a < start + size => ~FreeAt(f, a)
  PROVE  /\ FreeList(CoalesceAround(f, start, size))
         /\ \A a \in Nat : FreeAt(CoalesceAround(f, start, size), a) <=>
              FreeAt(f, a) \/ (start <= a /\ a < start + size)
<1> DEFINE p      == Greatest(Preceding(f, start))
           merged == MergePrev(f, start)
           start1 == IF merged THEN p ELSE start
           f1     == IF merged THEN Drop(f, p) ELSE f
           end    == start + size
           next   == end \in DOMAIN f1
           D1     == IF merged THEN {p} ELSE {}
           D      == IF next THEN D1 \cup {end} ELSE D1
           hi     == IF next THEN end + f[end] ELSE end
<1>1. \A x \in DOMAIN f : x \in Nat /\ f[x] \in Nat /\ f[x] > 0 /\ Aligned(x) /\ Aligned(f[x])
                          /\ HeapBase <= x /\ x + f[x] <= HeapEnd
  BY DEF FreeList
<1>2. \A x \in DOMAIN f : x + f[x] <= start \/ end <= x
  BY ReleasedClear
<1>3. /\ merged => p \in DOMAIN f /\ p + f[p] = start
      /\ ~merged => \A x \in DOMAIN f : x + f[x] # start
  BY MergePrevFacts
<1>4. DOMAIN f1 = DOMAIN f \ D1 /\ \A x \in DOMAIN f \ D1 : f1[x] = f[x]
  BY DEF Drop
<1>5. start1 \in Nat /\ start1 <= start /\ Aligned(start1) /\ HeapBase <= start1
  BY <1>1, <1>3
<1>6. end \in Nat /\ Aligned(end) /\ start < end /\ end <= HeapEnd
  BY DEF Aligned, kHeapAlign
<1>7. next => end \in DOMAIN f /\ f1[end] = f[end]
  BY <1>4
<1>8. hi \in Nat /\ Aligned(hi) /\ end <= hi /\ hi <= HeapEnd
  BY <1>1, <1>6, <1>7 DEF Aligned, kHeapAlign
<1>9. \A x \in DOMAIN f \ D1 : x + f[x] < start1 \/ end <= x
  BY <1>1, <1>2, <1>3 DEF FreeList
<1>10. MergeNext(f1, start1, end) <=> next
  <2> DEFINE T == Following(f1, start1)
  <2>1. T \in SUBSET Nat /\ \A t \in T : t \in DOMAIN f \ D1 /\ start1 <= t
    BY <1>1, <1>4 DEF Following
  <2>2. T # {} => Least(T) \in T /\ \A y \in T : Least(T) <= y
    BY <2>1, LeastFacts
  <2>3. ASSUME MergeNext(f1, start1, end) PROVE next
    BY <2>1, <2>2, <2>3, <1>4 DEF MergeNext
  <2>4. ASSUME next PROVE MergeNext(f1, start1, end)
    <3>1. end \in T
      BY <2>4, <1>5, <1>6 DEF Following
    <3>2. Least(T) \in T /\ Least(T) <= end
      BY <2>2, <3>1
    <3>3. end <= Least(T)
      BY <1>1, <1>5, <1>9, <2>1, <3>2
    <3>4. Least(T) = end
      BY <1>6, <2>1, <3>2, <3>3
    <3>. QED BY <3>1, <3>4 DEF MergeNext
  <2>. QED BY <2>3, <2>4
<1>11. \A x \in DOMAIN f \ D : x + f[x] < start1 \/ hi < x
  <2>1. CASE next
    BY <2>1, <1>1, <1>7, <1>9 DEF FreeList
  <2>2. CASE ~next
    <3>1. \A x \in DOMAIN f \ D1 : x # end
      BY <2>2, <1>4
    <3>. QED BY <2>2, <1>1, <1>6, <1>9, <3>1
  <2>. QED BY <2>1, <2>2
<1>12. CoalesceAround(f, start, size) = Replaced(f, D, start1, hi)
  <2>1. CoalesceAround(f, start, size) =
          IF next THEN Put(Drop(f1, end), start1, end - start1 + f1[end])
                  ELSE Put(f1, start1, end - start1)
    BY <1>10 DEF CoalesceAround
  <2> HIDE DEF f1, start1, end, D1, merged, p
  <2>2. CASE next
    <3>1. end - start1 + f1[end] = hi - start1
      BY <2>2, <1>1, <1>5, <1>6, <1>7
    <3>2. Put(Drop(f1, end), start1, hi - start1) = Replaced(f, D, start1, hi)
      <4>1. DOMAIN f \ D = DOMAIN f1 \ {end}
        BY <2>2, <1>4
      <4>2. \A x \in DOMAIN f1 \ {end} : f1[x] = f[x]
        BY <1>4
      <4> HIDE DEF D, hi
      <4>. QED BY <4>1, <4>2 DEF Put, Drop, Replaced
    <3>. QED BY <2>1, <2>2, <3>1, <3>2
  <2>3. CASE ~next
    <3>1. hi = end /\ DOMAIN f \ D = DOMAIN f1
      BY <2>3, <1>4
    <3>2. \A x \in DOMAIN f1 : f1[x] = f[x]
      BY <1>4
    <3> HIDE DEF D, hi, next
    <3>3. Put(f1, start1, end - start1) = Replaced(f, D, start1, hi)
      BY <3>1, <3>2 DEF Put, Replaced
    <3>. QED BY <2>1, <2>3, <3>3
  <2>. QED BY <2>2, <2>3
<1>13. ASSUME NEW a \in Nat
       PROVE  \/ start1 <= a /\ a < hi
              \/ \E x \in DOMAIN f \ D : x <= a /\ a < x + f[x]
              <=> FreeAt(f, a) \/ (start <= a /\ a < end)
  <2>1. CASE merged /\ next
    BY <2>1, <1>1, <1>3, <1>6, <1>7 DEF FreeAt
  <2>2. CASE merged /\ ~next
    BY <2>2, <1>1, <1>3, <1>6 DEF FreeAt
  <2>3. CASE ~merged /\ next
    BY <2>3, <1>1, <1>6, <1>7 DEF FreeAt
  <2>4. CASE ~merged /\ ~next
    BY <2>4, <1>1, <1>6 DEF FreeAt
  <2>. QED BY <2>1, <2>2, <2>3, <2>4
<1> HIDE DEF start1, hi, D
<1>14. /\ FreeList(Replaced(f, D, start1, hi))
       /\ \A a \in Nat : FreeAt(Replaced(f, D, start1, hi), a) <=>
              \/ start1 <= a /\ a < hi
              \/ \E x \in DOMAIN f \ D : x <= a /\ a < x + f[x]
  <2>1. start1 < hi
    BY <1>5, <1>6, <1>8
  <2>. QED BY <2>1, <1>5, <1>8, <1>11, ReplaceExtents
<1>. QED BY <1>12, <1>13, <1>14

-----------------------------------------------------------------------------
(* Blocks and free extents together.                                       *)

\* A table of blocks as the code keeps it: with their cookies they are aligned
\* stretches of the heap that do not overlap.
BlockList(b) ==
  /\ b \in [DOMAIN b -> Nat]
  /\ \A p \in DOMAIN b : /\ p \in Nat /\ Aligned(p - kCookieSize) /\ HeapBase <= p - kCookieSize
                         /\ b[p] \in Nat /\ Aligned(b[p])
                         /\ p + b[p] + kCookieSize <= HeapEnd
  /\ \A p, q \in DOMAIN b : p # q => \/ p + b[p] + kCookieSize <= q - kCookieSize
                                     \/ q + b[q] + kCookieSize <= p - kCookieSize

\* Byte a is in a block or in one of its cookies.
BlockAt(b, a) == \E p \in DOMAIN b : p - kCookieSize <= a /\ a < p + b[p] + kCookieSize

\* Each byte of the heap is free or in a block, and not both.
Partition(f, b) ==
  \A a \in Nat : HeapBase <= a /\ a < HeapEnd => (FreeAt(f, a) <=> ~BlockAt(b, a))

Layout(f, b) == FreeList(f) /\ BlockList(b) /\ Partition(f, b)

\* [lo, hi) does not touch block q, and no block but those in S.
Clear1(b, q, lo, hi) == hi <= q - kCookieSize \/ q + b[q] + kCookieSize <= lo

ClearOf(b, S, lo, hi) == \A q \in DOMAIN b \ S : Clear1(b, q, lo, hi)

\* A stretch all of whose bytes are free touches no block.
LEMMA FreeIsClear ==
  ASSUME NEW f, NEW b, Layout(f, b), NEW lo \in Nat, NEW hi \in Nat, lo < hi,
         HeapBase <= lo, hi <= HeapEnd,
         \A a \in Nat : lo <= a /\ a < hi => FreeAt(f, a)
  PROVE  ClearOf(b, {}, lo, hi)
<1> SUFFICES ASSUME NEW q \in DOMAIN b
             PROVE  hi <= q - kCookieSize \/ q + b[q] + kCookieSize <= lo
  BY DEF ClearOf, Clear1
<1>0. HeapBase \in Nat /\ HeapEnd \in Nat
  BY HeapEnds
<1>1. q \in Nat /\ b[q] \in Nat /\ HeapBase <= q - kCookieSize /\ q + b[q] + kCookieSize <= HeapEnd
  BY DEF Layout, BlockList
<1>2. \A a \in Nat : lo <= a /\ a < hi => ~BlockAt(b, a)
  BY <1>0 DEF Layout, Partition
<1>3. CASE lo <= q - kCookieSize /\ q - kCookieSize < hi
  <2>1. q - kCookieSize \in Nat
    BY <1>0, <1>1 DEF kCookieSize
  <2>2. BlockAt(b, q - kCookieSize)
    BY <1>1 DEF BlockAt, kCookieSize
  <2>. QED BY <1>2, <1>3, <2>1, <2>2
<1>4. CASE q - kCookieSize < lo /\ lo < q + b[q] + kCookieSize
  <2>1. BlockAt(b, lo)
    BY <1>1, <1>4 DEF BlockAt, kCookieSize
  <2>. QED BY <1>2, <2>1
<1>. QED BY <1>1, <1>3, <1>4 DEF kCookieSize

\* A stretch that touches no block is free, byte by byte.
LEMMA ClearIsFree ==
  ASSUME NEW f, NEW b, Layout(f, b), NEW lo \in Nat, NEW hi \in Nat,
         HeapBase <= lo, hi <= HeapEnd, ClearOf(b, {}, lo, hi)
  PROVE  \A a \in Nat : lo <= a /\ a < hi => FreeAt(f, a)
<1> SUFFICES ASSUME NEW a \in Nat, lo <= a, a < hi PROVE ~BlockAt(b, a)
  BY HeapEnds DEF Layout, Partition
<1>1. \A q \in DOMAIN b : q \in Nat /\ b[q] \in Nat
  BY DEF Layout, BlockList
<1>. QED BY <1>1 DEF BlockAt, ClearOf, Clear1, kCookieSize

\* The free extent a block is cut from is clear of all blocks.
LEMMA ExtentClear ==
  ASSUME NEW f, NEW b, Layout(f, b), NEW s \in DOMAIN f
  PROVE  ClearOf(b, {}, s, s + f[s])
<1>1. s \in Nat /\ f[s] \in Nat /\ f[s] > 0 /\ HeapBase <= s /\ s + f[s] <= HeapEnd
  BY DEF Layout, FreeList
<1>2. \A a \in Nat : s <= a /\ a < s + f[s] => FreeAt(f, a)
  BY ExtentFree DEF Layout
<1>. QED BY <1>1, <1>2, FreeIsClear

\* A block enters the table, or changes its size, clear of the others.
LEMMA PutBlock ==
  ASSUME NEW b, BlockList(b), NEW p \in Nat, NEW n \in Nat,
         Aligned(p - kCookieSize), Aligned(n), HeapBase <= p - kCookieSize,
         p + n + kCookieSize <= HeapEnd,
         ClearOf(b, {p}, p - kCookieSize, p + n + kCookieSize)
  PROVE  /\ BlockList(Put(b, p, n))
         /\ \A a \in Nat : BlockAt(Put(b, p, n), a) <=>
              \/ p - kCookieSize <= a /\ a < p + n + kCookieSize
              \/ \E q \in DOMAIN b \ {p} : q - kCookieSize <= a /\ a < q + b[q] + kCookieSize
<1> DEFINE c == Put(b, p, n)
<1>1. DOMAIN c = DOMAIN b \cup {p} /\ c[p] = n /\ \A q \in DOMAIN b \ {p} : c[q] = b[q]
  BY DEF Put
<1>2. c \in [DOMAIN b \cup {p} -> Nat]
  BY DEF Put, BlockList
<1> HIDE DEF c
<1>3. \A q \in DOMAIN c : /\ q \in Nat /\ Aligned(q - kCookieSize) /\ HeapBase <= q - kCookieSize
                          /\ c[q] \in Nat /\ Aligned(c[q])
                          /\ q + c[q] + kCookieSize <= HeapEnd
  BY <1>1 DEF BlockList
<1>4. ASSUME NEW q \in DOMAIN c, NEW r \in DOMAIN c, q # r
      PROVE  \/ q + c[q] + kCookieSize <= r - kCookieSize
             \/ r + c[r] + kCookieSize <= q - kCookieSize
  <2>1. CASE q = p
    BY <1>1, <1>4, <2>1 DEF ClearOf, Clear1
  <2>2. CASE r = p
    BY <1>1, <1>4, <2>2 DEF ClearOf, Clear1
  <2>3. CASE q # p /\ r # p
    BY <1>1, <1>4, <2>3 DEF BlockList
  <2>. QED BY <2>1, <2>2, <2>3
<1>5. BlockList(c)
  BY <1>1, <1>2, <1>3, <1>4 DEF BlockList
<1>6. \A a \in Nat : BlockAt(c, a) <=>
              \/ p - kCookieSize <= a /\ a < p + n + kCookieSize
              \/ \E q \in DOMAIN b \ {p} : q - kCookieSize <= a /\ a < q + b[q] + kCookieSize
  BY <1>1 DEF BlockAt
<1>. QED BY <1>5, <1>6 DEF c

\* EXCEPT on a block of the table is Put.
LEMMA ExceptIsPut ==
  ASSUME NEW b, BlockList(b), NEW p \in DOMAIN b, NEW n
  PROVE  [b EXCEPT ![p] = n] = Put(b, p, n)
  BY DEF Put, BlockList

\* A block leaves the table.
LEMMA DropBlock ==
  ASSUME NEW b, BlockList(b), NEW p \in DOMAIN b
  PROVE  /\ BlockList(Drop(b, p))
         /\ \A a \in Nat : BlockAt(Drop(b, p), a) <=>
              BlockAt(b, a) /\ ~(p - kCookieSize <= a /\ a < p + b[p] + kCookieSize)
<1> DEFINE c == Drop(b, p)
<1>1. DOMAIN c = DOMAIN b \ {p} /\ \A q \in DOMAIN b \ {p} : c[q] = b[q]
  BY DEF Drop
<1>2. c \in [DOMAIN b \ {p} -> Nat]
  BY DEF Drop, BlockList
<1> HIDE DEF c
<1>3. BlockList(c)
  BY <1>1, <1>2 DEF BlockList
<1>4. ASSUME NEW a \in Nat
      PROVE  BlockAt(c, a) <=>
               BlockAt(b, a) /\ ~(p - kCookieSize <= a /\ a < p + b[p] + kCookieSize)
  BY <1>1 DEF BlockAt, BlockList, kCookieSize
<1>. QED BY <1>3, <1>4 DEF c

\* Bounds of a block and of what surrounds it.
LEMMA BlockFacts ==
  ASSUME NEW b, BlockList(b), NEW p \in DOMAIN b
  PROVE  /\ p \in Nat /\ b[p] \in Nat /\ Aligned(p - kCookieSize) /\ Aligned(b[p])
         /\ p - kCookieSize \in Nat /\ HeapBase <= p - kCookieSize
         /\ p + b[p] + kCookieSize <= HeapEnd
         /\ Total(b[p]) \in Nat /\ Total(b[p]) > 0 /\ Aligned(Total(b[p]))
         /\ p - kCookieSize + Total(b[p]) = p + b[p] + kCookieSize
         /\ ClearOf(b, {p}, p - kCookieSize, p + b[p] + kCookieSize)
<1>1. /\ p \in Nat /\ b[p] \in Nat /\ Aligned(p - kCookieSize) /\ Aligned(b[p])
      /\ HeapBase <= p - kCookieSize /\ p + b[p] + kCookieSize <= HeapEnd
  BY DEF BlockList
<1>2. p - kCookieSize \in Nat
  BY <1>1, HeapEnds DEF kCookieSize
<1>3. Total(b[p]) \in Nat /\ Total(b[p]) > 0 /\ p - kCookieSize + Total(b[p]) = p + b[p] + kCookieSize
  BY <1>1 DEF Total, kCookieSize
<1>4. Aligned(Total(b[p]))
  BY <1>1 DEF Total, kCookieSize, Aligned, kHeapAlign
<1>5. ClearOf(b, {p}, p - kCookieSize, p + b[p] + kCookieSize)
  BY DEF BlockList, ClearOf, Clear1
<1>. QED BY <1>1, <1>2, <1>3, <1>4, <1>5

\* HeapAlloc takes a block out of a free extent.
LEMMA GrantLayout ==
  ASSUME NEW f, NEW b, Layout(f, b), NEW s \in DOMAIN f, NEW n \in Nat, Aligned(n),
         Fits(f, s, Total(n))
  PROVE  /\ AlignUp(s) = s /\ s \in Nat /\ HeapBase <= s /\ s + Total(n) <= HeapEnd /\ Aligned(s)
         /\ s + kCookieSize \notin DOMAIN b
         /\ ClearOf(b, {}, s, s + Total(n))
         /\ Layout(Carve(f, s, Total(n)), Put(b, s + kCookieSize, n))
<1> DEFINE t == Total(n)
           p == s + kCookieSize
<1>1. t \in Nat /\ t > 0 /\ Aligned(t)
  BY DEF Total, kCookieSize, Aligned, kHeapAlign
<1>2. /\ s \in Nat /\ Aligned(s) /\ HeapBase <= s /\ s + f[s] <= HeapEnd /\ f[s] \in Nat
  BY DEF Layout, FreeList
<1> HIDE DEF t
<1>3. /\ AlignUp(s) = s /\ t <= f[s] /\ FreeList(Carve(f, s, t))
      /\ \A a \in Nat : FreeAt(Carve(f, s, t), a) <=> FreeAt(f, a) /\ ~(s <= a /\ a < s + t)
  <2>1. Fits(f, s, t) /\ FreeList(f)
    BY DEF t, Layout
  <2>. QED BY <1>1, <2>1, CarveFacts
<1>4. ClearOf(b, {}, s, s + f[s])
  BY ExtentClear
<1>5. \A q \in DOMAIN b : q \in Nat /\ b[q] \in Nat
  BY DEF Layout, BlockList
<1>6. ClearOf(b, {}, s, s + t)
  BY <1>1, <1>2, <1>3, <1>4, <1>5 DEF ClearOf, Clear1, kCookieSize
<1>7. p \notin DOMAIN b
  BY <1>1, <1>2, <1>5, <1>6 DEF ClearOf, Clear1, kCookieSize
<1>8. /\ p \in Nat /\ p - kCookieSize = s /\ p + n + kCookieSize = s + t
  BY <1>2 DEF t, Total, kCookieSize
<1> HIDE DEF p
<1>9. ClearOf(b, {p}, p - kCookieSize, p + n + kCookieSize)
  BY <1>6, <1>8 DEF ClearOf, Clear1
<1>10. s + t <= HeapEnd
  BY <1>1, <1>2, <1>3, HeapEnds
<1>11. /\ BlockList(Put(b, p, n))
       /\ \A a \in Nat : BlockAt(Put(b, p, n), a) <=>
            \/ s <= a /\ a < s + t
            \/ \E q \in DOMAIN b \ {p} : q - kCookieSize <= a /\ a < q + b[q] + kCookieSize
  <2>1. BlockList(b)
    BY DEF Layout
  <2>. QED BY <2>1, <1>2, <1>8, <1>9, <1>10, PutBlock
<1>12. \A a \in Nat : BlockAt(Put(b, p, n), a) <=> (s <= a /\ a < s + t) \/ BlockAt(b, a)
  BY <1>7, <1>11 DEF BlockAt
<1>13. Partition(Carve(f, s, t), Put(b, p, n))
  BY <1>3, <1>12 DEF Partition, Layout
<1>14. Layout(Carve(f, s, t), Put(b, p, n))
  BY <1>3, <1>11, <1>13 DEF Layout
<1>. QED BY <1>2, <1>3, <1>6, <1>7, <1>10, <1>14 DEF t, p

\* HeapFree gives a block back.
LEMMA ReleaseLayout ==
  ASSUME NEW f, NEW b, Layout(f, b), NEW p \in DOMAIN b
  PROVE  Layout(CoalesceAround(f, p - kCookieSize, Total(b[p])), Drop(b, p))
<1> DEFINE lo == p - kCookieSize
           n == Total(b[p])
           g == CoalesceAround(f, lo, n)
<1>1. FreeList(f) /\ BlockList(b) /\ Partition(f, b)
  BY DEF Layout
<1>2. /\ lo \in Nat /\ n \in Nat /\ n > 0 /\ Aligned(lo) /\ Aligned(n)
      /\ HeapBase <= lo /\ lo + n <= HeapEnd /\ lo + n = p + b[p] + kCookieSize
  BY <1>1, BlockFacts
<1> HIDE DEF lo, n
<1>3. \A a \in Nat : lo <= a /\ a < lo + n => BlockAt(b, a)
  BY <1>2 DEF BlockAt, lo
<1>4. \A a \in Nat : lo <= a /\ a < lo + n => ~FreeAt(f, a)
  BY <1>1, <1>2, <1>3, HeapEnds DEF Partition
<1>5. /\ FreeList(g)
      /\ \A a \in Nat : FreeAt(g, a) <=> FreeAt(f, a) \/ (lo <= a /\ a < lo + n)
  BY <1>1, <1>2, <1>4, CoalesceFacts
<1>6. /\ BlockList(Drop(b, p))
      /\ \A a \in Nat : BlockAt(Drop(b, p), a) <=> BlockAt(b, a) /\ ~(lo <= a /\ a < lo + n)
  BY <1>1, <1>2, DropBlock DEF lo
<1> HIDE DEF g
<1>7. Partition(g, Drop(b, p))
  BY <1>1, <1>5, <1>6 DEF Partition
<1>8. Layout(g, Drop(b, p))
  BY <1>5, <1>6, <1>7 DEF Layout
<1>. QED BY <1>8 DEF g, lo, n

\* The tail of a block is given back.
LEMMA ShrinkLayout ==
  ASSUME NEW f, NEW b, Layout(f, b), NEW p \in DOMAIN b, NEW n \in Nat, Aligned(n), n < b[p]
  PROVE  Layout(CoalesceAround(f, p + n + kCookieSize, b[p] - n), Put(b, p, n))
<1> DEFINE lo == p + n + kCookieSize
           m == b[p] - n
           g == CoalesceAround(f, lo, m)
           c == Put(b, p, n)
<1>1. FreeList(f) /\ BlockList(b) /\ Partition(f, b)
  BY DEF Layout
<1>2. /\ p \in Nat /\ b[p] \in Nat /\ Aligned(p - kCookieSize) /\ Aligned(b[p])
      /\ HeapBase <= p - kCookieSize /\ p + b[p] + kCookieSize <= HeapEnd
      /\ ClearOf(b, {p}, p - kCookieSize, p + b[p] + kCookieSize)
  BY <1>1, BlockFacts
<1>3. lo \in Nat /\ m \in Nat /\ m > 0 /\ lo + m = p + b[p] + kCookieSize /\ HeapBase <= lo
  BY <1>2, HeapEnds DEF kCookieSize
<1>4. Aligned(lo) /\ Aligned(m)
  BY <1>2 DEF kCookieSize, Aligned, kHeapAlign
<1> HIDE DEF m
<1>5. \A a \in Nat : lo <= a /\ a < lo + m => BlockAt(b, a)
  BY <1>2, <1>3 DEF BlockAt, kCookieSize
<1>6. \A a \in Nat : lo <= a /\ a < lo + m => ~FreeAt(f, a)
  BY <1>1, <1>2, <1>3, <1>5, HeapEnds DEF Partition
<1>7. /\ FreeList(g)
      /\ \A a \in Nat : FreeAt(g, a) <=> FreeAt(f, a) \/ (lo <= a /\ a < lo + m)
  <2>1. lo + m <= HeapEnd
    BY <1>2, <1>3
  <2> HIDE DEF lo
  <2>. QED BY <1>1, <1>3, <1>4, <1>6, <2>1, CoalesceFacts
<1>8. \A q \in DOMAIN b : q \in Nat /\ b[q] \in Nat
  BY <1>1 DEF BlockList
<1>9. ClearOf(b, {p}, p - kCookieSize, p + n + kCookieSize) /\ p + n + kCookieSize <= HeapEnd
  BY <1>2, <1>8, HeapEnds DEF ClearOf, Clear1, kCookieSize
<1>10. /\ BlockList(c)
       /\ \A a \in Nat : BlockAt(c, a) <=>
            \/ p - kCookieSize <= a /\ a < p + n + kCookieSize
            \/ \E q \in DOMAIN b \ {p} : q - kCookieSize <= a /\ a < q + b[q] + kCookieSize
  BY <1>1, <1>2, <1>9, PutBlock
<1>11. \A a \in Nat : BlockAt(c, a) <=> BlockAt(b, a) /\ ~(lo <= a /\ a < lo + m)
  <2> TAKE a \in Nat
  <2>1. CASE lo <= a /\ a < lo + m
    <3>1. ~(p - kCookieSize <= a /\ a < p + n + kCookieSize)
      BY <1>2, <2>1 DEF kCookieSize
    <3>2. \A q \in DOMAIN b \ {p} : ~(q - kCookieSize <= a /\ a < q + b[q] + kCookieSize)
      BY <1>2, <1>3, <1>8, <2>1 DEF ClearOf, Clear1, kCookieSize
    <3>. QED BY <1>10, <2>1, <3>1, <3>2
  <2>2. CASE ~(lo <= a /\ a < lo + m)
    <3>1. p - kCookieSize <= a /\ a < p + n + kCookieSize
          <=> p - kCookieSize <= a /\ a < p + b[p] + kCookieSize
      BY <1>2, <1>3, <2>2 DEF kCookieSize
    <3>. QED BY <1>10, <2>2, <3>1 DEF BlockAt
  <2>. QED BY <2>1, <2>2
<1> HIDE DEF g, c
<1>12. Partition(g, c)
  BY <1>1, <1>7, <1>11 DEF Partition
<1>13. Layout(g, c)
  BY <1>7, <1>10, <1>12 DEF Layout
<1>. QED BY <1>13 DEF g, c, m

\* A block grows into the free extent behind it.
LEMMA GrowLayout ==
  ASSUME NEW f, NEW b, Layout(f, b), NEW p \in DOMAIN b, NEW n \in Nat, Aligned(n), n > b[p],
         NEW e \in DOMAIN f, e = p + b[p] + kCookieSize, f[e] >= n - b[p]
  PROVE  /\ Layout(NonEmpty(Put(Drop(f, e), e + (n - b[p]), f[e] - (n - b[p]))), Put(b, p, n))
         /\ ClearOf(b, {p}, p - kCookieSize, p + n + kCookieSize)
         /\ p + n + kCookieSize <= HeapEnd
<1> DEFINE m == n - b[p]
           g == NonEmpty(Put(Drop(f, e), e + m, f[e] - m))
           c == Put(b, p, n)
<1>1. FreeList(f) /\ BlockList(b) /\ Partition(f, b)
  BY DEF Layout
<1>2. /\ p \in Nat /\ b[p] \in Nat /\ Aligned(p - kCookieSize) /\ Aligned(b[p])
      /\ HeapBase <= p - kCookieSize /\ p + b[p] + kCookieSize <= HeapEnd
      /\ ClearOf(b, {p}, p - kCookieSize, p + b[p] + kCookieSize)
  BY <1>1, BlockFacts
<1>3. e \in Nat /\ f[e] \in Nat /\ e + f[e] <= HeapEnd
  BY <1>1 DEF FreeList
<1>4. m \in Nat /\ m > 0 /\ m <= f[e] /\ e + m = p + n + kCookieSize
  BY <1>2, <1>3 DEF kCookieSize
<1>5. Aligned(m)
  BY <1>2 DEF Aligned, kHeapAlign
<1> HIDE DEF m
<1>6. /\ FreeList(g)
      /\ \A a \in Nat : FreeAt(g, a) <=> FreeAt(f, a) /\ ~(e <= a /\ a < e + m)
  BY <1>1, <1>4, <1>5, CutFront
<1>7. ClearOf(b, {}, e, e + f[e])
  BY ExtentClear
<1>8. \A q \in DOMAIN b : q \in Nat /\ b[q] \in Nat
  BY <1>1 DEF BlockList
<1>9. p + n + kCookieSize <= HeapEnd
  BY <1>2, <1>3, <1>4, HeapEnds
<1>10. ClearOf(b, {p}, p - kCookieSize, p + n + kCookieSize)
  BY <1>2, <1>3, <1>4, <1>7, <1>8 DEF ClearOf, Clear1, kCookieSize
<1>11. /\ BlockList(c)
       /\ \A a \in Nat : BlockAt(c, a) <=>
            \/ p - kCookieSize <= a /\ a < p + n + kCookieSize
            \/ \E q \in DOMAIN b \ {p} : q - kCookieSize <= a /\ a < q + b[q] + kCookieSize
  BY <1>1, <1>2, <1>9, <1>10, PutBlock
<1>12. \A a \in Nat : BlockAt(c, a) <=> BlockAt(b, a) \/ (e <= a /\ a < e + m)
  <2> TAKE a \in Nat
  <2>1. p - kCookieSize <= a /\ a < p + n + kCookieSize
        <=> \/ p - kCookieSize <= a /\ a < p + b[p] + kCookieSize
            \/ e <= a /\ a < e + m
    BY <1>2, <1>3, <1>4 DEF kCookieSize
  <2>. QED BY <1>11, <2>1 DEF BlockAt
<1> HIDE DEF g, c
<1>13. Partition(g, c)
  BY <1>1, <1>6, <1>12 DEF Partition
<1>14. Layout(g, c)
  BY <1>6, <1>11, <1>13 DEF Layout
<1>. QED BY <1>9, <1>10, <1>14 DEF g, c, m

-----------------------------------------------------------------------------
(* Memory.                                                                 *)

\* The cookies of block p stand and the data the guest stored in it is there.
Intact(m, b, t, fl, p) ==
  /\ CookiesOK(m, b, p)
  /\ \A a \in Words(p, p + fl[p]) : m[a] = t[p]

\* Cookies and user area of a block are words of the heap.
LEMMA BlockWords ==
  ASSUME NEW b, BlockList(b), NEW p \in DOMAIN b, NEW k \in Nat, k <= b[p]
  PROVE  /\ p - kCookieSize \in HeapWords /\ p + b[p] \in HeapWords
         /\ Words(p, p + k) \subseteq HeapWords
         /\ p \in Nat /\ b[p] \in Nat
<1>1. /\ p \in Nat /\ b[p] \in Nat /\ Aligned(p - kCookieSize) /\ Aligned(b[p])
      /\ HeapBase <= p - kCookieSize /\ p + b[p] + kCookieSize <= HeapEnd
  BY BlockFacts
<1>2. (p - kCookieSize) % kCookieSize = 0 /\ (p + b[p]) % kCookieSize = 0
  BY <1>1 DEF Aligned, kHeapAlign, kCookieSize
<1>3. HeapBase \in Nat /\ HeapEnd \in Nat
  BY HeapEnds
<1>4. p - kCookieSize \in HeapWords /\ p + b[p] \in HeapWords
  BY <1>1, <1>2, <1>3 DEF HeapWords, Words, kCookieSize
<1>5. Words(p, p + k) \subseteq HeapWords
  BY <1>1, <1>3 DEF HeapWords, Words, kCookieSize
<1>. QED BY <1>1, <1>4, <1>5

\* A write into a stretch that is clear of a block leaves the block intact.
LEMMA IntactKept ==
  ASSUME NEW b, BlockList(b), NEW q \in DOMAIN b, NEW lo \in Nat, NEW hi \in Nat,
         Clear1(b, q, lo, hi), NEW m, NEW m2,
         \A a \in HeapWords : ~(lo <= a /\ a < hi) => m2[a] = m[a],
         NEW fl, fl[q] \in Nat, fl[q] <= b[q], NEW t,
         NEW b2, b2[q] = b[q], NEW t2, t2[q] = t[q], NEW fl2, fl2[q] = fl[q]
  PROVE  /\ CookiesOK(m2, b2, q) <=> CookiesOK(m, b, q)
         /\ Intact(m2, b2, t2, fl2, q) <=> Intact(m, b, t, fl, q)
<1>1. /\ q - kCookieSize \in HeapWords /\ q + b[q] \in HeapWords
      /\ Words(q, q + fl[q]) \subseteq HeapWords
      /\ q \in Nat /\ b[q] \in Nat
  BY BlockWords
<1>2. hi <= q - kCookieSize \/ q + b[q] + kCookieSize <= lo
  BY DEF Clear1
<1>3. m2[q - kCookieSize] = m[q - kCookieSize] /\ m2[q + b[q]] = m[q + b[q]]
  BY <1>1, <1>2 DEF kCookieSize
<1>4. CookiesOK(m2, b2, q) <=> CookiesOK(m, b, q)
  BY <1>3 DEF CookiesOK
<1>5. ASSUME NEW a \in Words(q, q + fl[q]) PROVE m2[a] = m[a]
  <2>1. a \in HeapWords /\ a \in Int /\ q <= a /\ a < q + fl[q]
    BY <1>1 DEF Words
  <2>. QED BY <1>1, <1>2, <2>1 DEF kCookieSize
<1>6. (\A a \in Words(q, q + fl[q]) : m2[a] = t2[q])
      <=> (\A a \in Words(q, q + fl[q]) : m[a] = t[q])
  BY <1>5
<1>. QED BY <1>4, <1>6 DEF Intact

\* What WriteCookies does to memory: two words, at the two ends of the block.
LEMMA CookiesWritten ==
  ASSUME NEW m \in [HeapWords -> Tags \cup {Cookie, Zero}], NEW s \in Nat, NEW n \in Nat,
         Aligned(s), Aligned(n), HeapBase <= s, s + Total(n) <= HeapEnd
  PROVE  LET m2 == WriteCookies(m, s, n)
         IN  /\ m2 \in [HeapWords -> Tags \cup {Cookie, Zero}]
             /\ m2[s] = Cookie /\ m2[s + kCookieSize + n] = Cookie
             /\ \A a \in HeapWords : a # s /\ a # s + kCookieSize + n => m2[a] = m[a]
             /\ s \in HeapWords /\ s + kCookieSize + n \in HeapWords
<1>1. s \in HeapWords /\ s + kCookieSize + n \in HeapWords
  <2>1. s % kCookieSize = 0 /\ (s + kCookieSize + n) % kCookieSize = 0
    BY DEF Aligned, kHeapAlign, kCookieSize
  <2>. QED BY <2>1, HeapEnds DEF HeapWords, Words, Total, kCookieSize
<1>2. s # s + kCookieSize + n
  BY DEF kCookieSize
<1>. QED BY <1>1, <1>2 DEF WriteCookies, WriteCookie

-----------------------------------------------------------------------------
(* The invariant.                                                          *)

HTypes ==
  /\ mem \in [HeapWords -> Tags \cup {Cookie, Zero}]
  /\ tag \in [DOMAIN heapAlloc -> Tags \cup {Zero}]
  /\ filled \in [DOMAIN heapAlloc -> Nat]
  /\ strayed \in BOOLEAN
  /\ status \in {"running", "aborted", "trapped"}

FilledFits == \A p \in DOMAIN heapAlloc : filled[p] <= heapAlloc[p]

Unharmed ==
  ~strayed => /\ status # "aborted"
              /\ \A p \in DOMAIN heapAlloc : Intact(mem, heapAlloc, tag, filled, p)

HInv ==
  /\ Layout(heapFree, heapAlloc)
  /\ HTypes
  /\ FilledFits
  /\ Unharmed

\* The empty heap.
LEMMA InitHInv == Init => HInv
<1> SUFFICES ASSUME Init PROVE HInv
  OBVIOUS
<1>1. DOMAIN heapAlloc = {} /\ heapAlloc \in [{} -> Nat]
  BY DEF Init
<1>2. DOMAIN heapFree = {HeapBase} /\ heapFree[HeapBase] = HeapSize
      /\ heapFree \in [{HeapBase} -> Nat]
  BY HeapEnds DEF Init
<1>3. FreeList(heapFree)
  BY <1>2, HeapEnds, HeapAssumption DEF FreeList
<1>4. BlockList(heapAlloc)
  BY <1>1 DEF BlockList
<1>5. Partition(heapFree, heapAlloc)
  BY <1>1, <1>2, HeapEnds DEF Partition, FreeAt, BlockAt
<1>6. HTypes /\ FilledFits /\ Unharmed
  BY <1>1 DEF Init, HTypes, FilledFits, Unharmed
<1>. QED BY <1>3, <1>4, <1>5, <1>6 DEF HInv, Layout

\* First fit finds an extent if there is one.
LEMMA FirstFitFacts ==
  ASSUME NEW f, FreeList(f), NEW n, Candidates(f, n) # {}
  PROVE  FirstFit(f, n) \in DOMAIN f /\ Fits(f, FirstFit(f, n), n)
<1>1. Candidates(f, n) \in SUBSET Nat
  BY DEF FreeList, Candidates
<1>2. FirstFit(f, n) \in Candidates(f, n)
  BY <1>1, LeastNat DEF FirstFit
<1>. QED BY <1>2 DEF Candidates

\* A block taken from the free list, with the memory it leaves: the part HeapAlloc and
\* the move of DynamicRealloc share.
LEMMA TakeBlock ==
  ASSUME HInv, NEW n \in Nat, Aligned(n), Candidates(heapFree, Total(n)) # {}
  PROVE  LET s == FirstFit(heapFree, Total(n))
             p == s + kCookieSize
             m == WriteCookies(mem, s, n)
         IN  /\ AlignUp(s) = s /\ s \in Nat /\ p \in Nat /\ Aligned(s) /\ p \notin DOMAIN heapAlloc
             /\ p - kCookieSize = s /\ p + n + kCookieSize = s + Total(n)
             /\ HeapBase <= s /\ s + Total(n) <= HeapEnd /\ s + Total(n) \in Nat
             /\ ClearOf(heapAlloc, {}, s, s + Total(n))
             /\ Layout(Carve(heapFree, s, Total(n)), Put(heapAlloc, p, n))
             /\ m \in [HeapWords -> Tags \cup {Cookie, Zero}]
             /\ m[p - kCookieSize] = Cookie /\ m[p + n] = Cookie
             /\ \A a \in HeapWords : ~(s <= a /\ a < s + Total(n)) => m[a] = mem[a]
<1> DEFINE s == FirstFit(heapFree, Total(n))
           p == s + kCookieSize
           m == WriteCookies(mem, s, n)
<1>1. s \in DOMAIN heapFree /\ Fits(heapFree, s, Total(n))
  BY FirstFitFacts DEF HInv, Layout
<1> HIDE DEF s
<1>2. /\ AlignUp(s) = s /\ s \in Nat /\ HeapBase <= s /\ s + Total(n) <= HeapEnd /\ Aligned(s)
      /\ p \notin DOMAIN heapAlloc
      /\ ClearOf(heapAlloc, {}, s, s + Total(n))
      /\ Layout(Carve(heapFree, s, Total(n)), Put(heapAlloc, p, n))
  BY <1>1, GrantLayout DEF HInv
<1>3. p \in Nat /\ p - kCookieSize = s /\ p + n + kCookieSize = s + Total(n) /\ p + n = s + kCookieSize + n
      /\ s + Total(n) \in Nat
  BY <1>2 DEF kCookieSize, Total
<1>4. /\ m \in [HeapWords -> Tags \cup {Cookie, Zero}]
      /\ m[s] = Cookie /\ m[s + kCookieSize + n] = Cookie
      /\ \A a \in HeapWords : a # s /\ a # s + kCookieSize + n => m[a] = mem[a]
  BY <1>2, CookiesWritten DEF HInv, HTypes
<1>5. \A a \in HeapWords : ~(s <= a /\ a < s + Total(n)) => a # s /\ a # s + kCookieSize + n
  BY <1>2, <1>3 DEF kCookieSize, Total
<1>. QED BY <1>2, <1>3, <1>4, <1>5 DEF s

\* The invariant after a step, put together from its parts.
LEMMA HInvParts ==
  ASSUME Layout(heapFree', heapAlloc'), HTypes', FilledFits', Unharmed'
  PROVE  HInv'
  BY DEF HInv

\* lmalloc and lcalloc.
LEMMA AllocInv ==
  ASSUME HInv, NEW size \in Nat, HeapAlloc(size)
  PROVE  HInv'
<1> DEFINE n == AlignUp(size)
           s == FirstFit(heapFree, Total(n))
           p == s + kCookieSize
           m == WriteCookies(mem, s, n)
<1>1. n \in Nat /\ Aligned(n)
  BY AlignUpFacts
<1>2. Candidates(heapFree, Total(n)) # {}
  BY DEF HeapAlloc
<1> HIDE DEF n
<1>3. /\ AlignUp(s) = s /\ s \in Nat /\ p \notin DOMAIN heapAlloc /\ s + Total(n) \in Nat
      /\ ClearOf(heapAlloc, {}, s, s + Total(n))
      /\ Layout(Carve(heapFree, s, Total(n)), Put(heapAlloc, p, n))
      /\ m \in [HeapWords -> Tags \cup {Cookie, Zero}]
      /\ m[p - kCookieSize] = Cookie /\ m[p + n] = Cookie
      /\ \A a \in HeapWords : ~(s <= a /\ a < s + Total(n)) => m[a] = mem[a]
  BY <1>1, <1>2, TakeBlock
<1>4. /\ heapFree' = Carve(heapFree, s, Total(n)) /\ mem' = m
      /\ heapAlloc' = Put(heapAlloc, p, n) /\ tag' = Put(tag, p, Zero) /\ filled' = Put(filled, p, 0)
      /\ UNCHANGED <<strayed, status>>
  BY <1>3 DEF HeapAlloc, n
<1> HIDE DEF s, p, m
<1>5. /\ DOMAIN heapAlloc' = DOMAIN heapAlloc \cup {p}
      /\ heapAlloc'[p] = n /\ tag'[p] = Zero /\ filled'[p] = 0
      /\ tag' \in [DOMAIN heapAlloc \cup {p} -> Tags \cup {Zero}]
      /\ filled' \in [DOMAIN heapAlloc \cup {p} -> Nat]
  BY <1>4 DEF Put, HInv, HTypes
<1>6. \A q \in DOMAIN heapAlloc : /\ q # p /\ heapAlloc'[q] = heapAlloc[q] /\ tag'[q] = tag[q]
                                  /\ filled'[q] = filled[q]
  BY <1>3, <1>4 DEF Put, HInv, HTypes
<1>7. HTypes'
  BY <1>3, <1>4, <1>5 DEF HInv, HTypes
<1>8. FilledFits'
  BY <1>1, <1>5, <1>6 DEF HInv, FilledFits
<1>9. ASSUME NEW q \in DOMAIN heapAlloc, Intact(mem, heapAlloc, tag, filled, q)
      PROVE  Intact(mem', heapAlloc', tag', filled', q)
  <2>1. BlockList(heapAlloc) /\ filled[q] \in Nat /\ filled[q] <= heapAlloc[q]
    BY DEF HInv, Layout, HTypes, FilledFits
  <2>2. Clear1(heapAlloc, q, s, s + Total(n))
    BY <1>3 DEF ClearOf
  <2>. QED BY SMTT(30), <2>1, <2>2, <1>3, <1>4, <1>6, <1>9, IntactKept
<1>10. Intact(mem', heapAlloc', tag', filled', p)
  <2>1. Words(p, p + 0) = {}
    BY <1>3 DEF Words, p, kCookieSize
  <2>. QED BY <2>1, <1>3, <1>4, <1>5 DEF Intact, CookiesOK
<1>11. Unharmed'
  BY <1>4, <1>5, <1>9, <1>10 DEF HInv, Unharmed
<1>. QED BY <1>3, <1>4, <1>7, <1>8, <1>11, HInvParts

\* A step that only stops the program.
LEMMA StopInv ==
  ASSUME HInv, Trap \/ (Abort /\ strayed)
  PROVE  HInv'
<1>1. /\ UNCHANGED <<heapFree, heapAlloc, mem, tag, filled, strayed>>
      /\ status' \in {"aborted", "trapped"} /\ (status' = "aborted" => strayed)
  BY DEF Trap, Abort
<1>2. HTypes' /\ FilledFits' /\ Unharmed'
  BY <1>1 DEF HInv, HTypes, FilledFits, Unharmed
<1>. QED BY <1>1, <1>2, HInvParts DEF HInv

\* Cookies are damaged only if the guest has strayed.
LEMMA CookiesStand ==
  ASSUME HInv, ~strayed
  PROVE  AllCookiesOK(mem, heapAlloc)
  BY DEF HInv, Unharmed, Intact, AllCookiesOK

\* _lfree.
LEMMA FreeInv ==
  ASSUME HInv, NEW p \in DOMAIN heapAlloc, HeapFree(p)
  PROVE  HInv'
<1>1. /\ heapFree' = CoalesceAround(heapFree, p - kCookieSize, Total(heapAlloc[p]))
      /\ heapAlloc' = Drop(heapAlloc, p) /\ tag' = Drop(tag, p) /\ filled' = Drop(filled, p)
      /\ UNCHANGED <<mem, strayed, status>>
  BY DEF HeapFree
<1>2. Layout(heapFree', heapAlloc')
  BY <1>1, ReleaseLayout DEF HInv
<1>3. /\ DOMAIN heapAlloc' = DOMAIN heapAlloc \ {p}
      /\ tag' \in [DOMAIN heapAlloc \ {p} -> Tags \cup {Zero}]
      /\ filled' \in [DOMAIN heapAlloc \ {p} -> Nat]
  BY <1>1 DEF Drop, HInv, HTypes
<1>4. \A q \in DOMAIN heapAlloc \ {p} : /\ heapAlloc'[q] = heapAlloc[q] /\ tag'[q] = tag[q]
                                        /\ filled'[q] = filled[q]
  BY <1>1 DEF Drop, HInv, HTypes
<1>5. HTypes' /\ FilledFits'
  BY <1>1, <1>3, <1>4 DEF HInv, HTypes, FilledFits
<1>6. Unharmed'
  BY <1>1, <1>3, <1>4 DEF HInv, Unharmed, Intact, CookiesOK
<1>. QED BY <1>2, <1>5, <1>6, HInvParts

\* A block resized in place, its suffix cookie written anew.
LEMMA ResizeMemory ==
  ASSUME HInv, NEW p \in DOMAIN heapAlloc, NEW n \in Nat, NEW k \in Nat, k <= n, k <= filled[p],
         BlockList(Put(heapAlloc, p, n)),
         ClearOf(heapAlloc, {p}, p - kCookieSize, p + n + kCookieSize),
         k <= heapAlloc[p],
         mem' = WriteCookie(mem, p + n), heapAlloc' = Put(heapAlloc, p, n),
         filled' = Put(filled, p, k), UNCHANGED <<tag, strayed, status>>
  PROVE  HTypes' /\ FilledFits' /\ Unharmed'
<1>1. BlockList(heapAlloc) /\ mem \in [HeapWords -> Tags \cup {Cookie, Zero}]
  BY DEF HInv, Layout, HTypes
<1>2. p \in Nat /\ heapAlloc[p] \in Nat /\ p - kCookieSize \in Nat /\ p - kCookieSize \in HeapWords
  BY <1>1, BlockFacts, BlockWords
<1>3. p + n \in HeapWords
  <2>1. p \in DOMAIN Put(heapAlloc, p, n) /\ Put(heapAlloc, p, n)[p] = n
    BY DEF Put
  <2>. QED BY <2>1, BlockWords
<1>4. /\ mem' \in [HeapWords -> Tags \cup {Cookie, Zero}] /\ mem'[p + n] = Cookie
      /\ \A a \in HeapWords : a # p + n => mem'[a] = mem[a]
  BY <1>1, <1>3 DEF WriteCookie
<1>5. /\ DOMAIN heapAlloc' = DOMAIN heapAlloc
      /\ heapAlloc'[p] = n /\ filled'[p] = k
      /\ filled' \in [DOMAIN heapAlloc -> Nat]
      /\ \A q \in DOMAIN heapAlloc \ {p} : heapAlloc'[q] = heapAlloc[q] /\ filled'[q] = filled[q]
  BY DEF Put, HInv, HTypes
<1>6. HTypes'
  BY <1>4, <1>5 DEF HInv, HTypes
<1>7. FilledFits'
  BY <1>5 DEF HInv, FilledFits
<1>8. ASSUME NEW q \in DOMAIN heapAlloc \ {p}, Intact(mem, heapAlloc, tag, filled, q)
      PROVE  Intact(mem', heapAlloc', tag', filled', q)
  <2>1. filled[q] \in Nat /\ filled[q] <= heapAlloc[q]
    BY DEF HInv, HTypes, FilledFits
  <2>2. p + n + kCookieSize \in Nat
    BY <1>2 DEF kCookieSize
  <2>3. \A a \in HeapWords :
          ~(p - kCookieSize <= a /\ a < p + n + kCookieSize) => mem'[a] = mem[a]
    <3> TAKE a \in HeapWords
    <3>1. a = p + n => p - kCookieSize <= a /\ a < p + n + kCookieSize
      BY <1>2 DEF kCookieSize
    <3>. QED BY <1>4, <3>1
  <2>4. heapAlloc'[q] = heapAlloc[q] /\ tag'[q] = tag[q] /\ filled'[q] = filled[q]
    BY <1>5
  <2>5. /\ BlockList(heapAlloc) /\ p - kCookieSize \in Nat
        /\ Clear1(heapAlloc, q, p - kCookieSize, p + n + kCookieSize)
    BY <1>1, <1>2 DEF ClearOf
  <2> DEFINE lo == p - kCookieSize
             hi == p + n + kCookieSize
  <2> HIDE DEF lo, hi
  <2>6. /\ lo \in Nat /\ hi \in Nat /\ Clear1(heapAlloc, q, lo, hi)
        /\ \A a \in HeapWords : ~(lo <= a /\ a < hi) => mem'[a] = mem[a]
    BY <2>2, <2>3, <2>5 DEF lo, hi
  <2>7. PICK m2, b2, t2, f2 : m2 = mem' /\ b2 = heapAlloc' /\ t2 = tag' /\ f2 = filled'
    OBVIOUS
  <2>8. Intact(m2, b2, t2, f2, q) <=> Intact(mem, heapAlloc, tag, filled, q)
    <3>1. b2[q] = heapAlloc[q] /\ t2[q] = tag[q] /\ f2[q] = filled[q]
      BY <2>4, <2>7
    <3>2. \A a \in HeapWords : ~(lo <= a /\ a < hi) => m2[a] = mem[a]
      BY <2>6, <2>7
    <3>3. BlockList(heapAlloc) /\ lo \in Nat /\ hi \in Nat /\ Clear1(heapAlloc, q, lo, hi)
      BY <2>5, <2>6
    <3>. QED BY <2>1, <3>1, <3>2, <3>3, IntactKept
  <2>. QED BY <1>8, <2>7, <2>8
<1>9. ASSUME Intact(mem, heapAlloc, tag, filled, p)
      PROVE  Intact(mem', heapAlloc', tag', filled', p)
  <2>1. p - kCookieSize # p + n
    BY <1>2 DEF kCookieSize
  <2>2. mem'[p - kCookieSize] = Cookie
    BY <1>2, <1>4, <1>9, <2>1 DEF Intact, CookiesOK
  <2>3. ASSUME NEW a \in Words(p, p + k) PROVE mem'[a] = tag[p]
    <3>1. a \in Words(p, p + filled[p]) /\ a # p + n
      BY <1>2 DEF Words, HInv, HTypes
    <3>2. a \in HeapWords
      BY <1>1, <3>1, BlockWords DEF HInv, HTypes, FilledFits
    <3>. QED BY <1>4, <1>9, <3>1, <3>2 DEF Intact
  <2>. QED BY <1>4, <1>5, <2>2, <2>3 DEF Intact, CookiesOK
<1>10. Unharmed'
  BY <1>5, <1>8, <1>9 DEF HInv, Unharmed
<1>. QED BY <1>6, <1>7, <1>10

\* lrealloc to a smaller size.
LEMMA ShrinkInv ==
  ASSUME HInv, NEW p \in DOMAIN heapAlloc, NEW n \in Nat, Aligned(n), ShrinkInPlace(p, n)
  PROVE  HInv'
<1> DEFINE k == IF filled[p] < n THEN filled[p] ELSE n
<1>1. BlockList(heapAlloc) /\ Layout(heapFree, heapAlloc)
  BY DEF HInv, Layout
<1>2. /\ p \in Nat /\ heapAlloc[p] \in Nat
      /\ ClearOf(heapAlloc, {p}, p - kCookieSize, p + heapAlloc[p] + kCookieSize)
  BY <1>1, BlockFacts
<1>3. /\ n <= heapAlloc[p] /\ UNCHANGED <<tag, strayed, status>>
      /\ heapAlloc' = [heapAlloc EXCEPT ![p] = n] /\ filled' = [filled EXCEPT ![p] = k]
  BY DEF ShrinkInPlace
<1>4. filled \in [DOMAIN heapAlloc -> Nat] /\ filled[p] \in Nat /\ filled[p] <= heapAlloc[p]
  BY DEF HInv, HTypes, FilledFits
<1>5. heapAlloc' = Put(heapAlloc, p, n) /\ filled' = Put(filled, p, k)
  <2>1. heapAlloc' = Put(heapAlloc, p, n)
    BY <1>1, <1>3, ExceptIsPut
  <2>. QED BY <2>1, <1>3, <1>4 DEF Put
<1>6. CASE n < heapAlloc[p]
  <2>1. /\ mem' = WriteCookie(mem, p + n)
        /\ heapFree' = CoalesceAround(heapFree, p + n + kCookieSize, heapAlloc[p] - n)
    BY <1>6 DEF ShrinkInPlace
  <2>2. Layout(heapFree', Put(heapAlloc, p, n))
    BY <1>1, <1>6, <2>1, ShrinkLayout
  <2>3. \A q \in DOMAIN heapAlloc : q \in Nat /\ heapAlloc[q] \in Nat
    BY <1>1 DEF BlockList
  <2>4. ClearOf(heapAlloc, {p}, p - kCookieSize, p + n + kCookieSize)
    BY <1>2, <1>6, <2>3 DEF ClearOf, Clear1, kCookieSize
  <2>5. BlockList(Put(heapAlloc, p, n))
    BY <2>2 DEF Layout
  <2>6. k \in Nat /\ k <= n /\ k <= filled[p] /\ k <= heapAlloc[p]
    BY <1>2, <1>4, <1>6
  <2> HIDE DEF k
  <2>7. HTypes' /\ FilledFits' /\ Unharmed'
    BY <1>3, <1>5, <2>1, <2>4, <2>5, <2>6, ResizeMemory
  <2>. QED BY <1>5, <2>2, <2>7, HInvParts
<1>7. CASE n = heapAlloc[p]
  <2>1. heapAlloc' = heapAlloc
    BY <1>1, <1>3, <1>7 DEF BlockList
  <2>2. k = filled[p]
    BY <1>4, <1>7
  <2>3. filled' = filled
    BY <1>3, <1>4, <2>2
  <2>4. UNCHANGED <<mem, heapFree>>
    BY <1>7, <1>2 DEF ShrinkInPlace
  <2>5. HTypes' /\ FilledFits' /\ Unharmed'
    BY <1>3, <2>1, <2>3, <2>4 DEF HInv, HTypes, FilledFits, Unharmed
  <2>. QED BY <1>1, <2>1, <2>4, <2>5, HInvParts
<1>. QED BY <1>2, <1>3, <1>6, <1>7

\* lrealloc into the free extent behind the block.
LEMMA GrowInv ==
  ASSUME HInv, NEW p \in DOMAIN heapAlloc, NEW n \in Nat, Aligned(n), GrowInPlace(p, n)
  PROVE  HInv'
<1> DEFINE e == BlockEnd(p)
           need == n - heapAlloc[p]
<1>1. BlockList(heapAlloc) /\ Layout(heapFree, heapAlloc)
  BY DEF HInv, Layout
<1>2. /\ n > heapAlloc[p] /\ e \in DOMAIN heapFree /\ heapFree[e] >= need
      /\ heapFree' = NonEmpty(Put(Drop(heapFree, e), e + need, heapFree[e] - need))
      /\ heapAlloc' = [heapAlloc EXCEPT ![p] = n] /\ mem' = WriteCookie(mem, p + n)
      /\ UNCHANGED <<tag, filled, strayed, status>>
  BY DEF GrowInPlace, CanGrow
<1>3. e = p + heapAlloc[p] + kCookieSize
  BY DEF BlockEnd
<1> HIDE DEF e
<1>4. /\ Layout(heapFree', Put(heapAlloc, p, n))
      /\ ClearOf(heapAlloc, {p}, p - kCookieSize, p + n + kCookieSize)
  BY <1>1, <1>2, <1>3, GrowLayout
<1>5. heapAlloc' = Put(heapAlloc, p, n)
  BY <1>1, <1>2, ExceptIsPut
<1>6. filled \in [DOMAIN heapAlloc -> Nat] /\ filled[p] \in Nat /\ filled[p] <= heapAlloc[p]
      /\ heapAlloc[p] \in Nat
  BY <1>1 DEF HInv, HTypes, FilledFits, BlockList
<1>7. filled' = Put(filled, p, filled[p])
  BY <1>2, <1>6 DEF Put
<1>8. filled[p] <= n
  BY <1>2, <1>6
<1>9. HTypes' /\ FilledFits' /\ Unharmed'
  BY <1>2, <1>4, <1>5, <1>6, <1>7, <1>8, ResizeMemory DEF Layout
<1>. QED BY <1>4, <1>5, <1>9, HInvParts

\* The guest fills one of its blocks.
LEMMA WriteInv ==
  ASSUME HInv, NEW p \in DOMAIN heapAlloc, NEW v \in Tags, GuestWrite(p, v)
  PROVE  HInv'
<1>1. BlockList(heapAlloc) /\ mem \in [HeapWords -> Tags \cup {Cookie, Zero}]
  BY DEF HInv, Layout, HTypes
<1>2. /\ mem' = [a \in HeapWords |-> IF a \in p .. p + heapAlloc[p] - 1 THEN v ELSE mem[a]]
      /\ tag' = [tag EXCEPT ![p] = v] /\ filled' = [filled EXCEPT ![p] = heapAlloc[p]]
      /\ UNCHANGED <<heapFree, heapAlloc, strayed, status>>
  BY DEF GuestWrite
<1>3. /\ p \in Nat /\ heapAlloc[p] \in Nat
      /\ p - kCookieSize \in Nat /\ p + heapAlloc[p] + kCookieSize \in Nat
      /\ p - kCookieSize \in HeapWords /\ p + heapAlloc[p] \in HeapWords
      /\ Words(p, p + heapAlloc[p]) \subseteq HeapWords
      /\ ClearOf(heapAlloc, {p}, p - kCookieSize, p + heapAlloc[p] + kCookieSize)
  BY <1>1, BlockFacts, BlockWords DEF kCookieSize
<1>4. /\ tag'[p] = v /\ filled'[p] = heapAlloc[p]
      /\ \A q \in DOMAIN heapAlloc \ {p} : tag'[q] = tag[q] /\ filled'[q] = filled[q]
      /\ tag' \in [DOMAIN heapAlloc -> Tags \cup {Zero}] /\ filled' \in [DOMAIN heapAlloc -> Nat]
  BY <1>2, <1>3 DEF HInv, HTypes
<1>5. mem' \in [HeapWords -> Tags \cup {Cookie, Zero}]
  BY <1>1, <1>2
<1>6. HTypes' /\ FilledFits'
  BY <1>2, <1>3, <1>4, <1>5 DEF HInv, HTypes, FilledFits
<1>7. ASSUME NEW q \in DOMAIN heapAlloc \ {p}, Intact(mem, heapAlloc, tag, filled, q)
      PROVE  Intact(mem', heapAlloc', tag', filled', q)
  <2>1. filled[q] \in Nat /\ filled[q] <= heapAlloc[q]
    BY DEF HInv, HTypes, FilledFits
  <2>2. \A a \in HeapWords :
          ~(p - kCookieSize <= a /\ a < p + heapAlloc[p] + kCookieSize) => mem'[a] = mem[a]
    BY <1>2, <1>3 DEF kCookieSize
  <2>3. heapAlloc'[q] = heapAlloc[q] /\ tag'[q] = tag[q] /\ filled'[q] = filled[q]
    BY <1>2, <1>4
  <2>4. /\ BlockList(heapAlloc) /\ p - kCookieSize \in Nat /\ p + heapAlloc[p] + kCookieSize \in Nat
        /\ Clear1(heapAlloc, q, p - kCookieSize, p + heapAlloc[p] + kCookieSize)
    BY <1>1, <1>3 DEF ClearOf
  <2>. QED BY <2>1, <2>2, <2>3, <2>4, <1>7, IntactKept
<1>8. ASSUME Intact(mem, heapAlloc, tag, filled, p)
      PROVE  Intact(mem', heapAlloc', tag', filled', p)
  <2>1. p - kCookieSize \notin p .. p + heapAlloc[p] - 1
        /\ p + heapAlloc[p] \notin p .. p + heapAlloc[p] - 1
    BY <1>3 DEF kCookieSize
  <2>2. CookiesOK(mem', heapAlloc', p)
    BY <1>2, <1>3, <1>8, <2>1 DEF Intact, CookiesOK
  <2>3. \A a \in Words(p, p + heapAlloc[p]) : a \in HeapWords /\ a \in p .. p + heapAlloc[p] - 1
    BY <1>3 DEF Words
  <2>4. \A a \in Words(p, p + heapAlloc[p]) : mem'[a] = v
    BY <1>2, <2>3
  <2>. QED BY <1>4, <2>2, <2>4 DEF Intact
<1>9. Unharmed'
  BY <1>2, <1>7, <1>8 DEF HInv, Unharmed
<1>. QED BY <1>2, <1>6, <1>9, HInvParts DEF HInv

\* The guest overruns one of its blocks.
LEMMA OverrunInv ==
  ASSUME HInv, NEW p \in DOMAIN heapAlloc, GuestOverrun(p)
  PROVE  HInv'
<1>1. BlockList(heapAlloc)
  BY DEF HInv, Layout
<1>2. /\ mem' = [mem EXCEPT ![p + heapAlloc[p]] = Zero] /\ strayed' = TRUE
      /\ UNCHANGED <<heapFree, heapAlloc, tag, filled, status>>
  BY DEF GuestOverrun
<1>3. mem' \in [HeapWords -> Tags \cup {Cookie, Zero}]
  BY <1>2 DEF HInv, HTypes
<1>4. HTypes' /\ FilledFits' /\ Unharmed'
  BY <1>2, <1>3 DEF HInv, HTypes, FilledFits, Unharmed
<1>. QED BY <1>2, <1>4, HInvParts DEF HInv

\* The memory a move leaves: outside the new block nothing has changed, the new block
\* has its cookies and a copy of the old user area.
LEMMA MoveMemory ==
  ASSUME HInv, NEW p \in DOMAIN heapAlloc, NEW n \in Nat, Aligned(n), Move(p, n)
  PROVE  LET s == FirstFit(heapFree, Total(n))
             q == s + kCookieSize
         IN  /\ mem' \in [HeapWords -> Tags \cup {Cookie, Zero}]
             /\ mem'[q - kCookieSize] = Cookie /\ mem'[q + n] = Cookie
             /\ \A a \in HeapWords : ~(s <= a /\ a < s + Total(n)) => mem'[a] = mem[a]
             /\ \A k \in Nat : k <= heapAlloc[p] =>
                  \A a \in Words(q, q + k) : /\ mem'[a] = mem[p + (a - q)]
                                             /\ p + (a - q) \in Words(p, p + k)
<1> DEFINE s == FirstFit(heapFree, Total(n))
           q == s + kCookieSize
           m == WriteCookies(mem, s, n)
           old == heapAlloc[p]
<1>1. Candidates(heapFree, Total(n)) # {} /\ n > old
  BY DEF Move
<1>2. /\ AlignUp(s) = s /\ s \in Nat /\ q \in Nat /\ Aligned(s)
      /\ q - kCookieSize = s /\ q + n + kCookieSize = s + Total(n)
      /\ HeapBase <= s /\ s + Total(n) <= HeapEnd
      /\ m \in [HeapWords -> Tags \cup {Cookie, Zero}]
      /\ m[q - kCookieSize] = Cookie /\ m[q + n] = Cookie
      /\ \A a \in HeapWords : ~(s <= a /\ a < s + Total(n)) => m[a] = mem[a]
  BY <1>1, TakeBlock
<1>3. mem' = [a \in HeapWords |-> IF a \in q .. q + old - 1 THEN mem[p + (a - q)] ELSE m[a]]
  BY <1>2 DEF Move
<1> HIDE DEF s, m
<1>4. q % kCookieSize = 0
  <2>1. s \in Int /\ Aligned(s)
    BY <1>2
  <2>. QED BY <2>1, AlignedWord
<1> HIDE DEF q
<1>5. BlockList(heapAlloc) /\ mem \in [HeapWords -> Tags \cup {Cookie, Zero}]
  BY DEF HInv, Layout, HTypes
<1>6. /\ p \in Nat /\ old \in Nat /\ Aligned(p - kCookieSize)
      /\ \A k \in Nat : k <= old => Words(p, p + k) \subseteq HeapWords
  BY <1>5, BlockFacts, BlockWords
<1>7. p % kCookieSize = 0
  BY <1>6 DEF Aligned, kHeapAlign, kCookieSize
<1>8. ASSUME NEW k \in Nat, k <= old, NEW a \in Int, q <= a, a < q + k, a % kCookieSize = 0
      PROVE  p + (a - q) \in Words(p, p + k)
  <2>1. (p + (a - q)) % kCookieSize = 0
    BY <1>2, <1>4, <1>6, <1>7, <1>8, WordSum
  <2>. QED BY <1>2, <1>6, <1>8, <2>1 DEF Words
<1>9. ASSUME NEW a \in HeapWords, a \in q .. q + old - 1
      PROVE  p + (a - q) \in HeapWords
  <2>1. a \in Int /\ a % kCookieSize = 0 /\ q <= a /\ a < q + old
    BY <1>2, <1>6, <1>9 DEF HeapWords, Words
  <2>2. p + (a - q) \in Words(p, p + old)
    BY <1>6, <1>8, <2>1
  <2>. QED BY <1>6, <2>2
<1>10. mem' \in [HeapWords -> Tags \cup {Cookie, Zero}]
  BY <1>2, <1>3, <1>5, <1>9
<1>11. q - kCookieSize \in HeapWords /\ q + n \in HeapWords
  <2>1. (q - kCookieSize) % kCookieSize = 0 /\ (q + n) % kCookieSize = 0
    BY <1>2, <1>4 DEF Aligned, kHeapAlign, kCookieSize
  <2>. QED BY <1>2, <2>1, HeapEnds DEF HeapWords, Words, kCookieSize
<1>12. mem'[q - kCookieSize] = Cookie /\ mem'[q + n] = Cookie
  <2>1. q - kCookieSize \notin q .. q + old - 1 /\ q + n \notin q .. q + old - 1
    BY <1>1, <1>2, <1>6 DEF kCookieSize
  <2>. QED BY <1>2, <1>3, <1>11, <2>1
<1>13. ASSUME NEW a \in HeapWords, ~(s <= a /\ a < s + Total(n))
       PROVE  mem'[a] = mem[a]
  <2>1. a \notin q .. q + old - 1
    BY <1>1, <1>2, <1>6, <1>13 DEF kCookieSize
  <2>. QED BY <1>2, <1>3, <1>13, <2>1
<1>14. ASSUME NEW k \in Nat, k <= heapAlloc[p], NEW a \in Words(q, q + k)
       PROVE  mem'[a] = mem[p + (a - q)] /\ p + (a - q) \in Words(p, p + k)
  <2>1. a \in Int /\ q <= a /\ a < q + k /\ a % kCookieSize = 0
    BY <1>2 DEF Words
  <2>2. a \in HeapWords /\ a \in q .. q + old - 1
    BY SMTT(30), <1>1, <1>2, <1>6, <1>14, <2>1, HeapEnds DEF HeapWords, Words, kCookieSize
  <2>. QED BY <1>3, <1>8, <1>14, <2>1, <2>2
<1>. QED BY <1>10, <1>12, <1>13, <1>14 DEF s, q

\* A move keeps the other blocks intact; the check of all cookies that ends it has the
\* outcome it would have had before.
LEMMA MoveOthers ==
  ASSUME HInv, NEW p \in DOMAIN heapAlloc, NEW n \in Nat, Aligned(n), Move(p, n)
  PROVE  LET q == FirstFit(heapFree, Total(n)) + kCookieSize
             b == Put(heapAlloc, q, n)
         IN  /\ AllCookiesOK(mem', b) <=> AllCookiesOK(mem, heapAlloc)
             /\ CookiesOK(mem', b, q)
             /\ \A r \in DOMAIN heapAlloc : \A b2, t2, fl2 :
                  b2[r] = heapAlloc[r] /\ t2[r] = tag[r] /\ fl2[r] = filled[r] =>
                    (Intact(mem', b2, t2, fl2, r) <=> Intact(mem, heapAlloc, tag, filled, r))
<1> DEFINE s == FirstFit(heapFree, Total(n))
           q == s + kCookieSize
           b == Put(heapAlloc, q, n)
<1>1. Candidates(heapFree, Total(n)) # {}
  BY DEF Move
<1>2. /\ s \in Nat /\ s + Total(n) \in Nat /\ q \notin DOMAIN heapAlloc
      /\ ClearOf(heapAlloc, {}, s, s + Total(n))
  BY <1>1, TakeBlock
<1>3. /\ mem'[q - kCookieSize] = Cookie /\ mem'[q + n] = Cookie
      /\ \A a \in HeapWords : ~(s <= a /\ a < s + Total(n)) => mem'[a] = mem[a]
  BY MoveMemory
<1> HIDE DEF s, q
<1>4. DOMAIN b = DOMAIN heapAlloc \cup {q} /\ b[q] = n
      /\ \A r \in DOMAIN heapAlloc : b[r] = heapAlloc[r]
  BY <1>2 DEF Put
<1> HIDE DEF b
<1>5. BlockList(heapAlloc)
  BY DEF HInv, Layout
<1>6. CookiesOK(mem', b, q)
  BY <1>3, <1>4 DEF CookiesOK
<1>7. ASSUME NEW r \in DOMAIN heapAlloc, NEW b2, NEW t2, NEW fl2,
             b2[r] = heapAlloc[r], t2[r] = tag[r], fl2[r] = filled[r]
      PROVE  /\ CookiesOK(mem', b2, r) <=> CookiesOK(mem, heapAlloc, r)
             /\ Intact(mem', b2, t2, fl2, r) <=> Intact(mem, heapAlloc, tag, filled, r)
  <2>1. filled[r] \in Nat /\ filled[r] <= heapAlloc[r]
    BY DEF HInv, HTypes, FilledFits
  <2>2. Clear1(heapAlloc, r, s, s + Total(n))
    BY <1>2 DEF ClearOf
  <2>. QED BY SMTT(30), <1>2, <1>3, <1>5, <1>7, <2>1, <2>2, IntactKept
<1>8. \A r \in DOMAIN heapAlloc : CookiesOK(mem', b, r) <=> CookiesOK(mem, heapAlloc, r)
  BY <1>4, <1>7
<1>9. AllCookiesOK(mem', b) <=> AllCookiesOK(mem, heapAlloc)
  BY <1>4, <1>6, <1>8 DEF AllCookiesOK
<1>. QED BY <1>6, <1>7, <1>9 DEF b, q, s

\* lrealloc to another place.
LEMMA MoveInv ==
  ASSUME HInv, NEW p \in DOMAIN heapAlloc, NEW n \in Nat, Aligned(n), status = "running", Move(p, n)
  PROVE  HInv'
<1> DEFINE s == FirstFit(heapFree, Total(n))
           q == s + kCookieSize
           b == Put(heapAlloc, q, n)
           f == Carve(heapFree, s, Total(n))
<1>1. Candidates(heapFree, Total(n)) # {} /\ n > heapAlloc[p] /\ strayed' = strayed
  BY DEF Move
<1>2. AlignUp(s) = s /\ q \notin DOMAIN heapAlloc /\ Layout(f, b) /\ q \in Nat
  BY <1>1, TakeBlock
<1>3. /\ mem' \in [HeapWords -> Tags \cup {Cookie, Zero}]
      /\ \A k \in Nat : k <= heapAlloc[p] =>
           \A a \in Words(q, q + k) : /\ mem'[a] = mem[p + (a - q)]
                                      /\ p + (a - q) \in Words(p, p + k)
  BY MoveMemory
<1>4. /\ AllCookiesOK(mem', b) <=> AllCookiesOK(mem, heapAlloc)
      /\ CookiesOK(mem', b, q)
  BY MoveOthers
<1>5. \A r \in DOMAIN heapAlloc : \A b2, t2, fl2 :
        b2[r] = heapAlloc[r] /\ t2[r] = tag[r] /\ fl2[r] = filled[r] =>
          (Intact(mem', b2, t2, fl2, r) <=> Intact(mem, heapAlloc, tag, filled, r))
  BY MoveOthers
<1>6. IF AllCookiesOK(mem', b)
      THEN /\ heapFree' = CoalesceAround(f, p - kCookieSize, Total(heapAlloc[p]))
           /\ heapAlloc' = Drop(b, p)
           /\ tag' = Drop(Put(tag, q, tag[p]), p)
           /\ filled' = Drop(Put(filled, q, filled[p]), p)
           /\ UNCHANGED status
      ELSE /\ status' = "aborted" /\ heapFree' = f /\ heapAlloc' = b
           /\ tag' = Put(tag, q, Zero) /\ filled' = Put(filled, q, 0)
  BY <1>2 DEF Move
<1>7. /\ DOMAIN b = DOMAIN heapAlloc \cup {q} /\ b[q] = n /\ q # p
      /\ \A r \in DOMAIN heapAlloc : b[r] = heapAlloc[r]
  BY <1>2 DEF Put
<1>8. /\ tag \in [DOMAIN heapAlloc -> Tags \cup {Zero}] /\ filled \in [DOMAIN heapAlloc -> Nat]
      /\ strayed \in BOOLEAN /\ status \in {"running", "aborted", "trapped"}
      /\ \A r \in DOMAIN heapAlloc : filled[r] <= heapAlloc[r]
      /\ \A r \in DOMAIN heapAlloc : heapAlloc[r] \in Nat
  BY DEF HInv, HTypes, FilledFits, Layout, BlockList
<1> HIDE DEF s, q, b, f
<1>9. CASE AllCookiesOK(mem', b)
  <2>1. /\ heapFree' = CoalesceAround(f, p - kCookieSize, Total(b[p])) /\ heapAlloc' = Drop(b, p)
        /\ tag' = Drop(Put(tag, q, tag[p]), p) /\ filled' = Drop(Put(filled, q, filled[p]), p)
        /\ status' = status
    BY <1>6, <1>7, <1>9
  <2>2. Layout(heapFree', heapAlloc')
    BY <1>2, <1>7, <2>1, ReleaseLayout
  <2>3. /\ DOMAIN heapAlloc' = (DOMAIN heapAlloc \ {p}) \cup {q}
        /\ heapAlloc'[q] = n
        /\ \A r \in DOMAIN heapAlloc \ {p} : heapAlloc'[r] = heapAlloc[r]
    BY <1>7, <2>1 DEF Drop
  <2>4. /\ tag' \in [(DOMAIN heapAlloc \ {p}) \cup {q} -> Tags \cup {Zero}] /\ tag'[q] = tag[p]
        /\ \A r \in DOMAIN heapAlloc \ {p} : tag'[r] = tag[r]
    BY <1>2, <1>7, <1>8, <2>1 DEF Drop, Put
  <2>5. /\ filled' \in [(DOMAIN heapAlloc \ {p}) \cup {q} -> Nat] /\ filled'[q] = filled[p]
        /\ \A r \in DOMAIN heapAlloc \ {p} : filled'[r] = filled[r]
    BY <1>2, <1>7, <1>8, <2>1 DEF Drop, Put
  <2>6. HTypes'
    BY <1>1, <1>3, <1>8, <2>1, <2>3, <2>4, <2>5 DEF HTypes
  <2>7. FilledFits'
    <3>1. filled[p] <= n
      BY <1>1, <1>8
    <3>. QED BY <1>8, <2>3, <2>5, <3>1 DEF FilledFits
  <2>8. ASSUME NEW r \in DOMAIN heapAlloc \ {p}, Intact(mem, heapAlloc, tag, filled, r)
        PROVE  Intact(mem', heapAlloc', tag', filled', r)
    BY <1>5, <2>3, <2>4, <2>5, <2>8
  <2>9. ASSUME Intact(mem, heapAlloc, tag, filled, p)
        PROVE  Intact(mem', heapAlloc', tag', filled', q)
    <3>1. CookiesOK(mem', heapAlloc', q)
      BY <1>4, <1>7, <2>3 DEF CookiesOK
    <3>2. \A a \in Words(q, q + filled[p]) : mem'[a] = tag[p]
      BY <1>3, <1>8, <2>9 DEF Intact
    <3>. QED BY <2>4, <2>5, <3>1, <3>2 DEF Intact
  <2>10. Unharmed'
    BY <1>1, <2>1, <2>3, <2>8, <2>9 DEF HInv, Unharmed
  <2>. QED BY <2>2, <2>6, <2>7, <2>10, HInvParts
<1>10. CASE ~AllCookiesOK(mem', b)
  <2>1. /\ status' = "aborted" /\ heapFree' = f /\ heapAlloc' = b
        /\ tag' = Put(tag, q, Zero) /\ filled' = Put(filled, q, 0)
    BY <1>6, <1>10
  <2>2. strayed' /\ strayed
    BY <1>1, <1>4, <1>10, CookiesStand
  <2>3. /\ tag' \in [DOMAIN heapAlloc \cup {q} -> Tags \cup {Zero}]
        /\ filled' \in [DOMAIN heapAlloc \cup {q} -> Nat] /\ filled'[q] = 0
        /\ \A r \in DOMAIN heapAlloc : filled'[r] = filled[r]
    BY <1>2, <1>8, <2>1 DEF Put
  <2>4. HTypes' /\ FilledFits' /\ Unharmed'
    BY <1>1, <1>3, <1>7, <1>8, <2>1, <2>2, <2>3 DEF HTypes, FilledFits, Unharmed
  <2>. QED BY <1>2, <2>1, <2>4, HInvParts
<1>. QED BY <1>9, <1>10

-----------------------------------------------------------------------------
(* The theorems.                                                           *)

\* A free or a size 0 of lrealloc.
LEMMA DynamicFreeInv ==
  ASSUME HInv, NEW p, DynamicFree(p)
  PROVE  HInv'
<1>1. CASE ~AllCookiesOK(mem, heapAlloc) /\ Abort
  <2>1. strayed
    BY <1>1, CookiesStand DEF HInv, HTypes
  <2>. QED BY <1>1, <2>1, StopInv
<1>2. CASE p \in DOMAIN heapAlloc /\ HeapFree(p)
  BY <1>2, FreeInv
<1>. QED BY <1>1, <1>2 DEF DynamicFree

\* lrealloc.
LEMMA ReallocInv ==
  ASSUME HInv, NEW p, NEW size \in Nat, DynamicRealloc(p, size)
  PROVE  HInv'
<1> DEFINE n == AlignUp(size)
<1>1. p \in DOMAIN heapAlloc /\ status = "running" /\ n \in Nat /\ Aligned(n)
  BY AlignUpFacts DEF DynamicRealloc
<1>2. CASE DynamicFree(p)
  BY <1>2, DynamicFreeInv
<1>3. CASE ~CookiesOK(mem, heapAlloc, p) /\ Abort
  <2>1. strayed
    BY <1>1, <1>3, CookiesStand DEF HInv, HTypes, AllCookiesOK
  <2>. QED BY <1>3, <2>1, StopInv
<1> HIDE DEF n
<1>4. CASE ShrinkInPlace(p, n)
  BY <1>1, <1>4, ShrinkInv
<1>5. CASE GrowInPlace(p, n)
  BY <1>1, <1>5, GrowInv
<1>6. CASE Move(p, n)
  BY <1>1, <1>6, MoveInv
<1>7. CASE MoveTraps(p, n)
  BY <1>7, StopInv DEF MoveTraps
<1>. QED BY <1>2, <1>3, <1>4, <1>5, <1>6, <1>7 DEF DynamicRealloc, n

\* HInv is inductive.
LEMMA NextHInv == HInv /\ [Next]_vars => HInv'
<1> SUFFICES ASSUME HInv, [Next]_vars PROVE HInv'
  OBVIOUS
<1>0. Sizes \subseteq Nat
  BY HeapAssumption
<1>1. CASE \E size \in Sizes : DyanmicAlloc(size)
  BY <1>0, <1>1, AllocInv, StopInv DEF DyanmicAlloc
<1>2. CASE \E p \in HeapWords : DynamicFree(p)
  BY <1>2, DynamicFreeInv
<1>3. CASE \E p \in HeapWords, size \in Sizes : DynamicRealloc(p, size)
  BY <1>0, <1>3, ReallocInv
<1>4. CASE \E p \in DOMAIN heapAlloc, v \in Tags : GuestWrite(p, v)
  BY <1>4, WriteInv
<1>5. CASE \E p \in DOMAIN heapAlloc : GuestOverrun(p)
  BY <1>5, OverrunInv
<1>6. CASE UNCHANGED vars
  BY <1>6 DEF vars, HInv, HTypes, FilledFits, Unharmed
<1>. QED BY <1>1, <1>2, <1>3, <1>4, <1>5, <1>6 DEF Next

\* The two tables partition the heap and the guest's blocks are intact.
THEOREM HeapInvariance == Spec => []HInv
  BY InitHInv, NextHInv, PTL DEF Spec

\* The tables of MemoryManager keep their types, and all addresses and sizes in them stay
\* aligned, so that HeapAlloc never has a prefix to give back.
THEOREM HeapTypes == Spec => []TypeOK
<1>1. ASSUME HInv PROVE TypeOK
  <2>1. FreeList(heapFree) /\ BlockList(heapAlloc) /\ HTypes
    BY <1>1 DEF HInv, Layout
  <2>2. DOMAIN heapFree \subseteq HeapBase .. HeapEnd
    BY <2>1, HeapEnds DEF FreeList
  <2>3. DOMAIN heapAlloc \subseteq HeapBase .. HeapEnd
    BY <2>1, HeapEnds DEF BlockList, kCookieSize
  <2>. QED BY <2>1, <2>2, <2>3 DEF TypeOK, FreeList, BlockList, HTypes
<1>. QED BY <1>1, HeapInvariance, PTL

\* Blocks and free extents tile the heap, whatever malloc, realloc and free did before:
\* no byte of it belongs to two of them (HeapAlloc, CoalesceAround, TryHeapReallocInPlace)
\* and none is lost.
THEOREM HeapTiled == Spec => []Tiling
<1>1. ASSUME HInv PROVE NoOverlap
  <2>0. FreeList(heapFree) /\ BlockList(heapAlloc) /\ Layout(heapFree, heapAlloc)
    BY <1>1 DEF HInv, Layout
  <2>1. \A s \in DOMAIN heapFree : InHeap(FreeExtent(s))
    BY <2>0, HeapEnds DEF FreeList, InHeap, FreeExtent
  <2>2. \A p \in DOMAIN heapAlloc : InHeap(AllocExtent(p))
    BY <2>0, HeapEnds DEF BlockList, InHeap, AllocExtent, kCookieSize
  <2>3. \A s, u \in DOMAIN heapFree : s # u => Apart(FreeExtent(s), FreeExtent(u))
    BY <2>0 DEF FreeList, Apart, FreeExtent
  <2>4. \A p, q \in DOMAIN heapAlloc : p # q => Apart(AllocExtent(p), AllocExtent(q))
    BY <2>0 DEF BlockList, Apart, AllocExtent
  <2>5. ASSUME NEW s \in DOMAIN heapFree, NEW p \in DOMAIN heapAlloc
        PROVE  Apart(FreeExtent(s), AllocExtent(p))
    <3>1. ClearOf(heapAlloc, {}, s, s + heapFree[s])
      BY <2>0, ExtentClear
    <3>. QED BY <3>1 DEF ClearOf, Clear1, Apart, FreeExtent, AllocExtent
  <2>. QED BY <2>1, <2>2, <2>3, <2>4, <2>5 DEF NoOverlap
<1>2. ASSUME HInv PROVE NothingLost
  <2> SUFFICES ASSUME NEW a \in HeapBase .. HeapEnd - 1
               PROVE  FreeAt(heapFree, a) \/ BlockAt(heapAlloc, a)
    BY DEF NothingLost, FreeAt, BlockAt
  <2>1. a \in Nat /\ HeapBase <= a /\ a < HeapEnd
    BY HeapEnds
  <2>. QED BY <1>2, <2>1 DEF HInv, Layout, Partition
<1>3. HInv => Tiling
  BY <1>1, <1>2 DEF Tiling
<1>. QED BY <1>3, HeapInvariance, PTL

\* HeapAlloc reaches __debugbreak only if no gap between the blocks is large enough: the
\* coalescing done so far suffices for first fit.
THEOREM EveryGapFound == Spec => []FindsEveryGap
<1>1. ASSUME HInv, NEW size \in Sizes,
             NEW a \in HeapBase .. HeapEnd - Total(AlignUp(size)), Aligned(a),
             \A p \in DOMAIN heapAlloc :
               Apart([start |-> a, end |-> a + Total(AlignUp(size))], AllocExtent(p))
      PROVE  Candidates(heapFree, Total(AlignUp(size))) # {}
  <2> DEFINE t == Total(AlignUp(size))
  <2>0. FreeList(heapFree) /\ Layout(heapFree, heapAlloc)
    BY <1>1 DEF HInv, Layout
  <2>1. t \in Nat /\ t > 0
    BY HeapAssumption, AlignUpFacts DEF Total, kCookieSize
  <2>2. ClearOf(heapAlloc, {}, a, a + t)
    BY <1>1 DEF ClearOf, Clear1, Apart, AllocExtent
  <2> HIDE DEF t
  <2>3. a \in Nat /\ HeapBase <= a /\ a + t <= HeapEnd /\ a + t \in Nat
    BY <2>1, HeapEnds DEF t
  <2>4. \A x \in Nat : a <= x /\ x < a + t => FreeAt(heapFree, x)
    BY <2>0, <2>2, <2>3, ClearIsFree
  <2>5. PICK s \in DOMAIN heapFree : s <= a /\ a < s + heapFree[s]
    BY <2>1, <2>3, <2>4 DEF FreeAt
  <2>6. s \in Nat /\ heapFree[s] \in Nat /\ AlignUp(s) = s
    BY <2>0, AlignUpFacts DEF FreeList
  <2>7. a + t <= s + heapFree[s]
    <3> SUFFICES ASSUME s + heapFree[s] < a + t PROVE FALSE
      BY <2>3, <2>6
    <3>1. FreeAt(heapFree, s + heapFree[s])
      BY <2>3, <2>4, <2>5, <2>6
    <3>2. PICK u \in DOMAIN heapFree :
            u <= s + heapFree[s] /\ s + heapFree[s] < u + heapFree[u]
      BY <3>1 DEF FreeAt
    <3>3. u # s /\ u \in Nat /\ heapFree[u] \in Nat
      BY <2>0, <2>6, <3>2 DEF FreeList
    <3>4. s + heapFree[s] < u \/ u + heapFree[u] < s
      BY <2>0, <3>3 DEF FreeList
    <3>. QED BY <2>6, <3>2, <3>3, <3>4
  <2>8. Fits(heapFree, s, t)
    BY <2>1, <2>3, <2>5, <2>6, <2>7 DEF Fits
  <2>. QED BY <2>8 DEF Candidates, t
<1>2. HInv => FindsEveryGap
  BY <1>1 DEF FindsEveryGap
<1>. QED BY <1>2, HeapInvariance, PTL

\* A guest that stays inside its blocks keeps its data and never trips a cookie check.
THEOREM GuestKeepsData == Spec => []GuestUnharmed
<1>1. HInv => GuestUnharmed
  BY DEF HInv, Unharmed, Intact, GuestUnharmed, AllCookiesOK
<1>. QED BY <1>1, HeapInvariance, PTL

-----------------------------------------------------------------------------
(* What a step does to the table of blocks.                                *)

\* A block enters the table, leaves it, changes its size or is moved; nothing else
\* happens to it.  Blocks leave it only after all cookies were found in order.
Enters(q, n) ==
  /\ q \in Nat /\ n \in Nat /\ q \notin DOMAIN heapAlloc
  /\ HeapBase <= q - kCookieSize /\ q + n + kCookieSize <= HeapEnd
  /\ ClearOf(heapAlloc, {}, q - kCookieSize, q + n + kCookieSize)

TableStep ==
  \/ \E q, n : Enters(q, n) /\ heapAlloc' = Put(heapAlloc, q, n)
  \/ \E p \in DOMAIN heapAlloc :
       heapAlloc' = Drop(heapAlloc, p) /\ AllCookiesOK(mem, heapAlloc)
  \/ \E p \in DOMAIN heapAlloc, n \in Nat :
       /\ heapAlloc' = Put(heapAlloc, p, n) /\ p + n + kCookieSize <= HeapEnd
       /\ ClearOf(heapAlloc, {p}, p - kCookieSize, p + n + kCookieSize)
  \/ \E p \in DOMAIN heapAlloc : \E q, n :
       /\ Enters(q, n) /\ n > heapAlloc[p]
       /\ heapAlloc' = Drop(Put(heapAlloc, q, n), p) /\ AllCookiesOK(mem, heapAlloc)
  \/ heapAlloc' = heapAlloc

\* The block HeapAlloc takes.
LEMMA TakenEnters ==
  ASSUME HInv, NEW n \in Nat, Aligned(n), Candidates(heapFree, Total(n)) # {}
  PROVE  /\ Enters(FirstFit(heapFree, Total(n)) + kCookieSize, n)
         /\ AlignUp(FirstFit(heapFree, Total(n))) = FirstFit(heapFree, Total(n))
<1> DEFINE s == FirstFit(heapFree, Total(n))
           p == s + kCookieSize
<1>1. /\ AlignUp(s) = s /\ p \in Nat /\ p \notin DOMAIN heapAlloc
      /\ p - kCookieSize = s /\ p + n + kCookieSize = s + Total(n)
      /\ HeapBase <= s /\ s + Total(n) <= HeapEnd
      /\ ClearOf(heapAlloc, {}, s, s + Total(n))
  BY TakeBlock
<1> HIDE DEF s, p
<1>2. Enters(p, n)
  BY <1>1 DEF Enters
<1>. QED BY <1>1, <1>2 DEF s, p

\* Resizing in place.
LEMMA ResizeTable ==
  ASSUME HInv, NEW p \in DOMAIN heapAlloc, NEW n \in Nat, Aligned(n),
         ShrinkInPlace(p, n) \/ GrowInPlace(p, n)
  PROVE  TableStep
<1>1. Layout(heapFree, heapAlloc) /\ BlockList(heapAlloc)
  BY DEF HInv, Layout
<1>2. heapAlloc' = Put(heapAlloc, p, n)
  BY <1>1, ExceptIsPut DEF ShrinkInPlace, GrowInPlace
<1>3. /\ p \in Nat /\ heapAlloc[p] \in Nat /\ p + heapAlloc[p] + kCookieSize <= HeapEnd
      /\ ClearOf(heapAlloc, {p}, p - kCookieSize, p + heapAlloc[p] + kCookieSize)
      /\ \A q \in DOMAIN heapAlloc : q \in Nat /\ heapAlloc[q] \in Nat
  BY <1>1, BlockFacts
<1>4. ClearOf(heapAlloc, {p}, p - kCookieSize, p + n + kCookieSize)
      /\ p + n + kCookieSize <= HeapEnd
  <2>1. CASE ShrinkInPlace(p, n)
    <3>1. n <= heapAlloc[p]
      BY <2>1 DEF ShrinkInPlace
    <3>. QED BY <1>3, <3>1, HeapEnds DEF ClearOf, Clear1, kCookieSize
  <2>2. CASE GrowInPlace(p, n)
    BY <1>1, <2>2, GrowLayout DEF GrowInPlace, CanGrow, BlockEnd
  <2>. QED BY <2>1, <2>2
<1>. QED BY <1>2, <1>4 DEF TableStep

\* Moving.
LEMMA MoveTable ==
  ASSUME HInv, NEW p \in DOMAIN heapAlloc, NEW n \in Nat, Aligned(n), Move(p, n)
  PROVE  TableStep
<1> DEFINE s == FirstFit(heapFree, Total(n))
           q == s + kCookieSize
           b == Put(heapAlloc, q, n)
<1>1. Candidates(heapFree, Total(n)) # {} /\ n > heapAlloc[p]
  BY DEF Move
<1>2. Enters(q, n) /\ AlignUp(s) = s
  BY <1>1, TakenEnters
<1>3. AllCookiesOK(mem', b) <=> AllCookiesOK(mem, heapAlloc)
  BY MoveOthers
<1>4. IF AllCookiesOK(mem', b) THEN heapAlloc' = Drop(b, p) ELSE heapAlloc' = b
  BY <1>2 DEF Move
<1> HIDE DEF q
<1>. QED BY <1>1, <1>2, <1>3, <1>4 DEF TableStep

\* Every step of the heap is one of these on the table.
LEMMA NextTable == HInv /\ [Next]_vars => TableStep
<1> SUFFICES ASSUME HInv, [Next]_vars PROVE TableStep
  OBVIOUS
<1>0. Sizes \subseteq Nat
  BY HeapAssumption
<1>1. ASSUME NEW size \in Nat, HeapAlloc(size) PROVE TableStep
  <2> DEFINE n == AlignUp(size)
             q == FirstFit(heapFree, Total(n)) + kCookieSize
  <2>1. n \in Nat /\ Aligned(n) /\ Candidates(heapFree, Total(n)) # {}
    BY <1>1, AlignUpFacts DEF HeapAlloc
  <2>2. Enters(q, n) /\ heapAlloc' = Put(heapAlloc, q, n)
    BY <1>1, <2>1, TakenEnters DEF HeapAlloc
  <2> HIDE DEF q
  <2>. QED BY <2>2 DEF TableStep
<1>2. ASSUME NEW p, DynamicFree(p) PROVE TableStep
  BY <1>2 DEF DynamicFree, HeapFree, Abort, TableStep
<1>3. ASSUME NEW p, NEW size \in Nat, DynamicRealloc(p, size) PROVE TableStep
  <2> DEFINE n == AlignUp(size)
  <2>1. n \in Nat /\ Aligned(n) /\ p \in DOMAIN heapAlloc
    BY <1>3, AlignUpFacts DEF DynamicRealloc
  <2>2. \/ DynamicFree(p) \/ Abort \/ MoveTraps(p, n)
        \/ ShrinkInPlace(p, n) \/ GrowInPlace(p, n) \/ Move(p, n)
    BY <1>3 DEF DynamicRealloc
  <2>3. Abort \/ MoveTraps(p, n) => TableStep
    BY DEF Abort, MoveTraps, Trap, TableStep
  <2> HIDE DEF n
  <2>. QED BY <1>2, <2>1, <2>2, <2>3, ResizeTable, MoveTable
<1>4. CASE \E size \in Sizes : DyanmicAlloc(size)
  <2>1. PICK size \in Sizes : DyanmicAlloc(size)
    BY <1>4
  <2>2. CASE HeapAlloc(size)
    BY <1>0, <1>1, <2>2
  <2>3. CASE Trap
    BY <2>3 DEF Trap, TableStep
  <2>. QED BY <2>1, <2>2, <2>3 DEF DyanmicAlloc
<1>5. CASE \E p \in HeapWords : DynamicFree(p)
  BY <1>2, <1>5
<1>6. CASE \E p \in HeapWords, size \in Sizes : DynamicRealloc(p, size)
  BY <1>0, <1>3, <1>6
<1>7. CASE \/ \E p \in DOMAIN heapAlloc, v \in Tags : GuestWrite(p, v)
           \/ \E p \in DOMAIN heapAlloc : GuestOverrun(p)
           \/ UNCHANGED vars
  BY <1>7 DEF GuestWrite, GuestOverrun, vars, TableStep
<1>. QED BY <1>4, <1>5, <1>6, <1>7 DEF Next

\* No block is released, or moved, while a cookie of any block is damaged.
THEOREM DamageStopsRelease == Spec => NoReleaseAfterDamage
<1>1. ASSUME HInv, [Next]_vars, NEW p \in DOMAIN heapAlloc, p \notin DOMAIN heapAlloc'
      PROVE  AllCookiesOK(mem, heapAlloc)
  <2>1. TableStep
    BY <1>1, NextTable
  <2>2. \A q, n : heapAlloc' # Put(heapAlloc, q, n)
    BY <1>1 DEF Put
  <2>. QED BY <1>1, <2>1, <2>2 DEF TableStep
<1>2. HInv /\ [Next]_vars =>
        [(\E p \in DOMAIN heapAlloc : p \notin DOMAIN heapAlloc') => AllCookiesOK(mem, heapAlloc)]_vars
  BY <1>1
<1>. QED BY <1>2, HeapInvariance, PTL DEF Spec, NoReleaseAfterDamage

\* A block that enters the table is clear in the sense of the abstract allocator.
LEMMA ClearAbstract ==
  ASSUME HInv, NEW q \in Nat, NEW n \in Nat, NEW S, HeapBase <= q - kCookieSize,
         q + n + kCookieSize <= HeapEnd,
         ClearOf(heapAlloc, S, q - kCookieSize, q + n + kCookieSize)
  PROVE  Abstract!Clear(q, n, DOMAIN heapAlloc \ S)
<1>1. \A r \in DOMAIN heapAlloc : r \in Nat /\ heapAlloc[r] \in Nat
  BY DEF HInv, Layout, BlockList
<1>2. HeapBase <= q /\ q + n <= HeapEnd
  BY HeapEnds DEF kCookieSize
<1>3. \A r \in DOMAIN heapAlloc \ S : q + n <= r \/ r + heapAlloc[r] <= q
  BY <1>1 DEF ClearOf, Clear1, kCookieSize
<1>. QED BY <1>2, <1>3 DEF Abstract!Clear

\* Every step of the table is a step of the abstract allocator or leaves it alone.
LEMMA TableAbstract ==
  ASSUME HInv, TableStep
  PROVE  [Abstract!Next]_heapAlloc
<1>1. ASSUME NEW q, NEW n, Enters(q, n), heapAlloc' = Put(heapAlloc, q, n)
      PROVE  Abstract!Next
  <2>1. /\ DOMAIN heapAlloc' = DOMAIN heapAlloc \cup {q} /\ heapAlloc'[q] = n
        /\ \A r \in DOMAIN heapAlloc \ {q} : heapAlloc'[r] = heapAlloc[r]
    BY <1>1 DEF Put
  <2>2. Abstract!Clear(q, n, DOMAIN heapAlloc \ {})
    BY <1>1, ClearAbstract DEF Enters
  <2>3. Abstract!SameExcept({q})
    BY <2>1 DEF Abstract!SameExcept
  <2>4. Abstract!Grant(q)
    BY <1>1, <2>1, <2>2, <2>3 DEF Enters, Abstract!Grant
  <2>. QED BY <2>1, <2>4 DEF Abstract!Next
<1>2. ASSUME NEW p \in DOMAIN heapAlloc, heapAlloc' = Drop(heapAlloc, p)
      PROVE  Abstract!Next
  <2>1. /\ DOMAIN heapAlloc' = DOMAIN heapAlloc \ {p}
        /\ \A r \in DOMAIN heapAlloc \ {p} : heapAlloc'[r] = heapAlloc[r]
    BY <1>2 DEF Drop
  <2>2. Abstract!Release(p)
    BY <2>1 DEF Abstract!Release, Abstract!SameExcept
  <2>. QED BY <2>2 DEF Abstract!Next
<1>3. ASSUME NEW p \in DOMAIN heapAlloc, NEW n \in Nat, heapAlloc' = Put(heapAlloc, p, n),
             p + n + kCookieSize <= HeapEnd,
             ClearOf(heapAlloc, {p}, p - kCookieSize, p + n + kCookieSize)
      PROVE  Abstract!Next
  <2>1. /\ DOMAIN heapAlloc' = DOMAIN heapAlloc /\ heapAlloc'[p] = n
        /\ \A r \in DOMAIN heapAlloc \ {p} : heapAlloc'[r] = heapAlloc[r]
    BY <1>3 DEF Put
  <2>2. p \in Nat /\ HeapBase <= p - kCookieSize
    BY DEF HInv, Layout, BlockList
  <2>3. Abstract!Clear(p, n, DOMAIN heapAlloc \ {p})
    BY <1>3, <2>2, ClearAbstract
  <2>4. Abstract!Resize(p)
    BY <2>1, <2>3 DEF Abstract!Resize, Abstract!SameExcept, Abstract!Others
  <2>. QED BY <2>4 DEF Abstract!Next
<1>4. ASSUME NEW p \in DOMAIN heapAlloc, NEW q, NEW n, Enters(q, n), n > heapAlloc[p],
             heapAlloc' = Drop(Put(heapAlloc, q, n), p)
      PROVE  Abstract!Next
  <2>1. q # p /\ q \notin DOMAIN heapAlloc /\ n \in Nat /\ heapAlloc[p] \in Nat
    BY <1>4 DEF Enters, HInv, Layout, BlockList
  <2>2. /\ DOMAIN heapAlloc' = (DOMAIN heapAlloc \cup {q}) \ {p} /\ heapAlloc'[q] = n
        /\ \A r \in DOMAIN heapAlloc \ {p, q} : heapAlloc'[r] = heapAlloc[r]
    BY <1>4, <2>1 DEF Put, Drop
  <2>3. Abstract!Clear(q, n, DOMAIN heapAlloc \ {})
    BY <1>4, ClearAbstract DEF Enters
  <2>4. Abstract!SameExcept({p, q})
    BY <2>1, <2>2 DEF Abstract!SameExcept
  <2>5. heapAlloc'[q] >= heapAlloc[p]
    BY <1>4, <2>1, <2>2
  <2>6. Abstract!Move(p, q)
    BY <2>1, <2>2, <2>3, <2>4, <2>5 DEF Abstract!Move
  <2>7. q \in DOMAIN heapAlloc'
    BY <2>1, <2>2
  <2>. QED BY <2>6, <2>7 DEF Abstract!Next
<1>. QED BY <1>1, <1>2, <1>3, <1>4 DEF TableStep

\* lmalloc, lcalloc, lrealloc and _lfree implement the abstract allocator: areas handed out
\* or grown never overlap a live block, and no call touches a block it was not made for.
THEOREM RefinesAllocator == Spec => ImplementsAllocator
<1>1. Init => Abstract!Init
  BY DEF Init, Abstract!Init
<1>2. HInv /\ [Next]_vars => [Abstract!Next]_heapAlloc
  BY NextTable, TableAbstract
<1>. QED BY <1>1, <1>2, HeapInvariance, PTL DEF Spec, ImplementsAllocator, Abstract!Spec
=============================================================================

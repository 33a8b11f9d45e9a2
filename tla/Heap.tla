--------------------------------- MODULE Heap ---------------------------------
(***************************************************************************)
(* The dynamic heap of the guest: the sub-allocator MemoryManager keeps    *)
(* inside one mapped region (HeapAlloc, HeapFree, CoalesceAround and the   *)
(* realloc path of MemoryManager.cpp) behind lmalloc, lcalloc, lrealloc    *)
(* and _lfree.  Addresses and sizes are the byte values of the code with a *)
(* 64-bit size_t; memory is kept in words of the size of a cookie.         *)
(***************************************************************************)
EXTENDS Integers

CONSTANTS
  HeapBase,    \* MEM_DYNAMIC_HEAP_BASE
  HeapSize,    \* MEM_DYNAMIC_HEAP_SIZE
  Sizes,       \* the sizes the guest asks for
  Tags,        \* what the guest stores in its blocks
  MayStray     \* whether the guest is a program that overruns its blocks

kHeapAlign  == 16
kCookieSize == 8
HeapEnd     == HeapBase + HeapSize
Cookie      == "cookie"
Zero        == "zero"

ASSUME HeapAssumption ==
  /\ HeapBase \in Nat /\ HeapBase > 0 /\ HeapBase % kHeapAlign = 0
  /\ HeapSize \in Nat /\ HeapSize > 0 /\ HeapSize % kHeapAlign = 0
  /\ Sizes \subseteq Nat
  /\ Cookie \notin Tags /\ Zero \notin Tags
  /\ MayStray \in BOOLEAN

VARIABLES
  heapFree,    \* _heapFree: start of a free extent -> its size
  heapAlloc,   \* _heapAlloc: user pointer -> size of the user area
  mem,         \* contents of the heap, word by word
  tag, filled, \* auxiliary: what the guest last wrote into a block, and how far
  strayed,     \* auxiliary: the guest has written outside its blocks
  status       \* "running", "aborted" (CheckCookie) or "trapped" (__debugbreak)

vars == <<heapFree, heapAlloc, mem, tag, filled, strayed, status>>

AlignUp(v) == ((v + kHeapAlign - 1) \div kHeapAlign) * kHeapAlign

Total(userSize) == userSize + 2 * kCookieSize

Words(from, to) == {a \in from .. to - 1 : a % kCookieSize = 0}

HeapWords == Words(HeapBase, HeapEnd)

Init ==
  /\ heapFree = [s \in {HeapBase} |-> HeapSize]
  /\ heapAlloc = [p \in {} |-> 0]
  /\ mem = [a \in HeapWords |-> Zero]
  /\ tag = [p \in {} |-> Zero]
  /\ filled = [p \in {} |-> 0]
  /\ strayed = FALSE
  /\ status = "running"

-----------------------------------------------------------------------------
(* Partial functions as the std::map and std::unordered_map of the code.   *)

Put(f, k, v) == [x \in DOMAIN f \cup {k} |-> IF x = k THEN v ELSE f[x]]
Drop(f, k)   == [x \in DOMAIN f \ {k} |-> f[x]]

\* Keeps the entries of f with a positive size.
NonEmpty(f) == [x \in {y \in DOMAIN f : f[y] > 0} |-> f[x]]

-----------------------------------------------------------------------------
(* The free list.                                                          *)

Fits(f, s, total) == AlignUp(s) - s + total <= f[s]

Candidates(f, total) == {s \in DOMAIN f : Fits(f, s, total)}

FirstFit(f, total) == CHOOSE s \in Candidates(f, total) :
                        \A x \in Candidates(f, total) : s <= x

\* Cuts [AlignUp(s), AlignUp(s) + total) out of the free extent s.
Carve(f, s, total) ==
  LET start == AlignUp(s)
      end   == start + total
  IN  NonEmpty(Put(Put(Drop(f, s), s, start - s), end, s + f[s] - end))

Preceding(f, start) == {s \in DOMAIN f : s <= start}
Following(f, start) == {s \in DOMAIN f : s >= start}
Greatest(S) == CHOOSE s \in S : \A x \in S : x <= s
Least(S)    == CHOOSE s \in S : \A x \in S : s <= x

MergePrev(f, start) ==
  /\ Preceding(f, start) # {}
  /\ LET p == Greatest(Preceding(f, start)) IN p + f[p] = start

\* Faulty: the extent behind is never merged.
MergeNextNever(f, start, end) == start > end

MergeNext(f, start, end) ==
  /\ Following(f, start) # {}
  /\ Least(Following(f, start)) = end

\* Returns [start, start + size) to the free list, merged with its neighbours.
CoalesceAround(f, start, size) ==
  LET p      == Greatest(Preceding(f, start))
      merged == MergePrev(f, start)
      start1 == IF merged THEN p ELSE start
      f1     == IF merged THEN Drop(f, p) ELSE f
      end    == start + size
  IN  IF MergeNext(f1, start1, end)
      THEN Put(Drop(f1, end), start1, end - start1 + f1[end])
      ELSE Put(f1, start1, end - start1)

-----------------------------------------------------------------------------
(* Memory.                                                                 *)

WriteCookie(m, addr) == [m EXCEPT ![addr] = Cookie]

\* CheckCookie on both ends of a block, and of every block, for a given memory
\* and allocation table.
CookiesOK(m, blocks, p) ==
  m[p - kCookieSize] = Cookie /\ m[p + blocks[p]] = Cookie

AllCookiesOK(m, blocks) == \A p \in DOMAIN blocks : CookiesOK(m, blocks, p)

Abort ==
  /\ status' = "aborted"
  /\ UNCHANGED <<heapFree, heapAlloc, mem, tag, filled, strayed>>

\* HeapAlloc finds no free extent and hits __debugbreak.
Trap ==
  /\ status' = "trapped"
  /\ UNCHANGED <<heapFree, heapAlloc, mem, tag, filled, strayed>>

WriteCookies(m, start, userSize) ==
  WriteCookie(WriteCookie(m, start), start + kCookieSize + userSize)

-----------------------------------------------------------------------------
(* lmalloc and lcalloc.                                                    *)

\* HeapAlloc: first fit, cut, cookies, record.
HeapAlloc(size) ==
  LET userSize == AlignUp(size)
      s        == FirstFit(heapFree, Total(userSize))
      p        == AlignUp(s) + kCookieSize
  IN
  /\ Candidates(heapFree, Total(userSize)) # {}
  /\ heapFree' = Carve(heapFree, s, Total(userSize))
  /\ mem' = WriteCookies(mem, AlignUp(s), userSize)
  /\ heapAlloc' = Put(heapAlloc, p, userSize)
  /\ tag' = Put(tag, p, Zero)
  /\ filled' = Put(filled, p, 0)
  /\ UNCHANGED <<strayed, status>>

DyanmicAlloc(size) ==
  /\ status = "running"
  /\ size > 0
  /\ \/ HeapAlloc(size)
     \/ Candidates(heapFree, Total(AlignUp(size))) = {} /\ Trap

-----------------------------------------------------------------------------
(* _lfree: the cookies of every block are checked, then one is released.   *)

HeapFree(p) ==
  /\ heapFree' = CoalesceAround(heapFree, p - kCookieSize, Total(heapAlloc[p]))
  /\ heapAlloc' = Drop(heapAlloc, p)
  /\ tag' = Drop(tag, p)
  /\ filled' = Drop(filled, p)
  /\ UNCHANGED <<mem, strayed, status>>

\* Faulty: the cookies are not checked.
DynamicFreeUnchecked(p) ==
  /\ status = "running"
  /\ p \in DOMAIN heapAlloc
  /\ HeapFree(p)

\* A pointer that is not a live block only gets the cookies checked.
DynamicFree(p) ==
  /\ status = "running"
  /\ \/ ~AllCookiesOK(mem, heapAlloc) /\ Abort
     \/ AllCookiesOK(mem, heapAlloc) /\ p \in DOMAIN heapAlloc /\ HeapFree(p)

-----------------------------------------------------------------------------
(* lrealloc.                                                               *)

\* Faulty: the tail is cut off and not released.
ShrinkKeepsTail(p, newSize) ==
  /\ newSize <= heapAlloc[p]
  /\ mem' = WriteCookie(mem, p + newSize)
  /\ heapAlloc' = [heapAlloc EXCEPT ![p] = newSize]
  /\ filled' = [filled EXCEPT ![p] = IF @ < newSize THEN @ ELSE newSize]
  /\ UNCHANGED <<heapFree, tag, strayed, status>>

\* The user area shrinks; the bytes after the new suffix cookie are released.
ShrinkInPlace(p, newSize) ==
  LET tail == p + newSize IN
  /\ newSize <= heapAlloc[p]
  /\ IF newSize < heapAlloc[p]
     THEN /\ mem' = WriteCookie(mem, tail)
          /\ heapFree' = CoalesceAround(heapFree, tail + kCookieSize, heapAlloc[p] - newSize)
     ELSE UNCHANGED <<mem, heapFree>>
  /\ heapAlloc' = [heapAlloc EXCEPT ![p] = newSize]
  /\ filled' = [filled EXCEPT ![p] = IF @ < newSize THEN @ ELSE newSize]
  /\ UNCHANGED <<tag, strayed, status>>

BlockEnd(p) == p + heapAlloc[p] + kCookieSize

\* Faulty: any free extent behind the block is taken to be large enough.
CanGrowUnchecked(p, newSize) ==
  /\ newSize > heapAlloc[p]
  /\ BlockEnd(p) \in DOMAIN heapFree

CanGrow(p, newSize) ==
  /\ newSize > heapAlloc[p]
  /\ BlockEnd(p) \in DOMAIN heapFree
  /\ heapFree[BlockEnd(p)] >= newSize - heapAlloc[p]

\* The user area grows into the free extent behind it.
GrowInPlace(p, newSize) ==
  LET need == newSize - heapAlloc[p] IN
  /\ CanGrow(p, newSize)
  /\ heapFree' = NonEmpty(Put(Drop(heapFree, BlockEnd(p)), BlockEnd(p) + need,
                              heapFree[BlockEnd(p)] - need))
  /\ heapAlloc' = [heapAlloc EXCEPT ![p] = newSize]
  /\ mem' = WriteCookie(mem, p + newSize)
  /\ UNCHANGED <<tag, filled, strayed, status>>

\* Faulty: the user area is not copied.
MoveUncopied(p, newSize) ==
  LET total == Total(newSize)
      s     == FirstFit(heapFree, total)
      q     == AlignUp(s) + kCookieSize
  IN
  /\ newSize > heapAlloc[p] /\ ~CanGrow(p, newSize)
  /\ Candidates(heapFree, total) # {}
  /\ AllCookiesOK(mem, heapAlloc)
  /\ mem' = WriteCookies(mem, AlignUp(s), newSize)
  /\ heapFree' = CoalesceAround(Carve(heapFree, s, total), p - kCookieSize, Total(heapAlloc[p]))
  /\ heapAlloc' = Drop(Put(heapAlloc, q, newSize), p)
  /\ tag' = Drop(Put(tag, q, tag[p]), p)
  /\ filled' = Drop(Put(filled, q, filled[p]), p)
  /\ UNCHANGED <<strayed, status>>

\* A new block is taken, the user area is copied, the old block is freed; the
\* free checks the cookies of every block, the new one included.
Move(p, newSize) ==
  LET total   == Total(newSize)
      s       == FirstFit(heapFree, total)
      q       == AlignUp(s) + kCookieSize
      oldSize == heapAlloc[p]
      cookied == WriteCookies(mem, AlignUp(s), newSize)
  IN
  /\ newSize > oldSize /\ ~CanGrow(p, newSize)
  /\ Candidates(heapFree, total) # {}
  /\ mem' = [a \in HeapWords |->
               IF a \in q .. q + oldSize - 1 THEN mem[p + (a - q)] ELSE cookied[a]]
  /\ IF AllCookiesOK(mem', Put(heapAlloc, q, newSize))
     THEN /\ heapFree' = CoalesceAround(Carve(heapFree, s, total),
                                        p - kCookieSize, Total(oldSize))
          /\ heapAlloc' = Drop(Put(heapAlloc, q, newSize), p)
          /\ tag' = Drop(Put(tag, q, tag[p]), p)
          /\ filled' = Drop(Put(filled, q, filled[p]), p)
          /\ UNCHANGED status
     ELSE /\ status' = "aborted"
          /\ heapFree' = Carve(heapFree, s, total)
          /\ heapAlloc' = Put(heapAlloc, q, newSize)
          /\ tag' = Put(tag, q, Zero)
          /\ filled' = Put(filled, q, 0)
  /\ UNCHANGED strayed

MoveTraps(p, newSize) ==
  /\ newSize > heapAlloc[p] /\ ~CanGrow(p, newSize)
  /\ Candidates(heapFree, Total(newSize)) = {}
  /\ Trap

\* Size 0 frees; otherwise the block's own cookies are checked, then the block is
\* resized where it is or moved.
DynamicRealloc(p, size) ==
  /\ status = "running"
  /\ p \in DOMAIN heapAlloc
  /\ IF size = 0 THEN DynamicFree(p)
     ELSE \/ ~CookiesOK(mem, heapAlloc, p) /\ Abort
          \/ /\ CookiesOK(mem, heapAlloc, p)
             /\ \/ ShrinkInPlace(p, AlignUp(size))
                \/ GrowInPlace(p, AlignUp(size))
                \/ Move(p, AlignUp(size))
                \/ MoveTraps(p, AlignUp(size))

-----------------------------------------------------------------------------
(* The guest program.                                                      *)

\* It fills a block it owns ...
GuestWrite(p, v) ==
  /\ status = "running"
  /\ mem' = [a \in HeapWords |-> IF a \in p .. p + heapAlloc[p] - 1 THEN v ELSE mem[a]]
  /\ tag' = [tag EXCEPT ![p] = v]
  /\ filled' = [filled EXCEPT ![p] = heapAlloc[p]]
  /\ UNCHANGED <<heapFree, heapAlloc, strayed, status>>

\* ... or runs over the end of it (one overrun is enough to ask what follows).
GuestOverrun(p) ==
  /\ MayStray /\ ~strayed
  /\ status = "running"
  /\ mem' = [mem EXCEPT ![p + heapAlloc[p]] = Zero]
  /\ strayed' = TRUE
  /\ UNCHANGED <<heapFree, heapAlloc, tag, filled, status>>

Next ==
  \/ \E size \in Sizes : DyanmicAlloc(size)
  \/ \E p \in HeapWords : DynamicFree(p)
  \/ \E p \in HeapWords, size \in Sizes : DynamicRealloc(p, size)
  \/ \E p \in DOMAIN heapAlloc, v \in Tags : GuestWrite(p, v)
  \/ \E p \in DOMAIN heapAlloc : GuestOverrun(p)

Spec == Init /\ [][Next]_vars

-----------------------------------------------------------------------------
(* Properties.                                                             *)

\* The extents of the two tables, cookies included: [start, end).
FreeExtent(s)  == [start |-> s, end |-> s + heapFree[s]]
AllocExtent(p) == [start |-> p - kCookieSize, end |-> p + heapAlloc[p] + kCookieSize]

Apart(x, y) == x.end <= y.start \/ y.end <= x.start

InHeap(x) == HeapBase <= x.start /\ x.start < x.end /\ x.end <= HeapEnd

Aligned(n) == n % kHeapAlign = 0

\* The two tables map addresses of the heap to sizes, in multiples of the
\* alignment (so HeapAlloc never has a prefix to give back).
TypeOK ==
  /\ heapFree \in [DOMAIN heapFree -> Nat]
  /\ heapAlloc \in [DOMAIN heapAlloc -> Nat]
  /\ DOMAIN heapFree \subseteq HeapBase .. HeapEnd
  /\ DOMAIN heapAlloc \subseteq HeapBase .. HeapEnd
  /\ mem \in [HeapWords -> Tags \cup {Cookie, Zero}]
  /\ tag \in [DOMAIN heapAlloc -> Tags \cup {Zero}]
  /\ filled \in [DOMAIN heapAlloc -> Nat]
  /\ strayed \in BOOLEAN
  /\ status \in {"running", "aborted", "trapped"}
  /\ \A s \in DOMAIN heapFree : Aligned(s) /\ Aligned(heapFree[s])
  /\ \A p \in DOMAIN heapAlloc : Aligned(p - kCookieSize) /\ Aligned(heapAlloc[p])

\* No byte belongs to two extents: blocks and free extents lie inside the heap
\* and apart from each other, whatever sequence of malloc, realloc and free
\* produced them (HeapAlloc, CoalesceAround, TryHeapReallocInPlace).
NoOverlap ==
  /\ \A s \in DOMAIN heapFree : InHeap(FreeExtent(s))
  /\ \A p \in DOMAIN heapAlloc : InHeap(AllocExtent(p))
  /\ \A s, u \in DOMAIN heapFree : s # u => Apart(FreeExtent(s), FreeExtent(u))
  /\ \A p, q \in DOMAIN heapAlloc : p # q => Apart(AllocExtent(p), AllocExtent(q))
  /\ \A s \in DOMAIN heapFree, p \in DOMAIN heapAlloc : Apart(FreeExtent(s), AllocExtent(p))

\* No byte is lost: every address of the heap is in a block or in a free extent.
NothingLost ==
  \A a \in HeapBase .. HeapEnd - 1 :
    \/ \E s \in DOMAIN heapFree : s <= a /\ a < s + heapFree[s]
    \/ \E p \in DOMAIN heapAlloc : p - kCookieSize <= a /\ a < p + heapAlloc[p] + kCookieSize

\* The blocks and the free extents tile the heap: each byte of it belongs to one of
\* them and to one only, after any sequence of malloc, realloc and free.
Tiling == NoOverlap /\ NothingLost

\* First fit finds every gap: if some aligned stretch of the heap large enough
\* for a request touches no block, HeapAlloc does not reach __debugbreak.
FindsEveryGap ==
  \A size \in Sizes \ {0} :
    LET total == Total(AlignUp(size)) IN
    (\E a \in HeapBase .. HeapEnd - total :
       /\ Aligned(a)
       /\ \A p \in DOMAIN heapAlloc : Apart([start |-> a, end |-> a + total], AllocExtent(p)))
    => Candidates(heapFree, total) # {}

\* A guest that stays inside its blocks never trips a cookie check and keeps its
\* data: both cookies of every block stand, and what the guest stored in a block
\* is there until it frees the block, after any block was grown, shrunk, moved or
\* released (HeapAlloc, HeapFree, TryHeapReallocInPlace, DynamicRealloc).
GuestUnharmed ==
  ~strayed =>
    /\ status # "aborted"
    /\ AllCookiesOK(mem, heapAlloc)
    /\ \A p \in DOMAIN heapAlloc :
         \A a \in Words(p, p + filled[p]) : mem[a] = tag[p]

\* An overrun is caught before any block is released: no release (and no move)
\* completes while a cookie of a live block is damaged.
NoReleaseAfterDamage ==
  [][(\E p \in DOMAIN heapAlloc : p \notin DOMAIN heapAlloc') =>
        AllCookiesOK(mem, heapAlloc)]_vars

\* The heap implements the abstract allocator: blocks handed out by HeapAlloc,
\* grown or moved by DynamicRealloc never overlap a live block, and no operation
\* disturbs the table entry of a block it was not called for.
Abstract == INSTANCE Allocator WITH Base <- HeapBase, Limit <- HeapEnd, live <- heapAlloc

ImplementsAllocator == Abstract!Spec
=============================================================================

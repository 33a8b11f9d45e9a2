----------------------------- MODULE ImagesProofs -----------------------------
(***************************************************************************)
(* The first part is about MemoryMap alone, for every page size, heap and  *)
(* set of requests.                                                        *)
(*                                                                         *)
(* The second part shows that loading and start-up only do what MemoryMap  *)
(* allows, so that what is proved of MemoryMap holds for them, for every   *)
(* program and every set of PE files.                                      *)
(*                                                                         *)
(* The third part is about who frees what.  Every block has one owner: the *)
(* heap, the devices and segments, a loaded image, an image on the stack,  *)
(* the place that is being tried out, or nobody, if the code has forgotten *)
(* it.  Claims gives each owner its addresses; Tidy says that the claims   *)
(* are pairwise disjoint and are together the blocks that are mapped.  A   *)
(* step adds an address to one claim, takes one away, or moves a claim to  *)
(* another owner (TidyGrow, TidyShrink, TidyMove).                         *)
(***************************************************************************)
EXTENDS Images, TLAPS, SequenceTheorems

\* What division by the page size means.
LEMMA Division ==
  ASSUME NEW n \in Nat
  PROVE  /\ n \div PAGE_SIZE \in Nat
         /\ n % PAGE_SIZE \in Nat
         /\ n = PAGE_SIZE * (n \div PAGE_SIZE) + (n % PAGE_SIZE)
         /\ n % PAGE_SIZE < PAGE_SIZE
BY MemoryMapAssumption

\* Multiplication by the page size is strictly monotone.
LEMMA Scaled ==
  ASSUME NEW m \in Nat, NEW n \in Nat, PAGE_SIZE * m < PAGE_SIZE * n
  PROVE  m < n
<1>1. SUFFICES ASSUME n <= m PROVE FALSE
  OBVIOUS
<1>2. PICK d \in Nat : m = n + d
  <2>1. m - n \in Nat /\ m = n + (m - n)
    BY <1>1
  <2> QED BY <2>1
<1>3. PAGE_SIZE * m = PAGE_SIZE * n + PAGE_SIZE * d
  BY <1>2, MemoryMapAssumption
<1>4. PAGE_SIZE * d \in Nat /\ PAGE_SIZE * n \in Nat
  BY MemoryMapAssumption
<1> QED BY <1>3, <1>4

\* The pages for a size cover it, and exceed it by less than a page.
LEMMA PagesCover ==
  ASSUME NEW s \in Nat
  PROVE  /\ PagesFor(s) \in Nat
         /\ s <= PAGE_SIZE * PagesFor(s)
         /\ PAGE_SIZE * PagesFor(s) < s + PAGE_SIZE
         /\ s # 0 => PagesFor(s) # 0
<1>1. s + PAGE_SIZE - 1 \in Nat
  BY MemoryMapAssumption
<1> DEFINE n == s + PAGE_SIZE - 1
<1>2. /\ PagesFor(s) \in Nat
      /\ n = PAGE_SIZE * PagesFor(s) + (n % PAGE_SIZE)
      /\ n % PAGE_SIZE \in Nat
      /\ n % PAGE_SIZE < PAGE_SIZE
  BY <1>1, Division DEF PagesFor
<1>3. PAGE_SIZE * PagesFor(s) \in Nat
  BY <1>2, MemoryMapAssumption
<1>4. /\ s <= PAGE_SIZE * PagesFor(s)
      /\ PAGE_SIZE * PagesFor(s) < s + PAGE_SIZE
  BY <1>2, <1>3, MemoryMapAssumption
<1>5. ASSUME s # 0, PagesFor(s) = 0 PROVE FALSE
  <2>1. PAGE_SIZE * PagesFor(s) = 0
    BY <1>5, MemoryMapAssumption
  <2> QED BY <2>1, <1>4, <1>5
<1> QED BY <1>2, <1>4, <1>5

\* An aligned address is a multiple of the page size.
LEMMA AlignedMultiple ==
  ASSUME NEW a \in Nat, Aligned(a)
  PROVE  \E k \in Nat : a = PAGE_SIZE * k
<1>1. /\ a \div PAGE_SIZE \in Nat
      /\ a = PAGE_SIZE * (a \div PAGE_SIZE) + (a % PAGE_SIZE)
      /\ a % PAGE_SIZE = 0
  BY Division DEF Aligned
<1>2. PAGE_SIZE * (a \div PAGE_SIZE) \in Nat
  BY <1>1, MemoryMapAssumption
<1>3. a = PAGE_SIZE * (a \div PAGE_SIZE)
  BY <1>1, <1>2
<1> QED BY <1>1, <1>3

\* Between an aligned start and an aligned bound, a size that fits still fits
\* when it is rounded up to pages: the reason why StaticAlloc may test the
\* overlap with the size asked for.
LEMMA RoundUp ==
  ASSUME NEW a \in Nat, NEW c \in Nat, NEW s \in Nat,
         Aligned(a), Aligned(c), a + s <= c
  PROVE  a + PAGE_SIZE * PagesFor(s) <= c
<1>1. PICK k \in Nat : a = PAGE_SIZE * k
  BY AlignedMultiple
<1>2. PICK l \in Nat : c = PAGE_SIZE * l
  BY AlignedMultiple
<1>3. PICK q \in Nat : q = PagesFor(s)
  BY PagesCover
<1>4. PAGE_SIZE * q < s + PAGE_SIZE
  BY <1>3, PagesCover
<1>5. PAGE_SIZE * (k + q) = PAGE_SIZE * k + PAGE_SIZE * q
  BY MemoryMapAssumption
<1>6. PAGE_SIZE * (l + 1) = PAGE_SIZE * l + PAGE_SIZE
  BY MemoryMapAssumption
<1>7. /\ PAGE_SIZE * k \in Nat
      /\ PAGE_SIZE * l \in Nat
      /\ PAGE_SIZE * q \in Nat
  BY MemoryMapAssumption
<1>8. PAGE_SIZE * (k + q) < PAGE_SIZE * (l + 1)
  BY <1>1, <1>2, <1>4, <1>5, <1>6, <1>7, MemoryMapAssumption
<1>9. k + q < l + 1
  BY <1>8, Scaled
<1>10. PICK d \in Nat : l = (k + q) + d
  <2>1. l - (k + q) \in Nat /\ l = (k + q) + (l - (k + q))
    BY <1>9
  <2> QED BY <2>1
<1>11. PAGE_SIZE * l = PAGE_SIZE * (k + q) + PAGE_SIZE * d
  BY <1>10, MemoryMapAssumption
<1>12. PAGE_SIZE * d \in Nat
  BY MemoryMapAssumption
<1> QED BY <1>1, <1>2, <1>3, <1>5, <1>7, <1>11, <1>12

-----------------------------------------------------------------------------
(* The inductive invariant. *)

\* Host buffers share no byte.
HostApart ==
  \A b, c \in host : b # c => Apart(b.raddr, Size(b), c.raddr, Size(c))

IInv == TypeOK /\ TablesAgree /\ BlocksDisjoint /\ HeapStaysMapped /\ HostApart

\* A block with pages has a size, which is the same written either way round.
LEMMA SizePositive ==
  ASSUME NEW b \in Block, b.pages # 0
  PROVE  Size(b) \in Nat \ {0} /\ Size(b) = PAGE_SIZE * b.pages
<1>1. b.pages \in Nat
  BY DEF Block
<1>2. PICK n \in Nat : n = b.pages
  BY <1>1
<1>3. n * PAGE_SIZE \in Nat \ {0} /\ n * PAGE_SIZE = PAGE_SIZE * n
  BY <1>2, MemoryMapAssumption
<1> QED BY <1>2, <1>3 DEF Size

\* The dynamic heap is a block by itself.
LEMMA InitInv == Init => IInv
<1> SUFFICES ASSUME Init PROVE IInv
  OBVIOUS
<1>1. PICK r \in HostAddresses[HeapBase] :
        /\ _blocks = {HeapBlock(r)}
        /\ _dynamicHeapBlock = HeapBlock(r)
        /\ engine = {HeapBlock(r)}
        /\ host = {HeapBlock(r)}
        /\ ret = "ERROR_OK"
  BY DEF Init
<1>2. HeapBlock(r) \in Block /\ HeapBlock(r).pages # 0
  BY MemoryMapAssumption DEF HeapBlock, Block
<1>3. Aligned(HeapBlock(r).vaddr)
  BY MemoryMapAssumption DEF HeapBlock, Aligned
<1>4. TypeOK
  BY <1>1, <1>2 DEF TypeOK, Errors
<1> QED BY <1>1, <1>3, <1>4
        DEF IInv, TablesAgree, BlocksDisjoint, HeapStaysMapped, HostApart

\* A call that returns an error or maps nothing leaves the tables as they are.
LEMMA RefuseInv ==
  ASSUME IInv, NEW err \in Errors, Refuse(err)
  PROVE  IInv'
BY DEF IInv, TypeOK, TablesAgree, BlocksDisjoint, HeapStaysMapped, HostApart,
       Refuse, Return, Aligned, Apart, Size

\* What StaticAlloc's test of the size asked for means for the pages mapped.
LEMMA TestedApart ==
  ASSUME IInv, NEW addr \in Nat, NEW size \in Nat, size # 0, Aligned(addr),
         ~OverlapsAnyMappedBlock(addr, size), NEW c \in _blocks
  PROVE  Apart(addr, PAGE_SIZE * PagesFor(size), c.vaddr, Size(c))
<1>1. c \in Block /\ c.pages # 0
  BY DEF IInv, TypeOK
<1>2. c.vaddr \in Nat /\ Size(c) \in Nat \ {0}
  BY <1>1, SizePositive DEF Block
<1>3. addr + size <= c.vaddr \/ c.vaddr + Size(c) <= addr
  BY <1>2 DEF OverlapsAnyMappedBlock, RangeOverlaps
<1>4. Aligned(c.vaddr)
  BY DEF IInv, BlocksDisjoint
<1>5. CASE addr + size <= c.vaddr
  BY <1>2, <1>4, <1>5, RoundUp DEF Apart
<1>6. CASE c.vaddr + Size(c) <= addr
  BY <1>6 DEF Apart
<1> QED BY <1>3, <1>5, <1>6

\* Mapping a new block keeps the invariant.
LEMMA MapInv ==
  ASSUME IInv, NEW addr \in Nat, NEW size \in Nat, NEW r \in Nat \ {0},
         size # 0, ~OverlapsAnyMappedBlock(addr, size),
         FreeHostAddress(r, PagesFor(size) * PAGE_SIZE),
         Map([vaddr |-> addr, raddr |-> r, pages |-> PagesFor(size)])
  PROVE  IInv'
<1>1. PICK b \in Block : /\ b.vaddr = addr
                         /\ b.raddr = r
                         /\ b.pages = PagesFor(size)
                         /\ Map(b)
  <2>1. [vaddr |-> addr, raddr |-> r, pages |-> PagesFor(size)] \in Block
    BY PagesCover, MemoryMapAssumption DEF Block
  <2> QED BY <2>1
<1>2. CASE Refuse("ERROR_UC_MAP")
  BY <1>2, RefuseInv DEF Errors
<1>3. CASE /\ EngineAccepts(b)
           /\ engine' = engine \cup {b}
           /\ host' = host \cup {b}
           /\ _blocks' = _blocks \cup {b}
           /\ Return("ERROR_OK")
           /\ UNCHANGED _dynamicHeapBlock
  <2>1. b.pages # 0
    BY <1>1, PagesCover
  <2>2. Size(b) = PAGE_SIZE * PagesFor(size) /\ Size(b) = PagesFor(size) * PAGE_SIZE
    BY <1>1, <2>1, SizePositive DEF Size
  <2>3. TypeOK'
    BY <1>3, <2>1 DEF IInv, TypeOK, Return, Errors
  <2>4. TablesAgree'
    BY <1>3 DEF IInv, TablesAgree
  <2>5. HeapStaysMapped'
    BY <1>3 DEF IInv, HeapStaysMapped
  <2>6. Aligned(addr)
    BY <1>1, <1>3 DEF EngineAccepts
  <2>7. \A c \in _blocks : Apart(b.vaddr, Size(b), c.vaddr, Size(c))
    BY <1>1, <2>2, <2>6, TestedApart
  <2>8. BlocksDisjoint'
    <3>1. \A c \in _blocks' : Aligned(c.vaddr)
      BY <1>1, <1>3, <2>6 DEF IInv, BlocksDisjoint
    <3>2. \A c, d \in _blocks' :
            c # d => Apart(c.vaddr, Size(c), d.vaddr, Size(d))
      BY <1>3, <2>7 DEF IInv, BlocksDisjoint, Apart
    <3> QED BY <3>1, <3>2 DEF BlocksDisjoint, Aligned, Apart, Size
  <2>9. HostApart'
    <3>1. \A h \in host : Apart(b.raddr, Size(b), h.raddr, Size(h))
      BY <1>1, <2>2 DEF FreeHostAddress
    <3>2. \A c, d \in host' :
            c # d => Apart(c.raddr, Size(c), d.raddr, Size(d))
      BY <1>3, <3>1 DEF IInv, HostApart, Apart
    <3> QED BY <3>2 DEF HostApart, Apart, Size
  <2> QED BY <2>3, <2>4, <2>5, <2>8, <2>9 DEF IInv
<1> QED BY <1>1, <1>2, <1>3 DEF Map

\* Unmapping a block that is not the heap's keeps the invariant.
LEMMA UnmapInv ==
  ASSUME IInv, NEW b \in _blocks, Unmap(b)
  PROVE  IInv'
<1>1. CASE Refuse("ERROR_MEM_STATIC_NOT_FREEABLE") \/ Refuse("ERROR_UC_UNMAP")
  BY <1>1, RefuseInv DEF Errors
<1>2. CASE /\ b # _dynamicHeapBlock
           /\ engine' = engine \ {b}
           /\ host' = host \ {b}
           /\ _blocks' = _blocks \ {b}
           /\ Return("ERROR_OK")
           /\ UNCHANGED _dynamicHeapBlock
  <2>1. TypeOK'
    BY <1>2 DEF IInv, TypeOK, Return, Errors
  <2>2. TablesAgree' /\ HeapStaysMapped'
    BY <1>2 DEF IInv, TablesAgree, HeapStaysMapped
  <2>3. BlocksDisjoint'
    BY <1>2 DEF IInv, BlocksDisjoint, Aligned, Apart, Size
  <2>4. HostApart'
    BY <1>2 DEF IInv, HostApart, Apart, Size
  <2> QED BY <2>1, <2>2, <2>3, <2>4 DEF IInv
<1> QED BY <1>1, <1>2 DEF Unmap

\* Every call keeps the invariant.
LEMMA StepInv == IInv /\ [Next]_vars => IInv'
<1> SUFFICES ASSUME IInv, [Next]_vars PROVE IInv'
  OBVIOUS
<1>1. ASSUME NEW addr \in Addresses, NEW size \in Sizes, StaticAlloc(addr, size)
      PROVE  IInv'
  <2>1. addr \in Nat /\ size \in Nat
    BY MemoryMapAssumption
  <2>2. CASE Refuse("ERROR_OK")
    BY <2>2, RefuseInv DEF Errors
  <2>3. CASE Refuse("ERROR_MEM_ALREADY_ALLOCATED")
    BY <2>3, RefuseInv DEF Errors
  <2>4. CASE Refuse("ERROR_MEM_ALLOC_FAIL")
    BY <2>4, RefuseInv DEF Errors
  <2>5. ASSUME size # 0, ~OverlapsAnyMappedBlock(addr, size),
               NEW r \in HostAddresses[addr],
               FreeHostAddress(r, PagesFor(size) * PAGE_SIZE),
               Map([vaddr |-> addr, raddr |-> r, pages |-> PagesFor(size)])
        PROVE  IInv'
    <3>1. r \in Nat \ {0}
      BY MemoryMapAssumption
    <3> QED BY <2>1, <2>5, <3>1, MapInv
  <2> QED BY <1>1, <2>2, <2>3, <2>4, <2>5 DEF StaticAlloc
<1>2. ASSUME NEW addr \in Addresses, StaticFree(addr)
      PROVE  IInv'
  <2>1. CASE Refuse("ERROR_MEM_ADDR_NOT_ALLOCATED")
    BY <2>1, RefuseInv DEF Errors
  <2>2. ASSUME NEW b \in _blocks, Unmap(b) PROVE IInv'
    BY <2>2, UnmapInv
  <2> QED BY <1>2, <2>1, <2>2 DEF StaticFree
<1>3. CASE UNCHANGED vars
  BY <1>3 DEF vars, IInv, TypeOK, TablesAgree, BlocksDisjoint, HeapStaysMapped,
              HostApart, Aligned, Apart, Size
<1> QED BY <1>1, <1>2, <1>3 DEF Next

\* The invariant holds for every page size, heap, request and outcome of calloc
\* and of the engine.
THEOREM Invariance == Spec => []IInv
BY InitInv, StepInv, PTL DEF Spec

\* StaticAlloc and StaticFree keep _blocks, the engine's regions and the host
\* buffers the same.
THEOREM TablesAlwaysAgree == Spec => []TablesAgree
<1>1. IInv => TablesAgree
  BY DEF IInv
<1> QED BY <1>1, Invariance, PTL

\* Blocks never overlap, for every page size, although StaticAlloc tests the
\* size before rounding it; the heap's block is never unmapped.
THEOREM Disjointness == Spec => [](BlocksDisjoint /\ HeapStaysMapped)
<1>1. IInv => BlocksDisjoint /\ HeapStaysMapped
  BY DEF IInv
<1> QED BY <1>1, Invariance, PTL

\* Translation: whatever order the set of blocks is searched in, a guest address
\* has one host address, which leads back to it.
LEMMA Translation == IInv => RoundTrip
<1> SUFFICES ASSUME IInv, NEW b \in _blocks,
                    NEW v \in b.vaddr .. (b.vaddr + Size(b) - 1)
             PROVE  \E r \in GetRealAddr(v) :
                      GetRealAddr(v) = {r} /\ GetVirtualAddr(r) = {v}
  BY DEF RoundTrip
<1>1. \A c \in _blocks : /\ c.vaddr \in Nat
                         /\ c.raddr \in Nat
                         /\ Size(c) \in Nat \ {0}
  BY SizePositive DEF IInv, TypeOK, Block
<1>2. v \in Nat /\ b.vaddr <= v /\ v < b.vaddr + Size(b)
  BY <1>1
<1>3. {c \in _blocks : ContainsVAddr(c, v)} = {b}
  <2>1. \A c \in _blocks : c # b => Apart(b.vaddr, Size(b), c.vaddr, Size(c))
    BY DEF IInv, BlocksDisjoint
  <2>2. \A c \in _blocks : c # b => ~ContainsVAddr(c, v)
    BY <1>1, <1>2, <2>1 DEF Apart, ContainsVAddr
  <2>3. ContainsVAddr(b, v)
    BY <1>2 DEF ContainsVAddr
  <2> QED BY <2>2, <2>3
<1>4. PICK r \in Nat : r = b.raddr + (v - b.vaddr)
  BY <1>1, <1>2
<1>5. GetRealAddr(v) = {r}
  BY <1>3, <1>4 DEF GetRealAddr
<1>6. b.raddr <= r /\ r < b.raddr + Size(b)
  BY <1>1, <1>2, <1>4
<1>7. {c \in _blocks : ContainsRAddr(c, r)} = {b}
  <2>1. \A c \in _blocks : c # b => Apart(b.raddr, Size(b), c.raddr, Size(c))
    BY DEF IInv, TablesAgree, HostApart
  <2>2. \A c \in _blocks : c # b => ~ContainsRAddr(c, r)
    BY <1>1, <1>6, <2>1 DEF Apart, ContainsRAddr
  <2>3. ContainsRAddr(b, r)
    BY <1>6 DEF ContainsRAddr
  <2> QED BY <2>2, <2>3
<1>8. b.vaddr + (r - b.raddr) = v
  BY <1>1, <1>2, <1>4
<1>9. GetVirtualAddr(r) = {v}
  BY <1>7, <1>8 DEF GetVirtualAddr
<1> QED BY <1>5, <1>9

\* GetRealAddr and GetVirtualAddr are inverses on mapped memory at all times.
THEOREM TranslationInverse == Spec => []RoundTrip
BY Invariance, Translation, PTL

-----------------------------------------------------------------------------
(* Loading and start-up. *)

\* A base the image may be placed at.
BaseOf(f) == {Preferred[f]} \cup {Bases[i] : i \in 1 .. Len(Bases)}

Frame == [file : Files, base : Nat, blocks : Seq(Addresses), stubs : Nat]

\* Where the code works on an image.
Loading == {"preferred", "undo", "drop section", "search", "untry", "chosen",
            "imports", "stub", "rollback", "return error"}

TodoOK == todo \in Seq(Request)

StackOK ==
  /\ stack \in Seq(Frame)
  /\ \A i \in 1 .. Len(stack) : stack[i].base \in BaseOf(stack[i].file)

\* The addresses and sizes the code is about to use are among those of MemoryMap.
LoaderInv ==
  /\ TodoOK
  /\ StackOK
  /\ sec \in Nat \ {0} /\ cand \in Nat \ {0}
  /\ at \in Loading => stack # <<>>
  /\ at = "drop segment" => todo # <<>>
  /\ at \in {"untry", "drop section"} => ~AllMapped
  /\ at = "untry" => cand <= Len(Bases)

\* What is left of a sequence without its last element.
LEMMA FrontOf ==
  ASSUME NEW S, NEW s \in Seq(S), s # <<>>
  PROVE  /\ Len(s) \in Nat \ {0}
         /\ Front(s) \in Seq(S)
         /\ Len(Front(s)) = Len(s) - 1
         /\ \A i \in 1 .. Len(s) - 1 : Front(s)[i] = s[i]
<1>1. Len(s) \in Nat \ {0}
  BY EmptySeq
<1>2. \A i \in 1 .. Len(s) - 1 : s[i] \in S
  BY <1>1, ElementOfSeq
<1>3. /\ SubSeq(s, 1, Len(s) - 1) \in Seq(S)
      /\ Len(SubSeq(s, 1, Len(s) - 1)) = IF 1 <= Len(s) - 1 THEN Len(s) - 1 - 1 + 1 ELSE 0
      /\ \A i \in 1 .. Len(s) - 1 - 1 + 1 : SubSeq(s, 1, Len(s) - 1)[i] = s[1 + i - 1]
  BY <1>1, <1>2, SubSeqProperties
<1>4. Len(s) - 1 - 1 + 1 = Len(s) - 1 /\ (1 <= Len(s) - 1 \/ Len(s) - 1 = 0)
  <2>1. \A n \in Nat \ {0} : n - 1 - 1 + 1 = n - 1 /\ (1 <= n - 1 \/ n - 1 = 0)
    OBVIOUS
  <2> QED BY <1>1, <2>1
<1>5. \A i \in 1 .. Len(s) - 1 : 1 + i - 1 = i
  OBVIOUS
<1>6. /\ Len(SubSeq(s, 1, Len(s) - 1)) = Len(s) - 1
      /\ \A i \in 1 .. Len(s) - 1 : SubSeq(s, 1, Len(s) - 1)[i] = s[i]
  BY <1>3, <1>4, <1>5
<1>7. Front(s) = SubSeq(s, 1, Len(s) - 1)
  BY DEF Front
<1> QED BY <1>1, <1>3, <1>6, <1>7

\* A frame and the bases its image may have.
FrameOK(f) == f \in Frame /\ f.base \in BaseOf(f.file)

\* The innermost image is one of the stack.
LEMMA TopOfStack ==
  ASSUME LoaderInv, stack # <<>>
  PROVE  /\ Len(stack) \in Nat \ {0}
         /\ Top = stack[Len(stack)]
         /\ FrameOK(Top)
<1>1. stack \in Seq(Frame)
  BY DEF LoaderInv, StackOK, TodoOK
<1>2. Len(stack) \in Nat \ {0} /\ Len(stack) \in 1 .. Len(stack)
  BY <1>1, EmptySeq
<1>3. Top = stack[Len(stack)]
  BY DEF Top, Last
<1>4. stack[Len(stack)] \in Frame
  BY <1>1, <1>2, ElementOfSeq
<1> QED BY <1>2, <1>3, <1>4 DEF LoaderInv, StackOK, FrameOK

\* Replacing the innermost image by a well-formed one keeps the stack well-formed.
LEMMA NewTop ==
  ASSUME LoaderInv, stack # <<>>, NEW f, FrameOK(f), SetTop(f)
  PROVE  /\ stack' \in Seq(Frame) /\ stack' # <<>>
         /\ \A i \in 1 .. Len(stack') : stack'[i].base \in BaseOf(stack'[i].file)
<1>1. stack \in Seq(Frame)
  BY DEF LoaderInv, StackOK, TodoOK
<1>2. /\ Len(stack) \in Nat \ {0}
      /\ Front(stack) \in Seq(Frame)
      /\ Len(Front(stack)) = Len(stack) - 1
      /\ \A i \in 1 .. Len(stack) - 1 : Front(stack)[i] = stack[i]
  BY <1>1, FrontOf
<1>3. stack' = Append(Front(stack), f)
  BY <1>2, AppendIsConcat DEF SetTop, FrameOK
<1>4. /\ stack' \in Seq(Frame) /\ stack' # <<>> /\ Len(stack') = Len(stack)
      /\ \A i \in 1 .. Len(stack) - 1 : stack'[i] = stack[i]
      /\ stack'[Len(stack)] = f
  BY <1>2, <1>3, AppendProperties DEF FrameOK
<1>5. \A i \in 1 .. Len(stack') : i \in 1 .. Len(stack) - 1 \/ i = Len(stack)
  BY <1>2, <1>4
<1>6. \A i \in 1 .. Len(stack) - 1 : stack[i].base \in BaseOf(stack[i].file)
  <2>1. \A i \in 1 .. Len(stack) : stack[i].base \in BaseOf(stack[i].file)
    BY DEF LoaderInv, StackOK, TodoOK
  <2>2. \A i \in 1 .. Len(stack) - 1 : i \in 1 .. Len(stack)
    BY <1>2
  <2> QED BY <2>1, <2>2
<1> QED BY <1>4, <1>5, <1>6 DEF FrameOK

\* So does dropping the innermost image.
LEMMA Popped ==
  ASSUME LoaderInv, stack # <<>>, Pop
  PROVE  /\ stack' \in Seq(Frame) /\ Len(stack') = Len(stack) - 1
         /\ \A i \in 1 .. Len(stack') : stack'[i].base \in BaseOf(stack'[i].file)
<1>1. stack \in Seq(Frame)
  BY DEF LoaderInv, StackOK, TodoOK
<1>2. /\ Len(stack) \in Nat \ {0}
      /\ stack' \in Seq(Frame)
      /\ Len(stack') = Len(stack) - 1
      /\ \A i \in 1 .. Len(stack) - 1 : stack'[i] = stack[i]
  BY <1>1, FrontOf DEF Pop
<1>3. \A i \in 1 .. Len(stack) - 1 : stack[i].base \in BaseOf(stack[i].file)
  <2>1. \A i \in 1 .. Len(stack) : stack[i].base \in BaseOf(stack[i].file)
    BY DEF LoaderInv, StackOK, TodoOK
  <2>2. \A i \in 1 .. Len(stack) - 1 : i \in 1 .. Len(stack)
    BY <1>2
  <2> QED BY <2>1, <2>2
<1> QED BY <1>2, <1>3

\* The section the code is at, at a base of its image, is a request to MemoryMap.
LEMMA SectionRequest ==
  ASSUME LoaderInv, stack # <<>>, ~AllMapped, NEW b \in BaseOf(Top.file)
  PROVE  /\ TheSection \in Section
         /\ b + TheSection.rva \in Addresses
         /\ TheSection.size \in Sizes
<1>1. Top.file \in Files /\ Sections[Top.file] \in Seq(Section)
  BY TopOfStack, ImagesAssumption DEF FrameOK, Frame
<1>2. sec \in 1 .. Len(Sections[Top.file])
  <2>1. Len(Sections[Top.file]) \in Nat
    BY <1>1, LenProperties
  <2>2. sec \in Nat \ {0}
    BY DEF LoaderInv, StackOK, TodoOK
  <2> QED BY <2>1, <2>2 DEF AllMapped
<1>3. TheSection \in Section /\ TheSection \in Range(Sections[Top.file])
  <2>1. TheSection \in Section
    BY <1>1, <1>2, ElementOfSeq DEF TheSection
  <2>2. DOMAIN Sections[Top.file] = 1 .. Len(Sections[Top.file])
    BY <1>1, LenProperties
  <2> QED BY <1>2, <2>1, <2>2 DEF TheSection, Range
<1>4. b \in Range(Bases) \cup {Preferred[Top.file]}
  <2>1. DOMAIN Bases = 1 .. Len(Bases)
    BY ImagesAssumption, LenProperties
  <2> QED BY <2>1 DEF BaseOf, Range
<1> QED BY <1>1, <1>3, <1>4, ImagesAssumption DEF Section

\* A request of start-up is one to MemoryMap.
LEMMA FirstRequest ==
  ASSUME LoaderInv, todo # <<>>
  PROVE  /\ Head(todo) \in Request /\ Tail(todo) \in Seq(Request)
         /\ Head(todo).addr \in Addresses /\ Head(todo).size \in Sizes
<1>1. todo \in Seq(Request)
  BY DEF LoaderInv, StackOK, TodoOK
<1>2. Head(todo) \in Request /\ Tail(todo) \in Seq(Request)
  BY <1>1, HeadTailProperties
<1> QED BY <1>2 DEF Request

\* Start-up and loading begin with a request of the program, and no image.
LEMMA InitLoader == ImagesInit => LoaderInv
<1> SUFFICES ASSUME ImagesInit PROVE LoaderInv
  OBVIOUS
<1>1. todo \in Seq(Request)
  <2>1. PICK p \in Programs : todo = p \o Registers
    BY DEF ImagesInit
  <2>2. p \in Seq(Request) /\ Registers \in Seq(Request)
    BY ImagesAssumption
  <2> QED BY <2>1, <2>2, ConcatProperties
<1>2. stack \in Seq(Frame) /\ Len(stack) = 0
  BY EmptySeq DEF ImagesInit
<1>3. at = "run" /\ sec = 1 /\ cand = 1
  BY DEF ImagesInit
<1> QED BY <1>1, <1>2, <1>3 DEF LoaderInv, TodoOK, StackOK, Loading

\* A step of start-up is a step of MemoryMap.
LEMMA RequestStep ==
  ASSUME LoaderInv, MakeRequest \/ DropSegment
  PROVE  LoaderInv' /\ Next
<1>1. todo # <<>> /\ UNCHANGED <<stack, sec, cand>>
  BY DEF MakeRequest, DropSegment, LoaderInv
<1>2. Head(todo).addr \in Addresses /\ Head(todo).size \in Sizes /\ Tail(todo) \in Seq(Request)
  BY <1>1, FirstRequest
<1>3. CASE MakeRequest
  <2>1. StaticAlloc(Head(todo).addr, Head(todo).size)
    BY <1>3 DEF MakeRequest
  <2>2. Next
    BY <1>2, <2>1 DEF Next
  <2>3. at' \in {"failed", "run", "crashed", "drop segment"}
    BY <1>3 DEF MakeRequest, Goto
  <2>4. todo' = IF at' = "run" THEN Tail(todo) ELSE todo
    BY <1>3 DEF MakeRequest
  <2>5. TodoOK' /\ (at' = "drop segment" => todo' # <<>>)
    BY <1>1, <1>2, <2>4 DEF LoaderInv, TodoOK
  <2>6. StackOK'
    BY <1>1 DEF LoaderInv, StackOK
  <2> QED BY <1>1, <2>2, <2>3, <2>5, <2>6 DEF LoaderInv, Loading
<1>4. CASE DropSegment
  <2>1. StaticFree(Head(todo).addr) /\ at' = "failed" /\ todo' = todo
    BY <1>4 DEF DropSegment, Goto
  <2>2. Next
    BY <1>2, <2>1 DEF Next
  <2>3. TodoOK' /\ StackOK'
    BY <1>1, <2>1 DEF LoaderInv, TodoOK, StackOK
  <2> QED BY <1>1, <2>1, <2>2, <2>3 DEF LoaderInv, Loading
<1> QED BY <1>3, <1>4

\* What a step into a place without further conditions has to show.
LEMMA Plain ==
  ASSUME TodoOK', StackOK', sec' \in Nat \ {0}, cand' \in Nat \ {0},
         at' \in Loading => stack' # <<>>,
         at' \notin {"drop segment", "untry", "drop section"}
  PROVE  LoaderInv'
BY DEF LoaderInv

\* Beginning with an image maps nothing.
LEMMA BeginStep ==
  ASSUME LoaderInv, NEW f \in Files, MapPEIntoMemory(f)
  PROVE  LoaderInv' /\ UNCHANGED vars
<1> DEFINE frame == [file |-> f, base |-> Preferred[f], blocks |-> <<>>, stubs |-> 0]
<1>1. FrameOK(frame)
  <2>1. <<>> \in Seq(Addresses) /\ Preferred[f] \in Nat
    BY EmptySeq, ImagesAssumption
  <2> QED BY <2>1 DEF FrameOK, Frame, BaseOf
<1>2. stack \in Seq(Frame) /\ frame \in Frame /\ stack' = Append(stack, frame)
  BY <1>1 DEF LoaderInv, StackOK, FrameOK, MapPEIntoMemory
<1> HIDE DEF frame
<1>3. /\ stack' \in Seq(Frame) /\ stack' # <<>> /\ Len(stack') = Len(stack) + 1
      /\ \A i \in 1 .. Len(stack) : stack'[i] = stack[i]
      /\ stack'[Len(stack) + 1] = frame
  BY <1>2, AppendProperties
<1>4. Len(stack) \in Nat
  BY <1>2, LenProperties
<1>5. \A i \in 1 .. Len(stack') : i \in 1 .. Len(stack) \/ i = Len(stack) + 1
  BY <1>3, <1>4
<1>6. \A i \in 1 .. Len(stack) : stack[i].base \in BaseOf(stack[i].file)
  BY DEF LoaderInv, StackOK, TodoOK
<1>7. StackOK'
  BY <1>1, <1>3, <1>5, <1>6 DEF StackOK, FrameOK
<1>8. /\ TodoOK' /\ sec' \in Nat \ {0} /\ cand' \in Nat \ {0}
      /\ at' \in {"preferred", "return error"}
      /\ UNCHANGED vars
  <2>1. UNCHANGED <<vars, todo, cand>> /\ sec' = 1
    BY DEF MapPEIntoMemory
  <2>2. at' = "preferred" \/ at' = "return error"
    BY DEF MapPEIntoMemory, Goto
  <2>3. TodoOK'
    BY <2>1 DEF LoaderInv, TodoOK
  <2>4. cand' \in Nat \ {0}
    BY <2>1 DEF LoaderInv
  <2>5. sec' \in Nat \ {0}
    BY <2>1
  <2> QED BY <2>1, <2>2, <2>3, <2>4, <2>5
<1> QED BY <1>3, <1>7, <1>8, Plain

\* A section is mapped at a base of its image.
LEMMA MapSectionStep ==
  ASSUME LoaderInv,
         NEW here \in {"preferred", "chosen"}, NEW onFailure \in {"undo", "rollback"},
         MapSection(here, onFailure)
  PROVE  LoaderInv' /\ Next
<1> DEFINE addr == Top.base + TheSection.rva
<1>1. /\ stack # <<>> /\ ~AllMapped /\ at = here
      /\ StaticAlloc(addr, TheSection.size)
      /\ UNCHANGED <<todo, cand>>
  BY DEF MapSection, AtSection, LoaderInv, Loading
<1>2. FrameOK(Top)
  BY <1>1, TopOfStack
<1>3. addr \in Addresses /\ TheSection.size \in Sizes
  BY <1>1, <1>2, SectionRequest DEF FrameOK
<1>4. Next
  BY <1>1, <1>3 DEF Next
<1>5. TodoOK'
  BY <1>1 DEF LoaderInv, TodoOK
<1>6. CASE UNCHANGED <<stack, sec>> /\ at' = onFailure
  <2>1. StackOK'
    BY <1>6 DEF LoaderInv, StackOK
  <2> QED BY <1>1, <1>4, <1>5, <1>6, <2>1, Plain DEF LoaderInv
<1>7. CASE UNCHANGED <<stack, sec>> /\ at' = "drop section"
  <2>1. StackOK'
    BY <1>7 DEF LoaderInv, StackOK
  <2>2. AllMapped' = AllMapped
    BY <1>7 DEF AllMapped, Top, Last
  <2> QED BY <1>1, <1>4, <1>5, <1>7, <2>1, <2>2 DEF LoaderInv
<1>8. CASE /\ SetTop([Top EXCEPT !.blocks = Append(@, addr)])
           /\ sec' = sec + 1 /\ at' = at
  <2>1. Append(Top.blocks, addr) \in Seq(Addresses)
    BY <1>2, <1>3, AppendProperties DEF FrameOK, Frame
  <2>2. FrameOK([Top EXCEPT !.blocks = Append(@, addr)])
    BY <1>2, <2>1 DEF FrameOK, Frame
  <2>3. StackOK' /\ stack' # <<>>
    BY <1>1, <1>8, <2>2, NewTop DEF StackOK
  <2>4. at' \in {"preferred", "chosen"}
    BY <1>1, <1>8
  <2>5. sec' \in Nat \ {0} /\ cand' \in Nat \ {0}
    <3>1. sec \in Nat \ {0} /\ cand \in Nat \ {0} /\ sec' = sec + 1 /\ cand' = cand
      BY <1>1, <1>8 DEF LoaderInv
    <3> QED BY <3>1
  <2> QED BY <1>4, <1>5, <2>3, <2>4, <2>5, Plain
<1> QED BY <1>6, <1>7, <1>8 DEF MapSection, Goto

\* The counters start at 1 and count up.
LEMMA Counting ==
  ASSUME LoaderInv, sec' \in {1, sec, sec + 1}, cand' \in {1, cand, cand + 1}
  PROVE  sec' \in Nat \ {0} /\ cand' \in Nat \ {0}
<1>1. sec \in Nat \ {0} /\ cand \in Nat \ {0}
  BY DEF LoaderInv
<1> QED BY <1>1

\* A step inside an image that leaves the stack alone.
LEMMA StackKept ==
  ASSUME LoaderInv, stack # <<>>, UNCHANGED <<todo, stack>>,
         sec' \in {1, sec, sec + 1}, cand' \in {1, cand, cand + 1},
         at' \notin {"drop segment", "untry", "drop section"}
  PROVE  LoaderInv'
<1>1. TodoOK' /\ StackOK'
  BY DEF LoaderInv, TodoOK, StackOK
<1> QED BY <1>1, Counting, Plain

\* A step that replaces the innermost image by a well-formed one.
LEMMA StackChanged ==
  ASSUME LoaderInv, stack # <<>>, NEW f, FrameOK(f), SetTop(f), UNCHANGED todo,
         sec' \in {1, sec, sec + 1}, cand' \in {1, cand, cand + 1},
         at' \notin {"drop segment", "untry", "drop section"}
  PROVE  LoaderInv'
<1>1. TodoOK'
  BY DEF LoaderInv, TodoOK
<1>2. StackOK' /\ stack' # <<>>
  BY NewTop DEF StackOK
<1> QED BY <1>1, <1>2, Counting, Plain

\* Passing over a section, and the steps between the phases, touch no memory.
LEMMA ControlStep ==
  ASSUME LoaderInv,
         SkipSection \/ Search \/ ChooseBase \/ Placed \/ CreateReturnZeroStub \/ ImportsFail
  PROVE  LoaderInv' /\ UNCHANGED vars
<1>1. CASE SkipSection
  <2>1. /\ at \in {"preferred", "search", "chosen"} /\ at' = at
        /\ sec' = sec + 1 /\ UNCHANGED <<vars, todo, stack, cand>>
    BY <1>1 DEF SkipSection
  <2>2. stack # <<>>
    BY <2>1 DEF LoaderInv, Loading
  <2> QED BY <2>1, <2>2, StackKept
<1>2. CASE Search
  <2>1. /\ at = "undo" /\ at' = "search" /\ sec' = 1 /\ cand' = 1
        /\ UNCHANGED <<vars, todo, stack>>
    BY <1>2 DEF Search, Goto
  <2>2. stack # <<>>
    BY <2>1 DEF LoaderInv, Loading
  <2> QED BY <2>1, <2>2, StackKept
<1>3. CASE ChooseBase
  <2>1. /\ at = "search" /\ sec' = 1 /\ UNCHANGED <<vars, todo, cand>>
        /\ \/ at' = "return error" /\ UNCHANGED stack
           \/ /\ ~(cand > Len(Bases)) /\ at' = "chosen"
              /\ SetTop([Top EXCEPT !.base = Bases[cand]])
    BY <1>3 DEF ChooseBase, Goto
  <2>2. stack # <<>>
    BY <2>1 DEF LoaderInv, Loading
  <2>3. CASE at' = "return error" /\ UNCHANGED stack
    BY <2>1, <2>2, <2>3, StackKept
  <2>4. CASE ~(cand > Len(Bases)) /\ at' = "chosen" /\ SetTop([Top EXCEPT !.base = Bases[cand]])
    <3>1. FrameOK(Top)
      BY <2>2, TopOfStack
    <3>2. cand \in 1 .. Len(Bases) /\ Bases[cand] \in Nat
      <4>1. cand \in Nat \ {0} /\ Len(Bases) \in Nat
        BY ImagesAssumption, LenProperties DEF LoaderInv
      <4>2. cand \in 1 .. Len(Bases)
        BY <2>4, <4>1
      <4> QED BY <4>2, ImagesAssumption, ElementOfSeq
    <3>3. FrameOK([Top EXCEPT !.base = Bases[cand]])
      BY <3>1, <3>2 DEF FrameOK, Frame, BaseOf
    <3> QED BY <2>1, <2>2, <2>4, <3>3, StackChanged
  <2> QED BY <2>1, <2>3, <2>4
<1>4. CASE Placed
  <2>1. /\ at \in {"preferred", "chosen"} /\ at' \in {"imports", "rollback"}
        /\ UNCHANGED <<vars, todo, stack, sec, cand>>
    BY <1>4 DEF Placed, Goto
  <2>2. stack # <<>>
    BY <2>1 DEF LoaderInv, Loading
  <2> QED BY <2>1, <2>2, StackKept
<1>5. CASE CreateReturnZeroStub
  <2>1. /\ at = "imports" /\ at' = "stub" /\ sec' = 1
        /\ UNCHANGED <<vars, todo, stack, cand>>
    BY <1>5 DEF CreateReturnZeroStub, Goto
  <2>2. stack # <<>>
    BY <2>1 DEF LoaderInv, Loading
  <2> QED BY <2>1, <2>2, StackKept
<1>6. CASE ImportsFail
  <2>1. /\ at \in {"imports", "stub"} /\ at' = "rollback" /\ sec' = 1
        /\ UNCHANGED <<vars, todo, stack, cand>>
    BY <1>6 DEF ImportsFail, Goto
  <2>2. stack # <<>>
    BY <2>1 DEF LoaderInv, Loading
  <2> QED BY <2>1, <2>2, StackKept
<1> QED BY <1>1, <1>2, <1>3, <1>4, <1>5, <1>6

\* Leaving an image touches no memory either, and leaves its importer, if any.
LEMMA ReturnStep ==
  ASSUME LoaderInv, ReturnOK \/ ReturnError
  PROVE  LoaderInv' /\ UNCHANGED vars
<1>1. /\ at \in {"imports", "return error", "rollback"} /\ Pop
      /\ UNCHANGED <<vars, sec, cand>>
  BY DEF ReturnOK, ReturnError
<1>2. stack # <<>>
  BY <1>1 DEF LoaderInv, Loading
<1>3. StackOK' /\ Len(stack') = Len(stack) - 1 /\ Len(stack) \in Nat \ {0}
  BY <1>1, <1>2, Popped, TopOfStack DEF StackOK
<1>4. Len(stack) # 1 => stack' # <<>>
  <2>1. Len(<<>>) = 0
    OBVIOUS
  <2>2. Len(stack) # 1 => Len(stack') # 0
    BY <1>3
  <2> QED BY <2>1, <2>2
<1>5. at' \in {"run", "imports", "rollback", "failed"}
  BY DEF ReturnOK, ReturnError, Goto
<1>6. at' \in Loading => Len(stack) # 1
  <2>1. CASE ReturnOK
    BY <2>1 DEF ReturnOK, Goto, Loading
  <2>2. CASE ReturnError
    <3>1. Len(stack) > 1 \/ at' \in {"failed", "run"}
      BY <2>2 DEF ReturnError, Goto
    <3>2. Len(stack) > 1 => Len(stack) # 1
      BY <1>3
    <3> QED BY <3>1, <3>2 DEF Loading
  <2> QED BY <2>1, <2>2
<1>7. TodoOK'
  <2>1. todo' = todo \/ (todo # <<>> /\ todo' = Tail(todo))
    BY DEF ReturnOK, ReturnError
  <2>2. CASE todo' = todo
    BY <2>2 DEF LoaderInv, TodoOK
  <2>3. CASE todo # <<>> /\ todo' = Tail(todo)
    BY <2>3, FirstRequest DEF TodoOK
  <2> QED BY <2>1, <2>2, <2>3
<1>8. sec' \in Nat \ {0} /\ cand' \in Nat \ {0}
  BY <1>1, Counting
<1> QED BY <1>1, <1>3, <1>4, <1>5, <1>6, <1>7, <1>8, Plain

\* Freeing a block is a step of MemoryMap.
LEMMA FreeStep ==
  ASSUME LoaderInv, DropSection \/ FreeBlock("undo") \/ FreeBlock("rollback")
  PROVE  LoaderInv' /\ Next
<1>1. at \in {"drop section", "undo", "rollback"} /\ UNCHANGED <<todo, sec, cand>>
  BY DEF DropSection, FreeBlock
<1>2. stack # <<>>
  BY <1>1 DEF LoaderInv, Loading
<1>3. FrameOK(Top)
  BY <1>2, TopOfStack
<1>4. CASE DropSection
  <2>1. /\ StaticFree(Top.base + TheSection.rva)
        /\ SetTop([Top EXCEPT !.blocks = <<>>])
        /\ at = "drop section" /\ at' = "return error"
    BY <1>4 DEF DropSection, Goto
  <2>2. ~AllMapped
    BY <2>1 DEF LoaderInv
  <2>3. Top.base + TheSection.rva \in Addresses
    BY <1>2, <1>3, <2>2, SectionRequest DEF FrameOK
  <2>4. Next
    BY <2>1, <2>3 DEF Next
  <2>5. <<>> \in Seq(Addresses)
    BY EmptySeq
  <2>6. FrameOK([Top EXCEPT !.blocks = <<>>])
    BY <1>3, <2>5 DEF FrameOK, Frame
  <2>7. LoaderInv'
    BY <1>1, <1>2, <2>1, <2>6, StackChanged
  <2> QED BY <2>4, <2>7
<1>5. CASE FreeBlock("undo") \/ FreeBlock("rollback")
  <2>1. /\ StaticFree(Head(Top.blocks)) /\ Top.blocks # <<>>
        /\ SetTop([Top EXCEPT !.blocks = Tail(@)])
        /\ at' \in {"undo", "rollback"}
    BY <1>5 DEF FreeBlock
  <2>2. Top.blocks \in Seq(Addresses)
    BY <1>3 DEF FrameOK, Frame
  <2>3. Head(Top.blocks) \in Addresses /\ Tail(Top.blocks) \in Seq(Addresses)
    BY <2>1, <2>2, HeadTailProperties
  <2>4. Next
    BY <2>1, <2>3 DEF Next
  <2>5. FrameOK([Top EXCEPT !.blocks = Tail(@)])
    BY <1>3, <2>3 DEF FrameOK, Frame
  <2>6. LoaderInv'
    BY <1>1, <1>2, <2>1, <2>5, StackChanged
  <2> QED BY <2>4, <2>6
<1> QED BY <1>4, <1>5

\* A section is tried at a candidate base and taken away again.
LEMMA TryStep ==
  ASSUME LoaderInv, TrySection \/ UntrySection
  PROVE  LoaderInv' /\ Next
<1>1. at \in {"search", "untry"} /\ UNCHANGED <<todo, stack>>
  BY DEF TrySection, UntrySection, AtSection
<1>2. stack # <<>>
  BY <1>1 DEF LoaderInv, Loading
<1>3. ~AllMapped /\ cand <= Len(Bases)
  BY DEF TrySection, UntrySection, AtSection, LoaderInv
<1>4. Bases[cand] \in BaseOf(Top.file)
  <2>1. cand \in Nat \ {0} /\ Len(Bases) \in Nat
    BY ImagesAssumption, LenProperties DEF LoaderInv
  <2>2. cand \in 1 .. Len(Bases)
    BY <1>3, <2>1
  <2> QED BY <2>2 DEF BaseOf
<1>5. Bases[cand] + TheSection.rva \in Addresses /\ TheSection.size \in Sizes
  BY <1>2, <1>3, <1>4, SectionRequest
<1>6. CASE TrySection
  <2>1. StaticAlloc(Bases[cand] + TheSection.rva, TheSection.size)
    BY <1>6 DEF TrySection
  <2>2. Next
    BY <1>5, <2>1 DEF Next
  <2>3. CASE at' = "untry" /\ UNCHANGED <<sec, cand>>
    <3>1. TodoOK' /\ StackOK'
      BY <1>1 DEF LoaderInv, TodoOK, StackOK
    <3>2. AllMapped' = AllMapped
      BY <1>1, <2>3 DEF AllMapped, Top, Last
    <3>3. sec' \in Nat \ {0} /\ cand' \in Nat \ {0}
      BY <2>3, Counting
    <3> QED BY <1>1, <1>2, <1>3, <2>2, <2>3, <3>1, <3>2, <3>3 DEF LoaderInv
  <2>4. CASE cand' = cand + 1 /\ sec' = 1 /\ at' = at
    <3>1. at = "search"
      BY <1>6 DEF TrySection, AtSection
    <3>2. LoaderInv'
      BY <1>1, <1>2, <2>4, <3>1, StackKept
    <3> QED BY <2>2, <3>2
  <2> QED BY <1>6, <2>3, <2>4 DEF TrySection, Goto
<1>7. CASE UntrySection
  <2>1. /\ StaticFree(Bases[cand] + TheSection.rva)
        /\ sec' = sec + 1 /\ cand' = cand /\ at' = "search"
    BY <1>7 DEF UntrySection, Goto
  <2>2. Next
    BY <1>5, <2>1 DEF Next
  <2>3. LoaderInv'
    BY <1>1, <1>2, <2>1, StackKept
  <2> QED BY <2>2, <2>3
<1> QED BY <1>6, <1>7

\* So is a stub put at one of its addresses.
LEMMA StubStep ==
  ASSUME LoaderInv, AllocateAny
  PROVE  LoaderInv' /\ Next
<1>1. /\ at = "stub" /\ UNCHANGED <<todo, cand>> /\ sec <= Len(StubBases)
      /\ StaticAlloc(StubBases[sec], STUB_SIZE)
  BY DEF AllocateAny
<1>2. stack # <<>>
  BY <1>1 DEF LoaderInv, Loading
<1>3. FrameOK(Top)
  BY <1>2, TopOfStack
<1>4. StubBases[sec] \in Addresses
  <2>1. sec \in Nat \ {0} /\ Len(StubBases) \in Nat
    BY ImagesAssumption, LenProperties DEF LoaderInv
  <2>2. sec \in 1 .. Len(StubBases)
    BY <1>1, <2>1
  <2> QED BY <2>2, ImagesAssumption, ElementOfSeq
<1>5. Next
  BY <1>1, <1>4, ImagesAssumption DEF Next
<1>6. CASE sec' = sec + 1 /\ UNCHANGED <<at, stack>>
  <2>1. LoaderInv'
    BY <1>1, <1>2, <1>6, StackKept
  <2> QED BY <1>5, <2>1
<1>7. CASE /\ at' = "imports" /\ sec' = sec
           /\ SetTop([Top EXCEPT !.blocks = Append(@, StubBases[sec]), !.stubs = @ + 1])
  <2>1. Append(Top.blocks, StubBases[sec]) \in Seq(Addresses)
    BY <1>3, <1>4, AppendProperties DEF FrameOK, Frame
  <2>2. Top.stubs + 1 \in Nat
    BY <1>3 DEF FrameOK, Frame
  <2>3. FrameOK([Top EXCEPT !.blocks = Append(@, StubBases[sec]), !.stubs = @ + 1])
    BY <1>3, <2>1, <2>2 DEF FrameOK, Frame
  <2>4. LoaderInv'
    BY <1>1, <1>2, <1>7, <2>3, StackChanged
  <2> QED BY <1>5, <2>4
<1> QED BY <1>6, <1>7 DEF AllocateAny, Goto

\* Every step of start-up and of loading is one of MemoryMap or leaves it alone.
LEMMA LoaderStep == LoaderInv /\ [ImagesNext]_imgVars => LoaderInv' /\ [Next]_vars
<1> SUFFICES ASSUME LoaderInv, [ImagesNext]_imgVars
             PROVE  LoaderInv' /\ [Next]_vars
  OBVIOUS
<1>1. CASE UNCHANGED imgVars
  <2>1. UNCHANGED vars /\ UNCHANGED loadVars
    BY <1>1 DEF imgVars
  <2>2. UNCHANGED <<todo, at, stack, sec, cand>>
    BY <2>1 DEF loadVars
  <2>3. TodoOK' /\ StackOK' /\ AllMapped' = AllMapped
    BY <2>2 DEF LoaderInv, TodoOK, StackOK, AllMapped, Top, Last
  <2>4. sec' \in Nat \ {0} /\ cand' \in Nat \ {0}
    BY <2>2, Counting
  <2> QED BY <2>1, <2>2, <2>3, <2>4 DEF LoaderInv
<1>2. CASE ImagesNext
  <2>1. CASE MakeRequest \/ DropSegment
    BY <2>1, RequestStep
  <2>2. CASE \E f \in Files : LoadProgram(f) \/ _LoadLibraryA(f) \/ LoadImport(f)
    <3>1. PICK f \in Files : MapPEIntoMemory(f)
      BY <2>2 DEF LoadProgram, _LoadLibraryA, LoadImport
    <3> QED BY <3>1, BeginStep
  <2>3. CASE AtPreferredBase
    BY <2>3, MapSectionStep DEF AtPreferredBase
  <2>4. CASE AtChosenBase
    BY <2>4, MapSectionStep DEF AtChosenBase
  <2>5. CASE SkipSection \/ Search \/ ChooseBase \/ Placed \/ CreateReturnZeroStub \/ ImportsFail
    BY <2>5, ControlStep
  <2>6. CASE DropSection \/ Undo \/ Rollback
    BY <2>6, FreeStep DEF Undo, Rollback
  <2>7. CASE TrySection \/ UntrySection
    BY <2>7, TryStep
  <2>8. CASE AllocateAny
    BY <2>8, StubStep
  <2>9. CASE ReturnOK \/ ReturnError
    BY <2>9, ReturnStep
  <2> QED BY <1>2, <2>1, <2>2, <2>3, <2>4, <2>5, <2>6, <2>7, <2>8, <2>9 DEF ImagesNext
<1> QED BY <1>1, <1>2

\* Start-up and loading implement MemoryMap: whatever is asked for, wherever it
\* fails and whichever base is chosen, the code maps and frees by the rules of
\* StaticAlloc and StaticFree, at addresses and sizes MemoryMap is about.
THEOREM LoadingUsesMemoryMap == ImagesSpec => Spec
<1>1. ImagesInit => LoaderInv /\ Init
  BY InitLoader DEF ImagesInit
<1>2. LoaderInv /\ [ImagesNext]_imgVars => LoaderInv' /\ [Next]_vars
  BY LoaderStep
<1> QED BY <1>1, <1>2, PTL DEF ImagesSpec, Spec

\* Hence no image, loaded, refused or rolled back, makes _blocks, the engine's
\* regions and the live host buffers differ.
THEOREM LoadingTablesAgree == ImagesSpec => []TablesAgree
BY LoadingUsesMemoryMap, TablesAlwaysAgree, PTL

\* Images, segments, registers and stubs are mapped apart from one another and
\* from the heap, which stays mapped: the retries at other bases included.
THEOREM LoadingDisjoint == ImagesSpec => [](BlocksDisjoint /\ HeapStaysMapped)
BY LoadingUsesMemoryMap, Disjointness, PTL

\* Guest and host addresses translate into each other at every step of loading.
THEOREM LoadingTranslates == ImagesSpec => []RoundTrip
BY LoadingUsesMemoryMap, TranslationInverse, PTL

-----------------------------------------------------------------------------
(* Who owns the blocks.  BlocksOwned is not inductive: a block that two owners *)
(* claim would be missed by one when the other frees it.  The invariant says   *)
(* that every block has one owner (Tidy), that an image lists a block once     *)
(* (Injective), and which sections of an image are in its list (Complete).     *)

Starts == {b.vaddr : b \in _blocks}

\* The block that StaticFree refuses to free is the heap's.
HeapAt == _dynamicHeapBlock.vaddr = HeapBase

\* What a successful StaticAlloc and a successful StaticFree do to the blocks.
MapsNew(a, s) ==
  /\ a \notin Starts
  /\ \E b : _blocks' = _blocks \cup {b} /\ b.vaddr = a /\ Size(b) >= s

Frees(a) ==
  /\ a \in Starts /\ a # HeapBase
  /\ _blocks' = {c \in _blocks : c.vaddr # a}

\* A block is known by its address.
LEMMA StartsUnique ==
  ASSUME IInv, NEW b \in _blocks, NEW c \in _blocks, b.vaddr = c.vaddr
  PROVE  b = c
<1>1. /\ b \in Block /\ c \in Block /\ b.pages # 0 /\ c.pages # 0
  BY DEF IInv, TypeOK
<1>2. /\ b.vaddr \in Nat /\ c.vaddr \in Nat
      /\ Size(b) \in Nat \ {0} /\ Size(c) \in Nat \ {0}
  BY <1>1, SizePositive DEF Block
<1>3. b # c => Apart(b.vaddr, Size(b), c.vaddr, Size(c))
  BY DEF IInv, BlocksDisjoint
<1>4. ~Apart(b.vaddr, Size(b), c.vaddr, Size(c))
  BY <1>2 DEF Apart
<1> QED BY <1>3, <1>4

\* StaticAlloc fails and changes nothing, maps nothing, or maps one new block.
LEMMA AllocEffect ==
  ASSUME IInv, NEW a \in Nat, NEW s \in Nat, StaticAlloc(a, s)
  PROVE  \/ ret' # "ERROR_OK" /\ UNCHANGED _blocks
         \/ ret' = "ERROR_OK" /\ s = 0 /\ UNCHANGED _blocks
         \/ ret' = "ERROR_OK" /\ s # 0 /\ MapsNew(a, s)
<1>1. CASE s = 0 /\ Refuse("ERROR_OK")
  BY <1>1 DEF Refuse, Return
<1>2. CASE Refuse("ERROR_MEM_ALREADY_ALLOCATED") \/ Refuse("ERROR_MEM_ALLOC_FAIL")
           \/ Refuse("ERROR_UC_MAP")
  BY <1>2 DEF Refuse, Return
<1>3. ASSUME s # 0, ~OverlapsAnyMappedBlock(a, s), NEW r,
             ret' = "ERROR_OK",
             _blocks' = _blocks \cup {[vaddr |-> a, raddr |-> r, pages |-> PagesFor(s)]}
      PROVE  MapsNew(a, s)
  <2>1. PICK n \in Nat : n = PagesFor(s) /\ s <= PAGE_SIZE * n
    BY PagesCover
  <2>2. PAGE_SIZE * n = n * PAGE_SIZE
    BY MemoryMapAssumption
  <2>3. Size([vaddr |-> a, raddr |-> r, pages |-> PagesFor(s)]) = n * PAGE_SIZE
    BY <2>1 DEF Size
  <2>4. Size([vaddr |-> a, raddr |-> r, pages |-> PagesFor(s)]) >= s
    <3>1. n * PAGE_SIZE \in Nat
      BY MemoryMapAssumption
    <3> QED BY <2>1, <2>2, <2>3, <3>1
  <2>5. ASSUME NEW c \in _blocks, c.vaddr = a PROVE FALSE
    <3>1. c \in Block /\ c.pages # 0
      BY DEF IInv, TypeOK
    <3>2. Size(c) \in Nat \ {0}
      BY <3>1, SizePositive
    <3>3. ~RangeOverlaps(a, s, c.vaddr, Size(c))
      BY <1>3 DEF OverlapsAnyMappedBlock
    <3> QED BY <1>3, <2>5, <3>2, <3>3 DEF RangeOverlaps
  <2>6. a \notin Starts
    BY <2>5 DEF Starts
  <2> QED BY <1>3, <2>4, <2>6 DEF MapsNew
<1> QED BY <1>1, <1>2, <1>3 DEF StaticAlloc, Map, Return

\* StaticFree fails and changes nothing, or frees the one block at the address.
LEMMA FreeEffect ==
  ASSUME IInv, HeapAt, NEW a, StaticFree(a)
  PROVE  \/ ret' # "ERROR_OK" /\ UNCHANGED _blocks
         \/ ret' = "ERROR_OK" /\ Frees(a)
<1>1. CASE \/ Refuse("ERROR_MEM_ADDR_NOT_ALLOCATED") \/ Refuse("ERROR_UC_UNMAP")
           \/ Refuse("ERROR_MEM_STATIC_NOT_FREEABLE")
  BY <1>1 DEF Refuse, Return
<1>2. ASSUME NEW b \in _blocks, b.vaddr = a, b # _dynamicHeapBlock,
             ret' = "ERROR_OK", _blocks' = _blocks \ {b}
      PROVE  Frees(a)
  <2>1. \A c \in _blocks : c.vaddr = a <=> c = b
    BY <1>2, StartsUnique
  <2>2. _blocks' = {c \in _blocks : c.vaddr # a}
    BY <1>2, <2>1
  <2>3. _dynamicHeapBlock \in _blocks
    BY DEF IInv, HeapStaysMapped
  <2>4. a # HeapBase
    BY <1>2, <2>1, <2>3 DEF HeapAt
  <2> QED BY <1>2, <2>2, <2>4 DEF Frees, Starts
<1> QED BY <1>1, <1>2 DEF StaticFree, Unmap, Return

\* The addresses of the blocks after each.
LEMMA StartsAfter ==
  ASSUME NEW a, NEW s
  PROVE  /\ UNCHANGED _blocks => Starts' = Starts
         /\ MapsNew(a, s) => Starts' = Starts \cup {a}
         /\ Frees(a) => Starts' = Starts \ {a}
<1>1. UNCHANGED _blocks => Starts' = Starts
  BY DEF Starts
<1>2. MapsNew(a, s) => Starts' = Starts \cup {a}
  BY DEF Starts, MapsNew
<1>3. Frees(a) => Starts' = Starts \ {a}
  BY DEF Starts, Frees
<1> QED BY <1>1, <1>2, <1>3

\* The heap's block is not exchanged.
LEMMA HeapKept ==
  ASSUME HeapAt, [Next]_vars
  PROVE  HeapAt'
<1>1. _dynamicHeapBlock' = _dynamicHeapBlock
  BY DEF Next, vars, StaticAlloc, StaticFree, Map, Unmap, Refuse
<1> QED BY <1>1 DEF HeapAt

\* Those who may own a block: an image being loaded is known by its place on the
\* stack, since a file may be there twice.
Owners == ({"heap", "fixed", "leaked", "tried"} \X {0})
            \cup ({"image"} \X Frame) \cup ({"frame"} \X (Nat \ {0}))

ImageClaim(l) == IF l \in loaded THEN Range(l.blocks) ELSE {}
FrameClaim(i) == IF i \in 1 .. Len(stack) THEN Range(stack[i].blocks) ELSE {}

Claim(o) ==
  CASE o[1] = "heap"   -> {HeapBase}
    [] o[1] = "fixed"  -> fixed
    [] o[1] = "leaked" -> leaked
    [] o[1] = "tried"  -> Tried
    [] o[1] = "image"  -> ImageClaim(o[2])
    [] o[1] = "frame"  -> FrameClaim(o[2])

Claims == [o \in Owners |-> Claim(o)]

\* Under the claims c, every address of S has one owner, and nothing else has.
Tidy(c, S) ==
  /\ \A o, p \in Owners : o # p => c[o] \cap c[p] = {}
  /\ S = UNION {c[o] : o \in Owners}

\* Claims that are the same at every owner are as tidy.
LEMMA TidySame ==
  ASSUME NEW c, NEW d, NEW S, Tidy(c, S), \A p \in Owners : d[p] = c[p]
  PROVE  Tidy(d, S)
<1>1. UNION {d[p] : p \in Owners} = UNION {c[p] : p \in Owners}
  OBVIOUS
<1> QED BY <1>1 DEF Tidy

\* A new address goes to one owner.
LEMMA TidyGrow ==
  ASSUME NEW c, NEW d, NEW S, NEW a, NEW o \in Owners, Tidy(c, S), a \notin S,
         d[o] = c[o] \cup {a}, \A p \in Owners \ {o} : d[p] = c[p]
  PROVE  Tidy(d, S \cup {a})
<1>1. \A p \in Owners : a \notin c[p]
  BY DEF Tidy
<1>2. \A p, q \in Owners : p # q => d[p] \cap d[q] = {}
  BY <1>1 DEF Tidy
<1>3. UNION {d[p] : p \in Owners} = S \cup {a}
  BY <1>1 DEF Tidy
<1> QED BY <1>2, <1>3 DEF Tidy

\* An address is given up by its owner.
LEMMA TidyShrink ==
  ASSUME NEW c, NEW d, NEW S, NEW a, NEW o \in Owners, Tidy(c, S), a \in c[o],
         d[o] = c[o] \ {a}, \A p \in Owners \ {o} : d[p] = c[p]
  PROVE  Tidy(d, S \ {a})
<1>1. \A p \in Owners \ {o} : a \notin c[p]
  BY DEF Tidy
<1>2. \A p, q \in Owners : p # q => d[p] \cap d[q] = {}
  BY <1>1 DEF Tidy
<1>3. UNION {d[p] : p \in Owners} = S \ {a}
  BY <1>1 DEF Tidy
<1> QED BY <1>2, <1>3 DEF Tidy

\* Addresses change their owner.
LEMMA TidyMove ==
  ASSUME NEW c, NEW d, NEW S, NEW M, NEW o \in Owners, NEW q \in Owners, o # q,
         Tidy(c, S), M \subseteq c[o], d[o] = c[o] \ M, d[q] = c[q] \cup M,
         \A p \in Owners \ {o, q} : d[p] = c[p]
  PROVE  Tidy(d, S)
<1>1. \A p \in Owners \ {o} : M \cap c[p] = {}
  BY DEF Tidy
<1>2. \A p, r \in Owners : p # r => d[p] \cap d[r] = {}
  BY <1>1 DEF Tidy
<1>3. UNION {d[p] : p \in Owners} = S
  BY <1>1 DEF Tidy
<1> QED BY <1>2, <1>3 DEF Tidy

\* The owners, one by one.
LEMMA OwnerKinds ==
  /\ \A k \in {"heap", "fixed", "leaked", "tried"} : <<k, 0>> \in Owners
  /\ \A l \in Frame : <<"image", l>> \in Owners
  /\ \A i \in Nat \ {0} : <<"frame", i>> \in Owners
  /\ \A o \in Owners :
       \/ o \in {<<"heap", 0>>, <<"fixed", 0>>, <<"leaked", 0>>, <<"tried", 0>>}
       \/ \E l \in Frame : o = <<"image", l>>
       \/ \E i \in Nat \ {0} : o = <<"frame", i>>
BY DEF Owners

\* What each claims.
ClaimsAre ==
  /\ Claims[<<"heap", 0>>] = {HeapBase} /\ Claims[<<"fixed", 0>>] = fixed
  /\ Claims[<<"leaked", 0>>] = leaked /\ Claims[<<"tried", 0>>] = Tried
  /\ \A l \in Frame : Claims[<<"image", l>>] = ImageClaim(l)
  /\ \A i \in Nat \ {0} : Claims[<<"frame", i>>] = FrameClaim(i)

\* Claims says so.
LEMMA ClaimValues == ClaimsAre
<1>1. \A o \in Owners : Claims[o] = Claim(o)
  BY DEF Claims
<1>2. /\ Claim(<<"heap", 0>>) = {HeapBase} /\ Claim(<<"fixed", 0>>) = fixed
      /\ Claim(<<"leaked", 0>>) = leaked /\ Claim(<<"tried", 0>>) = Tried
  BY DEF Claim
<1>3. \A l : Claim(<<"image", l>>) = ImageClaim(l)
  BY DEF Claim
<1>4. \A i : Claim(<<"frame", i>>) = FrameClaim(i)
  BY DEF Claim
<1> QED BY <1>1, <1>2, <1>3, <1>4, OwnerKinds DEF ClaimsAre

\* The owners outside X whose part of the state is left alone keep their claims.
LEMMA ClaimsKept ==
  ASSUME NEW X,
         fixed' = fixed \/ <<"fixed", 0>> \in X,
         leaked' = leaked \/ <<"leaked", 0>> \in X,
         Tried' = Tried \/ <<"tried", 0>> \in X,
         \A l \in Frame : ImageClaim(l)' = ImageClaim(l) \/ <<"image", l>> \in X,
         \A i \in Nat \ {0} : FrameClaim(i)' = FrameClaim(i) \/ <<"frame", i>> \in X
  PROVE  \A p \in Owners \ X : Claims'[p] = Claims[p]
<1>1. /\ Claims'[<<"heap", 0>>] = {HeapBase} /\ Claims'[<<"fixed", 0>>] = fixed'
      /\ Claims'[<<"leaked", 0>>] = leaked' /\ Claims'[<<"tried", 0>>] = Tried'
      /\ \A l \in Frame : Claims'[<<"image", l>>] = ImageClaim(l)'
      /\ \A i \in Nat \ {0} : Claims'[<<"frame", i>>] = FrameClaim(i)'
  <2>1. ClaimsAre'
    BY ClaimValues, PTL
  <2> QED BY <2>1 DEF ClaimsAre
<1> SUFFICES ASSUME NEW p \in Owners, p \notin X PROVE Claims'[p] = Claims[p]
  OBVIOUS
<1>2. CASE p \in {<<"heap", 0>>, <<"fixed", 0>>, <<"leaked", 0>>, <<"tried", 0>>}
  BY <1>1, <1>2, ClaimValues DEF ClaimsAre
<1>3. ASSUME NEW l \in Frame, p = <<"image", l>> PROVE Claims'[p] = Claims[p]
  BY <1>1, <1>3, ClaimValues DEF ClaimsAre
<1>4. ASSUME NEW i \in Nat \ {0}, p = <<"frame", i>> PROVE Claims'[p] = Claims[p]
  BY <1>1, <1>4, ClaimValues DEF ClaimsAre
<1> QED BY <1>2, <1>3, <1>4, OwnerKinds

-----------------------------------------------------------------------------
(* The invariant of ownership. *)

Injective(s) == \A i, j \in DOMAIN s : i # j => s[i] # s[j]

\* Section s of image f is in the image's list, in a block that is large enough.
HasSection(f, s) ==
  s.size # 0 => /\ f.base + s.rva \in Range(f.blocks)
                /\ \E b \in _blocks : b.vaddr = f.base + s.rva /\ Size(b) >= s.size

HasBefore(f, n) ==
  \A j \in 1 .. Len(Sections[f.file]) : j < n => HasSection(f, Sections[f.file][j])
Complete(f) ==
  \A j \in 1 .. Len(Sections[f.file]) : HasSection(f, Sections[f.file][j])

TidyNow     == Tidy(Claims, Starts)
LoadedOK    == loaded \subseteq Frame /\ \A l \in loaded : Injective(l.blocks)
Listed      == \A i \in 1 .. Len(stack) : Injective(stack[i].blocks)
LoadedWhole == \A l \in loaded : Complete(l)
BelowWhole  == \A i \in 1 .. Len(stack) : i # Len(stack) => Complete(stack[i])
TopWhole    == at \in {"imports", "stub"} => Complete(Top)
TopPart     == at \in {"preferred", "chosen"} => HasBefore(Top, sec)
EmptyHanded == at \in {"search", "untry", "return error"} => Top.blocks = <<>>
SegmentHeld == at = "drop segment" => Head(todo).addr \in fixed

OwnInv ==
  /\ TidyNow /\ LoadedOK /\ Listed
  /\ LoadedWhole /\ BelowWhole /\ TopWhole /\ TopPart
  /\ EmptyHanded /\ SegmentHeld

AllInv == LoaderInv /\ IInv /\ HeapAt /\ OwnInv

\* The step leaves the blocks in f's list alone.
Spared(f) == \A b \in _blocks : b.vaddr \in Range(f.blocks) => b \in _blocks'

\* So it leaves f's sections alone.
LEMMA SparedWhole ==
  ASSUME NEW f, Spared(f)
  PROVE  /\ \A s : HasSection(f, s) => HasSection(f, s)'
         /\ Complete(f) => Complete(f)'
         /\ \A n : HasBefore(f, n) => HasBefore(f, n)'
<1>1. ASSUME NEW s, HasSection(f, s) PROVE HasSection(f, s)'
  <2>1. CASE s.size = 0
    BY <2>1 DEF HasSection
  <2>2. CASE s.size # 0
    <3>1. f.base + s.rva \in Range(f.blocks)
      BY <1>1, <2>2 DEF HasSection
    <3>2. PICK b \in _blocks : b.vaddr = f.base + s.rva /\ Size(b) >= s.size
      BY <1>1, <2>2 DEF HasSection
    <3>3. b \in _blocks'
      BY <3>1, <3>2 DEF Spared
    <3> QED BY <3>1, <3>2, <3>3 DEF HasSection, Size
  <2> QED BY <2>1, <2>2
<1>2. Complete(f) => Complete(f)'
  BY <1>1 DEF Complete
<1>3. \A n : HasBefore(f, n) => HasBefore(f, n)'
  BY <1>1 DEF HasBefore
<1> QED BY <1>1, <1>2, <1>3

\* Mapping spares everybody; freeing, those who do not list the address.
LEMMA WhoIsSpared ==
  ASSUME NEW f, NEW a, NEW s
  PROVE  /\ UNCHANGED _blocks => Spared(f)
         /\ MapsNew(a, s) => Spared(f)
         /\ Frees(a) /\ a \notin Range(f.blocks) => Spared(f)
BY DEF Spared, MapsNew, Frees

\* Freeing what one owner claims spares all other images.
LEMMA OthersSpared ==
  ASSUME TidyNow, loaded \subseteq Frame, stack \in Seq(Frame),
         NEW a, Frees(a), NEW o \in Owners, a \in Claims[o]
  PROVE  /\ \A l \in loaded : o # <<"image", l>> => Spared(l)
         /\ \A i \in 1 .. Len(stack) : o # <<"frame", i>> => Spared(stack[i])
<1>1. \A p \in Owners : p # o => a \notin Claims[p]
  BY DEF TidyNow, Tidy
<1>2. ASSUME NEW l \in loaded, o # <<"image", l>> PROVE Spared(l)
  <2>1. <<"image", l>> \in Owners /\ Claims[<<"image", l>>] = ImageClaim(l)
    BY OwnerKinds, ClaimValues DEF ClaimsAre
  <2>2. a \notin Range(l.blocks)
    BY <1>1, <1>2, <2>1 DEF ImageClaim
  <2> QED BY <2>2, WhoIsSpared
<1>3. ASSUME NEW i \in 1 .. Len(stack), o # <<"frame", i>> PROVE Spared(stack[i])
  <2>1. i \in Nat \ {0}
    BY LenProperties
  <2>2. <<"frame", i>> \in Owners /\ Claims[<<"frame", i>>] = FrameClaim(i)
    BY <2>1, OwnerKinds, ClaimValues DEF ClaimsAre
  <2>3. a \notin Range(stack[i].blocks)
    BY <1>1, <1>3, <2>2 DEF FrameClaim
  <2> QED BY <2>3, WhoIsSpared
<1> QED BY <1>2, <1>3

\* A step that leaves the images other than the innermost one in place, and
\* spares their blocks, leaves them whole.
LEMMA WholeKept ==
  ASSUME OwnInv, UNCHANGED loaded, Len(stack') = Len(stack),
         \A i \in 1 .. Len(stack) : i # Len(stack) => stack'[i] = stack[i] /\ Spared(stack[i]),
         \A l \in loaded : Spared(l)
  PROVE  LoadedWhole' /\ BelowWhole' /\ LoadedOK'
<1>1. LoadedWhole'
  BY SparedWhole DEF OwnInv, LoadedWhole
<1>2. BelowWhole'
  <2> SUFFICES ASSUME NEW i \in 1 .. Len(stack), i # Len(stack) PROVE Complete(stack[i])'
    BY DEF BelowWhole
  <2>1. PICK f : f = stack[i]
    OBVIOUS
  <2>2. Complete(f) /\ Spared(f)
    BY <2>1 DEF OwnInv, BelowWhole
  <2>3. Complete(f)'
    BY <2>2, SparedWhole
  <2>4. f = stack'[i]
    BY <2>1
  <2> QED BY <2>3, <2>4 DEF Complete, HasSection
<1>3. LoadedOK'
  BY DEF OwnInv, LoadedOK
<1> QED BY <1>1, <1>2, <1>3

\* The innermost image replaced by f: the others are where they were.
LEMMA TopReplaced ==
  ASSUME LoaderInv, stack # <<>>, NEW f \in Frame, SetTop(f)
  PROVE  /\ Len(stack) \in Nat \ {0} /\ Len(stack') = Len(stack) /\ stack' # <<>>
         /\ \A i \in 1 .. Len(stack) : i # Len(stack) => stack'[i] = stack[i]
         /\ Top' = f /\ stack'[Len(stack)] = f
<1>1. stack \in Seq(Frame)
  BY DEF LoaderInv, StackOK
<1>2. /\ Len(stack) \in Nat \ {0}
      /\ Front(stack) \in Seq(Frame)
      /\ Len(Front(stack)) = Len(stack) - 1
      /\ \A i \in 1 .. Len(stack) - 1 : Front(stack)[i] = stack[i]
  BY <1>1, FrontOf
<1>3. stack' = Append(Front(stack), f)
  BY <1>2, AppendIsConcat DEF SetTop
<1>4. /\ stack' \in Seq(Frame) /\ stack' # <<>> /\ Len(stack') = Len(stack)
      /\ \A i \in 1 .. Len(stack) - 1 : stack'[i] = stack[i]
      /\ stack'[Len(stack)] = f
  BY <1>2, <1>3, AppendProperties
<1>5. \A i \in 1 .. Len(stack) : i # Len(stack) => i \in 1 .. Len(stack) - 1
  BY <1>2
<1>6. Top' = stack'[Len(stack')]
  BY DEF Top, Last
<1> QED BY <1>2, <1>4, <1>5, <1>6

\* Its claim is what f lists, the other images' claims are what they were.
LEMMA TopClaims ==
  ASSUME LoaderInv, stack # <<>>, NEW f \in Frame, SetTop(f)
  PROVE  /\ <<"frame", Len(stack)>> \in Owners
         /\ Claims[<<"frame", Len(stack)>>] = Range(Top.blocks)
         /\ Claims'[<<"frame", Len(stack)>>] = Range(f.blocks)
         /\ \A i \in Nat \ {0} : i # Len(stack) => FrameClaim(i)' = FrameClaim(i)
<1>1. /\ Len(stack) \in Nat \ {0} /\ Len(stack') = Len(stack)
      /\ \A i \in 1 .. Len(stack) : i # Len(stack) => stack'[i] = stack[i]
      /\ stack'[Len(stack)] = f /\ Top = stack[Len(stack)]
  BY TopReplaced, TopOfStack
<1>2. PICK n \in Nat \ {0} : n = Len(stack)
  BY <1>1
<1>3. n \in 1 .. Len(stack)
  BY <1>2
<1>4. FrameClaim(n) = Range(Top.blocks)
  BY <1>1, <1>2, <1>3 DEF FrameClaim
<1>5. FrameClaim(n)' = Range(f.blocks)
  <2>1. n \in 1 .. Len(stack') /\ stack'[n] = f
    BY <1>1, <1>2, <1>3
  <2> QED BY <2>1 DEF FrameClaim
<1>6. \A i \in Nat \ {0} : i # Len(stack) => FrameClaim(i)' = FrameClaim(i)
  BY <1>1 DEF FrameClaim
<1>7. Claims[<<"frame", n>>] = FrameClaim(n) /\ <<"frame", n>> \in Owners
  BY <1>2, ClaimValues, OwnerKinds DEF ClaimsAre
<1>8. Claims'[<<"frame", n>>] = FrameClaim(n)'
  <2>1. ClaimsAre'
    BY ClaimValues, PTL
  <2> QED BY <1>2, <2>1 DEF ClaimsAre
<1> QED BY <1>2, <1>4, <1>5, <1>6, <1>7, <1>8

\* Its list stays without repetition if f's has none.
LEMMA TopListed ==
  ASSUME LoaderInv, OwnInv, stack # <<>>, NEW f \in Frame, SetTop(f), Injective(f.blocks)
  PROVE  Listed'
<1>1. /\ Len(stack') = Len(stack)
      /\ \A i \in 1 .. Len(stack) : i # Len(stack) => stack'[i] = stack[i]
      /\ stack'[Len(stack)] = f
  BY TopReplaced
<1>2. \A i \in 1 .. Len(stack) : Injective(stack[i].blocks)
  BY DEF OwnInv, Listed
<1>3. \A i \in 1 .. Len(stack') : Injective(stack'[i].blocks)
  BY <1>1, <1>2
<1> QED BY <1>3 DEF Listed, Injective

\* A list of addresses and what becomes of it when one is added or taken off.
LEMMA ListOf ==
  ASSUME NEW S, NEW s \in Seq(S), Injective(s)
  PROVE  /\ \A a \in S : Range(Append(s, a)) = Range(s) \cup {a}
         /\ \A a \in S : a \notin Range(s) => Injective(Append(s, a))
         /\ s # <<>> => /\ Head(s) \in Range(s)
                        /\ Range(Tail(s)) = Range(s) \ {Head(s)}
                        /\ Injective(Tail(s))
         /\ Range(<<>>) = {} /\ Injective(<<>>)
<1>0. Len(s) \in Nat /\ DOMAIN s = 1 .. Len(s)
  BY LenProperties
<1>1. ASSUME NEW a \in S
      PROVE  /\ DOMAIN Append(s, a) = 1 .. Len(s) + 1
             /\ \A i \in 1 .. Len(s) : Append(s, a)[i] = s[i]
             /\ Append(s, a)[Len(s) + 1] = a
  <2>1. /\ Append(s, a) \in Seq(S) /\ Len(Append(s, a)) = Len(s) + 1
        /\ \A i \in 1 .. Len(s) : Append(s, a)[i] = s[i]
        /\ Append(s, a)[Len(s) + 1] = a
    BY AppendProperties
  <2>2. DOMAIN Append(s, a) = 1 .. Len(Append(s, a))
    BY <2>1, LenProperties
  <2> QED BY <2>1, <2>2
<1>2. ASSUME NEW a \in S
      PROVE  /\ Range(Append(s, a)) = Range(s) \cup {a}
             /\ a \notin Range(s) => Injective(Append(s, a))
  <2> DEFINE t == Append(s, a)
  <2>1. /\ DOMAIN t = 1 .. Len(s) + 1 /\ t[Len(s) + 1] = a
        /\ \A i \in 1 .. Len(s) : t[i] = s[i]
    BY <1>1
  <2> HIDE DEF t
  <2>2. /\ \A i \in DOMAIN t : i \in 1 .. Len(s) \/ i = Len(s) + 1
        /\ \A i \in 1 .. Len(s) : i \in DOMAIN t
        /\ Len(s) + 1 \in DOMAIN t
    BY <1>0, <2>1
  <2>3. Range(t) = Range(s) \cup {a}
    BY <1>0, <2>1, <2>2 DEF Range
  <2>4. a \notin Range(s) => Injective(t)
    <3>1. \A i \in 1 .. Len(s) : s[i] \in Range(s)
      BY <1>0 DEF Range
    <3>2. \A i, j \in 1 .. Len(s) : i # j => s[i] # s[j]
      BY <1>0 DEF Injective
    <3> QED BY <2>1, <2>2, <3>1, <3>2 DEF Injective
  <2> QED BY <2>3, <2>4 DEF t
<1>3. ASSUME s # <<>>
      PROVE  /\ Head(s) \in Range(s)
             /\ Range(Tail(s)) = Range(s) \ {Head(s)}
             /\ Injective(Tail(s))
  <2> DEFINE t == Tail(s)
  <2>1. /\ t \in Seq(S) /\ Len(t) = Len(s) - 1
        /\ \A i \in 1 .. Len(t) : t[i] = s[i + 1]
    BY <1>3, HeadTailProperties
  <2>2. DOMAIN t = 1 .. Len(t)
    BY <2>1, LenProperties
  <2>3. Head(s) = s[1] /\ Len(s) # 0
    BY <1>3, EmptySeq
  <2> HIDE DEF t
  <2>4. 1 \in DOMAIN s
    BY <1>0, <2>3
  <2>5. \A i \in DOMAIN s : i # 1 => i - 1 \in DOMAIN t /\ t[i - 1] = s[i]
    <3>1. ASSUME NEW i \in 1 .. Len(s), i # 1
          PROVE  i - 1 \in 1 .. Len(t) /\ (i - 1) + 1 = i
      BY <1>0, <2>1, <3>1
    <3> QED BY <1>0, <2>1, <2>2, <3>1
  <2>6. \A i \in DOMAIN t : i + 1 \in DOMAIN s /\ t[i] = s[i + 1] /\ i + 1 # 1
    BY <1>0, <2>1, <2>2
  <2>7. Head(s) \in Range(s)
    BY <2>3, <2>4 DEF Range
  <2>8. Range(t) = Range(s) \ {Head(s)}
    <3>1. ASSUME NEW x \in Range(t) PROVE x \in Range(s) \ {Head(s)}
      <4>1. PICK i \in DOMAIN t : x = t[i]
        BY <3>1 DEF Range
      <4>2. i + 1 \in DOMAIN s /\ x = s[i + 1] /\ i + 1 # 1
        BY <2>6, <4>1
      <4>3. x # s[1]
        BY <2>4, <4>2 DEF Injective
      <4> QED BY <2>3, <4>2, <4>3 DEF Range
    <3>2. ASSUME NEW x \in Range(s), x # Head(s) PROVE x \in Range(t)
      <4>1. PICK i \in DOMAIN s : x = s[i]
        BY <3>2 DEF Range
      <4>2. i # 1
        BY <2>3, <3>2, <4>1
      <4>3. i - 1 \in DOMAIN t /\ t[i - 1] = x
        BY <2>5, <4>1, <4>2
      <4> QED BY <4>3 DEF Range
    <3> QED BY <3>1, <3>2
  <2>9. Injective(t)
    <3> SUFFICES ASSUME NEW i \in DOMAIN t, NEW j \in DOMAIN t, i # j PROVE t[i] # t[j]
      BY DEF Injective
    <3>1. i + 1 # j + 1
      BY <2>1, <2>2
    <3> QED BY <2>6, <3>1 DEF Injective
  <2> QED BY <2>7, <2>8, <2>9 DEF t
<1>4. Range(<<>>) = {} /\ Injective(<<>>)
  BY DEF Range, Injective
<1> QED BY <1>2, <1>3, <1>4

-----------------------------------------------------------------------------
(* One lemma per kind of step. *)

\* Nothing is being tried outside two places of the code.
LEMMA NothingTried ==
  /\ at \notin {"untry", "drop section"} => Tried = {}
  /\ at' \notin {"untry", "drop section"} => Tried' = {}
BY DEF Tried

\* The innermost image where the step leaves the stack and its blocks alone.
LEMMA TopKept ==
  ASSUME UNCHANGED stack, Spared(Top)
  PROVE  /\ Top' = Top
         /\ Complete(Top) => Complete(Top)'
         /\ \A n : HasBefore(Top, n) => HasBefore(Top, n)'
<1>1. Top' = Top
  BY DEF Top, Last
<1>2. PICK f : f = Top
  OBVIOUS
<1>3. /\ Complete(f) => Complete(f)'
      /\ \A n : HasBefore(f, n) => HasBefore(f, n)'
  BY <1>2, SparedWhole
<1>4. f = Top'
  BY <1>1, <1>2
<1>5. Complete(Top) => Complete(Top)'
  BY <1>2, <1>3, <1>4 DEF Complete, HasSection
<1>6. \A n : HasBefore(Top, n) => HasBefore(Top, n)'
  BY <1>2, <1>3, <1>4 DEF HasBefore, HasSection
<1> QED BY <1>1, <1>5, <1>6

\* A step that gives nothing to anybody.
LEMMA QuietStep ==
  ASSUME AllInv, UNCHANGED <<_blocks, stack, loaded, fixed, leaked>>, Tried' = Tried,
         TopWhole', TopPart', EmptyHanded', SegmentHeld'
  PROVE  OwnInv'
<1>1. OwnInv
  BY DEF AllInv
<1>2. \A f : Spared(f)
  BY WhoIsSpared
<1>3. LoadedWhole' /\ BelowWhole' /\ LoadedOK'
  BY <1>1, <1>2, WholeKept
<1>4. Listed'
  BY <1>1 DEF OwnInv, Listed, Injective
<1>5. TidyNow'
  <2>1. /\ \A l \in Frame : ImageClaim(l)' = ImageClaim(l)
        /\ \A i \in Nat \ {0} : FrameClaim(i)' = FrameClaim(i)
    BY DEF ImageClaim, FrameClaim
  <2>2. \A p \in Owners \ {} : Claims'[p] = Claims[p]
    BY <2>1, ClaimsKept
  <2>3. Tidy(Claims', Starts)
    BY <1>1, <2>2, TidySame DEF OwnInv, TidyNow
  <2>4. Starts' = Starts
    BY StartsAfter
  <2> QED BY <2>3, <2>4 DEF TidyNow, Tidy
<1> QED BY <1>3, <1>4, <1>5 DEF OwnInv

\* The steps that only move on, with the stack as it is.
LEMMA OwnControl ==
  ASSUME AllInv, SkipSection \/ Search \/ Placed \/ CreateReturnZeroStub \/ ImportsFail
  PROVE  OwnInv'
<1>1. UNCHANGED <<_blocks, todo, stack, loaded, fixed, leaked>>
  BY DEF SkipSection, Search, Placed, CreateReturnZeroStub, ImportsFail, vars, auxVars
<1>2. /\ at \notin {"untry", "drop section"} /\ at' \notin {"untry", "drop section"}
      /\ at' # "drop segment"
  BY DEF SkipSection, Search, Placed, CreateReturnZeroStub, ImportsFail, Goto
<1>3. Tried' = Tried /\ SegmentHeld'
  BY <1>2, NothingTried DEF SegmentHeld
<1>4. /\ Top' = Top
      /\ Complete(Top) => Complete(Top)'
      /\ \A n : HasBefore(Top, n) => HasBefore(Top, n)'
  BY <1>1, WhoIsSpared, TopKept
<1>5. OwnInv /\ LoaderInv
  BY DEF AllInv
<1>6. TopWhole' /\ TopPart'
  <2>1. CASE SkipSection
    <3>1. /\ at \in {"preferred", "search", "chosen"} /\ at' = at /\ sec' = sec + 1
          /\ TheSection.size = 0 /\ sec \in Nat \ {0}
      BY <1>5, <2>1 DEF SkipSection, LoaderInv
    <3>2. CASE at = "search"
      BY <3>1, <3>2 DEF TopWhole, TopPart
    <3>3. CASE at # "search"
      <4>1. HasBefore(Top, sec)
        BY <1>5, <3>1, <3>3 DEF OwnInv, TopPart
      <4>2. HasSection(Top, Sections[Top.file][sec])
        BY <3>1 DEF HasSection, TheSection
      <4>3. \A j \in 1 .. Len(Sections[Top.file]) : j < sec + 1 => j < sec \/ j = sec
        BY <3>1
      <4>4. HasBefore(Top, sec + 1)
        BY <4>1, <4>2, <4>3 DEF HasBefore
      <4>5. PICK n : n = sec + 1
        OBVIOUS
      <4>6. HasBefore(Top, n)'
        BY <1>4, <4>4, <4>5
      <4>7. HasBefore(Top, sec)'
        BY <3>1, <4>5, <4>6 DEF HasBefore
      <4> QED BY <3>1, <3>3, <4>7 DEF TopWhole, TopPart
    <3> QED BY <3>2, <3>3
  <2>2. CASE Search \/ ImportsFail
    <3>1. at' \in {"search", "rollback"}
      BY <2>2 DEF Search, ImportsFail, Goto
    <3> QED BY <3>1 DEF TopWhole, TopPart
  <2>3. CASE Placed
    <3>1. at \in {"preferred", "chosen"} /\ AllMapped /\ at' \in {"imports", "rollback"}
      BY <2>3 DEF Placed, Goto
    <3>2. HasBefore(Top, sec) /\ sec \in Nat /\ sec > Len(Sections[Top.file])
      BY <1>5, <3>1 DEF OwnInv, TopPart, AllMapped, LoaderInv
    <3>3. Len(Sections[Top.file]) \in Nat
      <4>1. stack # <<>>
        BY <1>5, <3>1 DEF LoaderInv, Loading
      <4>2. Sections[Top.file] \in Seq(Section)
        BY <1>5, <4>1, TopOfStack, ImagesAssumption DEF FrameOK, Frame
      <4> QED BY <4>2, LenProperties
    <3>4. \A j \in 1 .. Len(Sections[Top.file]) : j < sec
      BY <3>2, <3>3
    <3>5. Complete(Top)
      BY <3>2, <3>4 DEF HasBefore, Complete
    <3> QED BY <1>4, <3>1, <3>5 DEF TopWhole, TopPart
  <2>4. CASE CreateReturnZeroStub
    <3>1. at = "imports" /\ at' = "stub"
      BY <2>4 DEF CreateReturnZeroStub, Goto
    <3>2. Complete(Top)
      BY <1>5, <3>1 DEF OwnInv, TopWhole
    <3> QED BY <1>4, <3>1, <3>2 DEF TopWhole, TopPart
  <2> QED BY <2>1, <2>2, <2>3, <2>4
<1>7. EmptyHanded'
  <2>1. CASE SkipSection
    <3>1. at' = at /\ at \in {"preferred", "search", "chosen"}
      BY <2>1 DEF SkipSection
    <3> QED BY <1>4, <1>5, <3>1 DEF OwnInv, EmptyHanded
  <2>2. CASE Search
    <3>1. Top.blocks = <<>>
      BY <2>2 DEF Search
    <3> QED BY <1>4, <3>1 DEF EmptyHanded
  <2>3. CASE Placed \/ CreateReturnZeroStub \/ ImportsFail
    <3>1. at' \in {"imports", "rollback", "stub"}
      BY <2>3 DEF Placed, CreateReturnZeroStub, ImportsFail, Goto
    <3> QED BY <3>1 DEF EmptyHanded
  <2> QED BY <2>1, <2>2, <2>3
<1> QED BY <1>1, <1>3, <1>6, <1>7, QuietStep

\* A step that changes what the innermost image is and lists, and nothing else
\* of the images: what is left to show of the others.
LEMMA TopStep ==
  ASSUME AllInv, stack # <<>>, NEW f \in Frame, SetTop(f), Injective(f.blocks),
         UNCHANGED loaded, TidyNow', TopWhole', TopPart', EmptyHanded',
         at' # "drop segment",
         \A l \in loaded : Spared(l),
         \A i \in 1 .. Len(stack) : i # Len(stack) => Spared(stack[i])
  PROVE  OwnInv'
<1>1. OwnInv /\ LoaderInv
  BY DEF AllInv
<1>2. /\ Len(stack') = Len(stack)
      /\ \A i \in 1 .. Len(stack) : i # Len(stack) => stack'[i] = stack[i]
  BY <1>1, TopReplaced
<1>3. LoadedWhole' /\ BelowWhole' /\ LoadedOK'
  BY <1>1, <1>2, WholeKept
<1>4. Listed'
  BY <1>1, TopListed
<1> QED BY <1>3, <1>4 DEF OwnInv, SegmentHeld

\* The innermost image, its type and its list.
LEMMA TopFacts ==
  ASSUME AllInv, stack # <<>>
  PROVE  /\ Top \in Frame /\ Top.blocks \in Seq(Addresses) /\ Injective(Top.blocks)
         /\ Top.base \in BaseOf(Top.file)
         /\ Len(stack) \in Nat \ {0} /\ Top = stack[Len(stack)]
<1>1. LoaderInv /\ OwnInv
  BY DEF AllInv
<1>2. Len(stack) \in Nat \ {0} /\ Top = stack[Len(stack)] /\ FrameOK(Top)
  BY <1>1, TopOfStack
<1>3. Len(stack) \in 1 .. Len(stack)
  BY <1>2
<1>4. Injective(Top.blocks)
  BY <1>1, <1>2, <1>3 DEF OwnInv, Listed
<1> QED BY <1>2, <1>4 DEF FrameOK, Frame

\* The base is chosen; the image lists what it did.
LEMMA OwnChooseBase ==
  ASSUME AllInv, ChooseBase
  PROVE  OwnInv'
<1>1. /\ at = "search" /\ sec' = 1 /\ UNCHANGED <<_blocks, loaded, fixed, leaked, cand>>
      /\ \/ at' = "return error" /\ UNCHANGED stack
         \/ /\ ~(cand > Len(Bases)) /\ at' = "chosen"
            /\ SetTop([Top EXCEPT !.base = Bases[cand]])
  BY DEF ChooseBase, Goto, vars, auxVars
<1>2. OwnInv /\ LoaderInv
  BY DEF AllInv
<1>3. Tried' = {} /\ Tried = {}
  BY <1>1, NothingTried
<1>4. CASE at' = "return error" /\ UNCHANGED stack
  <2>1. Top.blocks = <<>> /\ Top' = Top
    BY <1>1, <1>2, <1>4 DEF OwnInv, EmptyHanded, Top, Last
  <2> QED BY <1>1, <1>3, <1>4, <2>1, QuietStep DEF TopWhole, TopPart, EmptyHanded, SegmentHeld
<1>5. CASE ~(cand > Len(Bases)) /\ at' = "chosen" /\ SetTop([Top EXCEPT !.base = Bases[cand]])
  <2> DEFINE f == [Top EXCEPT !.base = Bases[cand]]
  <2>1. stack # <<>>
    BY <1>1, <1>2 DEF LoaderInv, Loading
  <2>2. Bases[cand] \in Nat
    <3>1. cand \in Nat \ {0} /\ Len(Bases) \in Nat
      BY <1>2, ImagesAssumption, LenProperties DEF LoaderInv
    <3>2. cand \in 1 .. Len(Bases)
      BY <1>5, <3>1
    <3> QED BY <3>2, ImagesAssumption, ElementOfSeq
  <2>3. Top \in Frame /\ Injective(Top.blocks)
    BY <2>1, TopFacts
  <2>4. f \in Frame /\ f.blocks = Top.blocks
    BY <2>2, <2>3 DEF Frame
  <2>5. SetTop(f)
    BY <1>5
  <2> HIDE DEF f
  <2>6. /\ <<"frame", Len(stack)>> \in Owners
        /\ Claims'[<<"frame", Len(stack)>>] = Claims[<<"frame", Len(stack)>>]
        /\ \A i \in Nat \ {0} : i # Len(stack) => FrameClaim(i)' = FrameClaim(i)
    BY <1>2, <2>1, <2>4, <2>5, TopClaims
  <2>7. \A p \in Owners \ {<<"frame", Len(stack)>>} : Claims'[p] = Claims[p]
    <3>1. \A l \in Frame : ImageClaim(l)' = ImageClaim(l)
      BY <1>1 DEF ImageClaim
    <3>2. Len(stack) \in Nat \ {0}
      BY <2>1, TopFacts
    <3>3. \A i \in Nat \ {0} : FrameClaim(i)' = FrameClaim(i) \/ <<"frame", i>> \in {<<"frame", Len(stack)>>}
      BY <2>6
    <3>4. fixed' = fixed /\ leaked' = leaked /\ Tried' = Tried
      BY <1>1, <1>3
    <3> QED BY <3>1, <3>3, <3>4, ClaimsKept
  <2>8. Tidy(Claims', Starts)
    BY <1>2, <2>6, <2>7, TidySame DEF OwnInv, TidyNow
  <2>9. TidyNow'
    <3>1. Starts' = Starts
      BY <1>1, StartsAfter
    <3> QED BY <2>8, <3>1 DEF TidyNow, Tidy
  <2>10. TopWhole'
    BY <1>5 DEF TopWhole
  <2>11. TopPart'
    <3>1. ~(\E j \in 1 .. Len(Sections[Top'.file]) : j < 1)
      OBVIOUS
    <3> QED BY <1>1, <3>1 DEF TopPart, HasBefore
  <2>12. \A g : Spared(g)
    BY <1>1, WhoIsSpared
  <2>13. EmptyHanded' /\ at' # "drop segment"
    BY <1>5 DEF EmptyHanded
  <2> QED BY <1>1, <2>1, <2>3, <2>4, <2>5, <2>9, <2>10, <2>11, <2>12, <2>13, TopStep
<1> QED BY <1>1, <1>4, <1>5

\* What an image being entered or left means for the claims of the frames.
LEMMA PushClaims ==
  ASSUME stack \in Seq(Frame), NEW f \in Frame, f.blocks = <<>>, stack' = Append(stack, f)
  PROVE  /\ Len(stack) \in Nat /\ Len(stack') = Len(stack) + 1
         /\ \A i \in 1 .. Len(stack) : stack'[i] = stack[i]
         /\ stack'[Len(stack) + 1] = f
         /\ \A i \in Nat \ {0} : FrameClaim(i)' = FrameClaim(i)
<1>1. /\ Len(stack) \in Nat /\ Len(stack') = Len(stack) + 1
      /\ \A i \in 1 .. Len(stack) : stack'[i] = stack[i]
      /\ stack'[Len(stack) + 1] = f
  BY AppendProperties, LenProperties
<1>2. ASSUME NEW i \in Nat \ {0} PROVE FrameClaim(i)' = FrameClaim(i)
  <2>1. CASE i \in 1 .. Len(stack)
    <3>1. i \in 1 .. Len(stack') /\ stack'[i] = stack[i]
      BY <1>1, <2>1
    <3> QED BY <2>1, <3>1 DEF FrameClaim
  <2>2. CASE i = Len(stack) + 1
    <3>1. i \in 1 .. Len(stack') /\ stack'[i] = f /\ i \notin 1 .. Len(stack)
      BY <1>1, <2>2
    <3>2. Range(<<>>) = {}
      BY DEF Range
    <3> QED BY <3>1, <3>2 DEF FrameClaim
  <2>3. CASE i \notin 1 .. Len(stack) /\ i # Len(stack) + 1
    <3>1. i \notin 1 .. Len(stack')
      BY <1>1, <2>3
    <3> QED BY <2>3, <3>1 DEF FrameClaim
  <2> QED BY <2>1, <2>2, <2>3
<1> QED BY <1>1, <1>2

\* An image is begun: it owns nothing yet, and its importer is whole.
LEMMA OwnBegin ==
  ASSUME AllInv, NEW g \in Files, MapPEIntoMemory(g),
         at = "imports" \/ (at = "run" /\ stack = <<>>)
  PROVE  OwnInv'
<1> DEFINE f == [file |-> g, base |-> Preferred[g], blocks |-> <<>>, stubs |-> 0]
<1>1. OwnInv /\ stack \in Seq(Frame)
  BY DEF AllInv, LoaderInv, StackOK
<1>2. f \in Frame /\ f.blocks = <<>> /\ stack' = Append(stack, f)
  <2>1. <<>> \in Seq(Addresses) /\ Preferred[g] \in Nat
    BY EmptySeq, ImagesAssumption
  <2> QED BY <2>1 DEF Frame, MapPEIntoMemory
<1> HIDE DEF f
<1>3. /\ Len(stack) \in Nat /\ Len(stack') = Len(stack) + 1
      /\ \A i \in 1 .. Len(stack) : stack'[i] = stack[i]
      /\ stack'[Len(stack) + 1] = f
      /\ \A i \in Nat \ {0} : FrameClaim(i)' = FrameClaim(i)
  BY <1>1, <1>2, PushClaims
<1>4. UNCHANGED <<_blocks, loaded, fixed, leaked>> /\ sec' = 1
  BY DEF MapPEIntoMemory, vars, auxVars
<1>5. at' \in {"preferred", "return error"}
  BY DEF MapPEIntoMemory, Goto
<1>6. Top' = f
  BY <1>3 DEF Top, Last
<1>7. TidyNow'
  <2>1. Tried = {} /\ Tried' = {}
    BY <1>5, NothingTried
  <2>2. \A l \in Frame : ImageClaim(l)' = ImageClaim(l)
    BY <1>4 DEF ImageClaim
  <2>3. \A p \in Owners \ {} : Claims'[p] = Claims[p]
    BY <1>3, <1>4, <2>1, <2>2, ClaimsKept
  <2>4. Tidy(Claims', Starts)
    BY <1>1, <2>3, TidySame DEF OwnInv, TidyNow
  <2>5. Starts' = Starts
    BY <1>4, StartsAfter
  <2> QED BY <2>4, <2>5 DEF TidyNow, Tidy
<1>8. LoadedOK'
  BY <1>1, <1>4 DEF OwnInv, LoadedOK, Injective
<1>9. \A h : Spared(h)
  BY <1>4, WhoIsSpared
<1>10. LoadedWhole'
  BY <1>1, <1>4, <1>9, SparedWhole DEF OwnInv, LoadedWhole
<1>11. \A i \in 1 .. Len(stack') : i \in 1 .. Len(stack) \/ i = Len(stack) + 1
  BY <1>3
<1>12. Listed'
  <2>1. Injective(f.blocks)
    BY <1>2 DEF Injective
  <2>2. \A i \in 1 .. Len(stack) : Injective(stack[i].blocks)
    BY <1>1 DEF OwnInv, Listed
  <2>3. \A i \in 1 .. Len(stack') : Injective(stack'[i].blocks)
    BY <1>3, <1>11, <2>1, <2>2
  <2> QED BY <2>3 DEF Listed, Injective
<1>13. BelowWhole'
  <2> SUFFICES ASSUME NEW i \in 1 .. Len(stack'), i # Len(stack') PROVE Complete(stack[i])'
    BY DEF BelowWhole
  <2>1. i \in 1 .. Len(stack)
    BY <1>3, <1>11
  <2>2. Complete(stack[i])
    <3>1. CASE i # Len(stack)
      BY <1>1, <2>1, <3>1 DEF OwnInv, BelowWhole
    <3>2. CASE i = Len(stack)
      <4>1. stack # <<>>
        <5>1. Len(<<>>) = 0
          OBVIOUS
        <5> QED BY <1>3, <2>1, <5>1
      <4>2. Complete(Top) /\ Top = stack[Len(stack)]
        BY <1>1, <4>1 DEF OwnInv, TopWhole, Top, Last
      <4> QED BY <3>2, <4>2
    <3> QED BY <3>1, <3>2
  <2>3. PICK h : h = stack[i]
    OBVIOUS
  <2>4. Complete(h)'
    BY <1>9, <2>2, <2>3, SparedWhole
  <2>5. h = stack'[i]
    BY <1>3, <2>1, <2>3
  <2> QED BY <2>4, <2>5 DEF Complete, HasSection
<1>14. TopWhole' /\ EmptyHanded' /\ SegmentHeld'
  BY <1>2, <1>5, <1>6 DEF TopWhole, EmptyHanded, SegmentHeld
<1>15. TopPart'
  <2>1. ~(\E j \in 1 .. Len(Sections[Top'.file]) : j < 1)
    OBVIOUS
  <2> QED BY <1>4, <2>1 DEF TopPart, HasBefore
<1> QED BY <1>7, <1>8, <1>10, <1>12, <1>13, <1>14, <1>15 DEF OwnInv

\* The stack without its innermost image.
LEMMA PopFacts ==
  ASSUME stack \in Seq(Frame), stack # <<>>, Pop
  PROVE  /\ Len(stack) \in Nat \ {0} /\ Len(stack') = Len(stack) - 1
         /\ \A i \in 1 .. Len(stack') : i \in 1 .. Len(stack) /\ i # Len(stack) /\ stack'[i] = stack[i]
         /\ \A i \in Nat \ {0} : i # Len(stack) => FrameClaim(i)' = FrameClaim(i)
         /\ <<"frame", Len(stack)>> \in Owners
         /\ Claims[<<"frame", Len(stack)>>] = Range(Top.blocks)
         /\ Claims'[<<"frame", Len(stack)>>] = {}
<1>1. /\ Len(stack) \in Nat \ {0} /\ Len(stack') = Len(stack) - 1
      /\ \A i \in 1 .. Len(stack) - 1 : stack'[i] = stack[i]
  BY FrontOf DEF Pop
<1>2. PICK n \in Nat \ {0} : n = Len(stack)
  BY <1>1
<1>3. \A i \in 1 .. Len(stack') : i \in 1 .. Len(stack) /\ i # Len(stack) /\ stack'[i] = stack[i]
  BY <1>1
<1>4. ASSUME NEW i \in Nat \ {0}, i # Len(stack) PROVE FrameClaim(i)' = FrameClaim(i)
  <2>1. i \in 1 .. Len(stack') <=> i \in 1 .. Len(stack)
    BY <1>1, <1>4
  <2> QED BY <1>3, <2>1 DEF FrameClaim
<1>5. FrameClaim(n) = Range(Top.blocks)
  <2>1. n \in 1 .. Len(stack) /\ Top = stack[n]
    BY <1>2 DEF Top, Last
  <2> QED BY <2>1 DEF FrameClaim
<1>6. FrameClaim(n)' = {}
  <2>1. n \notin 1 .. Len(stack')
    BY <1>1, <1>2
  <2> QED BY <2>1 DEF FrameClaim
<1>7. <<"frame", n>> \in Owners /\ Claims[<<"frame", n>>] = FrameClaim(n)
  BY OwnerKinds, ClaimValues DEF ClaimsAre
<1>8. Claims'[<<"frame", n>>] = FrameClaim(n)'
  <2>1. ClaimsAre'
    BY ClaimValues, PTL
  <2> QED BY <2>1 DEF ClaimsAre
<1> QED BY <1>1, <1>2, <1>3, <1>4, <1>5, <1>6, <1>7, <1>8

\* Leaving an image: what is left to show once the claims are.
LEMMA OwnPop ==
  ASSUME AllInv, stack # <<>>, Pop, UNCHANGED _blocks, TidyNow', LoadedOK', LoadedWhole',
         at' \in {"run", "imports", "rollback", "failed"},
         at' = "imports" => Len(stack) # 1
  PROVE  OwnInv'
<1>1. OwnInv /\ stack \in Seq(Frame)
  BY DEF AllInv, LoaderInv, StackOK
<1>2. /\ Len(stack) \in Nat \ {0} /\ Len(stack') = Len(stack) - 1
      /\ \A i \in 1 .. Len(stack') : i \in 1 .. Len(stack) /\ i # Len(stack) /\ stack'[i] = stack[i]
  BY <1>1, PopFacts
<1>3. Listed'
  <2>1. \A i \in 1 .. Len(stack) : Injective(stack[i].blocks)
    BY <1>1 DEF OwnInv, Listed
  <2>2. \A i \in 1 .. Len(stack') : Injective(stack'[i].blocks)
    BY <1>2, <2>1
  <2> QED BY <2>2 DEF Listed, Injective
<1>4. ASSUME NEW i \in 1 .. Len(stack') PROVE Complete(stack[i])'
  <2>1. PICK h : h = stack[i]
    OBVIOUS
  <2>2. Complete(h) /\ Spared(h)
    BY <1>1, <1>2, <2>1, WhoIsSpared DEF OwnInv, BelowWhole
  <2>3. Complete(h)'
    BY <2>2, SparedWhole
  <2>4. h = stack'[i]
    BY <1>2, <2>1
  <2> QED BY <2>3, <2>4 DEF Complete, HasSection
<1>5. BelowWhole'
  BY <1>4 DEF BelowWhole
<1>6. TopWhole'
  <2> SUFFICES ASSUME at' = "imports" PROVE Complete(Top)'
    BY DEF TopWhole
  <2>1. PICK i \in 1 .. Len(stack') : i = Len(stack')
    <3>1. Len(stack') \in 1 .. Len(stack')
      BY <1>2
    <3> QED BY <3>1
  <2>2. Complete(stack[i])'
    BY <1>4
  <2>3. Top' = stack'[i]
    BY <2>1 DEF Top, Last
  <2> QED BY <2>2, <2>3 DEF Complete, HasSection
<1>7. TopPart' /\ EmptyHanded' /\ SegmentHeld'
  BY DEF TopPart, EmptyHanded, SegmentHeld
<1> QED BY <1>3, <1>5, <1>6, <1>7 DEF OwnInv

\* A loaded image takes its blocks with it.
LEMMA OwnReturnOK ==
  ASSUME AllInv, ReturnOK
  PROVE  OwnInv'
<1>1. OwnInv /\ LoaderInv /\ stack \in Seq(Frame)
  BY DEF AllInv, LoaderInv, StackOK
<1>2. /\ at = "imports" /\ Pop /\ loaded' = loaded \cup {Top}
      /\ UNCHANGED <<_blocks, fixed, leaked>>
      /\ at' = IF Len(stack) = 1 THEN "run" ELSE "imports"
  BY DEF ReturnOK, Goto, vars, auxVars
<1>3. stack # <<>>
  BY <1>1, <1>2 DEF LoaderInv, Loading
<1>4. PICK f : f = Top /\ f \in Frame /\ Injective(f.blocks)
  BY <1>3, TopFacts
<1>5. /\ \A i \in Nat \ {0} : i # Len(stack) => FrameClaim(i)' = FrameClaim(i)
      /\ <<"frame", Len(stack)>> \in Owners
      /\ Claims[<<"frame", Len(stack)>>] = Range(f.blocks)
      /\ Claims'[<<"frame", Len(stack)>>] = {}
  BY <1>1, <1>2, <1>3, <1>4, PopFacts
<1>6. /\ <<"image", f>> \in Owners
      /\ Claims[<<"image", f>>] = ImageClaim(f) /\ Claims'[<<"image", f>>] = ImageClaim(f)'
  <2>1. ClaimsAre'
    BY ClaimValues, PTL
  <2> QED BY <1>4, <2>1, OwnerKinds, ClaimValues DEF ClaimsAre
<1>7. ImageClaim(f)' = ImageClaim(f) \cup Range(f.blocks)
  BY <1>2, <1>4 DEF ImageClaim
<1>8. \A p \in Owners \ {<<"frame", Len(stack)>>, <<"image", f>>} : Claims'[p] = Claims[p]
  <2> DEFINE X == {<<"frame", Len(stack)>>, <<"image", f>>}
  <2>1. Tried = {} /\ Tried' = {}
    BY <1>2, NothingTried
  <2>2. \A l \in Frame : ImageClaim(l)' = ImageClaim(l) \/ <<"image", l>> \in X
    BY <1>2, <1>4 DEF ImageClaim
  <2>3. \A i \in Nat \ {0} : FrameClaim(i)' = FrameClaim(i) \/ <<"frame", i>> \in X
    BY <1>5
  <2> HIDE DEF X
  <2>4. \A p \in Owners \ X : Claims'[p] = Claims[p]
    BY <1>2, <2>1, <2>2, <2>3, ClaimsKept
  <2> QED BY <2>4 DEF X
<1>9. TidyNow'
  <2>1. <<"frame", Len(stack)>> # <<"image", f>>
    OBVIOUS
  <2>2. Tidy(Claims, Starts)
    BY <1>1 DEF OwnInv, TidyNow
  <2>3. Tidy(Claims', Starts)
    <3> DEFINE o == <<"frame", Len(stack)>>
               q == <<"image", f>>
               M == Range(f.blocks)
    <3>1. /\ o \in Owners /\ q \in Owners /\ o # q /\ M \subseteq Claims[o]
          /\ Claims'[o] = Claims[o] \ M /\ Claims'[q] = Claims[q] \cup M
          /\ \A p \in Owners \ {o, q} : Claims'[p] = Claims[p]
      BY <1>5, <1>6, <1>7, <1>8, <2>1
    <3> HIDE DEF o, q, M
    <3> QED BY <2>2, <3>1, TidyMove
  <2>4. Starts' = Starts
    BY <1>2, StartsAfter
  <2> QED BY <2>3, <2>4 DEF TidyNow, Tidy
<1>10. LoadedOK'
  BY <1>1, <1>2, <1>4 DEF OwnInv, LoadedOK, Injective
<1>11. LoadedWhole'
  <2>1. \A l \in loaded : Complete(l)
    BY <1>1 DEF OwnInv, LoadedWhole
  <2>2. Complete(f)
    BY <1>1, <1>2, <1>4 DEF OwnInv, TopWhole
  <2>3. \A l \in loaded \cup {f} : Complete(l)'
    BY <1>2, <2>1, <2>2, WhoIsSpared, SparedWhole
  <2> QED BY <1>2, <1>4, <2>3 DEF LoadedWhole
<1> QED BY <1>2, <1>3, <1>9, <1>10, <1>11, OwnPop

\* An image that failed has nothing left to lose.
LEMMA OwnReturnError ==
  ASSUME AllInv, ReturnError
  PROVE  OwnInv'
<1>1. OwnInv /\ LoaderInv /\ stack \in Seq(Frame)
  BY DEF AllInv, LoaderInv, StackOK
<1>2. /\ at \in {"return error", "rollback"} /\ Pop /\ Top.blocks = <<>>
      /\ UNCHANGED <<_blocks, loaded, fixed, leaked>>
      /\ at' \in {"rollback", "failed", "run"}
  <2>1. Top.blocks = <<>>
    BY <1>1 DEF ReturnError, OwnInv, EmptyHanded
  <2> QED BY <2>1 DEF ReturnError, Goto, vars, auxVars
<1>3. stack # <<>>
  BY <1>1, <1>2 DEF LoaderInv, Loading
<1>4. Range(Top.blocks) = {}
  <2>1. Range(<<>>) = {}
    BY DEF Range
  <2> QED BY <1>2, <2>1
<1>5. /\ \A i \in Nat \ {0} : i # Len(stack) => FrameClaim(i)' = FrameClaim(i)
      /\ <<"frame", Len(stack)>> \in Owners
      /\ Claims'[<<"frame", Len(stack)>>] = Claims[<<"frame", Len(stack)>>]
  BY <1>1, <1>2, <1>3, <1>4, PopFacts
<1>6. \A p \in Owners \ {<<"frame", Len(stack)>>} : Claims'[p] = Claims[p]
  <2> DEFINE X == {<<"frame", Len(stack)>>}
  <2>1. Tried = {} /\ Tried' = {}
    BY <1>2, NothingTried
  <2>2. \A l \in Frame : ImageClaim(l)' = ImageClaim(l)
    BY <1>2 DEF ImageClaim
  <2>3. \A i \in Nat \ {0} : FrameClaim(i)' = FrameClaim(i) \/ <<"frame", i>> \in X
    BY <1>5
  <2> HIDE DEF X
  <2>4. \A p \in Owners \ X : Claims'[p] = Claims[p]
    BY <1>2, <2>1, <2>2, <2>3, ClaimsKept
  <2> QED BY <2>4 DEF X
<1>7. TidyNow'
  <2>1. Tidy(Claims', Starts)
    BY <1>1, <1>5, <1>6, TidySame DEF OwnInv, TidyNow
  <2>2. Starts' = Starts
    BY <1>2, StartsAfter
  <2> QED BY <2>1, <2>2 DEF TidyNow, Tidy
<1>8. LoadedOK'
  BY <1>1, <1>2 DEF OwnInv, LoadedOK, Injective
<1>9. LoadedWhole'
  BY <1>1, <1>2, WhoIsSpared, SparedWhole DEF OwnInv, LoadedWhole
<1> QED BY <1>2, <1>3, <1>7, <1>8, <1>9, OwnPop

\* A step outside of any image: start-up.
LEMMA OutsideStep ==
  ASSUME AllInv, UNCHANGED <<stack, loaded>>, TidyNow', SegmentHeld',
         at' \in {"run", "failed", "crashed", "drop segment"},
         \A l \in loaded : Spared(l), \A i \in 1 .. Len(stack) : Spared(stack[i])
  PROVE  OwnInv'
<1>1. OwnInv
  BY DEF AllInv
<1>2. LoadedWhole' /\ BelowWhole' /\ LoadedOK'
  BY <1>1, WholeKept
<1>3. Listed'
  <2>1. \A i \in 1 .. Len(stack) : Injective(stack[i].blocks)
    BY <1>1 DEF OwnInv, Listed
  <2>2. \A i \in 1 .. Len(stack') : Injective(stack'[i].blocks)
    BY <2>1
  <2> QED BY <2>2 DEF Listed, Injective
<1>4. TopWhole' /\ TopPart' /\ EmptyHanded'
  BY DEF TopWhole, TopPart, EmptyHanded
<1> QED BY <1>2, <1>3, <1>4 DEF OwnInv

\* A request of start-up that is granted is held by `fixed`.
LEMMA OwnRequest ==
  ASSUME AllInv, MakeRequest
  PROVE  OwnInv'
<1> DEFINE q == Head(todo)
<1>1. OwnInv /\ LoaderInv /\ IInv
  BY DEF AllInv
<1>2. /\ at = "run" /\ todo # <<>> /\ StaticAlloc(q.addr, q.size)
      /\ UNCHANGED <<stack, loaded, leaked>>
      /\ fixed' = IF ret' = "ERROR_OK" /\ q.size # 0 THEN fixed \cup {q.addr} ELSE fixed
      /\ todo' = IF at' = "run" THEN Tail(todo) ELSE todo
  BY DEF MakeRequest, Ready
<1>3. /\ at' \in {"run", "failed", "crashed", "drop segment"}
      /\ at' = "drop segment" => ret' = "ERROR_OK" /\ ~(q.uses /\ q.size = 0) /\ ~q.fits
  BY DEF MakeRequest, Goto
<1>4. q \in Request /\ q.addr \in Nat /\ q.size \in Nat
  <2>1. q \in Request /\ q.addr \in Addresses /\ q.size \in Sizes
    BY <1>1, <1>2, FirstRequest
  <2> QED BY <2>1, MemoryMapAssumption
<1>5. PICK a, s : a = q.addr /\ s = q.size /\ a \in Nat /\ s \in Nat
  BY <1>4
<1>6. SegmentHeld'
  <2> SUFFICES ASSUME at' = "drop segment" PROVE Head(todo').addr \in fixed'
    BY DEF SegmentHeld
  <2>1. q.uses /\ q.size # 0
    BY <1>3, <1>4 DEF Request
  <2> QED BY <1>2, <1>3, <2>1
<1> HIDE DEF q
<1>7. Tried = {} /\ Tried' = {}
  BY <1>2, <1>3, NothingTried
<1>8. /\ \A l \in Frame : ImageClaim(l)' = ImageClaim(l)
      /\ \A i \in Nat \ {0} : FrameClaim(i)' = FrameClaim(i)
  BY <1>2 DEF ImageClaim, FrameClaim
<1>9. Tidy(Claims, Starts)
  BY <1>1 DEF OwnInv, TidyNow
<1>10. CASE fixed' = fixed /\ UNCHANGED _blocks
  <2>1. \A p \in Owners \ {} : Claims'[p] = Claims[p]
    BY <1>2, <1>7, <1>8, <1>10, ClaimsKept
  <2>2. Tidy(Claims', Starts)
    BY <1>9, <2>1, TidySame
  <2>3. Starts' = Starts
    BY <1>10, StartsAfter
  <2>4. TidyNow'
    BY <2>2, <2>3 DEF TidyNow, Tidy
  <2>5. \A f : Spared(f)
    BY <1>10, WhoIsSpared
  <2> QED BY <1>2, <1>3, <1>6, <2>4, <2>5, OutsideStep
<1>11. CASE fixed' = fixed \cup {a} /\ MapsNew(a, s)
  <2>1. \A p \in Owners \ {<<"fixed", 0>>} : Claims'[p] = Claims[p]
    BY <1>2, <1>7, <1>8, ClaimsKept
  <2>2. /\ <<"fixed", 0>> \in Owners
        /\ Claims'[<<"fixed", 0>>] = Claims[<<"fixed", 0>>] \cup {a}
    <3>1. ClaimsAre'
      BY ClaimValues, PTL
    <3> QED BY <1>11, <3>1, ClaimValues, OwnerKinds DEF ClaimsAre
  <2>3. a \notin Starts /\ Starts' = Starts \cup {a}
    BY <1>11, StartsAfter DEF MapsNew
  <2>4. Tidy(Claims', Starts \cup {a})
    BY <1>9, <2>1, <2>2, <2>3, TidyGrow
  <2>5. TidyNow'
    BY <2>3, <2>4 DEF TidyNow, Tidy
  <2>6. \A f : Spared(f)
    BY <1>11, WhoIsSpared
  <2> QED BY <1>2, <1>3, <1>6, <2>5, <2>6, OutsideStep
<1>12. \/ fixed' = fixed /\ UNCHANGED _blocks
       \/ fixed' = fixed \cup {a} /\ MapsNew(a, s)
  BY <1>1, <1>2, <1>5, AllocEffect
<1> QED BY <1>10, <1>11, <1>12

\* A segment whose data do not fit is given back.
LEMMA OwnDropSegment ==
  ASSUME AllInv, DropSegment
  PROVE  OwnInv'
<1>1. OwnInv /\ IInv /\ HeapAt /\ stack \in Seq(Frame)
  BY DEF AllInv, LoaderInv, StackOK
<1>2. PICK a : a = Head(todo).addr
  OBVIOUS
<1>3. /\ at = "drop segment" /\ StaticFree(a) /\ at' = "failed"
      /\ UNCHANGED <<stack, loaded, leaked>>
      /\ fixed' = IF ret' = "ERROR_OK" THEN fixed \ {a} ELSE fixed
  BY <1>2 DEF DropSegment, Goto
<1>4. a \in fixed
  BY <1>1, <1>2, <1>3 DEF OwnInv, SegmentHeld
<1>5. Tried = {} /\ Tried' = {} /\ SegmentHeld'
  BY <1>3, NothingTried DEF SegmentHeld
<1>6. /\ \A l \in Frame : ImageClaim(l)' = ImageClaim(l)
      /\ \A i \in Nat \ {0} : FrameClaim(i)' = FrameClaim(i)
  BY <1>3 DEF ImageClaim, FrameClaim
<1>7. Tidy(Claims, Starts)
  BY <1>1 DEF OwnInv, TidyNow
<1>8. CASE fixed' = fixed /\ UNCHANGED _blocks
  <2>1. \A p \in Owners \ {} : Claims'[p] = Claims[p]
    BY <1>3, <1>5, <1>6, <1>8, ClaimsKept
  <2>2. Tidy(Claims', Starts)
    BY <1>7, <2>1, TidySame
  <2>3. Starts' = Starts
    BY <1>8, StartsAfter
  <2>4. TidyNow'
    BY <2>2, <2>3 DEF TidyNow, Tidy
  <2>5. \A f : Spared(f)
    BY <1>8, WhoIsSpared
  <2> QED BY <1>3, <1>5, <2>4, <2>5, OutsideStep
<1>9. CASE fixed' = fixed \ {a} /\ Frees(a)
  <2>1. \A p \in Owners \ {<<"fixed", 0>>} : Claims'[p] = Claims[p]
    BY <1>3, <1>5, <1>6, ClaimsKept
  <2>2. /\ <<"fixed", 0>> \in Owners /\ a \in Claims[<<"fixed", 0>>]
        /\ Claims'[<<"fixed", 0>>] = Claims[<<"fixed", 0>>] \ {a}
    <3>1. ClaimsAre'
      BY ClaimValues, PTL
    <3> QED BY <1>4, <1>9, <3>1, ClaimValues, OwnerKinds DEF ClaimsAre
  <2>3. Starts' = Starts \ {a}
    BY <1>9, StartsAfter
  <2>4. Tidy(Claims', Starts \ {a})
    BY <1>7, <2>1, <2>2, TidyShrink
  <2>5. TidyNow'
    BY <2>3, <2>4 DEF TidyNow, Tidy
  <2>6. /\ \A l \in loaded : Spared(l)
        /\ \A i \in 1 .. Len(stack) : Spared(stack[i])
    <3>1. /\ \A l : <<"fixed", 0>> # <<"image", l>>
          /\ \A i : <<"fixed", 0>> # <<"frame", i>>
      OBVIOUS
    <3> QED BY <1>1, <1>9, <2>2, <3>1, OthersSpared DEF OwnInv, LoadedOK
  <2> QED BY <1>3, <1>5, <2>5, <2>6, OutsideStep
<1> QED BY <1>1, <1>3, <1>8, <1>9, FreeEffect

\* The innermost image gets one address more, or loses one; the claims of all
\* others stay.  Here for a step that leaves `fixed` and `leaked` alone.
LEMMA ClaimsButTop ==
  ASSUME AllInv, stack # <<>>, NEW f \in Frame, SetTop(f), NEW X,
         UNCHANGED <<loaded, fixed>>,
         leaked' = leaked \/ <<"leaked", 0>> \in X, Tried' = Tried \/ <<"tried", 0>> \in X,
         <<"frame", Len(stack)>> \in X
  PROVE  \A p \in Owners \ X : Claims'[p] = Claims[p]
<1>1. LoaderInv
  BY DEF AllInv
<1>2. \A i \in Nat \ {0} : i # Len(stack) => FrameClaim(i)' = FrameClaim(i)
  BY <1>1, TopClaims
<1>3. \A i \in Nat \ {0} : FrameClaim(i)' = FrameClaim(i) \/ <<"frame", i>> \in X
  BY <1>2
<1>4. \A l \in Frame : ImageClaim(l)' = ImageClaim(l)
  BY DEF ImageClaim
<1> QED BY <1>3, <1>4, ClaimsKept

\* A new block for the innermost image.
LEMMA TopGains ==
  ASSUME AllInv, stack # <<>>, NEW f \in Frame, SetTop(f), NEW a \in Addresses, NEW s,
         MapsNew(a, s), f.blocks = Append(Top.blocks, a),
         UNCHANGED <<loaded, fixed, leaked>>, Tried' = Tried
  PROVE  /\ TidyNow' /\ Injective(f.blocks)
         /\ Range(f.blocks) = Range(Top.blocks) \cup {a}
<1>1. OwnInv /\ LoaderInv
  BY DEF AllInv
<1>2. Top.blocks \in Seq(Addresses) /\ Injective(Top.blocks)
  BY TopFacts
<1>3. Range(f.blocks) = Range(Top.blocks) \cup {a}
  BY <1>2, ListOf
<1>4. /\ <<"frame", Len(stack)>> \in Owners
      /\ Claims[<<"frame", Len(stack)>>] = Range(Top.blocks)
      /\ Claims'[<<"frame", Len(stack)>>] = Range(f.blocks)
  BY <1>1, TopClaims
<1>5. PICK X : X = {<<"frame", Len(stack)>>}
  OBVIOUS
<1>6. \A p \in Owners \ X : Claims'[p] = Claims[p]
  BY <1>5, ClaimsButTop
<1>7. Tidy(Claims, Starts) /\ a \notin Starts /\ Starts' = Starts \cup {a}
  BY <1>1, StartsAfter DEF OwnInv, TidyNow, MapsNew
<1>8. PICK o : o = <<"frame", Len(stack)>>
  OBVIOUS
<1>9. Tidy(Claims', Starts \cup {a})
  <2>1. /\ o \in Owners /\ Claims'[o] = Claims[o] \cup {a}
        /\ \A p \in Owners \ {o} : Claims'[p] = Claims[p]
    BY <1>3, <1>4, <1>5, <1>6, <1>8
  <2> QED BY <1>7, <2>1, TidyGrow
<1>10. TidyNow'
  BY <1>7, <1>9 DEF TidyNow, Tidy
<1>11. a \notin Range(Top.blocks)
  BY <1>4, <1>7 DEF Tidy
<1>12. Injective(f.blocks)
  BY <1>2, <1>11, ListOf
<1> QED BY <1>3, <1>10, <1>12

\* A section of the innermost image is mapped, or not.
LEMMA OwnMapSection ==
  ASSUME AllInv,
         NEW here \in {"preferred", "chosen"}, NEW onFailure \in {"undo", "rollback"},
         MapSection(here, onFailure)
  PROVE  OwnInv'
<1>1. OwnInv /\ LoaderInv /\ IInv
  BY DEF AllInv
<1>2. PICK a, s : a = Top.base + TheSection.rva /\ s = TheSection.size
  OBVIOUS
<1>3. /\ stack # <<>> /\ ~AllMapped /\ at = here /\ StaticAlloc(a, s) /\ s # 0
      /\ UNCHANGED <<loaded, fixed, leaked, cand>>
      /\ \/ ret' # "ERROR_OK" /\ at' = onFailure /\ UNCHANGED <<stack, sec>>
         \/ ret' = "ERROR_OK" /\ at' = "drop section" /\ UNCHANGED <<stack, sec>>
         \/ /\ ret' = "ERROR_OK" /\ SetTop([Top EXCEPT !.blocks = Append(@, a)])
            /\ sec' = sec + 1 /\ at' = at
  BY <1>1, <1>2 DEF MapSection, AtSection, Goto, LoaderInv, Loading, auxVars
<1>4. /\ Top \in Frame /\ Top.blocks \in Seq(Addresses) /\ Injective(Top.blocks)
      /\ Top.base \in BaseOf(Top.file)
  BY <1>3, TopFacts
<1>5. a \in Addresses /\ s \in Sizes /\ a \in Nat /\ s \in Nat
  <2>1. a \in Addresses /\ s \in Sizes
    BY <1>1, <1>2, <1>3, <1>4, SectionRequest
  <2> QED BY <2>1, MemoryMapAssumption
<1>6. \/ ret' # "ERROR_OK" /\ UNCHANGED _blocks
      \/ ret' = "ERROR_OK" /\ MapsNew(a, s)
  BY <1>1, <1>3, <1>5, AllocEffect
<1>7. Tried = {}
  BY <1>3, NothingTried
<1>8. CASE ret' # "ERROR_OK"
  <2>1. at' = onFailure /\ UNCHANGED <<stack, sec, _blocks>>
    BY <1>3, <1>6, <1>8
  <2>2. Tried' = {}
    BY <2>1, NothingTried
  <2>3. TopWhole' /\ TopPart' /\ EmptyHanded' /\ SegmentHeld'
    BY <2>1 DEF TopWhole, TopPart, EmptyHanded, SegmentHeld
  <2> QED BY <1>3, <1>7, <2>1, <2>2, <2>3, QuietStep
<1>9. CASE ret' = "ERROR_OK" /\ at' = "drop section" /\ UNCHANGED <<stack, sec>>
  <2>1. MapsNew(a, s)
    BY <1>6, <1>9
  <2>2. Tried' = {a}
    <3>1. Top' = Top /\ TheSection' = TheSection
      BY <1>9 DEF Top, Last, TheSection
    <3> QED BY <1>2, <1>9, <3>1 DEF Tried
  <2>3. \A p \in Owners \ {<<"tried", 0>>} : Claims'[p] = Claims[p]
    <3>1. /\ \A l \in Frame : ImageClaim(l)' = ImageClaim(l)
          /\ \A i \in Nat \ {0} : FrameClaim(i)' = FrameClaim(i)
      BY <1>3, <1>9 DEF ImageClaim, FrameClaim
    <3> QED BY <1>3, <3>1, ClaimsKept
  <2>4. /\ <<"tried", 0>> \in Owners
        /\ Claims'[<<"tried", 0>>] = Claims[<<"tried", 0>>] \cup {a}
    <3>1. ClaimsAre'
      BY ClaimValues, PTL
    <3> QED BY <1>7, <2>2, <3>1, ClaimValues, OwnerKinds DEF ClaimsAre
  <2>5. Tidy(Claims, Starts) /\ a \notin Starts /\ Starts' = Starts \cup {a}
    BY <1>1, <2>1, StartsAfter DEF OwnInv, TidyNow, MapsNew
  <2>6. Tidy(Claims', Starts \cup {a})
    BY <2>3, <2>4, <2>5, TidyGrow
  <2>7. TidyNow'
    BY <2>5, <2>6 DEF TidyNow, Tidy
  <2>8. \A f : Spared(f)
    BY <2>1, WhoIsSpared
  <2>9. LoadedWhole' /\ BelowWhole' /\ LoadedOK'
    BY <1>1, <1>3, <1>9, <2>8, WholeKept
  <2>10. Listed'
    <3>1. \A i \in 1 .. Len(stack) : Injective(stack[i].blocks)
      BY <1>1 DEF OwnInv, Listed
    <3>2. \A i \in 1 .. Len(stack') : Injective(stack'[i].blocks)
      BY <1>9, <3>1
    <3> QED BY <3>2 DEF Listed, Injective
  <2>11. TopWhole' /\ TopPart' /\ EmptyHanded' /\ SegmentHeld'
    BY <1>9 DEF TopWhole, TopPart, EmptyHanded, SegmentHeld
  <2> QED BY <2>7, <2>9, <2>10, <2>11 DEF OwnInv
<1>10. CASE /\ ret' = "ERROR_OK" /\ SetTop([Top EXCEPT !.blocks = Append(@, a)])
            /\ sec' = sec + 1 /\ at' = at
  <2>1. MapsNew(a, s)
    BY <1>6, <1>10
  <2>2. PICK f : f = [Top EXCEPT !.blocks = Append(@, a)]
    OBVIOUS
  <2>3. Append(Top.blocks, a) \in Seq(Addresses)
    BY <1>4, <1>5, AppendProperties
  <2>4. /\ f \in Frame /\ f.blocks = Append(Top.blocks, a)
        /\ f.file = Top.file /\ f.base = Top.base /\ SetTop(f)
    BY <1>4, <1>10, <2>2, <2>3 DEF Frame
  <2>5. at' \in {"preferred", "chosen"} /\ Tried' = {}
    BY <1>3, <1>10, NothingTried
  <2>6. /\ TidyNow' /\ Injective(f.blocks)
        /\ Range(f.blocks) = Range(Top.blocks) \cup {a}
    BY <1>3, <1>5, <1>7, <2>1, <2>4, <2>5, TopGains
  <2>7. \A g : Spared(g)
    BY <2>1, WhoIsSpared
  <2>8. PICK t, n : t = Top /\ n = sec /\ n \in Nat \ {0} /\ HasBefore(t, n)
    BY <1>1, <1>3 DEF OwnInv, TopPart, LoaderInv
  <2>9. HasBefore(t, n)'
    BY <2>7, <2>8, SparedWhole
  <2>10. \A x : HasSection(t, x)' => HasSection(f, x)'
    BY <2>4, <2>6, <2>8 DEF HasSection
  <2>11. HasSection(f, Sections[f.file][n])'
    <3>1. a = f.base + Sections[f.file][n].rva /\ s = Sections[f.file][n].size
      BY <1>2, <2>4, <2>8 DEF TheSection
    <3>2. \E b \in _blocks' : b.vaddr = a /\ Size(b) >= s
      BY <2>1 DEF MapsNew
    <3>3. a \in Range(f.blocks)
      BY <2>6
    <3> QED BY <3>1, <3>2, <3>3 DEF HasSection, Size
  <2>12. \A j \in 1 .. Len(Sections[f.file]) : j < n + 1 => j < n \/ j = n
    BY <2>8
  <2>13. HasBefore(f, n + 1)'
    BY <2>4, <2>8, <2>9, <2>10, <2>11, <2>12 DEF HasBefore
  <2>14. Top' = f /\ sec' = n + 1
    BY <1>1, <1>3, <1>10, <2>4, <2>8, TopReplaced
  <2>15. TopPart'
    BY <2>13, <2>14 DEF TopPart, HasBefore, HasSection
  <2>16. TopWhole' /\ EmptyHanded' /\ at' # "drop segment"
    BY <2>5 DEF TopWhole, EmptyHanded
  <2> QED BY <1>3, <2>4, <2>6, <2>7, <2>15, <2>16, TopStep
<1> QED BY <1>3, <1>8, <1>9, <1>10

\* A stub is put at one of its addresses, or not.
LEMMA OwnAllocateAny ==
  ASSUME AllInv, AllocateAny
  PROVE  OwnInv'
<1>1. OwnInv /\ LoaderInv /\ IInv
  BY DEF AllInv
<1>2. PICK a : a = StubBases[sec]
  OBVIOUS
<1>3. /\ at = "stub" /\ sec <= Len(StubBases) /\ StaticAlloc(a, STUB_SIZE)
      /\ UNCHANGED <<loaded, fixed, leaked>>
      /\ \/ ret' # "ERROR_OK" /\ at' = at /\ UNCHANGED stack
         \/ /\ ret' = "ERROR_OK" /\ at' = "imports"
            /\ SetTop([Top EXCEPT !.blocks = Append(@, a), !.stubs = @ + 1])
  BY <1>2 DEF AllocateAny, Goto, auxVars
<1>4. stack # <<>>
  BY <1>1, <1>3 DEF LoaderInv, Loading
<1>5. Top \in Frame /\ Top.blocks \in Seq(Addresses)
  BY <1>4, TopFacts
<1>6. a \in Addresses /\ a \in Nat /\ STUB_SIZE \in Nat \ {0}
  <2>1. sec \in Nat \ {0} /\ Len(StubBases) \in Nat
    BY <1>1, ImagesAssumption, LenProperties DEF LoaderInv
  <2>2. sec \in 1 .. Len(StubBases)
    BY <1>3, <2>1
  <2>3. a \in Addresses
    BY <1>2, <2>2, ImagesAssumption, ElementOfSeq
  <2> QED BY <2>3, ImagesAssumption, MemoryMapAssumption
<1>7. \/ ret' # "ERROR_OK" /\ UNCHANGED _blocks
      \/ ret' = "ERROR_OK" /\ MapsNew(a, STUB_SIZE)
  BY <1>1, <1>3, <1>6, AllocEffect
<1>8. Tried = {} /\ Tried' = {}
  BY <1>3, NothingTried
<1>9. Complete(Top) /\ Spared(Top)
  BY <1>1, <1>3, <1>7, WhoIsSpared DEF OwnInv, TopWhole
<1>10. CASE ret' # "ERROR_OK"
  <2>1. at' = "stub" /\ UNCHANGED <<stack, _blocks>>
    BY <1>3, <1>7, <1>10
  <2>2. Complete(Top)'
    BY <1>9, <2>1, TopKept
  <2>3. TopWhole' /\ TopPart' /\ EmptyHanded' /\ SegmentHeld'
    BY <2>1, <2>2 DEF TopWhole, TopPart, EmptyHanded, SegmentHeld
  <2> QED BY <1>3, <1>8, <2>1, <2>3, QuietStep
<1>11. CASE ret' = "ERROR_OK"
  <2>1. MapsNew(a, STUB_SIZE) /\ at' = "imports"
    BY <1>3, <1>7, <1>11
  <2>2. PICK f : f = [Top EXCEPT !.blocks = Append(@, a), !.stubs = @ + 1]
    OBVIOUS
  <2>3. Append(Top.blocks, a) \in Seq(Addresses) /\ Top.stubs + 1 \in Nat
    BY <1>5, <1>6, AppendProperties DEF Frame
  <2>4. /\ f \in Frame /\ f.blocks = Append(Top.blocks, a)
        /\ f.file = Top.file /\ f.base = Top.base /\ SetTop(f)
    BY <1>3, <1>5, <1>11, <2>2, <2>3 DEF Frame
  <2>5. /\ TidyNow' /\ Injective(f.blocks)
        /\ Range(f.blocks) = Range(Top.blocks) \cup {a}
    BY <1>3, <1>4, <1>6, <1>8, <2>1, <2>4, TopGains
  <2>6. PICK t : t = Top
    OBVIOUS
  <2>7. Complete(t)'
    BY <1>9, <2>6, SparedWhole
  <2>8. \A x : HasSection(t, x)' => HasSection(f, x)'
    BY <2>4, <2>5, <2>6 DEF HasSection
  <2>9. Complete(f)'
    BY <2>4, <2>6, <2>7, <2>8 DEF Complete
  <2>10. Top' = f
    BY <1>1, <1>4, <2>4, TopReplaced
  <2>11. TopWhole'
    BY <2>9, <2>10 DEF TopWhole, Complete, HasSection
  <2>12. TopPart' /\ EmptyHanded' /\ at' # "drop segment"
    BY <2>1 DEF TopPart, EmptyHanded
  <2>13. \A g : Spared(g)
    BY <2>1, WhoIsSpared
  <2> QED BY <1>3, <1>4, <2>4, <2>5, <2>11, <2>12, <2>13, TopStep
<1> QED BY <1>10, <1>11

\* Freeing what the innermost image lists, or what is tried, spares the others.
LEMMA OnlyTopHit ==
  ASSUME AllInv, stack # <<>>, NEW a, Frees(a),
         NEW o \in {<<"frame", Len(stack)>>, <<"tried", 0>>}, a \in Claims[o], o \in Owners
  PROVE  /\ \A l \in loaded : Spared(l)
         /\ \A i \in 1 .. Len(stack) : i # Len(stack) => Spared(stack[i])
<1>1. TidyNow /\ loaded \subseteq Frame /\ stack \in Seq(Frame)
  BY DEF AllInv, OwnInv, LoadedOK, LoaderInv, StackOK
<1>2. /\ \A l : o # <<"image", l>>
      /\ \A i : i # Len(stack) => o # <<"frame", i>>
  OBVIOUS
<1> QED BY <1>1, <1>2, OthersSpared

\* A block of an image that is undone or rolled back is freed, or lost.
LEMMA OwnFreeBlock ==
  ASSUME AllInv, NEW here \in {"undo", "rollback"}, FreeBlock(here)
  PROVE  OwnInv'
<1>1. OwnInv /\ LoaderInv /\ IInv /\ HeapAt
  BY DEF AllInv
<1>2. PICK a : a = Head(Top.blocks)
  OBVIOUS
<1>3. /\ at = here /\ at' = here /\ Top.blocks # <<>> /\ StaticFree(a)
      /\ leaked' = IF ret' = "ERROR_OK" THEN leaked ELSE leaked \cup {a}
      /\ SetTop([Top EXCEPT !.blocks = Tail(@)])
      /\ UNCHANGED <<loaded, fixed>>
  BY <1>2 DEF FreeBlock
<1>4. stack # <<>>
  BY <1>1, <1>3 DEF LoaderInv, Loading
<1>5. Top \in Frame /\ Top.blocks \in Seq(Addresses) /\ Injective(Top.blocks)
  BY <1>4, TopFacts
<1>6. PICK f : f = [Top EXCEPT !.blocks = Tail(@)]
  OBVIOUS
<1>7. f \in Frame /\ f.blocks = Tail(Top.blocks) /\ SetTop(f)
  <2>1. Tail(Top.blocks) \in Seq(Addresses)
    BY <1>3, <1>5, HeadTailProperties
  <2> QED BY <1>3, <1>5, <1>6, <2>1 DEF Frame
<1>8. /\ a \in Range(Top.blocks) /\ Injective(f.blocks)
      /\ Range(f.blocks) = Range(Top.blocks) \ {a}
  BY <1>2, <1>3, <1>5, <1>7, ListOf
<1>9. Tried = {} /\ Tried' = {}
  BY <1>3, NothingTried
<1>10. PICK o : o = <<"frame", Len(stack)>>
  OBVIOUS
<1>11. /\ o \in Owners /\ Claims[o] = Range(Top.blocks)
       /\ Claims'[o] = Claims[o] \ {a}
  BY <1>1, <1>4, <1>7, <1>8, <1>10, TopClaims
<1>12. Tidy(Claims, Starts)
  BY <1>1 DEF OwnInv, TidyNow
<1>13. TopWhole' /\ TopPart' /\ EmptyHanded' /\ at' # "drop segment"
  BY <1>3 DEF TopWhole, TopPart, EmptyHanded
<1>14. CASE leaked' = leaked /\ Frees(a)
  <2>1. \A p \in Owners \ {o} : Claims'[p] = Claims[p]
    BY <1>3, <1>4, <1>7, <1>9, <1>10, <1>14, ClaimsButTop
  <2>2. Tidy(Claims', Starts \ {a})
    BY <1>8, <1>11, <1>12, <2>1, TidyShrink
  <2>3. TidyNow'
    <3>1. Starts' = Starts \ {a}
      BY <1>14, StartsAfter
    <3> QED BY <2>2, <3>1 DEF TidyNow, Tidy
  <2>4. /\ \A l \in loaded : Spared(l)
        /\ \A i \in 1 .. Len(stack) : i # Len(stack) => Spared(stack[i])
    BY <1>4, <1>8, <1>10, <1>11, <1>14, OnlyTopHit
  <2> QED BY <1>3, <1>4, <1>7, <1>8, <1>13, <2>3, <2>4, TopStep
<1>15. CASE leaked' = leaked \cup {a} /\ UNCHANGED _blocks
  <2>1. PICK q : q = <<"leaked", 0>>
    OBVIOUS
  <2>2. \A p \in Owners \ {o, q} : Claims'[p] = Claims[p]
    BY <1>3, <1>4, <1>7, <1>9, <1>10, <2>1, ClaimsButTop
  <2>3. q \in Owners /\ o # q /\ Claims'[q] = Claims[q] \cup {a}
    <3>1. ClaimsAre'
      BY ClaimValues, PTL
    <3> QED BY <1>10, <1>15, <2>1, <3>1, ClaimValues, OwnerKinds DEF ClaimsAre
  <2>4. Tidy(Claims', Starts)
    <3>1. {a} \subseteq Claims[o]
      BY <1>8, <1>11
    <3> QED BY ZenonT(60), <1>11, <1>12, <2>2, <2>3, <3>1, TidyMove
  <2>5. TidyNow'
    <3>1. Starts' = Starts
      BY <1>15, StartsAfter
    <3> QED BY <2>4, <3>1 DEF TidyNow, Tidy
  <2>6. \A g : Spared(g)
    BY <1>15, WhoIsSpared
  <2> QED BY <1>3, <1>4, <1>7, <1>8, <1>13, <2>5, <2>6, TopStep
<1> QED BY <1>1, <1>3, <1>14, <1>15, FreeEffect

\* A truncated section is freed, or lost; those before it are lost.
LEMMA OwnDropSection ==
  ASSUME AllInv, DropSection
  PROVE  OwnInv'
<1>1. OwnInv /\ LoaderInv /\ IInv /\ HeapAt
  BY DEF AllInv
<1>2. PICK a, M, R : /\ a = Top.base + TheSection.rva /\ M = Range(Top.blocks)
                     /\ R = (IF ret' = "ERROR_OK" THEN {} ELSE {a})
  OBVIOUS
<1>3. /\ at = "drop section" /\ StaticFree(a) /\ at' = "return error"
      /\ leaked' = leaked \cup M \cup R
      /\ SetTop([Top EXCEPT !.blocks = <<>>])
      /\ UNCHANGED <<loaded, fixed>>
  BY <1>2 DEF DropSection, Goto
<1>4. stack # <<>>
  BY <1>1, <1>3 DEF LoaderInv, Loading
<1>5. Top \in Frame /\ Top.blocks \in Seq(Addresses) /\ Injective(Top.blocks)
  BY <1>4, TopFacts
<1>6. PICK f : f = [Top EXCEPT !.blocks = <<>>]
  OBVIOUS
<1>7. f \in Frame /\ f.blocks = <<>> /\ SetTop(f)
  <2>1. <<>> \in Seq(Addresses)
    BY EmptySeq
  <2> QED BY <1>3, <1>5, <1>6, <2>1 DEF Frame
<1>8. Range(f.blocks) = {} /\ Injective(f.blocks)
  BY <1>5, <1>7, ListOf
<1>9. Tried = {a} /\ Tried' = {}
  BY <1>2, <1>3, NothingTried DEF Tried
<1>10. PICK o, q, t : o = <<"frame", Len(stack)>> /\ q = <<"leaked", 0>> /\ t = <<"tried", 0>>
  OBVIOUS
<1>11. /\ o \in Owners /\ q \in Owners /\ t \in Owners /\ o # q /\ o # t /\ q # t
       /\ Claims[o] = M /\ Claims'[o] = {}
  BY <1>1, <1>2, <1>4, <1>7, <1>8, <1>10, TopClaims, OwnerKinds
<1>12. /\ Claims[t] = {a} /\ Claims'[t] = {}
       /\ Claims'[q] = Claims[q] \cup M \cup R
  <2>1. ClaimsAre'
    BY ClaimValues, PTL
  <2> QED BY <1>3, <1>9, <1>10, <2>1, ClaimValues DEF ClaimsAre
<1>13. \A p \in Owners \ {o, q, t} : Claims'[p] = Claims[p]
  BY <1>3, <1>4, <1>7, <1>10, ClaimsButTop
<1>14. Tidy(Claims, Starts)
  BY <1>1 DEF OwnInv, TidyNow
<1>15. TopWhole' /\ TopPart' /\ EmptyHanded' /\ at' # "drop segment"
  <2>1. Top' = f
    BY <1>1, <1>4, <1>7, TopReplaced
  <2> QED BY <1>3, <1>7, <2>1 DEF TopWhole, TopPart, EmptyHanded
<1>16. PICK e : e = [p \in Owners |-> IF p = t THEN {} ELSE IF p = q THEN Claims[q] \cup R ELSE Claims[p]]
  OBVIOUS
<1>17. /\ e[t] = {} /\ e[q] = Claims[q] \cup R /\ e[o] = M
       /\ \A p \in Owners \ {q, t} : e[p] = Claims[p]
  BY <1>11, <1>16
<1>18. ASSUME NEW S, Tidy(e, S) PROVE Tidy(Claims', S)
  <2>1. /\ Claims'[o] = e[o] \ M /\ Claims'[q] = e[q] \cup M
        /\ \A p \in Owners \ {o, q} : Claims'[p] = e[p]
    BY <1>11, <1>12, <1>13, <1>17
  <2>2. o \in Owners /\ q \in Owners /\ o # q /\ M \subseteq e[o]
    BY <1>11, <1>17
  <2> QED BY <1>18, <2>1, <2>2, TidyMove
<1>19. CASE ret' = "ERROR_OK" /\ Frees(a)
  <2>1. /\ e[t] = Claims[t] \ {a} /\ a \in Claims[t]
        /\ \A p \in Owners \ {t} : e[p] = Claims[p]
    BY <1>2, <1>11, <1>12, <1>17, <1>19
  <2>2. Tidy(e, Starts \ {a})
    BY <1>11, <1>14, <2>1, TidyShrink
  <2>3. Tidy(Claims', Starts \ {a})
    BY <1>18, <2>2
  <2>4. TidyNow'
    <3>1. Starts' = Starts \ {a}
      BY <1>19, StartsAfter
    <3> QED BY <2>3, <3>1 DEF TidyNow, Tidy
  <2>5. /\ \A l \in loaded : Spared(l)
        /\ \A i \in 1 .. Len(stack) : i # Len(stack) => Spared(stack[i])
    BY <1>4, <1>10, <1>11, <1>19, <2>1, OnlyTopHit
  <2> QED BY <1>3, <1>4, <1>7, <1>8, <1>15, <2>4, <2>5, TopStep
<1>20. CASE ret' # "ERROR_OK" /\ UNCHANGED _blocks
  <2>1. /\ e[t] = Claims[t] \ {a} /\ {a} \subseteq Claims[t] /\ e[q] = Claims[q] \cup {a}
        /\ \A p \in Owners \ {t, q} : e[p] = Claims[p]
    BY <1>2, <1>11, <1>12, <1>17, <1>20
  <2>2. Tidy(e, Starts)
    <3>1. t \in Owners /\ q \in Owners /\ t # q
      BY <1>11
    <3>2. PICK c, N : c = Claims /\ N = {a}
      OBVIOUS
    <3>3. /\ e[t] = c[t] \ N /\ N \subseteq c[t] /\ e[q] = c[q] \cup N
          /\ \A p \in Owners \ {t, q} : e[p] = c[p]
      BY <2>1, <3>2
    <3>4. Tidy(c, Starts)
      BY <1>14, <3>2
    <3> QED BY <3>1, <3>3, <3>4, TidyMove
  <2>3. Tidy(Claims', Starts)
    BY <1>18, <2>2
  <2>4. TidyNow'
    <3>1. Starts' = Starts
      BY <1>20, StartsAfter
    <3> QED BY <2>3, <3>1 DEF TidyNow, Tidy
  <2>5. \A g : Spared(g)
    BY <1>20, WhoIsSpared
  <2> QED BY <1>3, <1>4, <1>7, <1>8, <1>15, <2>4, <2>5, TopStep
<1> QED BY <1>1, <1>3, <1>19, <1>20, FreeEffect

\* A section is tried at a candidate base.
LEMMA OwnTry ==
  ASSUME AllInv, TrySection
  PROVE  OwnInv'
<1>1. OwnInv /\ LoaderInv /\ IInv
  BY DEF AllInv
<1>2. PICK a, s : a = Bases[cand] + TheSection.rva /\ s = TheSection.size
  OBVIOUS
<1>3. /\ at = "search" /\ ~AllMapped /\ s # 0 /\ cand <= Len(Bases) /\ StaticAlloc(a, s)
      /\ UNCHANGED <<stack, loaded, fixed, leaked>>
      /\ \/ ret' = "ERROR_OK" /\ at' = "untry" /\ UNCHANGED <<sec, cand>>
         \/ ret' # "ERROR_OK" /\ at' = "search"
  BY <1>2 DEF TrySection, AtSection, Goto, auxVars
<1>4. stack # <<>>
  BY <1>1, <1>3 DEF LoaderInv, Loading
<1>5. a \in Nat /\ s \in Nat
  <2>1. Bases[cand] \in BaseOf(Top.file)
    <3>1. cand \in Nat \ {0} /\ Len(Bases) \in Nat
      BY <1>1, ImagesAssumption, LenProperties DEF LoaderInv
    <3>2. cand \in 1 .. Len(Bases)
      BY <1>3, <3>1
    <3> QED BY <3>2 DEF BaseOf
  <2>2. a \in Addresses /\ s \in Sizes
    BY <1>1, <1>2, <1>3, <1>4, <2>1, SectionRequest
  <2> QED BY <2>2, MemoryMapAssumption
<1>6. \/ ret' # "ERROR_OK" /\ UNCHANGED _blocks
      \/ ret' = "ERROR_OK" /\ MapsNew(a, s)
  BY <1>1, <1>3, <1>5, AllocEffect
<1>7. Top' = Top /\ Top.blocks = <<>>
  BY <1>1, <1>3 DEF Top, Last, OwnInv, EmptyHanded
<1>8. TopWhole' /\ TopPart' /\ EmptyHanded' /\ SegmentHeld'
  BY <1>3, <1>7 DEF TopWhole, TopPart, EmptyHanded, SegmentHeld
<1>9. Tried = {}
  BY <1>3, NothingTried
<1>10. CASE ret' # "ERROR_OK"
  <2>1. UNCHANGED _blocks /\ Tried' = {}
    BY <1>3, <1>6, <1>10, NothingTried
  <2> QED BY <1>3, <1>8, <1>9, <2>1, QuietStep
<1>11. CASE ret' = "ERROR_OK"
  <2>1. MapsNew(a, s) /\ at' = "untry" /\ UNCHANGED <<sec, cand>>
    BY <1>3, <1>6, <1>11
  <2>2. Tried' = {a}
    <3>1. TheSection' = TheSection
      BY <1>7, <2>1 DEF TheSection
    <3> QED BY <1>2, <2>1, <3>1 DEF Tried
  <2>3. \A p \in Owners \ {<<"tried", 0>>} : Claims'[p] = Claims[p]
    <3>1. /\ \A l \in Frame : ImageClaim(l)' = ImageClaim(l)
          /\ \A i \in Nat \ {0} : FrameClaim(i)' = FrameClaim(i)
      BY <1>3 DEF ImageClaim, FrameClaim
    <3> QED BY <1>3, <3>1, ClaimsKept
  <2>4. /\ <<"tried", 0>> \in Owners
        /\ Claims'[<<"tried", 0>>] = Claims[<<"tried", 0>>] \cup {a}
    <3>1. ClaimsAre'
      BY ClaimValues, PTL
    <3> QED BY <1>9, <2>2, <3>1, ClaimValues, OwnerKinds DEF ClaimsAre
  <2>5. Tidy(Claims, Starts) /\ a \notin Starts /\ Starts' = Starts \cup {a}
    BY <1>1, <2>1, StartsAfter DEF OwnInv, TidyNow, MapsNew
  <2>6. Tidy(Claims', Starts \cup {a})
    BY <2>3, <2>4, <2>5, TidyGrow
  <2>7. TidyNow'
    BY <2>5, <2>6 DEF TidyNow, Tidy
  <2>8. \A f : Spared(f)
    BY <2>1, WhoIsSpared
  <2>9. LoadedWhole' /\ BelowWhole' /\ LoadedOK'
    BY <1>1, <1>3, <2>8, WholeKept
  <2>10. Listed'
    <3>1. \A i \in 1 .. Len(stack) : Injective(stack[i].blocks)
      BY <1>1 DEF OwnInv, Listed
    <3>2. \A i \in 1 .. Len(stack') : Injective(stack'[i].blocks)
      BY <1>3, <3>1
    <3> QED BY <3>2 DEF Listed, Injective
  <2> QED BY <1>8, <2>7, <2>9, <2>10 DEF OwnInv
<1> QED BY <1>10, <1>11

\* It is taken away again, or lost.
LEMMA OwnUntry ==
  ASSUME AllInv, UntrySection
  PROVE  OwnInv'
<1>1. OwnInv /\ LoaderInv /\ IInv /\ HeapAt
  BY DEF AllInv
<1>2. PICK a : a = Bases[cand] + TheSection.rva
  OBVIOUS
<1>3. /\ at = "untry" /\ at' = "search" /\ StaticFree(a)
      /\ leaked' = IF ret' = "ERROR_OK" THEN leaked ELSE leaked \cup {a}
      /\ UNCHANGED <<stack, loaded, fixed>>
  BY <1>2 DEF UntrySection, Goto
<1>4. stack # <<>>
  BY <1>1, <1>3 DEF LoaderInv, Loading
<1>5. Top' = Top /\ Top.blocks = <<>>
  BY <1>1, <1>3 DEF Top, Last, OwnInv, EmptyHanded
<1>6. TopWhole' /\ TopPart' /\ EmptyHanded' /\ SegmentHeld'
  BY <1>3, <1>5 DEF TopWhole, TopPart, EmptyHanded, SegmentHeld
<1>7. Tried = {a} /\ Tried' = {}
  BY <1>2, <1>3, NothingTried DEF Tried
<1>8. PICK q, t : q = <<"leaked", 0>> /\ t = <<"tried", 0>>
  OBVIOUS
<1>9. /\ q \in Owners /\ t \in Owners /\ q # t
      /\ Claims[t] = {a} /\ Claims'[t] = {} /\ Claims[q] = leaked /\ Claims'[q] = leaked'
  <2>1. ClaimsAre'
    BY ClaimValues, PTL
  <2> QED BY <1>7, <1>8, <2>1, ClaimValues, OwnerKinds DEF ClaimsAre
<1>10. \A p \in Owners \ {t, q} : Claims'[p] = Claims[p]
  <2>1. /\ \A l \in Frame : ImageClaim(l)' = ImageClaim(l)
        /\ \A i \in Nat \ {0} : FrameClaim(i)' = FrameClaim(i)
    BY <1>3 DEF ImageClaim, FrameClaim
  <2> QED BY <1>3, <1>8, <2>1, ClaimsKept
<1>11. Tidy(Claims, Starts)
  BY <1>1 DEF OwnInv, TidyNow
<1>12. Listed'
  <2>1. \A i \in 1 .. Len(stack) : Injective(stack[i].blocks)
    BY <1>1 DEF OwnInv, Listed
  <2>2. \A i \in 1 .. Len(stack') : Injective(stack'[i].blocks)
    BY <1>3, <2>1
  <2> QED BY <2>2 DEF Listed, Injective
<1>13. CASE leaked' = leaked /\ Frees(a)
  <2>1. Tidy(Claims', Starts \ {a})
    <3>1. /\ a \in Claims[t] /\ Claims'[t] = Claims[t] \ {a}
          /\ \A p \in Owners \ {t} : Claims'[p] = Claims[p]
      BY <1>9, <1>10, <1>13
    <3> QED BY <1>9, <1>11, <3>1, TidyShrink
  <2>2. TidyNow'
    <3>1. Starts' = Starts \ {a}
      BY <1>13, StartsAfter
    <3> QED BY <2>1, <3>1 DEF TidyNow, Tidy
  <2>3. /\ \A l \in loaded : Spared(l)
        /\ \A i \in 1 .. Len(stack) : i # Len(stack) => Spared(stack[i])
    BY <1>4, <1>8, <1>9, <1>13, OnlyTopHit
  <2>4. LoadedWhole' /\ BelowWhole' /\ LoadedOK'
    BY <1>1, <1>3, <2>3, WholeKept
  <2> QED BY <1>6, <1>12, <2>2, <2>4 DEF OwnInv
<1>14. CASE leaked' = leaked \cup {a} /\ UNCHANGED _blocks
  <2>1. Tidy(Claims', Starts)
    <3>1. PICK c, N : c = Claims /\ N = {a}
      OBVIOUS
    <3>2. /\ t \in Owners /\ q \in Owners /\ t # q
          /\ N \subseteq c[t] /\ Claims'[t] = c[t] \ N /\ Claims'[q] = c[q] \cup N
          /\ \A p \in Owners \ {t, q} : Claims'[p] = c[p]
      BY <1>9, <1>10, <1>14, <3>1
    <3>3. Tidy(c, Starts)
      BY <1>11, <3>1
    <3> QED BY <3>2, <3>3, TidyMove
  <2>2. TidyNow'
    <3>1. Starts' = Starts
      BY <1>14, StartsAfter
    <3> QED BY <2>1, <3>1 DEF TidyNow, Tidy
  <2>3. \A f : Spared(f)
    BY <1>14, WhoIsSpared
  <2>4. LoadedWhole' /\ BelowWhole' /\ LoadedOK'
    BY <1>1, <1>3, <2>3, WholeKept
  <2> QED BY <1>6, <1>12, <2>2, <2>4 DEF OwnInv
<1> QED BY <1>1, <1>3, <1>13, <1>14, FreeEffect

-----------------------------------------------------------------------------
(* The theorems. *)

\* Before anything is asked for, the heap is all there is.
LEMMA OwnStart == ImagesInit => AllInv
<1> SUFFICES ASSUME ImagesInit PROVE AllInv
  OBVIOUS
<1>1. LoaderInv /\ IInv
  BY InitLoader, InitInv DEF ImagesInit
<1>2. PICK r : _blocks = {HeapBlock(r)} /\ _dynamicHeapBlock = HeapBlock(r)
  BY DEF ImagesInit, Init
<1>3. HeapAt /\ Starts = {HeapBase}
  BY <1>2 DEF HeapAt, Starts, HeapBlock
<1>4. at = "run" /\ stack = <<>> /\ loaded = {} /\ fixed = {} /\ leaked = {}
  BY DEF ImagesInit
<1>5. ~(\E i \in 1 .. Len(stack) : TRUE)
  BY <1>4
<1>6. TidyNow
  <2>1. Tried = {}
    BY <1>4, NothingTried
  <2>2. \A l : ImageClaim(l) = {}
    BY <1>4 DEF ImageClaim
  <2>3. \A i : FrameClaim(i) = {}
    BY <1>5 DEF FrameClaim
  <2>4. ASSUME NEW p \in Owners, p # <<"heap", 0>> PROVE Claims[p] = {}
    <3>1. CASE p \in {<<"heap", 0>>, <<"fixed", 0>>, <<"leaked", 0>>, <<"tried", 0>>}
      BY <1>4, <2>1, <2>4, <3>1, ClaimValues DEF ClaimsAre
    <3>2. ASSUME NEW l \in Frame, p = <<"image", l>> PROVE Claims[p] = {}
      BY <2>2, <3>2, ClaimValues DEF ClaimsAre
    <3>3. ASSUME NEW i \in Nat \ {0}, p = <<"frame", i>> PROVE Claims[p] = {}
      BY <2>3, <3>3, ClaimValues DEF ClaimsAre
    <3> QED BY <3>1, <3>2, <3>3, OwnerKinds
  <2>5. Claims[<<"heap", 0>>] = {HeapBase} /\ <<"heap", 0>> \in Owners
    BY ClaimValues, OwnerKinds DEF ClaimsAre
  <2> QED BY <1>3, <2>4, <2>5 DEF TidyNow, Tidy
<1>7. OwnInv
  BY <1>4, <1>5, <1>6 DEF OwnInv, LoadedOK, Listed, LoadedWhole, BelowWhole, TopWhole,
                          TopPart, EmptyHanded, SegmentHeld
<1> QED BY <1>1, <1>3, <1>7 DEF AllInv

\* Every step keeps every block owned by one.
LEMMA OwnStep == AllInv /\ [ImagesNext]_imgVars => AllInv'
<1> SUFFICES ASSUME AllInv, [ImagesNext]_imgVars PROVE AllInv'
  OBVIOUS
<1>1. LoaderInv' /\ [Next]_vars
  BY LoaderStep DEF AllInv
<1>2. IInv' /\ HeapAt'
  BY <1>1, StepInv, HeapKept DEF AllInv
<1>3. CASE UNCHANGED imgVars
  <2>1. UNCHANGED <<_blocks, todo, at, stack, sec, cand, loaded, fixed, leaked>>
    BY <1>3 DEF imgVars, vars, loadVars
  <2>2. Top' = Top /\ TheSection' = TheSection
    BY <2>1 DEF Top, Last, TheSection
  <2>3. Tried' = Tried
    BY <2>1, <2>2 DEF Tried
  <2>4. OwnInv
    BY DEF AllInv
  <2>5. SegmentHeld' /\ EmptyHanded'
    BY <2>1, <2>2, <2>4 DEF OwnInv, SegmentHeld, EmptyHanded
  <2>6. /\ Complete(Top) => Complete(Top)'
        /\ \A n : HasBefore(Top, n) => HasBefore(Top, n)'
    BY <2>1, WhoIsSpared, TopKept
  <2>7. TopWhole'
    BY <2>1, <2>4, <2>6 DEF OwnInv, TopWhole
  <2>8. TopPart'
    <3>1. PICK n : n = sec
      OBVIOUS
    <3>2. n = sec'
      BY <2>1, <3>1
    <3>3. HasBefore(Top, n)' => HasBefore(Top, sec)'
      BY <3>2 DEF HasBefore
    <3> QED BY <2>1, <2>4, <2>6, <3>1, <3>3 DEF OwnInv, TopPart
  <2>9. OwnInv'
    BY <2>1, <2>3, <2>5, <2>7, <2>8, QuietStep
  <2> QED BY <1>1, <1>2, <2>9 DEF AllInv
<1>4. CASE ImagesNext
  <2> SUFFICES OwnInv'
    BY <1>1, <1>2 DEF AllInv
  <2>1. CASE MakeRequest \/ DropSegment
    BY <2>1, OwnRequest, OwnDropSegment
  <2>2. CASE \E f \in Files : LoadProgram(f) \/ _LoadLibraryA(f) \/ LoadImport(f)
    <3>1. PICK f \in Files : /\ MapPEIntoMemory(f)
                             /\ at = "imports" \/ (at = "run" /\ stack = <<>>)
      BY <2>2 DEF LoadProgram, _LoadLibraryA, LoadImport, Ready
    <3> QED BY <3>1, OwnBegin
  <2>3. CASE AtPreferredBase \/ AtChosenBase
    BY <2>3, OwnMapSection DEF AtPreferredBase, AtChosenBase
  <2>4. CASE SkipSection \/ Search \/ Placed \/ CreateReturnZeroStub \/ ImportsFail
    BY <2>4, OwnControl
  <2>5. CASE ChooseBase
    BY <2>5, OwnChooseBase
  <2>6. CASE Undo \/ Rollback
    BY <2>6, OwnFreeBlock DEF Undo, Rollback
  <2>7. CASE DropSection
    BY <2>7, OwnDropSection
  <2>8. CASE TrySection \/ UntrySection
    BY <2>8, OwnTry, OwnUntry
  <2>9. CASE AllocateAny
    BY <2>9, OwnAllocateAny
  <2>10. CASE ReturnOK \/ ReturnError
    BY <2>10, OwnReturnOK, OwnReturnError
  <2> QED
    BY <1>4, <2>1, <2>2, <2>3, <2>4, <2>5, <2>6, <2>7, <2>8, <2>9, <2>10 DEF ImagesNext
<1> QED BY <1>3, <1>4

\* The invariant of ownership holds from the constructor on.
THEOREM OwnershipInvariance == ImagesSpec => []AllInv
BY OwnStart, OwnStep, PTL DEF ImagesSpec

\* What the images on the stack list is what the frames claim.
LEMMA OwnedByAll == AllInv => BlocksOwned
<1> SUFFICES ASSUME AllInv PROVE BlocksOwned
  OBVIOUS
<1>1. OwnInv /\ stack \in Seq(Frame) /\ loaded \subseteq Frame
  BY DEF AllInv, LoaderInv, StackOK, OwnInv, LoadedOK
<1>2. Starts = UNION {Claims[o] : o \in Owners}
  BY <1>1 DEF OwnInv, TidyNow, Tidy
<1>3. DOMAIN stack = 1 .. Len(stack) /\ Len(stack) \in Nat
  BY <1>1, LenProperties
<1> DEFINE Listing == UNION {Range(l.blocks) : l \in loaded \cup Range(stack)}
           All == {HeapBase} \cup fixed \cup leaked \cup Tried \cup Listing
<1>4. ASSUME NEW o \in Owners PROVE Claims[o] \subseteq All
  <2>1. CASE o \in {<<"heap", 0>>, <<"fixed", 0>>, <<"leaked", 0>>, <<"tried", 0>>}
    BY <2>1, ClaimValues DEF ClaimsAre
  <2>2. ASSUME NEW l \in Frame, o = <<"image", l>> PROVE Claims[o] \subseteq Listing
    BY <2>2, ClaimValues DEF ClaimsAre, ImageClaim
  <2>3. ASSUME NEW i \in Nat \ {0}, o = <<"frame", i>> PROVE Claims[o] \subseteq Listing
    <3>1. i \in 1 .. Len(stack) => stack[i] \in Range(stack)
      BY <1>3 DEF Range
    <3> QED BY <2>3, <3>1, ClaimValues DEF ClaimsAre, FrameClaim
  <2> QED BY <2>1, <2>2, <2>3, OwnerKinds
<1>5. {HeapBase} \cup fixed \cup leaked \cup Tried \subseteq Starts
  <2>1. \A k \in {"heap", "fixed", "leaked", "tried"} : Claims[<<k, 0>>] \subseteq Starts
    BY <1>2, OwnerKinds
  <2> QED BY <2>1, ClaimValues DEF ClaimsAre
<1>6. ASSUME NEW l \in loaded PROVE Range(l.blocks) \subseteq Starts
  <2>1. <<"image", l>> \in Owners /\ Claims[<<"image", l>>] = Range(l.blocks)
    BY <1>1, ClaimValues, OwnerKinds DEF ClaimsAre, ImageClaim
  <2> QED BY <1>2, <2>1
<1>7. ASSUME NEW l \in Range(stack) PROVE Range(l.blocks) \subseteq Starts
  <2>1. PICK i \in 1 .. Len(stack) : l = stack[i]
    BY <1>3 DEF Range
  <2>2. i \in Nat \ {0}
    BY <1>3
  <2>3. <<"frame", i>> \in Owners /\ Claims[<<"frame", i>>] = Range(l.blocks)
    BY <2>1, <2>2, ClaimValues, OwnerKinds DEF ClaimsAre, FrameClaim
  <2> QED BY <1>2, <2>3
<1>8. Starts = All
  BY <1>2, <1>4, <1>5, <1>6, <1>7
<1> QED BY <1>8 DEF BlocksOwned, Starts

\* Every mapped block has an owner, for every program, every set of PE files and
\* every place where a load may fail; and, by the invariant, only one.
THEOREM EveryBlockOwned == ImagesSpec => []BlocksOwned
BY OwnershipInvariance, OwnedByAll, PTL

\* An image that MapPEIntoMemory has loaded has all its sections and stubs, each in
\* a block of its own, and keeps them whatever is loaded, tried, undone, rolled back
\* or dropped later.
THEOREM LoadedStaysWhole == ImagesSpec => []ImageWhole
<1>1. AllInv => ImageWhole
  <2> SUFFICES ASSUME AllInv, NEW l \in loaded
               PROVE  /\ \A s \in Range(Sections[l.file]) : s.size # 0 =>
                           \E b \in _blocks : b.vaddr = l.base + s.rva /\ Size(b) >= s.size
                      /\ \A i, j \in DOMAIN l.blocks : i # j => l.blocks[i] # l.blocks[j]
                      /\ Range(l.blocks) \subseteq {b.vaddr : b \in _blocks}
    BY DEF ImageWhole
  <2>1. OwnInv /\ l \in Frame /\ Injective(l.blocks) /\ Complete(l)
    BY DEF AllInv, OwnInv, LoadedOK, LoadedWhole
  <2>2. DOMAIN Sections[l.file] = 1 .. Len(Sections[l.file])
    <3>1. Sections[l.file] \in Seq(Section)
      BY <2>1, ImagesAssumption DEF Frame
    <3> QED BY <3>1, LenProperties
  <2>3. \A s \in Range(Sections[l.file]) : HasSection(l, s)
    BY <2>1, <2>2 DEF Range, Complete
  <2>4. BlocksOwned
    BY OwnedByAll
  <2>5. Range(l.blocks) \subseteq {b.vaddr : b \in _blocks}
    BY <2>4 DEF BlocksOwned
  <2> QED BY <2>1, <2>3, <2>5 DEF HasSection, Injective
<1> QED BY <1>1, OwnershipInvariance, PTL
=============================================================================

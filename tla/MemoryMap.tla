------------------------------ MODULE MemoryMap ------------------------------
(***************************************************************************)
(* The blocks MemoryManager maps into the engine: StaticAlloc, StaticFree  *)
(* and the translation between guest and host addresses.  Addresses and    *)
(* sizes are numbers; the engine's own table of regions and the host's     *)
(* allocator, which the code calls at every step, are kept beside the      *)
(* code's _blocks so that the three can be compared.                       *)
(***************************************************************************)
EXTENDS Naturals, FiniteSets

CONSTANTS
  PAGE_SIZE,
  HeapBase,      \* MEM_DYNAMIC_HEAP_BASE
  HeapPages,     \* the pages of the dynamic heap
  Addresses,     \* guest addresses asked for
  Sizes,         \* sizes asked for
  HostAddresses  \* guest address -> where the host's calloc may put its buffer

ASSUME MemoryMapAssumption ==
  /\ PAGE_SIZE \in Nat \ {0}
  /\ HeapPages \in Nat \ {0}
  /\ HeapBase \in Nat /\ HeapBase % PAGE_SIZE = 0
  /\ Addresses \subseteq Nat /\ Sizes \subseteq Nat
  /\ HostAddresses \in [Addresses \cup {HeapBase} -> SUBSET (Nat \ {0})]

VARIABLES
  _blocks,   \* the mapped blocks: guest address, host address, pages
  _dynamicHeapBlock,
  engine,    \* external: the regions the engine maps, with their host buffers
  host,      \* external: the live host buffers
  ret        \* what the last call returned

vars == <<_blocks, _dynamicHeapBlock, engine, host, ret>>

Block    == [vaddr : Nat, raddr : Nat, pages : Nat]
Size(b)  == b.pages * PAGE_SIZE

Errors == {"ERROR_OK", "ERROR_MEM_ALREADY_ALLOCATED", "ERROR_MEM_ALLOC_FAIL",
           "ERROR_UC_MAP", "ERROR_MEM_STATIC_NOT_FREEABLE", "ERROR_UC_UNMAP",
           "ERROR_MEM_ADDR_NOT_ALLOCATED"}

\* Faulty: only the start of the new range is looked at.
RangeOverlapsContained(a1, s1, a2, s2) ==
  /\ s1 # 0 /\ s2 # 0
  /\ a2 <= a1 /\ a1 < a2 + s2

\* In 64 bits, where the sums of 32-bit addresses and sizes do not wrap.
RangeOverlaps(a1, s1, a2, s2) ==
  /\ s1 # 0 /\ s2 # 0
  /\ ~(a1 + s1 <= a2 \/ a2 + s2 <= a1)

Aligned(addr) == addr % PAGE_SIZE = 0

PagesFor(size) == (size + PAGE_SIZE - 1) \div PAGE_SIZE

-----------------------------------------------------------------------------
(* External: the host's calloc and the engine's uc_mem_map_ptr. *)

Apart(a1, s1, a2, s2) == a1 + s1 <= a2 \/ a2 + s2 <= a1

\* A place where calloc may put a buffer: apart from all live ones.
FreeHostAddress(r, size) == \A h \in host : Apart(r, size, h.raddr, Size(h))

\* The engine takes whole pages only.  It would refuse pages it maps already;
\* that is left out, so that what is shown rests on the code's own test.
EngineAccepts(b) == Aligned(b.vaddr)

-----------------------------------------------------------------------------
HeapBlock(r) == [vaddr |-> HeapBase, raddr |-> r, pages |-> HeapPages]

\* The constructor: the dynamic heap is mapped first, or the program aborts.
Init ==
  \E r \in HostAddresses[HeapBase] :
    /\ _blocks = {HeapBlock(r)}
    /\ _dynamicHeapBlock = HeapBlock(r)
    /\ engine = {HeapBlock(r)}
    /\ host = {HeapBlock(r)}
    /\ ret = "ERROR_OK"

OverlapsAnyMappedBlock(addr, size) ==
  \E b \in _blocks : RangeOverlaps(addr, size, b.vaddr, Size(b))

Return(err) == ret' = err

Refuse(err) ==
  /\ Return(err)
  /\ UNCHANGED <<_blocks, _dynamicHeapBlock, engine, host>>

\* Faulty: the host buffer is not freed when the engine refuses it.
MapLeaky(b) ==
  \/ /\ EngineAccepts(b)
     /\ engine' = engine \cup {b}
     /\ host' = host \cup {b}
     /\ _blocks' = _blocks \cup {b}
     /\ Return("ERROR_OK")
     /\ UNCHANGED _dynamicHeapBlock
  \/ /\ host' = host \cup {b}
     /\ Return("ERROR_UC_MAP")
     /\ UNCHANGED <<_blocks, _dynamicHeapBlock, engine>>

\* The host buffer b.raddr is mapped and recorded, or freed again; the engine
\* may refuse for reasons of its own.
Map(b) ==
  \/ /\ EngineAccepts(b)
     /\ engine' = engine \cup {b}
     /\ host' = host \cup {b}
     /\ _blocks' = _blocks \cup {b}
     /\ Return("ERROR_OK")
     /\ UNCHANGED _dynamicHeapBlock
  \/ Refuse("ERROR_UC_MAP")

\* The overlap is tested with the size asked for, the mapping made with the
\* size rounded up.  A size of 0 is a success that maps nothing.
StaticAlloc(addr, size) ==
  \/ /\ size = 0
     /\ Refuse("ERROR_OK")
  \/ /\ size # 0
     /\ OverlapsAnyMappedBlock(addr, size)
     /\ Refuse("ERROR_MEM_ALREADY_ALLOCATED")
  \/ /\ size # 0
     /\ ~OverlapsAnyMappedBlock(addr, size)
     /\ \/ Refuse("ERROR_MEM_ALLOC_FAIL")
        \/ \E r \in HostAddresses[addr] :
             /\ FreeHostAddress(r, PagesFor(size) * PAGE_SIZE)
             /\ Map([vaddr |-> addr, raddr |-> r, pages |-> PagesFor(size)])

\* The engine may refuse to unmap; nothing has been released by then.
Unmap(b) ==
  \/ /\ b = _dynamicHeapBlock
     /\ Refuse("ERROR_MEM_STATIC_NOT_FREEABLE")
  \/ /\ b # _dynamicHeapBlock
     /\ \/ /\ engine' = engine \ {b}
           /\ host' = host \ {b}
           /\ _blocks' = _blocks \ {b}
           /\ Return("ERROR_OK")
           /\ UNCHANGED _dynamicHeapBlock
        \/ Refuse("ERROR_UC_UNMAP")

StaticFree(addr) ==
  \/ \E b \in _blocks : b.vaddr = addr /\ Unmap(b)
  \/ /\ \A b \in _blocks : b.vaddr # addr
     /\ Refuse("ERROR_MEM_ADDR_NOT_ALLOCATED")

Next ==
  \E addr \in Addresses :
    \/ \E size \in Sizes : StaticAlloc(addr, size)
    \/ StaticFree(addr)

Spec == Init /\ [][Next]_vars

-----------------------------------------------------------------------------
(* Address translation.  A block has one chunk, which covers all of it; the *)
(* set of blocks is searched in no particular order.                        *)

ContainsVAddr(b, v) == b.vaddr <= v /\ v < b.vaddr + Size(b)

\* Faulty: the end of a block is taken to belong to it.
ContainsRAddrInclusive(b, r) == b.raddr <= r /\ r <= b.raddr + Size(b)

ContainsRAddr(b, r) == b.raddr <= r /\ r < b.raddr + Size(b)

isVAddrAllocated(v) == \E b \in _blocks : ContainsVAddr(b, v)

\* Everything GetRealAddr can return for v, and GetVirtualAddr for r.
GetRealAddr(v) == {b.raddr + (v - b.vaddr) : b \in {b \in _blocks : ContainsVAddr(b, v)}}
GetVirtualAddr(r) == {b.vaddr + (r - b.raddr) : b \in {b \in _blocks : ContainsRAddr(b, r)}}

-----------------------------------------------------------------------------
(* Properties. *)

\* Every variable has its type; a mapped block has at least one page.
TypeOK ==
  /\ _blocks \subseteq Block
  /\ \A b \in _blocks : b.pages # 0
  /\ _dynamicHeapBlock \in Block
  /\ engine \subseteq Block
  /\ host \subseteq Block
  /\ ret \in Errors

\* The code's table, the engine's regions and the live host buffers are the same
\* blocks after every call, successful or not: no region outlives its buffer,
\* and no buffer is lost.
TablesAgree == engine = _blocks /\ host = _blocks

\* Blocks start on a page and share no guest address, although StaticAlloc
\* tests the overlap with a size that is not rounded to pages.
BlocksDisjoint ==
  /\ \A b \in _blocks : Aligned(b.vaddr)
  /\ \A b, c \in _blocks :
       b # c => Apart(b.vaddr, Size(b), c.vaddr, Size(c))

\* The block of the dynamic heap is mapped for as long as the program runs.
HeapStaysMapped == _dynamicHeapBlock \in _blocks

\* A guest address of a mapped block has one host address, and that host address
\* leads back to it: __GET and GetVirtualAddr are inverses even where host
\* buffers touch.
RoundTrip ==
  \A b \in _blocks : \A v \in b.vaddr .. (b.vaddr + Size(b) - 1) :
    \E r \in GetRealAddr(v) : GetRealAddr(v) = {r} /\ GetVirtualAddr(r) = {v}
=============================================================================

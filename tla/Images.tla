------------------------------- MODULE Images -------------------------------
(***************************************************************************)
(* Who maps memory: Executor::Initialize and Executable::Load (the kernel, *)
(* the segments of an ELF program, the device registers) and               *)
(* MapPEIntoMemory (the sections of a PE image, the stubs for its          *)
(* imports).  One call of StaticAlloc or StaticFree is one step, so that   *)
(* each can fail on its own; all run on one host thread.                   *)
(*                                                                         *)
(* Which image imports which, and what an import is bound to, is the       *)
(* subject of PELoader; here an image may ask for any other.               *)
(***************************************************************************)
EXTENDS MemoryMap, SequencesExt

CONSTANTS
  Programs,   \* program files: the sequence of requests Executable::Load makes
  Registers,  \* the requests Initialize makes behind it
  Files,      \* PE files
  Preferred,  \* the preferred base of each
  Sections,   \* its sections
  Bases,      \* the bases tried when the preferred one is taken, in order
  StubBases,  \* the addresses tried for a stub, in order
  STUB_SIZE,
  MaxStubs    \* bound: stubs of an image

\* What is asked for at start-up.  A request with a file is for a PE program.  A
\* request without `must` may fail unnoticed; `uses` is set where the new block
\* is filled at once, `fits` where the data are no longer than the block, or
\* where there are none.
Request == {q \in [file : Files \cup {"none"}, addr : Addresses, size : Sizes,
                   must : BOOLEAN, uses : BOOLEAN, fits : BOOLEAN] : q.fits \/ q.uses}

Section == [rva : Nat, size : Sizes, truncated : BOOLEAN]

ASSUME ImagesAssumption ==
  /\ "none" \notin Files
  /\ Programs \subseteq Seq(Request)
  /\ Registers \in Seq(Request)
  /\ Preferred \in [Files -> Nat]
  /\ Sections \in [Files -> Seq(Section)]
  /\ Bases \in Seq(Nat) /\ StubBases \in Seq(Addresses)
  /\ \A f \in Files : \A s \in Range(Sections[f]), b \in Range(Bases) \cup {Preferred[f]} :
       b + s.rva \in Addresses
  /\ STUB_SIZE \in Sizes \ {0} /\ MaxStubs \in Nat

VARIABLES
  todo,    \* the requests of Initialize still to make
  at,      \* "run" between calls, and otherwise where the code is
  stack,   \* images being loaded, innermost last: file, base, blocks, stubs
  sec,     \* the section, or the candidate address of a stub, the code is at
  cand,    \* the candidate base it is at
  loaded,  \* images that are loaded, those replaced in the process table too
  fixed,   \* auxiliary: addresses mapped by requests
  leaked   \* auxiliary: addresses of blocks that nothing refers to any more

auxVars  == <<fixed, leaked>>
loadVars == <<todo, at, stack, sec, cand, loaded, fixed, leaked>>
imgVars  == <<vars, loadVars>>

ImagesInit ==
  /\ Init
  /\ \E p \in Programs : todo = p \o Registers
  /\ at = "run"
  /\ stack = <<>> /\ sec = 1 /\ cand = 1
  /\ loaded = {} /\ fixed = {} /\ leaked = {}

Top       == Last(stack)
SetTop(f) == stack' = Front(stack) \o <<f>>
Goto(l)   == at' = l
Ready     == at = "run" /\ stack = <<>>

-----------------------------------------------------------------------------
(* Start-up. *)

\* One request.  A size of 0 maps nothing and yields a null block, and filling
\* that one ends the program.  (A file that cannot be read, or whose headers are
\* refused, ends it as a refused request does.)
MakeRequest ==
  LET q == Head(todo) IN
  /\ Ready /\ todo # <<>> /\ q.file = "none"
  /\ StaticAlloc(q.addr, q.size)
  /\ IF ret' # "ERROR_OK" THEN Goto(IF q.must THEN "failed" ELSE "run")
     ELSE IF q.uses /\ q.size = 0 THEN Goto("crashed")
     ELSE Goto(IF q.fits THEN "run" ELSE "drop segment")
  /\ fixed' = IF ret' = "ERROR_OK" /\ q.size # 0 THEN fixed \cup {q.addr} ELSE fixed
  /\ todo' = IF at' = "run" THEN Tail(todo) ELSE todo
  /\ UNCHANGED <<stack, sec, cand, loaded, leaked>>

\* memcpy_s refuses data that are longer than the block; the segments before
\* this one stay, and the program ends.
DropSegment ==
  /\ at = "drop segment"
  /\ StaticFree(Head(todo).addr)
  /\ fixed' = IF ret' = "ERROR_OK" THEN fixed \ {Head(todo).addr} ELSE fixed
  /\ Goto("failed")
  /\ UNCHANGED <<todo, stack, sec, cand, loaded, leaked>>

-----------------------------------------------------------------------------
(* MapPEIntoMemory. *)

LoadedFiles  == {l.file : l \in loaded}

\* The table of the load in progress, which the image asked for is not entered in.
LoadingFiles == {stack[i].file : i \in 2 .. Len(stack)}

\* A file that is loaded or being loaded is taken from the tables.  One that is not there or whose
\* headers are refused fails before anything is mapped.
MapPEIntoMemory(f) ==
  /\ f \notin LoadedFiles \cup LoadingFiles
  /\ stack' = Append(stack, [file |-> f, base |-> Preferred[f], blocks |-> <<>>, stubs |-> 0])
  /\ sec' = 1
  /\ Goto("preferred") \/ Goto("return error")
  /\ UNCHANGED <<vars, todo, cand, loaded, auxVars>>

\* The program itself, a library the program asks for, or one an image imports from.
LoadProgram(f)   == Ready /\ todo # <<>> /\ Head(todo).file = f /\ MapPEIntoMemory(f)
_LoadLibraryA(f) == Ready /\ todo = <<>> /\ MapPEIntoMemory(f)
LoadImport(f)    == at = "imports" /\ MapPEIntoMemory(f)

AllMapped  == sec > Len(Sections[Top.file])
TheSection == Sections[Top.file][sec]
AtSection(here) == at = here /\ ~AllMapped /\ TheSection.size # 0

\* A section without bytes is passed over.
SkipSection ==
  /\ at \in {"preferred", "search", "chosen"}
  /\ at = "search" => cand <= Len(Bases)
  /\ ~AllMapped /\ TheSection.size = 0
  /\ sec' = sec + 1
  /\ UNCHANGED <<vars, todo, at, stack, cand, loaded, auxVars>>

\* Faulty: the section is listed before the result is looked at.
MapSectionListedFirst(here, onFailure) ==
  LET addr == Top.base + TheSection.rva IN
  /\ AtSection(here)
  /\ StaticAlloc(addr, TheSection.size)
  /\ SetTop([Top EXCEPT !.blocks = Append(@, addr)])
  /\ IF ret' # "ERROR_OK" THEN Goto(onFailure) /\ UNCHANGED sec
     ELSE UNCHANGED at /\ sec' = sec + 1
  /\ UNCHANGED <<todo, cand, loaded, auxVars>>

\* A section at the base of the image: mapped and filled, or the next thing is
\* to free what is there (a truncated section: only its own block).
MapSection(here, onFailure) ==
  LET addr == Top.base + TheSection.rva IN
  /\ AtSection(here)
  /\ StaticAlloc(addr, TheSection.size)
  /\ IF ret' # "ERROR_OK" THEN Goto(onFailure) /\ UNCHANGED <<stack, sec>>
     ELSE IF TheSection.truncated THEN Goto("drop section") /\ UNCHANGED <<stack, sec>>
     ELSE /\ SetTop([Top EXCEPT !.blocks = Append(@, addr)])
          /\ sec' = sec + 1
          /\ UNCHANGED at
  /\ UNCHANGED <<todo, cand, loaded, auxVars>>

AtPreferredBase == MapSection("preferred", "undo")
AtChosenBase    == MapSection("chosen", "rollback")

\* The other sections are forgotten, not freed.
DropSection ==
  /\ at = "drop section"
  /\ StaticFree(Top.base + TheSection.rva)
  /\ leaked' = leaked \cup Range(Top.blocks)
                      \cup (IF ret' = "ERROR_OK" THEN {} ELSE {Top.base + TheSection.rva})
  /\ SetTop([Top EXCEPT !.blocks = <<>>])
  /\ Goto("return error")
  /\ UNCHANGED <<todo, sec, cand, loaded, fixed>>

\* One of the image's blocks is freed, and whatever StaticFree returns, forgotten.
FreeBlock(here) ==
  /\ at = here /\ Top.blocks # <<>>
  /\ StaticFree(Head(Top.blocks))
  /\ leaked' = IF ret' = "ERROR_OK" THEN leaked ELSE leaked \cup {Head(Top.blocks)}
  /\ SetTop([Top EXCEPT !.blocks = Tail(@)])
  /\ UNCHANGED <<todo, at, sec, cand, loaded, fixed>>

\* Control alone: none of these touches memory.
Search ==
  /\ at = "undo" /\ Top.blocks = <<>>
  /\ Goto("search") /\ sec' = 1 /\ cand' = 1
  /\ UNCHANGED <<vars, todo, stack, loaded, auxVars>>

\* A section is mapped at a candidate base, only to see whether it can be.
TrySection ==
  /\ cand <= Len(Bases) /\ AtSection("search")
  /\ StaticAlloc(Bases[cand] + TheSection.rva, TheSection.size)
  /\ IF ret' = "ERROR_OK"
     THEN Goto("untry") /\ UNCHANGED <<sec, cand>>
     ELSE cand' = cand + 1 /\ sec' = 1 /\ UNCHANGED at
  /\ UNCHANGED <<todo, stack, loaded, auxVars>>

UntrySection ==
  LET addr == Bases[cand] + TheSection.rva IN
  /\ at = "untry"
  /\ StaticFree(addr)
  /\ leaked' = IF ret' = "ERROR_OK" THEN leaked ELSE leaked \cup {addr}
  /\ sec' = sec + 1
  /\ Goto("search")
  /\ UNCHANGED <<todo, stack, cand, loaded, fixed>>

\* Every section can be mapped there alone; or no base is left.
ChooseBase ==
  /\ at = "search" /\ (cand > Len(Bases) \/ AllMapped)
  /\ IF cand > Len(Bases) THEN Goto("return error") /\ UNCHANGED stack
     ELSE Goto("chosen") /\ SetTop([Top EXCEPT !.base = Bases[cand]])
  /\ sec' = 1
  /\ UNCHANGED <<vars, todo, cand, loaded, auxVars>>

\* At another base the image is relocated, which may fail.
Placed ==
  /\ at \in {"preferred", "chosen"} /\ AllMapped
  /\ \/ Goto("imports")
     \/ at = "chosen" /\ Goto("rollback")
  /\ UNCHANGED <<vars, todo, stack, sec, cand, loaded, auxVars>>

-----------------------------------------------------------------------------
(* ResolveImports: libraries, stubs, an error, or the end. *)

CreateReturnZeroStub ==
  /\ at = "imports" /\ Top.stubs < MaxStubs
  /\ Goto("stub") /\ sec' = 1
  /\ UNCHANGED <<vars, todo, stack, cand, loaded, auxVars>>

\* Faulty: the stub's block is not listed with the image's.
AllocateAnyUnlisted ==
  /\ at = "stub" /\ sec <= Len(StubBases)
  /\ StaticAlloc(StubBases[sec], STUB_SIZE)
  /\ IF ret' = "ERROR_OK"
     THEN /\ Goto("imports")
          /\ SetTop([Top EXCEPT !.stubs = @ + 1])
          /\ UNCHANGED sec
     ELSE sec' = sec + 1 /\ UNCHANGED <<at, stack>>
  /\ UNCHANGED <<todo, cand, loaded, auxVars>>

\* The stub's block becomes one of the image's.
AllocateAny ==
  /\ at = "stub" /\ sec <= Len(StubBases)
  /\ StaticAlloc(StubBases[sec], STUB_SIZE)
  /\ IF ret' = "ERROR_OK"
     THEN /\ Goto("imports")
          /\ SetTop([Top EXCEPT !.blocks = Append(@, StubBases[sec]), !.stubs = @ + 1])
          /\ UNCHANGED sec
     ELSE sec' = sec + 1 /\ UNCHANGED <<at, stack>>
  /\ UNCHANGED <<todo, cand, loaded, auxVars>>

\* An import table outside the image, or no room for a stub.
ImportsFail ==
  /\ at = "imports" \/ (at = "stub" /\ sec > Len(StubBases))
  /\ Goto("rollback") /\ sec' = 1
  /\ UNCHANGED <<vars, todo, stack, cand, loaded, auxVars>>

Pop == stack' = Front(stack)

\* The image is entered in the table.  Its importer goes on with its imports.
ReturnOK ==
  /\ at = "imports"
  /\ loaded' = loaded \cup {Top}
  /\ Pop
  /\ Goto(IF Len(stack) = 1 THEN "run" ELSE "imports")
  /\ todo' = IF Len(stack) = 1 /\ todo # <<>> THEN Tail(todo) ELSE todo
  /\ UNCHANGED <<vars, sec, cand, auxVars>>

\* An error fails the importer, or the start of the program, too.
ReturnError ==
  /\ at = "return error" \/ (at = "rollback" /\ Top.blocks = <<>>)
  /\ Pop
  /\ Goto(IF Len(stack) > 1 THEN "rollback" ELSE IF todo # <<>> THEN "failed" ELSE "run")
  /\ UNCHANGED <<vars, todo, sec, cand, loaded, auxVars>>

Undo     == FreeBlock("undo")
Rollback == FreeBlock("rollback")

ImagesNext ==
  \/ MakeRequest \/ DropSegment
  \/ \E f \in Files : LoadProgram(f) \/ _LoadLibraryA(f) \/ LoadImport(f)
  \/ SkipSection \/ AtPreferredBase \/ Undo \/ DropSection
  \/ Search \/ TrySection \/ UntrySection \/ ChooseBase
  \/ AtChosenBase \/ Placed
  \/ CreateReturnZeroStub \/ AllocateAny \/ ImportsFail
  \/ Rollback \/ ReturnOK \/ ReturnError

ImagesSpec == ImagesInit /\ [][ImagesNext]_imgVars

-----------------------------------------------------------------------------
(* Properties. *)

\* An image that is loaded has all its sections mapped, each in a block of its
\* own, of its size, at its place behind the base, and its stubs; and it stays
\* so, although other images were placed at its addresses before it and failed,
\* were tried there after it, or free their blocks by address.
ImageWhole ==
  \A l \in loaded :
    /\ \A s \in Range(Sections[l.file]) : s.size # 0 =>
         \E b \in _blocks : b.vaddr = l.base + s.rva /\ Size(b) >= s.size
    /\ \A i, j \in DOMAIN l.blocks : i # j => l.blocks[i] # l.blocks[j]
    /\ Range(l.blocks) \subseteq {b.vaddr : b \in _blocks}

Tried == IF at = "untry" THEN {Bases[cand] + TheSection.rva}
         ELSE IF at = "drop section" THEN {Top.base + TheSection.rva} ELSE {}

\* Every mapped block has an owner, whatever failed on the way: the heap, a
\* request, an image that is loaded or being loaded.  The only ones that are lost
\* are those the engine refuses to unmap and the sections before a truncated one.
BlocksOwned ==
  {b.vaddr : b \in _blocks} =
    {HeapBase} \cup fixed \cup leaked \cup Tried
      \cup UNION {Range(l.blocks) : l \in loaded \cup Range(stack)}
=============================================================================

------------------------------- MODULE PELoader -------------------------------
(***************************************************************************)
(* Loading PE images: LoadPEImage maps an image and, through               *)
(* ResolveImports, the images it imports from, recursively.  `loaded` is   *)
(* the table of one such call, g_loadedPEImages that of the process.  The  *)
(* recursion is a stack of frames, one per activation of MapPEIntoMemory;  *)
(* the loader runs on one host thread and nothing interleaves with it.     *)
(*                                                                         *)
(* Where an image is put is left out: each mapping of a file is a copy of  *)
(* its own.  An import is bound to a copy, or to a stub that returns 0.    *)
(***************************************************************************)
EXTENDS Naturals, Sequences, FiniteSets, SequencesExt, TLC

CONSTANTS
  Dlls,       \* file names, in lower case
  MaxCopies,  \* bound: images ever mapped
  MaxLoads    \* bound: calls of LoadPEImage

ASSUME PELoaderAssumption ==
  IsFiniteSet(Dlls) /\ MaxCopies \in Nat \ {0} /\ MaxLoads \in Nat

None   == 0
Stub   == MaxCopies + 1
Copies == 1 .. MaxCopies

\* What a file is like: not there; with a section whose raw data lie beyond the
\* end of the file; whole.  Any file may have headers that are refused.
Kinds == {"missing", "truncated", "good"}

VARIABLES
  kind,      \* the files of the system directory
  imports,   \* the names each file imports from
  g_loaded,  \* g_loadedPEImages: the copy of each name, or None
  loaded,    \* the table of the call in progress
  stack,     \* activations of MapPEIntoMemory, innermost last
  mapped,    \* copies whose sections are mapped
  leftover,  \* copies of which only the sections before a truncated one are
  exported,  \* copies whose export tables are filled
  bind,      \* what the import table of each copy is bound to, per name
  copies,    \* copies made so far
  loads,     \* calls of LoadPEImage so far
  handles,   \* images that LoadPEImage has returned, with their names
  failures   \* calls that have returned an error

disk == <<kind, imports>>
vars == <<disk, g_loaded, loaded, stack, mapped, leftover, exported, bind,
          copies, loads, handles, failures>>

Frame == [dll : Dlls, root : BOOLEAN, copy : Copies \cup {None},
          todo : SUBSET Dlls, at : {"map", "imports", "ok", "error"}]

\* Imports may be circular; no linker makes an image import from itself.
Init ==
  /\ kind \in [Dlls -> Kinds]
  /\ imports \in {f \in [Dlls -> SUBSET Dlls] : \A d \in Dlls : d \notin f[d]}
  /\ g_loaded = [d \in Dlls |-> None]
  /\ loaded = [d \in Dlls |-> None]
  /\ stack = <<>>
  /\ mapped = {} /\ leftover = {} /\ exported = {}
  /\ bind = [c \in Copies |-> [d \in Dlls |-> None]]
  /\ copies = 0
  /\ loads = 0
  /\ handles = {}
  /\ failures = 0

Activation(d, root) ==
  [dll |-> d, root |-> root, copy |-> None, todo |-> {}, at |-> "map"]

Top      == Last(stack)
SetTop(f) == stack' = Front(stack) \o <<f>>
Fail     == SetTop([Top EXCEPT !.at = "error"])

-----------------------------------------------------------------------------
\* A file that cannot be read fails at once.  `loaded` starts out empty: the
\* image asked for is not entered in it.
LoadPEImage(d) ==
  /\ stack = <<>>
  /\ loads < MaxLoads
  /\ loads' = loads + 1
  /\ loaded' = [e \in Dlls |-> None]
  /\ IF kind[d] = "missing"
     THEN failures' = failures + 1 /\ UNCHANGED stack
     ELSE stack' = <<Activation(d, TRUE)>> /\ UNCHANGED failures
  /\ UNCHANGED <<disk, g_loaded, mapped, leftover, exported, bind, copies,
                 handles>>

\* The placeholder that ResolveImports has put into `loaded` is the image that
\* MapPEIntoMemory fills; the image asked for has none.
Enter(f, c) == IF f.root THEN loaded ELSE [loaded EXCEPT ![f.dll] = c]

\* The image is in the process table: the caller gets a copy of the entry.
MapCached ==
  /\ stack # <<>> /\ Top.at = "map"
  /\ g_loaded[Top.dll] # None
  /\ SetTop([Top EXCEPT !.at = "ok", !.copy = g_loaded[Top.dll]])
  /\ loaded' = Enter(Top, g_loaded[Top.dll])
  /\ UNCHANGED <<disk, g_loaded, mapped, leftover, exported, bind, copies, loads,
                 handles, failures>>

\* Headers are refused, or no base has room for all sections: what was mapped
\* is freed again.
MapFails ==
  /\ stack # <<>> /\ Top.at = "map"
  /\ g_loaded[Top.dll] = None
  /\ Fail
  /\ UNCHANGED <<disk, g_loaded, loaded, mapped, leftover, exported, bind,
                 copies, loads, handles, failures>>

\* A section's data are beyond the end of the file: only that section's block is
\* freed, those before it stay mapped.
MapTruncated ==
  /\ stack # <<>> /\ Top.at = "map"
  /\ g_loaded[Top.dll] = None
  /\ kind[Top.dll] = "truncated"
  /\ copies < MaxCopies
  /\ copies' = copies + 1
  /\ leftover' = leftover \cup {copies + 1}
  /\ Fail
  /\ UNCHANGED <<disk, g_loaded, loaded, mapped, exported, bind, loads, handles,
                 failures>>

\* At the preferred base, or at another one and relocated.
Place(c) ==
  /\ mapped' = mapped \cup {c}
  /\ loaded' = Enter(Top, c)

ParseAndFillExports(c) == exported' = exported \cup {c}

\* The sections are mapped and the exports filled in before any import is looked
\* at.
MapSections ==
  /\ stack # <<>> /\ Top.at = "map"
  /\ g_loaded[Top.dll] = None
  /\ kind[Top.dll] = "good"
  /\ copies < MaxCopies
  /\ copies' = copies + 1
  /\ Place(copies + 1)
  /\ ParseAndFillExports(copies + 1)
  /\ SetTop([Top EXCEPT !.at = "imports", !.copy = copies + 1,
                        !.todo = imports[Top.dll]])
  /\ UNCHANGED <<disk, g_loaded, leftover, bind, loads, handles, failures>>

-----------------------------------------------------------------------------
(* ResolveImports, one import descriptor at a time. *)

Importing(e) == stack # <<>> /\ Top.at = "imports" /\ e \in Top.todo

\* Faulty: the address of a stub is not written into the import table.
BindToUnwritten(e, dep) ==
  /\ bind' = [bind EXCEPT ![Top.copy][e] = IF dep \in exported THEN dep ELSE @]
  /\ SetTop([Top EXCEPT !.todo = @ \ {e}])

\* The thunks of one descriptor: bound to dep's exports, or to stubs.
BindTo(e, dep) ==
  /\ bind' = [bind EXCEPT ![Top.copy][e] = IF dep \in exported THEN dep ELSE Stub]
  /\ SetTop([Top EXCEPT !.todo = @ \ {e}])

ImportLoaded(e) ==
  /\ Importing(e)
  /\ loaded[e] # None
  /\ BindTo(e, loaded[e])
  /\ UNCHANGED <<disk, g_loaded, loaded, mapped, leftover, exported, copies,
                 loads, handles, failures>>

ImportMissing(e) ==
  /\ Importing(e)
  /\ loaded[e] = None
  /\ kind[e] = "missing"
  /\ BindTo(e, None)
  /\ UNCHANGED <<disk, g_loaded, loaded, mapped, leftover, exported, copies,
                 loads, handles, failures>>

\* Faulty: an image that is being loaded is not found in the table.
ImportFileAgain(e) ==
  /\ Importing(e)
  /\ kind[e] # "missing"
  /\ Len(stack) < MaxCopies + 1
  /\ stack' = Append(stack, Activation(e, FALSE))
  /\ UNCHANGED <<disk, g_loaded, loaded, mapped, leftover, exported, bind,
                 copies, loads, handles, failures>>

ImportFile(e) ==
  /\ Importing(e)
  /\ loaded[e] = None
  /\ kind[e] # "missing"
  /\ stack' = Append(stack, Activation(e, FALSE))
  /\ UNCHANGED <<disk, g_loaded, loaded, mapped, leftover, exported, bind,
                 copies, loads, handles, failures>>

\* No room for a stub, or an import table outside the image.
ImportFails ==
  /\ stack # <<>> /\ Top.at = "imports"
  /\ Top.todo # {}
  /\ Fail
  /\ UNCHANGED <<disk, g_loaded, loaded, mapped, leftover, exported, bind,
                 copies, loads, handles, failures>>

\* The process table gets the image, over what an inner activation put there.
ImportsDone ==
  /\ stack # <<>> /\ Top.at = "imports"
  /\ Top.todo = {}
  /\ g_loaded' = [g_loaded EXCEPT ![Top.dll] = Top.copy]
  /\ SetTop([Top EXCEPT !.at = "ok"])
  /\ UNCHANGED <<disk, loaded, mapped, leftover, exported, bind, copies, loads,
                 handles, failures>>

-----------------------------------------------------------------------------
(* Returning. *)

Caller == stack[Len(stack) - 1]

\* The caller binds the descriptor it was at.
ReturnDep ==
  /\ stack # <<>> /\ Top.at = "ok" /\ ~Top.root
  /\ bind' = [bind EXCEPT ![Caller.copy][Top.dll] =
                IF Top.copy \in exported THEN Top.copy ELSE Stub]
  /\ stack' = Front(Front(stack)) \o <<[Caller EXCEPT !.todo = @ \ {Top.dll}]>>
  /\ UNCHANGED <<disk, g_loaded, loaded, mapped, leftover, exported, copies,
                 loads, handles, failures>>

ReturnRoot ==
  /\ stack # <<>> /\ Top.at = "ok" /\ Top.root
  /\ handles' = handles \cup {<<Top.dll, Top.copy>>}
  /\ stack' = <<>>
  /\ UNCHANGED <<disk, g_loaded, loaded, mapped, leftover, exported, bind,
                 copies, loads, failures>>

\* Faulty: the blocks of the image that fails stay mapped.
ReturnErrorLeaky ==
  /\ stack # <<>> /\ Top.at = "error"
  /\ IF Top.root
     THEN stack' = <<>> /\ failures' = failures + 1
     ELSE /\ stack' = Front(Front(stack)) \o <<[Caller EXCEPT !.at = "error"]>>
          /\ UNCHANGED failures
  /\ UNCHANGED <<disk, g_loaded, loaded, mapped, leftover, exported, bind, copies,
                 loads, handles>>

\* Faulty: the images of the table are freed with the one that fails.
ReturnErrorFreesAll ==
  /\ stack # <<>> /\ Top.at = "error"
  /\ mapped' = mapped \ ({Top.copy} \cup Range(loaded))
  /\ IF Top.root
     THEN stack' = <<>> /\ failures' = failures + 1
     ELSE /\ stack' = Front(Front(stack)) \o <<[Caller EXCEPT !.at = "error"]>>
          /\ UNCHANGED failures
  /\ UNCHANGED <<disk, g_loaded, loaded, leftover, exported, bind, copies, loads,
                 handles>>

\* An error frees the blocks of the image and fails the caller's load too.
ReturnError ==
  /\ stack # <<>> /\ Top.at = "error"
  /\ mapped' = mapped \ {Top.copy}
  /\ IF Top.root
     THEN stack' = <<>> /\ failures' = failures + 1
     ELSE /\ stack' = Front(Front(stack)) \o <<[Caller EXCEPT !.at = "error"]>>
          /\ UNCHANGED failures
  /\ UNCHANGED <<disk, g_loaded, loaded, leftover, exported, bind, copies, loads,
                 handles>>

\* The entries of the process table that have a base, for _GetModuleFileNameA.
GetPEImageByHandle(c) == {d \in Dlls : g_loaded[d] = c}

LoaderStep ==
  \/ MapCached \/ MapFails \/ MapTruncated \/ MapSections
  \/ \E e \in Dlls : ImportLoaded(e) \/ ImportMissing(e) \/ ImportFile(e)
  \/ ImportFails \/ ImportsDone
  \/ ReturnDep \/ ReturnRoot \/ ReturnError

Next == LoaderStep \/ \E d \in Dlls : LoadPEImage(d)

Spec == Init /\ [][Next]_vars

-----------------------------------------------------------------------------
(* Properties. *)

OnStack == {f.copy : f \in Range(stack)} \ {None}

\* The images whose activation of MapPEIntoMemory has returned ERROR_OK or is
\* about to: the process table and what it has replaced.
Done == {c \in exported : \E d \in Dlls : g_loaded[d] = c} \cup {h[2] : h \in handles}

\* Every variable has its type; the recursion is no deeper than there are names,
\* plus the image asked for, whatever cycles the imports have.
TypeOK ==
  /\ kind \in [Dlls -> Kinds]
  /\ imports \in [Dlls -> SUBSET Dlls]
  /\ g_loaded \in [Dlls -> Copies \cup {None}]
  /\ loaded \in [Dlls -> Copies \cup {None}]
  /\ stack \in Seq(Frame) /\ Len(stack) <= Cardinality(Dlls) + 1
  /\ mapped \subseteq Copies /\ leftover \subseteq Copies
  /\ exported \subseteq Copies
  /\ bind \in [Copies -> [Dlls -> Copies \cup {None, Stub}]]
  /\ copies \in 0 .. MaxCopies
  /\ loads \in 0 .. MaxLoads
  /\ handles \subseteq Dlls \X Copies
  /\ failures \in 0 .. MaxLoads

\* An image in g_loadedPEImages, or whose base LoadLibrary has returned, stays
\* mapped: a load that fails later frees only what is its own.  Between loads
\* GetPEImageByHandle finds every base that was returned, under the name it was
\* asked for.
LoadedStaysMapped ==
  /\ Done \subseteq mapped
  /\ stack = <<>> => \A h \in handles : h[1] \in GetPEImageByHandle(h[2])

\* What is mapped while no load is in progress is an image of the process table,
\* or one that another image of the table is bound to: a load that fails, at
\* whatever depth and for whatever reason, leaves no image behind (leftover holds
\* the sections of truncated files, which the loader does forget).
FailureCleansUp ==
  stack = <<>> =>
    \A c \in mapped : \E d \in Dlls :
      \/ g_loaded[d] = c
      \/ g_loaded[d] # None /\ c \in Range(bind[g_loaded[d]])

\* In whatever order a cycle of imports is entered, an import from a file that is
\* there is bound to the exports of its image and not to a stub; while no load
\* has failed, the image it is bound to is mapped.
ImportsBound ==
  \A d, e \in Dlls :
    g_loaded[d] # None =>
      LET target == bind[g_loaded[d]][e] IN
      /\ target = Stub => kind[e] = "missing"
      /\ stack = <<>> /\ failures = 0 /\ e \in imports[d] => target \in mapped \cup {Stub}
=============================================================================

# PrimU2: TLA+ models and proofs

PrimU2 runs the firmware of the HP Prime calculator on a PC. It does not emulate
the operating system of the device: the ARM code runs in the Unicorn engine, and
every system call of the firmware is answered by C++ code of this repository
(`src/PrimU`, about 8000 lines). What the firmware sees of threads, locks, events,
memory, files, loaded modules, display and keys is therefore what this code makes
of them. The models below are about that code; the engine, the C library, Windows
and the vendored headers and libraries (`src/include`, `src/lib`) are modelled only
as far as the code uses them.

File names without a directory are in `src/PrimU`.

## 1. The system

### 1.1 Components

| Component | Source | State | Operations |
|---|---|---|---|
| Guest threads and scheduler | `Thread.*`, `ThreadHandler.*`, `executor.cpp` 158-180 and 328-400, `system.cpp` 894-968 and 1035-1058 | ring of threads, each with saved CPU context, sleep alarm, awaited section or event and owned sections; sections and events with queues; current thread, quantum, yield flag | OSCreateThread, OSSleep, yield, OS{Init,Enter,Leave}CriticalSection, OSCreateEvent, OSSetEvent, OSWaitForEvent; code_hook, SwitchThread, SaveState, LoadState |
| System-call dispatch | `executor.cpp`, `SystemAPI.*` | table of handlers (constant) | interrupt_hook, SystemAPI::Call |
| Memory map | `MemoryManager.cpp` 19-142 and 431-470, `MemoryBlock.*`, `MemoryChunk.*` | mapped blocks, their host buffers, the engine's regions | StaticAlloc, StaticFree, GetRealAddr, GetVirtualAddr |
| Dynamic heap | `MemoryManager.cpp` 144-430 | free extents, blocks, cookies in guest memory | malloc, calloc, realloc, free |
| UI event queue | `system.cpp` 1783-1840, `LCD.cpp` (WndProc) | vector `events` under a mutex, WndProc's flags | EnqueueEvent (window thread), GetEvent (firmware) |
| LCD and its window | `LCD.*`, `LCDHandler` in `LCD.h` | singleton, window map, brightness | GetInstance, LCD constructor, window thread, WM_PAINT |
| PE loader | `PELoader.*` | images of the process, images of the load in progress | LoadPEImage, ResolveImports, LoadLibrary, lookups |
| Virtual file system | `system.cpp` 47-560 and 1081-1695 | current drive, a directory for each drive, handle table, open searches | open, close, write, mkdir, chdir, remove, findfirst, findnext, findclose |
| ELF loader, start-up | `executable.*`, `executor.cpp` 182-203 and 318-327 | the mapped kernel, segments and registers | Load, Initialize, InitInterrupts |
| INI profiles | `system.cpp` 569-832 | the lines of a file on disk | _GetPrivateProfileString, _SetPrivateProfileString |
| Device handles and program services | `system.cpp` | none that changes | constants and lookups |
| Formatted output, debug console | `vprintf.*`, `dbgout.cpp` | none | text conversion |

### 1.2 How they interact

One host thread, the emulator's thread, runs `Executor::Execute`: it starts the
engine on the current guest thread, and the engine calls back `code_hook` before
every basic block and `interrupt_hook` at every system call. A handler runs to its
end before guest code goes on, so system calls are atomic with respect to each
other; guest threads interleave only where `code_hook` stops the engine (the thread
is blocked, has yielded or has used up its quantum), where the engine reports an
error, or where a thread's start routine returns. `SwitchThread` then saves one
context and loads the next.

The second host thread belongs to the window. It paints, and it turns messages of
Windows into events that the firmware picks up with GetEvent. The two meet in three
places: the vector `events` (with a lock), the window map (with a lock), and the
singleton `LCDHandler::_instance` with its brightness (without one).

The heap lives in one block of the memory map. Start-up and the PE loader take their
memory from the map, the LCD and the searches for files from the heap. Settings files
are read and rewritten as a whole by two system calls that share nothing but the file.

### 1.3 What is hard to test here

* *Interleavings*: preemption between any two blocks; hand-over of a section to a
  parked thread; a timeout that is noticed by `CanRun` when the thread's turn comes,
  against a SetEvent from another thread; two host threads in an unsynchronised lazy
  constructor.
* *Stale state*: `CanRun` has side effects and is evaluated before the yield flag;
  the flag is one for all threads; file handles are never erased although the host
  reuses FILE objects; import tables of cached images.
* *Two readers of one format*: the two profile calls parse the same file by different
  rules, and each works on line numbers of its own reading.
* *Partial failure*: a host allocation, an engine call or the fifth DLL of a
  recursion fails after the steps before it took effect; an engine fault in the
  middle of a block; a section that cannot be mapped after its neighbours were.
* *Long legal sequences*: splits and merges of the free list, in-place growth and
  cookies, chdir over several drives.
* *Liveness*: round robin without priorities, polling instead of wake-ups, FIFO
  queues of sections.
* *Boundaries*: batch of eight events, page rounding, one past the end of a block,
  no room in the heap, a settings file of no bytes, a star that stands for nothing.

`PROJECT.json` lists the hazards at their lines, with the properties that cover them, and a
note where a property leaves part of the hazard out or none covers it. What is left out is
among the observations in 3.4.

## 2. Modules

| Module | Models | State |
|---|---|---|
| `Threads` | scheduler, sections, events, sleeping, faults | state is the fields of Thread, CriticalSection, Event and StateManager |
| `Contexts` | EXTENDS `Threads`; engine registers and saved contexts | each action is an action of `Threads` conjoined with what it does to the registers |
| `Heap` | sub-allocator of the dynamic heap, at the level of bytes | `_heapFree`, `_heapAlloc` and memory in words of 8 bytes |
| `Allocator` | abstract specification of an allocator | refined by `Heap` |
| `MemoryMap` | blocks, engine regions and host buffers | one record for a block with its only chunk |
| `Images` | EXTENDS `MemoryMap`; start-up, ELF segments, placement of PE sections and stubs | a position in the code, a stack of images being loaded, the images that are loaded |
| `UIEvents` | window messages, queue, GetEvent | the firmware's view of keys and pen as auxiliary state |
| `LCDWindow` | GetInstance, LCD constructor, window threads, painting | one program counter for each host thread |
| `PELoader` | recursive load, tables, rollback, binding of imports | the recursion is an explicit stack of frames |
| `FileSystem` | drives, paths, handles, host disk | a host path is the sequence of its components |
| `FindFiles` | EXTENDS `FileSystem`; directory searches | open searches with the rest of their listing, the guest's structures, heap blocks that hold names |
| `Wildcard` | `wildcard_match`, and what patterns mean | none; EXTENDED by `FindFiles` |
| `Profile` | both profile calls on one file | the lines of the file, what the calls returned |
| `ProfileStore` | abstract specification of a table of settings | refined by `Profile` |
| `ThreadsProofs` (with `Contexts`), `HeapProofs`, `ImagesProofs` (with `MemoryMap`), `UIEventsProofs`, `LCDWindowProofs`, `PELoaderProofs`, `FindFilesProofs` (with `FileSystem` and `Wildcard`), `ProfileProofs` | theorems and proofs (section 4) | none |
| `MC*` | instances for TLC | none |

Definitions carry the names of the code. `PROJECT.json` maps each of them to the
lines it stands for. Operators whose comment begins with *Faulty* are deliberately
wrong variants of the definition that follows them; no specification uses them.
They exist so that each property can be seen to fail on a program with that mistake.

### 2.1 Threads and Contexts

`phase` says where the host thread is: `hook` (the engine is about to enter a block
and calls `code_hook`), `guest` (a block is executing), `stopped` (the engine
returned because it was told to) and `failed` (it returned with an error, or a
start routine has returned to address 0). Each system call is one action, enabled in
phase `guest` for the current thread, and leads back to `hook`. `CodeHook` evaluates
`CanRun` with its side effects, then the yield flag, then the quantum, in the order
of `executor.cpp:158-180`.

Time is abstract: a sleep or a timed wait is `pending` until an action of the clock
makes it `reached`; a quantum has run out or has not. Priorities only scale the
quantum, so they vanish in that abstraction. Suspend, Resume and ResetEvent of
`Thread` have no caller (the two system calls return without calling them). OSInitCriticalSection is applied only to sections that nobody uses (it
replaces the object; using the old one is undefined). The Release build is modelled:
leaving a section of another owner is ignored. An event handle of 0, or one never
created, changes no state and is covered by `EndBlock`.

In `Contexts` program counter, the batch of registers that LoadState always writes,
and the rest of the engine's context are three components, each tagged with the
thread and the point of its execution it comes from. A thread that is new has no
saved context but its start registers. After a fault (`SkipFault`) the registers are right,
but the program counter may be wrong, and with it the instruction set: Execute reads it
outside of a callback, which the comments on SaveState warn of, and writes it back without
the Thumb bit. `faulted` marks such a thread until it has executed again; wherever that was,
its later switches are to be exact once more.

### 2.2 Heap and Allocator

Sizes, alignment (16), cookies (8 bytes on each side) and addresses are the code's,
with the 64-bit `size_t` of the x64 configurations; only base and size of the heap
are small. `DynamicRealloc` is split into the code's four outcomes (shrink, grow in
place, move, no room). The states `aborted` (a cookie check failed, `abort()`) and
`trapped` (`__debugbreak` because no extent is large enough) are final.

`Allocator` has one variable, the map from live blocks to sizes, and says that
blocks lie in the heap and apart from each other, and that an operation changes only
the blocks it is called for.

### 2.3 MemoryMap

`engine` and `host` are the tables that Unicorn and the host's allocator keep. The
host may refuse every allocation and the engine every mapping or unmapping. The
refusal by the engine of overlapping regions is left out on purpose: the code's own
test must be good enough. `HostAddresses` gives the places calloc may choose for the
block at an address, so that host buffers can be made to touch.

### 2.4 Images

`MemoryMap` lets anybody ask for anything. `Images` has the two callers of the code in its
place: Executor::Initialize with Executable::Load (the kernel, the segments of an ELF
program, the registers of three devices), and MapPEIntoMemory. Each call of StaticAlloc or
StaticFree is a step of its own that may fail; `at` is the place in the code between two of
them. MapPEIntoMemory maps all sections at the preferred base; on a failure it frees what
it has and looks for a base at which each section *alone* can be mapped (it maps and frees
each in turn), then maps all of them there, relocates and resolves the imports. An import
may start the same for another file, which is why there is a stack; any image may import
any other here, since who imports whom and what is bound is the subject of `PELoader`.
Each missing import takes a stub, and so a mapping.

`fixed` and `leaked` are auxiliary: the addresses mapped at start-up, and those of blocks
that nothing refers to any more. A program that ends at start-up is in state `failed` or
`crashed` (a segment of size 0 is granted as a null block and then written to). Data can
be too long for a block only where a block is filled (`Request`): the registers of a device
are mapped and not written.
Executor::Cleanup is not modelled: Execute loops without end, so it is never called.

### 2.5 UIEvents and LCDWindow

Both sides of the queue hold its mutex, so each is one action. The rows of the key
table are represented by a digit with its numpad twin, a letter, and a key that is
not in the table. Buttons may go up outside of the window without a message. What a
sequence of events tells the firmware is defined by the last event about a key, and by the
last one about the pen (`KeysAfter`, `PenAfter`).

In `LCDWindow` the steps of GetInstance (test, construct, wait, assign) are separate
actions of whichever thread executes them, because `_instance` is neither atomic nor
protected. The host may refuse the window class, or the window, to a thread that is entitled
to it; the thread then ends without publishing a handle, and `refused` remembers it. The
destructors of LCD and LCDHandler are never called.

### 2.6 PELoader

Where an image is put, and what relocations and exports contain, is left out: every
mapping of a file is a fresh copy, and an import is bound to a copy or to a stub. The
import graph is any graph without self-imports on a finite set of files, files are missing,
truncated or good, and headers may be refused at any time.

### 2.7 FileSystem, FindFiles and Wildcard

Names stay on their drive and within a depth bound. Removing an open file fails, as
it does on Windows. Positions and bytes of a stream are left to the host; what is
kept of the data is which handle wrote to which file. A find structure of the guest
is zeroed before its first use. The wide handlers map paths exactly as the narrow
ones do.

Names and patterns are spelled out in characters for `wildcard_match`, whose recursion is
a recursive function of the two positions. `Fits` says what a pattern means without
saying how to find out: the name can be cut into pieces, one for each character of the
pattern.

Of the heap, searches only see that a block for a name is one that is not in use
(`Free`): which gap it comes from is the subject of `Heap`. So no call tells two blocks,
or two of the firmware's structures, apart. The sets of drives and of names are finite, so
that a directory has a listing; both are, as names have a greatest length on the host.

### 2.8 Profile and ProfileStore

A file is a sequence of lines: headers, pairs, comments and blank lines. `SectionOf`,
`Fits` and `Lookup` are Get's reading (everything is trimmed, the first line that fits
counts, a NULL section means the lines above the first header); `HeadersOf`,
`SectionStart`, `SectionEnd` and `KeyLines` are Set's (nothing is trimmed: the calls of
`trim` are commented out; the last line that fits counts). Texts are members of a small
set with a function `Trim`; a file that was there before the program may have any
sequence of lines. Writing may fail, and then leaves the file alone. A file of
no bytes ends the program at the next Get (`crashed`), after which it may be started again.

`ProfileStore` is a table from section and key to value with Put, Delete, DeleteSection
and Ask. `tidy` remembers whether the file the program started with is one both handlers
read alike (or none); otherwise the refinement says nothing. Nor does it say what a question
without a section, or without a file, is answered (`Unasked`; `named` tells the former from
the others): there the code differs from its comments (3.4).

## 3. What TLC checks

| Run | Instance | Distinct states | Shows |
|---|---|---|---|
| `threads` | 3 threads, 2 sections, 1 event, recursion 2 | 1.96 M | exclusion and ownership tables agree (`OwnerAgreement`); queues hold exactly the blocked threads (`WaitersAgreement`); no lost wake-up (`EventAgreement`); a blocked thread executes nothing (`BlockedNeverRuns`); the ring is one cycle (`OneRing`); FIFO hand-over (`NoOvertaking`) |
| `threads_live` | 3 threads, 1 section, 1 event | 227 k | an unblocked thread runs (`UnblockedRuns`), a section that is left again and again reaches each waiter (`WaiterGetsSection`), sleeps and timed waits end (`TimedWaitsEnd`) |
| `contexts` | 2 threads, no sections | 117 k | a switch is invisible (`ResumesWhereItStopped`), snapshots are current (`SnapshotsCurrent`); of a thread stopped by a fault this is said of the registers only |
| `heap` | 112 bytes, requests of 0, 1, 17 and 48, two contents, one overrun | 967 k | the two tables tile the heap (`Tiling`), `FindsEveryGap`, cookies and data survive every operation (`GuestUnharmed`), nothing is released after damage (`NoReleaseAfterDamage`), and refinement of `Allocator` (`ImplementsAllocator`) |
| `ui_events` | 3 virtual keys, 2 points, batch of 2, queue of 3 | 1.6 M | the firmware's view of keys and pen follows Windows' (`KeysFollow`, `PenFollows`); no key waits for ever (`KeysReachFirmware`) |
| `lcd_window` | 2 brightness levels, 2 pixels, up to 3 LCDs | 193 | one window (`OneWindow`), one instance (`InstanceStable`), system calls return unless the host refuses class or window (`CallReturns`), brightness reaches the picture (`BrightnessShown`) |
| `lcd_window_wait` | the same | counterexample | a window thread waits for a window nobody creates (see 3.3) |
| `images` | 8 programs, 4 PE files, 3 bases, pages of 2 | 308 k | `TablesAgree`, `BlocksDisjoint`, `RoundTrip`; a loaded image stays whole (`ImageWhole`); every block has an owner (`BlocksOwned`) |
| `pe_loader` | 3 files with every import graph, 2 loads | 69 k | `LoadedStaysMapped`, `FailureCleansUp`, `ImportsBound`; the recursion ends (`TypeOK` bounds its depth) |
| `find_files` | 2 drives, 2 names, 5 calls, 2 handles, 2 searches | 314 k | `OwnStream`, `NamesOwned`, `EachEntryOnce`, `ChdirTakesEffect`; the matcher agrees with the meaning of patterns for all patterns and names of up to 3 characters (`PatternsFit`) |
| `profile` | 585 files at the start, 2 sections, 2 keys, 5 lines | 57 k | refinement of `ProfileStore`, call by call (`ImplementsStore`); a call never disturbs a second section (`OneSectionChanges`) |
| `profile_empty` | the same | counterexample | a file of no bytes ends the program (see 3.3) |

`ui_events` and `pe_loader` also check a type invariant, which bounds the batch and the
depth of the recursion; those of `Threads`, `MemoryMap` and `Heap` are only proved
(section 4).

### 3.1 Bounds

* *Threads.* Three threads are the least with an owner, a first and a second waiter;
  two sections let a thread hold one and wait for the other, cyclic waiting included;
  recursion 2 tells the last leave from the others. Deadlock checking is on: the
  emulator itself never stops, also when all threads wait for each other. Sections
  are symmetric; threads are not, since they are numbered in the order of creation.
  The safety properties do not depend on these bounds, nor do those of the other
  components that section 4 proves.
* *Contexts.* A thread blocked on a section or an event is stopped and resumed like
  one that sleeps, so sleeping stands for all three; two points of execution suffice to
  tell a stale context from a current one. A switch involves the thread that stops and the
  one that is loaded, so two threads have every pair of a thread that is new, blocked,
  faulted or has returned; the proofs in 4.4 are for any number.
* *Heap.* 112 bytes hold three of the smallest blocks (16 bytes and two cookies), enough
  for a free extent with a neighbour on both sides; the sizes cross one and two alignment
  boundaries, and 0 is the early return of malloc and realloc. One instance checks tables
  and contents together; the two contents are interchangeable, hence symmetric.
* *UIEvents.* The batch of 8 is cut to 2 and the queue to 3, one more than the batch,
  which is where GetEvent starts to discard.
* *LCDWindow.* The bound of three LCDs is never reached: `OneWindow` shows that two
  are constructed at most. Deadlock is not checked: when the host refuses the first window,
  the emulator's thread polls for ever (polls that find nothing are stuttering steps) and
  the window thread has ended.
* *Images.* Pages of 2 give aligned and unaligned addresses, and sizes below, at and above
  a page; host buffers touch where guest blocks do, and one where they do not. The programs
  have segments that overlap each other, the kernel or a device, start inside a page, are
  empty or too long for their block; one is a PE file. Two of the files want the same
  place, the sections of one overlap each other (so that it passes the search and fails
  at the base found), one is truncated. Of the three bases the first is taken by the
  kernel and the second may be. One stub per image (`MaxStubs`) is enough to have it rolled
  back; the second and third address tried for it may be taken.
* *PELoader.* Three files give chains, diamonds with a shared tail, cycles of two and
  three; the second load meets what the first one cached or left behind.
* *FindFiles.* Five calls are enough to open, close and reopen a FILE with an old handle
  still in use, and to interleave two searches with creations and removals. Patterns of
  three characters have two stars with a character between them, or a star on either side.
  The firmware's structures and the blocks for names are symmetric; four blocks are the
  names of two searches.
* *Profile.* The files at the start are all of up to three lines out of two plain headers,
  an indented one, one with a blank in its name, a pair with and one without a blank in
  its name, a blank line and a comment. Five lines leave room for a second section and a
  second key in either.

### 3.2 Fairness

* *Threads.* The engine keeps executing and `Execute` loops without end, hence weak
  fairness of `CodeHook`, `SwitchThread` and guest steps. Alarms compare the wall clock,
  so each is reached (weak fairness of `SleepElapses` and `WaitElapses`). The quantum
  is measured in wall-clock time while a thread executes; a thread that executes for
  ever without blocking keeps re-enabling it, hence strong fairness of
  `QuantumElapses`. Nothing is assumed of what the guest does: not that it leaves
  sections or sets events. A yield flag that a fault leaves set costs the next thread
  its turn, so `UnblockedRuns` and `TimedWaitsEnd` have the premise that faults and
  returns come to an end.
* *UIEvents.* The firmware's UI thread polls GetEvent in a loop and reads each batch.
  `EnqueueEvent` calls a `WakeThread` that does nothing, so polling is the only thing
  that moves an event on. No message of Windows is assumed to come.
* *LCDWindow.* The host schedules its threads (weak fairness of each thread's steps);
  the user need not close the window, and the guest need not call. The host may refuse
  class and window, and `CallReturns` says nothing of calls after that: the constructor's
  loop has no way out.

### 3.3 Findings

`lcd_window_wait` shows a race in `LCDHandler::GetInstance` (`LCD.h:58`). The instance
is assigned after the constructor returns, and the constructor waits until the window
thread has published its window. If `UpdateWindow`'s WM_PAINT comes before the
constructor polls again, the window thread finds no instance and constructs a second
handler, whose window thread cannot register the window class again and ends. The first
window thread then waits for ever, while `LCD.cpp:170` says "Wait for the window to be
created by the new thread", and the display is frozen. The system calls of the emulator's
thread still return (`CallReturns`), and there is never a second window (`OneWindow`). The
property of the run, `WaitsForNewWindow`, has the premise that the host refuses nothing, so
that the trace is the race and not the endless wait after a refusal (3.4).

`profile_empty` shows that a settings file of no bytes ends the program. For such a file
`_GetPrivateProfileString` never resizes its vector (`system.cpp:609`) and then writes to
`content.back()` (line 614), which an empty vector does not have; line 663 promises to
"write foundValue or default into destination buffer". The program makes such files itself:
`_SetPrivateProfileString` opens the file with `trunc` and writes no line when the only
section was deleted, or when a section or a key of a missing file is deleted. Every later
start of the program that asks for a setting of the file ends in the same way.

### 3.4 Observations without a run

Met while modelling, and plain from the text of the code:

* `Thread.cpp:17-19` forbids SaveState outside of a callback because of a bug of the
  engine that "may save an errant PC value"; `executor.cpp:373` calls it there after an
  error, and line 372 has written the program counter without the Thumb bit before. The
  thread may go on at the wrong place or in the wrong instruction set. The model has these
  outcomes, and the properties of `Contexts` claim of such a thread only that it keeps its
  registers.
* `WindowThreadProc` returns without a word when RegisterClassEx or CreateWindowEx fails
  (`LCD.cpp:223` and 239). The LCD constructor (lines 172-179) then polls for a handle for
  ever, on the emulator's thread. The model has both refusals, and `CallReturns` excepts them.
* A button released outside of the window sends no message, so `is_lbtn_down` stays set and
  the firmware's stroke goes on when the pointer comes back (`LCD.cpp:520`). `PenFollows`
  compares the firmware's pen with what Windows has reported, and does not see this.
* GetEvent throws away all events of a queue that exceeds the batch (`system.cpp:1812`): a
  key whose release was among them stays down for the firmware. `KeysFollow` excepts the
  keys of discarded events.
* When an image inside a cycle fails to load, an image that was cached in the meantime stays
  bound to its freed blocks (`PELoader.cpp:423`). The second part of `ImportsBound` is stated
  for processes without a failed load.
* `PELoader.cpp:217-223` stops a cycle by a placeholder in the table of the load, but
  LoadPEImage (line 433) does not put the image asked for into that table: a cycle through
  that image maps it twice, and the two copies have separate data.
* Sections of an image that were mapped before a truncated one stay mapped
  (`PELoader.cpp:346`; `leftover` in `PELoader`, `leaked` in `Images`). `BlocksOwned`
  shows that nothing else is lost, unless the engine refuses to unmap.
* `Executable::Load` writes through the null block of a segment, or a kernel, of size 0
  (`executable.cpp:26` and 52; state `crashed` in `Images`).
* The request for the clock's registers is not checked (`executor.cpp:320`), unlike those
  of the other devices.
* `Executor::Cleanup` is never called, and has no return statement at its end.
* `__wfopen` calls `fclose` on a null pointer when it cannot create a missing file
  (`system.cpp:275`; state `crashed` in the model).
* A name with a leading backslash is joined with the current directory (`system.cpp:115`,
  against the comment at line 430), and `X:name` with the root of X.
* The comment of `_fwrite` (line 1080) speaks of appending; the seek is commented out.
* `_SetPrivateProfileString` has its calls of `trim` commented out (lines 742, 750, 764), so
  in a file with blanks around a name or before a header, which Get understands, it adds a
  second key or section; Get then goes on returning the first one.
* Without a section `_GetPrivateProfileString` looks at the lines above the first header
  only; its comment (line 622) says "search whole file". `ImplementsStore` leaves such
  questions out. A key with an empty value is answered with the default.
* `lcalloc` does not clear the block (`system.cpp:991`, commented out), and multiplies its
  two arguments modulo 2^32.
* A settings file that exists but cannot be opened for reading is taken for a missing one
  and replaced (`system.cpp:722`); every Set cuts the file to nothing before it writes
  (line 815), so a program that ends in between loses all settings.
* Short names are cut from long ones without a test for a collision (`system.cpp:1308`).
* `AlignUp` of a size within 15 bytes of SIZE_MAX wraps where size_t has 32 bits
  (`MemoryManager.h:67`, Win32 configurations); the model has the x64 ones.
* `_findfirst` on a structure whose search is still open drops the only handle to that
  search (`system.cpp:1458`), which stays in `g_find_contexts` for good.
* `_GetPrivateProfileString` returns 0 and leaves the buffer alone when the file is
  missing; its comment (line 602) says "return default into destination buffer".
  `ImplementsStore` leaves these questions out, too.
* `MemoryManager.h:14` has a comment of 32 MB on a heap of 256 MB.

## 4. What is proved

### 4.1 Threads (`ThreadsProofs`)

For any number of threads, any set of sections, any number of events and any depth of
recursion, under the assumptions named in `Threads` (`MaxThreads` and
`MaxRecursion` positive, `MaxEvents` a natural number, `NoCS` not a section):

| Theorem | States |
|---|---|
| `TypeCorrect` | `Spec => []TypeOK` |
| `MutualExclusion` | `Spec => []OwnerAgreement` |
| `QueuesAgree` | `Spec => []WaitersAgreement` |
| `NoLostWakeup` | `Spec => []EventAgreement` |
| `BlockedStop` | `Spec => []BlockedNeverRuns` |
| `RingIsWhole` | `Spec => []OneRing` |
| `FirstComeFirstServed` | `Spec => NoOvertaking` |

The inductive invariant `IInv` is the conjunction of the type invariant,
`OwnerAgreement`, `WaitersAgreement`, `EventAgreement`, `BlockedNeverRuns` and
`FutureEventsIdle` (events not yet created are untouched). None of the parts is
inductive alone. A hand-over keeps `OwnerAgreement` only because the head of the queue
does not own the section already, which is part of `WaitersAgreement`; `WaitersAgreement`
needs to know that a thread that makes a system call is not in any queue, which is
`BlockedNeverRuns`; and that is preserved by `CodeHook` only because a thread in a queue
has its `_requested` or its event set. The proof has one step for each action and, under
it, one for each conjunct the action can disturb. Four lemmas about queues (`HeadTail`,
`AppendQueue`, `TailQueue`, `RemoveFirstQueue`) say what the sequence operators do to
membership, order and distinctness. The lemmas `NeverGranted` and `NeverSignaled` show that the
branches of `CanRun` for a section granted, or an event set, in the meantime are never
taken. `RingIsWhole` is inductive over `IInv`: only OSCreateThread touches the ring, and a set
closed under `_nextThread` after the insertion gives, without the new thread, one that was
closed before.

### 4.2 The memory map (`ImagesProofs`, first part)

For every page size, set of requests and outcome of the host's and the engine's calls
(assumption `MemoryMapAssumption`: the heap starts on a page and has at least one):

| Theorem | States |
|---|---|
| `TablesAlwaysAgree` | `Spec => []TablesAgree` |
| `Disjointness` | `Spec => []BlocksDisjoint` (and the heap's block stays mapped) |
| `TranslationInverse` | `Spec => []RoundTrip` |

`IInv` adds that host buffers are apart and that the heap's block is mapped. The argument
turns on lemma `RoundUp`: when a block starts on a page and a new aligned address lies
below it, the distance is a multiple of the page size, so a range that ends before the
block still does after it is rounded up to pages. The test with the size before rounding
is therefore enough.

### 4.3 Images (`ImagesProofs`)

For every program, set of PE files, list of candidate bases and of stub addresses
(assumption `ImagesAssumption`: the addresses and sizes they give are among those of
`MemoryMap`):

| Theorem | States |
|---|---|
| `LoadingUsesMemoryMap` | `ImagesSpec => Spec`, the specification of `MemoryMap` |
| `LoadingTablesAgree` | `ImagesSpec => []TablesAgree` |
| `LoadingDisjoint` | `ImagesSpec => []BlocksDisjoint` (and the heap's block stays mapped) |
| `LoadingTranslates` | `ImagesSpec => []RoundTrip` |

The first says that the callers only do what `MemoryMap` is about, and carries the theorems
of 4.2 over to them. It is not immediate: a step is one of `MemoryMap` only if the address
it uses is in `Addresses`, and that address is computed from the innermost image, its
section and its base. `LoaderInv` says that these are in range wherever the code is about
to use them: the stack is not empty inside MapPEIntoMemory, the base of an image is its
preferred one or a candidate, its blocks are addresses of the map, and in the two places
between a mapping and its removal (`untry`, `drop section`) section and candidate are still
the ones of the mapping. There is one lemma for each group of actions (`RequestStep`,
`BeginStep`, `MapSectionStep`, `FreeStep`, `TryStep`, `StubStep`, `ControlStep`,
`ReturnStep`).

The last part of the module is about ownership, again for every program, set of files,
candidate base and failure:

| Theorem | States |
|---|---|
| `EveryBlockOwned` | `ImagesSpec => []BlocksOwned` |
| `LoadedStaysWhole` | `ImagesSpec => []ImageWhole` |

`BlocksOwned` says that the owners' blocks are together the mapped ones. That is not
inductive: when an image gives a block back, the block must not belong to anyone else as
well. `Claims` therefore gives each owner (the heap, start-up, the place that is tried, what
was forgotten, each loaded image, each frame of the stack) its addresses, and `Tidy` says
that the claims are pairwise disjoint and cover exactly the mapped blocks. Every step adds
an address to a claim, takes one away, or moves a claim to another owner (lemmas `TidyGrow`,
`TidyShrink`, `TidyMove`). `OwnInv` adds that the list of an image names no block twice, that
the sections before the one being mapped are in the list, each in a block that is large
enough, that the images below the innermost one are whole, and that the list is empty where
the code has just rolled back. `ImageWhole` follows, since nobody frees what he does not own.

### 4.4 Contexts (`ThreadsProofs`, second part)

For any number of threads, on top of 4.1:

| Theorem | States |
|---|---|
| `ContextsRefineThreads` | `CtxSpec => Spec`, the specification of `Threads` |
| `SwitchInvisible` | `CtxSpec => []ResumesWhereItStopped` |
| `SnapshotsUpToDate` | `CtxSpec => []SnapshotsCurrent` |

The first carries the theorems of 4.1 over. The other two claim all of the context of a
thread that `code_hook` stopped, and the registers of one that a fault stopped; of the latter's
program counter and instruction set they claim nothing until it has executed again. `CtxInv`
adds that the engine still holds the context of a thread that is stopped but not yet switched
away from (`EngineOwn`; with one thread in the ring SwitchThread loads nothing), and that a
thread that is not created yet has its start context (`UnbornFresh`).

### 4.5 The heap (`HeapProofs`)

For every base and size of the heap and every set of requests (assumption `HeapAssumption`):

| Theorem | States |
|---|---|
| `HeapTypes` | `Spec => []TypeOK` |
| `HeapTiled` | `Spec => []Tiling` |
| `EveryGapFound` | `Spec => []FindsEveryGap` |
| `GuestKeepsData` | `Spec => []GuestUnharmed` |
| `DamageStopsRelease` | `Spec => NoReleaseAfterDamage` |
| `RefinesAllocator` | `Spec => ImplementsAllocator` |

`Tiling` alone is preserved by nothing but luck: a release merges the extent with its
neighbours in the free table only, so the free table must be known to hold extents that are
apart *and never touch*; `EveryGapFound` is the same fact seen from a request. The proof works
byte by byte (`FreeAt`, `BlockAt`): `Layout` says that each table is a list of extents that are
apart and that each byte of the heap is in exactly one of the two. Neighbours are found by
least and greatest elements of sets of addresses; that they exist is `LeastNat` and
`GreatestNat`, from the well-foundedness of the natural numbers. `Unharmed` says which words of
memory hold cookies and contents, and each operation is shown to write only words of the
block it is called for. The refinement maps the blocks in use to the table of `Allocator`.

### 4.6 UI events (`UIEventsProofs`)

For every size of the batch and of the queue and every set of points (assumption
`UIEventsAssumption`):

| Theorem | States |
|---|---|
| `BatchFits` | `Spec => []TypeOK` |
| `KeysReported` | `Spec => []KeysFollow` |
| `PenReported` | `Spec => []PenFollows` |

Both properties speak of the batch followed by the vector, so the argument is what two
sequences of events tell one after the other (`PressesConcat`, `KeysConcat`, `PenConcat`): to
read the batch now and the vector later is to read both at once. `UInv` adds that a batch
that has been read is empty, without which GetEvent would overwrite one, and that WndProc's
static flag says whether the pen is down (`PenFlag`): a move with the flag set and the pen up
would put the firmware's pen down.

### 4.7 The window (`LCDWindowProofs`)

For any bound on the number of LCDs constructed:

| Theorem | States |
|---|---|
| `SingleWindow` | `Spec => []OneWindow` |
| `InstanceNeverReplaced` | `Spec => InstanceStable` |
| `HandlerPresent` | no call and no painting goes through a null `_instance` |

The invariant tells three stages apart: no handler made (`NoneMade`), one, and two. The second
is made by the window thread of the first, which finds no instance while the first constructor
still waits for its window. `GetInstance` tests and assigns without a lock, so this overlap does
happen. What keeps the window single is that `RegisterClassEx` refuses the thread that the
second constructor started: no second window is created, and the second constructor waits and
never comes to its assignment (`SecondWindow`). When the host refuses the first window there is
none, and no second constructor either.

### 4.8 The PE loader (`PELoaderProofs`)

For every finite set of files, every import graph, every set of missing, truncated or refused
files and any number of loads:

| Theorem | States |
|---|---|
| `DepthBounded` | `Spec => []TypeOK`, with the bound on the depth of the recursion |
| `LoadedImagesStay` | `Spec => []LoadedStaysMapped` |
| `FailedLoadsCleanUp` | `Spec => []FailureCleansUp` |
| `EveryImportBound` | `Spec => []ImportsBound` |

The properties speak of the tables between two loads; `LInv` says what holds during one. All
frames but the innermost are at an import, and it is that of the frame above (`Shape`). A
name other than that of the image asked for is on the stack at most once, because its image
is in the table of the call before its imports are looked at (`Names`): hence the depth. The
image of a frame is in no table and in no other frame until its imports are done (`Own`), so
that freeing it harms nobody. `Accounted` says who answers for each mapped image. It is hard
at one place: the image asked for is not in the table of the call, so a cycle maps it twice,
and the outer copy replaces the inner one in the process table. The inner copy is then
referred to only by what is bound to it, and `Overtaken` says that by then an image other
than itself is: the load that asked for it has bound it, and has ended or will end before.

### 4.9 Files and searches (`FindFilesProofs`)

For every finite set of drives and names, every set of path names and patterns, any number
of FILE objects, handles, calls, searches and structures, and any length of patterns
(assumptions `FileSystemAssumption`, `FindFilesAssumption`, `WildcardAssumption`):

| Theorem | States |
|---|---|
| `HandlesKeepTheirFiles` | `Spec => []OwnStream` |
| `ChdirMeansWhatItSays` | `Spec => ChdirTakesEffect` |
| `PatternsMeanWhatTheySay` | `Spec => []PatternsFit` |
| `NamesAreOwned` | `Spec => []NamesOwned` |
| `SearchesReturnEachEntryOnce` | `Spec => []EachEntryOnce` |

*Handles.* `OwnStream` is inductive only with the shape of the table: rows are never taken
away, a row is an open FILE or none, and what was written was written through a handle that
has a row (`TableOK`). A handle given out is new, and so is the FILE the host gives for it
among those in use. That an open file stays on the disk needs fs::remove to refuse it.
Host paths have no ".." left in them (`PathsOK`).

*Directories.* `ChdirTakesEffect` compares two normal forms, of the directory with the name
behind it, and of the name behind the directory's normal form. lexically_normal is a
recursive function of the length of the prefix. It is determined by its steps (`Scan`), so
that two paths that agree up to a place have the same values there (`ScanAgree`), a path that is normal already is its own normal form (`NormalPlain`), and one
more name is only appended (`NormalAppend`).

*Patterns.* `wildcard_match` is the function that satisfies the equation of its recursion;
`MatchingUnique` shows that there is one at most, and `MeaningStep` that "the rest of the
text fits the rest of the pattern" satisfies it. What is to be shown for that is one step of
the matcher: of a character (`FitsChar`) and of stars in a row, of which the last one may take
all of the text they stand for (`FitsStar`).

*Searches.* `FindInv` says of each open search that it has returned what the pattern stands
for among the entries it has passed (`SearchOK`), that the blocks in use are the names of the
open searches and no two of them are the same (`BlocksOK`), and that no two structures hold
the same handle and each has the pointers of its search, unless the search has no entry
(`HoldersOK`). The last part needs handles to be new: all that structures hold are below
`g_next_find_handle`, also those of searches that are closed.

### 4.10 Profiles (`ProfileProofs`)

For files of any length and content, and any sets of sections, keys and values
(assumption `ProfileAssumption`: the names the firmware uses are not empty and have no
blanks around them, trimming twice is trimming once):

| Theorem | States |
|---|---|
| `CallsChangeOneSection` | `Spec => OneSectionChanges` |
| `FilesAreTables` | `Spec => ImplementsStore`, refinement of `ProfileStore` |

Each call of Set replaces one stretch of lines by another (`Spliced`). A line outside of the
stretch moves (`Moved`), keeps its order among the others, and keeps its section if the
stretch has no headers or the line behind it is one (`Clean`, `MovedSection`); then a setting
none of whose lines is in the stretch reads as before (`LookupKept`). It remains to show of
each of the five edits that it is clean and touches lines of the section only
(`ReplaceFacts`, `InsertFacts`, `SectionAddedFacts`, `RemoveFacts`, `DropFacts`); this is
where Set's reading of the section has to agree with Get's. An indented header, which Set
does not see, breaks it.

For the refinement the invariant is that a file which starts out tidy stays tidy
(`ProfileInv`, with `TidyKept`). In a tidy file both handlers find the same lines of a key
(`TidyKeyLines`), and at most one (`TidyFits`). A value that was set is the value read
because after the edit the key has exactly one line, the new one: the old one was in the
stretch, and a second one would not have been tidy. That is why the last line that fits,
which Set takes, is the first, which Get takes. A question without a section or a file is a
step `Unasked` of the table (`UnaskedMatches`), about which nothing is claimed.

### 4.11 Only model-checked

Liveness is beyond the prover and stays with TLC: `UnblockedRuns`, `WaiterGetsSection`,
`TimedWaitsEnd`, `KeysReachFirmware`, `CallReturns` and `BrightnessShown`. All other
properties of the passing runs are proved. Where a proof is about what a recursive function
computes for every input, the induction is made on a set of numbers: if a set has
0 and with each number the next, it has all of them, for otherwise there were a least one
outside (`LeastNumber`, `UpTo` in `FindFilesProofs`).

## 5. What is not modelled

* Device handles, program and module queries, battery, RTC: they return constants or read
  tables that never change.
* printf and the debug console: text without state.
* Diagnostics of a fault (`executor.cpp` 205-305): printing.
* The vendored headers and libraries (`src/include`, `src/lib`), which are most of the
  lines of the repository: declarations of Unicorn, Capstone and ELFIO, not code of this
  program.
* Pixels, colours, positions within files, short names, time stamps, relocation entries
  and export directories: data that no property tells apart.
* The destructor of MemoryManager, VirtualFree and GetChunk, `_CloseFile`, `_ReadFile`,
  `_WriteFile` and `_SeekFile`: nothing calls or registers them.
* A second handler that allocates from the heap on the window thread while the emulator's
  thread does (`LCD.cpp:111`): a consequence of the race in 3.3, and undefined behaviour of
  two unsynchronised maps.

## 6. Plan

The order follows importance: scheduler and locks first, then memory, input and display,
loading, files, settings. All of the system that keeps state is modelled, and all safety
properties, action properties and refinements that the passing runs check are proved.
What is left for later changes of the code:

1. `_SetPrivateProfileString` with its calls of `trim` in place: `Tidy` could then allow
   blanks around names and indented headers, and the refinement would cover more files.
2. A lock around `GetInstance`: `lcd_window_wait` becomes a run that passes.
3. Settings written to a second file that replaces the first one: a crash between cutting the
   file and writing it (`system.cpp:815`) could then be a step of `Profile`.

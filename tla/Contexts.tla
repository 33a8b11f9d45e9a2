------------------------------- MODULE Contexts -------------------------------
(***************************************************************************)
(* The CPU contexts of the guest threads: what ThreadState saves and loads *)
(* and what the engine holds while a thread runs.  The module adds them to *)
(* the scheduler of Threads, every step of which it takes together with    *)
(* what that step does to the engine.                                      *)
(*                                                                         *)
(* A context is abstracted to stamps: whose execution it comes from, and   *)
(* from which point of that execution.  The program counter, the sixteen   *)
(* batch registers and the rest of the engine state (flags, FPU, banked    *)
(* registers) travel separately in the code and are stamped separately.    *)
(***************************************************************************)
EXTENDS Threads

CONSTANT MaxPoint   \* bound: points of a thread's execution that are told apart

ASSUME ContextsAssumption == MaxPoint \in Nat \ {0}

VARIABLES
  eng,       \* the engine's registers
  saved,     \* Thread::_state: _pc, the other batch registers, and _state
  isNew,     \* ThreadState::_isNewThread
  point,     \* auxiliary: the point each thread's execution has reached
  returned,  \* auxiliary: the start routine of the thread has returned
  faulted    \* auxiliary: the thread was stopped by a fault and has not run since

ctxVars == <<eng, saved, isNew, point, returned, faulted>>
allVars == <<vars, ctxVars>>

\* Points are counted up and reused; 0 is kept for the start of the thread.
After(n) == IF n = MaxPoint THEN 1 ELSE n + 1

\* The stamp of a value that is nobody's: where no thread has stopped.
Errant == <<-1, 0>>

Stamp    == (Tids \cup {-1}) \X (0 .. MaxPoint)
Context  == [pc : Stamp, regs : Stamp, rest : Stamp]

At(t, n) == [pc |-> <<t, n>>, regs |-> <<t, n>>, rest |-> <<t, n>>]

CtxInit ==
  /\ Init
  /\ eng = At(0, 0)
  /\ saved = [t \in Tids |-> At(t, 0)]
  /\ isNew = [t \in Tids |-> TRUE]
  /\ point = [t \in Tids |-> 0]
  /\ returned = [t \in Tids |-> FALSE]
  /\ faulted = [t \in Tids |-> FALSE]

\* The current thread executes up to its next point.  From wherever it was
\* resumed after a fault, what it does from now on is its execution.
Advance ==
  /\ eng' = At(current, After(point[current]))
  /\ point' = [point EXCEPT ![current] = After(@)]
  /\ faulted' = [faulted EXCEPT ![current] = FALSE]

SaveState(t, context) ==
  /\ saved' = [saved EXCEPT ![t] = context]
  /\ isNew' = [isNew EXCEPT ![t] = FALSE]

\* Faulty: a new thread is not told apart, nor is the rest ever restored.
LoadedBatchOnly(t) ==
  [pc |-> saved[t].pc, regs |-> saved[t].regs, rest |-> eng.rest]

\* What LoadState leaves in the engine: a new thread has no uc_context yet, so
\* only the batch registers are written.
Loaded(t) ==
  [pc |-> saved[t].pc, regs |-> saved[t].regs,
   rest |-> IF isNew[t] THEN eng.rest ELSE saved[t].rest]

CtxGuestStep ==
  /\ \E t \in Tids : GuestStep(t)
  /\ Advance
  /\ UNCHANGED <<saved, isNew, returned>>

\* A fault ends uc_emu_start and Execute moves the program counter past the faulting
\* instruction.  It reads it outside of a callback, where the engine may report an
\* errant one, and writes it back without the Thumb bit, which leaves a thread that
\* executed Thumb code in ARM state.  So the skip goes right, or misses the place, or
\* loses the instruction set, too.  A fetch that faults counts as a point of the
\* execution: the thread owns whatever engine state it was started with.
SkipFault ==
  LET here == <<current, After(point[current])>>
  IN  /\ point' = [point EXCEPT ![current] = After(@)]
      /\ faulted' = [faulted EXCEPT ![current] = TRUE]
      /\ \/ eng' = [pc |-> here, regs |-> here, rest |-> here]
         \/ eng' = [pc |-> Errant, regs |-> here, rest |-> here]
         \/ eng' = [pc |-> Errant, regs |-> here, rest |-> Errant]

\* Faulty: the state is not saved after an error.
CtxEmuErrorUnsaved ==
  /\ EmuError
  /\ SkipFault
  /\ UNCHANGED <<saved, isNew, returned>>

\* Execute saves what the skip has left in the engine.
CtxEmuError ==
  /\ EmuError
  /\ SkipFault
  /\ SaveState(current, eng')
  /\ UNCHANGED returned

\* The engine ends at address 0 without an error: nothing is saved.
CtxThreadReturn ==
  /\ ThreadReturn
  /\ Advance
  /\ returned' = [returned EXCEPT ![current] = TRUE]
  /\ UNCHANGED <<saved, isNew>>

CtxCodeHook ==
  /\ CodeHook
  /\ IF phase' = "stopped" THEN SaveState(current, eng) ELSE UNCHANGED <<saved, isNew>>
  /\ UNCHANGED <<eng, point, returned, faulted>>

\* SwitchThread loads the next thread unless it is the current one, and the
\* next uc_emu_start begins at that thread's saved program counter.
CtxSwitchThread ==
  /\ SwitchThread
  /\ eng' = [(IF next[current] # current THEN Loaded(next[current]) ELSE eng)
               EXCEPT !.pc = saved[next[current]].pc]
  /\ UNCHANGED <<saved, isNew, point, returned, faulted>>

CtxClock ==
  /\ QuantumElapses \/ \E t \in Tids : SleepElapses(t) \/ WaitElapses(t)
  /\ UNCHANGED ctxVars

CtxNext ==
  \/ CtxGuestStep
  \/ CtxEmuError
  \/ CtxThreadReturn
  \/ CtxCodeHook
  \/ CtxSwitchThread
  \/ CtxClock

CtxSpec == CtxInit /\ [][CtxNext]_allVars

-----------------------------------------------------------------------------

\* A context switch is invisible to the threads: whenever a thread is about to
\* run or runs, the registers in the engine are the ones it had when it last ran.
\* So are the program counter, and the rest of the engine state unless it has not
\* run at all yet, when it was not a fault that stopped it: after a fault Execute
\* may resume it elsewhere.  (A thread whose start routine has returned is excepted:
\* it is started again from its last snapshot.)  code_hook, Execute, SwitchThread,
\* SaveState and LoadState share this duty.
ResumesWhereItStopped ==
  (phase \in {"hook", "guest"} /\ ~returned[current]) =>
    /\ eng.regs = <<current, point[current]>>
    /\ ~faulted[current] =>
         /\ eng.pc = <<current, point[current]>>
         /\ point[current] # 0 => eng.rest = <<current, point[current]>>

\* The snapshot of a thread that is not running is up to date, and complete unless
\* Execute took it after a fault: such a snapshot has the registers of the thread,
\* but perhaps another program counter or instruction set.
SnapshotsCurrent ==
  \A t \in Live :
    ((t # current \/ phase \in {"stopped", "failed"}) /\ ~returned[t]) =>
      /\ saved[t].regs = <<t, point[t]>>
      /\ isNew[t] => point[t] = 0
      /\ ~faulted[t] =>
           /\ saved[t].pc = <<t, point[t]>>
           /\ ~isNew[t] /\ point[t] # 0 => saved[t].rest = <<t, point[t]>>

=============================================================================

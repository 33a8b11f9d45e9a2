------------------------------- MODULE Threads -------------------------------
(***************************************************************************)
(* The guest threads of the emulator: the ring of Thread objects, the      *)
(* critical sections and events they block on (Thread.cpp), the system     *)
(* services that reach them (system.cpp) and the loop that runs them one   *)
(* at a time on the CPU engine (code_hook and Executor::Execute).          *)
(*                                                                         *)
(* One host thread runs everything here, so each handler is one step.  The *)
(* engine is in one of four phases:                                        *)
(*   "hook"    a basic block of the current thread is about to start and   *)
(*             code_hook will be called;                                   *)
(*   "guest"   the block runs; it may end in a system call;                *)
(*   "stopped" uc_emu_start has returned without an error,                 *)
(*   "failed"  or with one (m_err); SwitchThread is next.                  *)
(* Wall-clock time is abstracted to three alarms: the quantum of the       *)
(* current thread, the end of a sleep and the timeout of an event wait.    *)
(***************************************************************************)
EXTENDS Integers, Sequences, SequencesExt

CONSTANTS
  MaxThreads,        \* bound: Thread objects the guest creates, main included
  CriticalSections,  \* guest addresses used as critical sections
  MaxEvents,         \* bound: events the guest creates
  MaxRecursion,      \* bound: nested entries of one critical section
  NoCS               \* the null CriticalSection*

ASSUME ThreadsAssumption ==
  /\ MaxThreads \in Nat \ {0}
  /\ MaxEvents \in Nat
  /\ MaxRecursion \in Nat \ {0}
  /\ NoCS \notin CriticalSections

VARIABLES
  nthreads,      \* Thread::GenerateUniqueId has handed out 0 .. nthreads-1
  next,          \* Thread::_nextThread
  current,       \* StateManager::_currentThread
  phase,         \* where the engine loop is
  yielding,      \* StateManager::yielding
  elapsed,       \* the current quantum, counted from lastUpdate, is used up
  cs,            \* g_cs: the CriticalSection object of each guest address
  requested,     \* Thread::_requested
  owned,         \* Thread::_ownedCriticalSections (0: not in the map)
  nevents,       \* g_next_event_id - 1
  ev,            \* g_events
  waitingEvent,  \* Thread::_waitingEvent (0: nullptr)
  waitEnd,       \* Thread::_waitTimeoutEnd, _waitingInfinite
  sleepEnd       \* Thread::_isSleeping, _sleepEnd

schedVars == <<nthreads, next, current, phase, yielding, elapsed>>
csVars    == <<cs, requested, owned>>
eventVars == <<nevents, ev, waitingEvent, waitEnd>>
vars      == <<schedVars, csVars, eventVars, sleepEnd>>

Tids     == 0 .. MaxThreads - 1
EventIds == 1 .. MaxEvents
Live     == 0 .. nthreads - 1
NoOwner  == -1

\* An alarm: not set, set and in the future, set and reached; a wait may also
\* have no timeout at all.
Alarm     == {"off", "pending", "reached"}
WaitAlarm == Alarm \cup {"infinite"}

FreshCS == [init |-> TRUE, ownerHandle |-> NoOwner, recursionCount |-> 0,
            waiters |-> << >>, contentionCount |-> 0]

\* The guarded decrement both queues use for their contention counter.
Dec(n) == IF n > 0 THEN n - 1 ELSE n

-----------------------------------------------------------------------------
(* Execute() has created and loaded the main thread and starts the engine. *)

Init ==
  /\ nthreads = 1
  /\ next = [t \in Tids |-> 0]
  /\ current = 0
  /\ phase = "hook"
  /\ yielding = FALSE
  /\ elapsed = FALSE
  /\ cs = [c \in CriticalSections |-> [FreshCS EXCEPT !.init = FALSE]]
  /\ requested = [t \in Tids |-> NoCS]
  /\ owned = [t \in Tids |-> [c \in CriticalSections |-> 0]]
  /\ nevents = 0
  /\ ev = [e \in EventIds |-> [manualReset |-> FALSE, signaled |-> FALSE,
                               waiters |-> << >>, contentionCount |-> 0]]
  /\ waitingEvent = [t \in Tids |-> 0]
  /\ waitEnd = [t \in Tids |-> "off"]
  /\ sleepEnd = [t \in Tids |-> "off"]

-----------------------------------------------------------------------------
(* A system call of the current thread: interrupt_hook dispatches it and   *)
(* returns to the caller, where a new block begins.                        *)

Svc(t) ==
  /\ phase = "guest"
  /\ t = current
  /\ phase' = "hook"

\* The guest initialises a critical section nobody holds or waits for; the
\* handler would drop the old object whatever its state.
OSInitCriticalSection(t, c) ==
  /\ Svc(t)
  /\ cs[c].ownerHandle = NoOwner /\ cs[c].waiters = << >>
  /\ cs' = [cs EXCEPT ![c] = FreshCS]
  /\ UNCHANGED <<nthreads, next, current, yielding, elapsed, requested, owned,
                 eventVars, sleepEnd>>

Reenter(t, c) ==
  /\ cs[c].init /\ cs[c].ownerHandle = t
  /\ owned[t][c] < MaxRecursion
  /\ cs' = [cs EXCEPT ![c].recursionCount = @ + 1]
  /\ owned' = [owned EXCEPT ![t][c] = @ + 1]
  /\ UNCHANGED requested

Acquirable(c) == cs[c].ownerHandle = NoOwner /\ cs[c].waiters = << >>

Acquire(t, c) ==
  /\ cs[c].init /\ Acquirable(c)
  /\ cs' = [cs EXCEPT ![c].ownerHandle = t, ![c].recursionCount = 1]
  /\ owned' = [owned EXCEPT ![t][c] = 1]
  /\ UNCHANGED requested

MustWait(t, c) == cs[c].init /\ cs[c].ownerHandle # t /\ ~Acquirable(c)

\* Faulty: the newcomer is queued in front of the threads that already wait.
EnqueueInFront(t, c) ==
  /\ MustWait(t, c) /\ requested[t] # c
  /\ cs' = [cs EXCEPT ![c].waiters = <<t>> \o @, ![c].contentionCount = @ + 1]
  /\ requested' = [requested EXCEPT ![t] = c]
  /\ UNCHANGED owned

Enqueue(t, c) ==
  /\ MustWait(t, c) /\ requested[t] # c
  /\ cs' = [cs EXCEPT ![c].waiters = Append(@, t), ![c].contentionCount = @ + 1]
  /\ requested' = [requested EXCEPT ![t] = c]
  /\ UNCHANGED owned

\* No CriticalSection object at that address, or the thread is queued already.
EnterIgnored(t, c) ==
  /\ ~cs[c].init \/ (MustWait(t, c) /\ requested[t] = c)
  /\ UNCHANGED csVars

OSEnterCriticalSection(t, c) ==
  /\ Svc(t)
  /\ Reenter(t, c) \/ Acquire(t, c) \/ Enqueue(t, c) \/ EnterIgnored(t, c)
  /\ UNCHANGED <<nthreads, next, current, yielding, elapsed, eventVars, sleepEnd>>

\* Faulty: the new owner's _ownedCriticalSections is not updated.
HandOverUnrecorded(t, c) ==
  LET n == Head(cs[c].waiters) IN
  /\ owned[t][c] = 1 /\ cs[c].waiters # << >>
  /\ cs' = [cs EXCEPT ![c].waiters = Tail(@), ![c].contentionCount = Dec(@),
                      ![c].ownerHandle = n, ![c].recursionCount = 1]
  /\ requested' = [requested EXCEPT ![n] = NoCS]
  /\ owned' = [owned EXCEPT ![t][c] = 0]

\* Faulty: the new owner's _requested is not cleared.
HandOverStillRequested(t, c) ==
  LET n == Head(cs[c].waiters) IN
  /\ owned[t][c] = 1 /\ cs[c].waiters # << >>
  /\ cs' = [cs EXCEPT ![c].waiters = Tail(@), ![c].contentionCount = Dec(@),
                      ![c].ownerHandle = n, ![c].recursionCount = 1]
  /\ owned' = [owned EXCEPT ![t][c] = 0, ![n][c] = 1]
  /\ UNCHANGED requested

\* Faulty: the section passes to the thread that came last.
HandOverToLast(t, c) ==
  LET n == Last(cs[c].waiters) IN
  /\ owned[t][c] = 1 /\ cs[c].waiters # << >>
  /\ cs' = [cs EXCEPT ![c].waiters = Front(@), ![c].contentionCount = Dec(@),
                      ![c].ownerHandle = n, ![c].recursionCount = 1]
  /\ requested' = [requested EXCEPT ![n] = NoCS]
  /\ owned' = [owned EXCEPT ![t][c] = 0, ![n][c] = 1]

\* The last nested entry is left: the section passes to the first waiter.
HandOver(t, c) ==
  LET n == Head(cs[c].waiters) IN
  /\ owned[t][c] = 1 /\ cs[c].waiters # << >>
  /\ cs' = [cs EXCEPT ![c].waiters = Tail(@), ![c].contentionCount = Dec(@),
                      ![c].ownerHandle = n, ![c].recursionCount = 1]
  /\ requested' = [requested EXCEPT ![n] = NoCS]
  /\ owned' = [owned EXCEPT ![t][c] = 0, ![n][c] = 1]

Release(t, c) ==
  /\ owned[t][c] = 1 /\ cs[c].waiters = << >>
  /\ cs' = [cs EXCEPT ![c].ownerHandle = NoOwner, ![c].recursionCount = 0]
  /\ owned' = [owned EXCEPT ![t][c] = 0]
  /\ UNCHANGED requested

LeaveOnce(t, c) ==
  /\ owned[t][c] > 1
  /\ cs' = [cs EXCEPT ![c].recursionCount = Dec(@)]
  /\ owned' = [owned EXCEPT ![t][c] = @ - 1]
  /\ UNCHANGED requested

\* Not in _ownedCriticalSections: a release build returns (a debug build traps).
LeaveIgnored(t, c) ==
  /\ ~cs[c].init \/ owned[t][c] = 0
  /\ UNCHANGED csVars

OSLeaveCriticalSection(t, c) ==
  /\ Svc(t)
  /\ \/ cs[c].init /\ (HandOver(t, c) \/ Release(t, c) \/ LeaveOnce(t, c))
     \/ LeaveIgnored(t, c)
  /\ UNCHANGED <<nthreads, next, current, yielding, elapsed, eventVars, sleepEnd>>

OSCreateEvent(t, manual, initial) ==
  /\ Svc(t)
  /\ nevents < MaxEvents
  /\ nevents' = nevents + 1
  /\ ev' = [ev EXCEPT ![nevents + 1] = [manualReset |-> manual, signaled |-> initial,
                                        waiters |-> << >>, contentionCount |-> 0]]
  /\ UNCHANGED <<nthreads, next, current, yielding, elapsed, csVars,
                 waitingEvent, waitEnd, sleepEnd>>

\* Clears _waitingEvent (and the timeout that goes with it) of a set of threads.
StopWaiting(S) ==
  /\ waitingEvent' = [t \in Tids |-> IF t \in S THEN 0 ELSE waitingEvent[t]]
  /\ waitEnd' = [t \in Tids |-> IF t \in S THEN "off" ELSE waitEnd[t]]

\* A manual-reset event stays signaled and wakes every waiter.
SetManual(e) ==
  /\ ev[e].manualReset
  /\ ev' = [ev EXCEPT ![e].signaled = TRUE, ![e].waiters = << >>,
                      ![e].contentionCount = IF @ > Len(ev[e].waiters)
                                             THEN @ - Len(ev[e].waiters) ELSE 0]
  /\ StopWaiting(ToSet(ev[e].waiters))

\* An auto-reset event is consumed by its first waiter ...
SetAutoWakes(e) ==
  /\ ~ev[e].manualReset /\ ev[e].waiters # << >>
  /\ ev' = [ev EXCEPT ![e].signaled = FALSE, ![e].waiters = Tail(@),
                      ![e].contentionCount = Dec(@)]
  /\ StopWaiting({Head(ev[e].waiters)})

\* ... or stays signaled for the next WaitForEvent.
SetAutoLatches(e) ==
  /\ ~ev[e].manualReset /\ ev[e].waiters = << >>
  /\ ev' = [ev EXCEPT ![e].signaled = TRUE]
  /\ UNCHANGED <<waitingEvent, waitEnd>>

OSSetEvent(t, e) ==
  /\ Svc(t)
  /\ e \in 1 .. nevents
  /\ SetManual(e) \/ SetAutoWakes(e) \/ SetAutoLatches(e)
  /\ UNCHANGED <<nthreads, next, current, yielding, elapsed, csVars, nevents, sleepEnd>>

\* WaitForEvent of a signaled event returns at once, consuming an auto-reset one.
WaitSatisfied(e) ==
  /\ ev[e].signaled
  /\ ev' = [ev EXCEPT ![e].signaled = ev[e].manualReset]
  /\ UNCHANGED <<waitingEvent, waitEnd>>

\* A zero timeout polls; a thread already queued is not queued again.
WaitReturns(t, e, timeout) ==
  /\ ~ev[e].signaled
  /\ timeout = "zero" \/ waitingEvent[t] = e
  /\ UNCHANGED <<ev, waitingEvent, waitEnd>>

WaitEnqueue(t, e, timeout) ==
  /\ ~ev[e].signaled /\ timeout # "zero" /\ waitingEvent[t] # e
  /\ ev' = [ev EXCEPT ![e].waiters = Append(@, t), ![e].contentionCount = @ + 1]
  /\ waitingEvent' = [waitingEvent EXCEPT ![t] = e]
  /\ waitEnd' = [waitEnd EXCEPT ![t] = IF timeout = "negative" THEN "infinite" ELSE "pending"]

OSWaitForEvent(t, e, timeout) ==
  /\ Svc(t)
  /\ e \in 1 .. nevents
  /\ WaitSatisfied(e) \/ WaitReturns(t, e, timeout) \/ WaitEnqueue(t, e, timeout)
  /\ UNCHANGED <<nthreads, next, current, yielding, elapsed, csVars, nevents, sleepEnd>>

OSSleep(t) ==
  /\ Svc(t)
  /\ sleepEnd' = [sleepEnd EXCEPT ![t] = "pending"]
  /\ UNCHANGED <<nthreads, next, current, yielding, elapsed, csVars, eventVars>>

\* Faulty: the new thread is linked to itself instead of to its successor.
OSCreateThreadUnlinked(t) ==
  /\ Svc(t)
  /\ nthreads < MaxThreads
  /\ nthreads' = nthreads + 1
  /\ next' = [next EXCEPT ![nthreads] = nthreads, ![t] = nthreads]
  /\ UNCHANGED <<current, yielding, elapsed, csVars, eventVars, sleepEnd>>

\* The new thread enters the ring right after the running one.
OSCreateThread(t) ==
  /\ Svc(t)
  /\ nthreads < MaxThreads
  /\ nthreads' = nthreads + 1
  /\ next' = [next EXCEPT ![nthreads] = next[t], ![t] = nthreads]
  /\ UNCHANGED <<current, yielding, elapsed, csVars, eventVars, sleepEnd>>

\* CurrentThreadYield, called by BatteryLowCheck and by GetEvent on an empty queue.
Yield(t) ==
  /\ Svc(t)
  /\ yielding' = TRUE
  /\ UNCHANGED <<nthreads, next, current, elapsed, csVars, eventVars, sleepEnd>>

\* A block that ends in a plain branch, or in any other system call.
EndBlock(t) ==
  /\ Svc(t)
  /\ UNCHANGED <<nthreads, next, current, yielding, elapsed, csVars, eventVars, sleepEnd>>

\* uc_emu_start fails (a fetch fault is met before the hook is called, any other
\* one inside the block); Execute skips the instruction and goes on.
EmuError ==
  /\ phase \in {"hook", "guest"}
  /\ phase' = "failed"
  /\ UNCHANGED <<nthreads, next, current, yielding, elapsed, csVars, eventVars, sleepEnd>>

\* The thread's start routine returns to address 0, where uc_emu_start ends.
ThreadReturn ==
  /\ phase = "guest"
  /\ phase' = "stopped"
  /\ UNCHANGED <<nthreads, next, current, yielding, elapsed, csVars, eventVars, sleepEnd>>

-----------------------------------------------------------------------------
(* CanRun() answers whether a thread may run and tidies up as it goes.     *)

Asleep(t)  == sleepEnd[t] = "pending"
Granted(t) == requested[t] # NoCS /\ cs[requested[t]].ownerHandle = t
Signaled(t) == waitingEvent[t] # 0 /\ ev[waitingEvent[t]].signaled
\* Faulty: the timeout is never looked at.
TimedOutUnchecked(t) == waitingEvent[t] # 0 /\ waitEnd[t] = "off"

TimedOut(t) == waitingEvent[t] # 0 /\ waitEnd[t] = "reached"

\* Faulty: event waits are not looked at.
CanRunIgnoringEvents(t) ==
  /\ ~Asleep(t)
  /\ requested[t] # NoCS => Granted(t)

CanRun(t) ==
  /\ ~Asleep(t)
  /\ IF requested[t] # NoCS THEN Granted(t)
     ELSE waitingEvent[t] = 0 \/ Signaled(t) \/ TimedOut(t)

\* Faulty: a timed-out thread stays in the event's queue.
CanRunEffectStillQueued(t) ==
  LET pastSleep == ~Asleep(t)
      takesCS   == pastSleep /\ Granted(t)
      wakes     == pastSleep /\ requested[t] = NoCS /\ (Signaled(t) \/ TimedOut(t))
      c         == requested[t]
  IN
  /\ sleepEnd' = IF pastSleep THEN [sleepEnd EXCEPT ![t] = "off"] ELSE sleepEnd
  /\ requested' = IF takesCS THEN [requested EXCEPT ![t] = NoCS] ELSE requested
  /\ owned' = IF takesCS /\ owned[t][c] = 0 THEN [owned EXCEPT ![t][c] = 1] ELSE owned
  /\ IF wakes THEN StopWaiting({t}) /\ UNCHANGED ev
              ELSE UNCHANGED <<ev, waitingEvent, waitEnd>>

CanRunEffect(t) ==
  LET pastSleep == ~Asleep(t)
      takesCS   == pastSleep /\ Granted(t)
      wakes     == pastSleep /\ requested[t] = NoCS /\ (Signaled(t) \/ TimedOut(t))
      c         == requested[t]
      e         == waitingEvent[t]
      q         == RemoveFirst(ev[e].waiters, t)
  IN
  /\ sleepEnd' = IF pastSleep THEN [sleepEnd EXCEPT ![t] = "off"] ELSE sleepEnd
  /\ requested' = IF takesCS THEN [requested EXCEPT ![t] = NoCS] ELSE requested
  /\ owned' = IF takesCS /\ owned[t][c] = 0 THEN [owned EXCEPT ![t][c] = 1] ELSE owned
  /\ IF wakes
     THEN /\ ev' = [ev EXCEPT ![e].waiters = q,
                              ![e].contentionCount = IF q = ev[e].waiters THEN @ ELSE Dec(@),
                              ![e].signaled = @ /\ ev[e].manualReset]
          /\ StopWaiting({t})
     ELSE UNCHANGED <<ev, waitingEvent, waitEnd>>

\* Faulty: the yield request is not cleared.
CodeHookKeepsYielding ==
  /\ phase = "hook"
  /\ CanRunEffect(current)
  /\ IF ~yielding /\ ~elapsed /\ CanRun(current)
     THEN phase' = "guest" /\ UNCHANGED elapsed
     ELSE phase' = "stopped" /\ elapsed' = FALSE
  /\ UNCHANGED <<nthreads, next, current, yielding, cs, nevents>>

\* code_hook: let the block run, or stop the engine and save the thread.
CodeHook ==
  /\ phase = "hook"
  /\ CanRunEffect(current)
  /\ IF ~yielding /\ ~elapsed /\ CanRun(current)
     THEN phase' = "guest" /\ UNCHANGED elapsed
     ELSE phase' = "stopped" /\ elapsed' = FALSE
  /\ yielding' = FALSE
  /\ UNCHANGED <<nthreads, next, current, cs, nevents>>

SwitchThread ==
  /\ phase \in {"stopped", "failed"}
  /\ current' = next[current]
  /\ phase' = "hook"
  /\ UNCHANGED <<nthreads, next, yielding, elapsed, csVars, eventVars, sleepEnd>>

-----------------------------------------------------------------------------
(* The clock.  A quantum lasts at least 145 ms, far longer than the host   *)
(* needs from SwitchThread to the next code_hook, so it runs out while     *)
(* guest code runs.                                                        *)

QuantumElapses ==
  /\ phase = "guest" /\ ~elapsed
  /\ elapsed' = TRUE
  /\ UNCHANGED <<nthreads, next, current, phase, yielding, csVars, eventVars, sleepEnd>>

SleepElapses(t) ==
  /\ sleepEnd[t] = "pending"
  /\ sleepEnd' = [sleepEnd EXCEPT ![t] = "reached"]
  /\ UNCHANGED <<schedVars, csVars, eventVars>>

WaitElapses(t) ==
  /\ waitEnd[t] = "pending"
  /\ waitEnd' = [waitEnd EXCEPT ![t] = "reached"]
  /\ UNCHANGED <<schedVars, csVars, nevents, ev, waitingEvent, sleepEnd>>

-----------------------------------------------------------------------------

GuestStep(t) ==
  \/ \E c \in CriticalSections :
       \/ OSInitCriticalSection(t, c)
       \/ OSEnterCriticalSection(t, c)
       \/ OSLeaveCriticalSection(t, c)
  \/ \E manual, initial \in BOOLEAN : OSCreateEvent(t, manual, initial)
  \/ \E e \in EventIds :
       \/ OSSetEvent(t, e)
       \/ \E timeout \in {"zero", "positive", "negative"} : OSWaitForEvent(t, e, timeout)
  \/ OSSleep(t)
  \/ OSCreateThread(t)
  \/ Yield(t)
  \/ EndBlock(t)

Next ==
  \/ \E t \in Tids : GuestStep(t)
  \/ EmuError
  \/ ThreadReturn
  \/ CodeHook
  \/ SwitchThread
  \/ QuantumElapses
  \/ \E t \in Tids : SleepElapses(t) \/ WaitElapses(t)

Spec == Init /\ [][Next]_vars

\* The engine keeps executing, the loop keeps switching, and time passes: the
\* alarms are reached, and a quantum that is spent block by block runs out.
Fairness ==
  /\ WF_vars(CodeHook)
  /\ WF_vars(SwitchThread)
  /\ WF_vars(\E t \in Tids : GuestStep(t))
  /\ SF_vars(QuantumElapses)
  /\ \A t \in Tids : WF_vars(SleepElapses(t)) /\ WF_vars(WaitElapses(t))

FairSpec == Spec /\ Fairness

-----------------------------------------------------------------------------
(* Safety.                                                                 *)

CSRecord == [init : BOOLEAN, ownerHandle : Tids \cup {NoOwner}, recursionCount : Nat,
             waiters : Seq(Tids), contentionCount : Nat]

EventRecord == [manualReset : BOOLEAN, signaled : BOOLEAN,
                waiters : Seq(Tids), contentionCount : Nat]

\* Every field of Thread, CriticalSection, Event and StateManager keeps its
\* type; only threads that exist are in the ring.
TypeOK ==
  /\ nthreads \in 1 .. MaxThreads
  /\ next \in [Tids -> Live]
  /\ current \in Live
  /\ phase \in {"hook", "guest", "stopped", "failed"}
  /\ yielding \in BOOLEAN
  /\ elapsed \in BOOLEAN
  /\ cs \in [CriticalSections -> CSRecord]
  /\ requested \in [Tids -> CriticalSections \cup {NoCS}]
  /\ owned \in [Tids -> [CriticalSections -> Nat]]
  /\ nevents \in 0 .. MaxEvents
  /\ ev \in [EventIds -> EventRecord]
  /\ waitingEvent \in [Tids -> 0 .. MaxEvents]
  /\ waitEnd \in [Tids -> WaitAlarm]
  /\ sleepEnd \in [Tids -> Alarm]

OwnerAgrees(c) ==
  /\ \A t \in Tids : owned[t][c] > 0 <=> cs[c].ownerHandle = t
  /\ cs[c].ownerHandle = NoOwner => cs[c].recursionCount = 0 /\ cs[c].waiters = << >>
  /\ cs[c].ownerHandle # NoOwner => cs[c].recursionCount = owned[cs[c].ownerHandle][c]

\* Mutual exclusion as the two sides of the code record it: the section's
\* ownerHandle and recursionCount always agree with the one thread that has the
\* section in its _ownedCriticalSections, and a section without owner has no
\* waiters (EnterCriticalSection, LeaveCriticalSection, Thread.cpp:63-155).
OwnerAgreement == \A c \in CriticalSections : OwnerAgrees(c)

Has(q, t) == \E i \in 1 .. Len(q) : q[i] = t

Distinct(q) == \A i, j \in 1 .. Len(q) : q[i] = q[j] => i = j

WaitersAgree(c) ==
  /\ Distinct(cs[c].waiters)
  /\ cs[c].contentionCount = Len(cs[c].waiters)
  /\ \A t \in Tids : requested[t] = c <=> Has(cs[c].waiters, t)
  /\ ~Has(cs[c].waiters, cs[c].ownerHandle)

\* The waiters of a critical section are exactly the threads whose _requested
\* points to it, each queued once, and the owner is not among them: a hand-over
\* in LeaveCriticalSection never leaves a thread blocked on a section it owns,
\* so the "granted meanwhile" branch of CanRun (Thread.cpp:312-320) is never needed.
WaitersAgreement == \A c \in CriticalSections : WaitersAgree(c)

EventAgrees(e) ==
  /\ Distinct(ev[e].waiters)
  /\ ev[e].contentionCount = Len(ev[e].waiters)
  /\ \A t \in Tids : waitingEvent[t] = e <=> Has(ev[e].waiters, t)
  /\ ev[e].signaled => ev[e].waiters = << >>

\* No lost wake-up: the waiters of an event are exactly the threads that wait
\* for it, contentionCount counts them (as ThreadHandler.h:27 says), and nobody
\* waits for a signaled event,
\* whatever SetEvent, WaitForEvent and timeouts do (Thread.cpp:168-256, 346-356).
EventAgreement == \A e \in EventIds : EventAgrees(e)

\* A thread that sleeps or waits never executes guest code: between the call
\* that blocks it and the wake-up, code_hook stops it before every block
\* (executor.cpp:158-180 with Thread.cpp:295-364).
BlockedNeverRuns ==
  phase = "guest" => /\ sleepEnd[current] = "off"
                     /\ requested[current] = NoCS
                     /\ waitingEvent[current] = 0

\* The ring built by the Thread constructor is one cycle through all threads:
\* no proper part of it is closed under _nextThread, so SwitchThread and
\* SetThreadPriority reach every thread from every other.
OneRing ==
  \A S \in SUBSET Live : (S # {} /\ \A t \in S : next[t] \in S) => S = Live

\* A section that has waiters changes hands only in FIFO order: its new owner
\* is the thread that has waited longest, and nobody overtakes.
NoOvertaking ==
  [][\A c \in CriticalSections :
       cs[c].waiters # << >> =>
         \/ /\ cs'[c].ownerHandle = cs[c].ownerHandle
            /\ IsPrefix(cs[c].waiters, cs'[c].waiters)
         \/ /\ cs'[c].ownerHandle = Head(cs[c].waiters)
            /\ cs'[c].waiters = Tail(cs[c].waiters)]_vars

-----------------------------------------------------------------------------
(* Liveness.                                                               *)

Unblocked(t) == sleepEnd[t] # "pending" /\ requested[t] = NoCS /\ waitingEvent[t] = 0

\* From some point on no thread faults or returns.
EventuallyNoAborts == <>[][~EmuError /\ ~ThreadReturn]_vars

\* Once faults stop, a thread that is not blocked executes guest code again:
\* the yield of one thread never costs another one its turn for good.
UnblockedRuns ==
  EventuallyNoAborts =>
    \A t \in Tids : (t < nthreads /\ Unblocked(t)) ~> (phase = "guest" /\ current = t)

\* Once faults stop, a sleep and a wait with a timeout end.
TimedWaitsEnd ==
  EventuallyNoAborts =>
    \A t \in Tids : /\ sleepEnd[t] # "off" ~> sleepEnd[t] = "off"
                    /\ waitEnd[t] = "pending" ~> waitingEvent[t] = 0

\* A section that is left for good again and again reaches everybody who waits
\* for it (LeaveCriticalSection passes it on to the first waiter).
Left(c) == cs[c].ownerHandle # NoOwner /\ cs'[c].ownerHandle # cs[c].ownerHandle

WaiterGetsSection ==
  \A c \in CriticalSections :
    []<><<Left(c)>>_vars =>
      \A t \in Tids : requested[t] = c ~> cs[c].ownerHandle = t
=============================================================================

--------------------------- MODULE LCDWindowProofs ---------------------------
(***************************************************************************)
(* Proofs about the LCD window, for any number of LCD objects, brightness  *)
(* levels and pixels.  GetInstance tests and assigns without a lock, so    *)
(* two constructors do overlap: the window thread of LCD 1 can find no     *)
(* instance while the emulator's thread still waits for its window.  What  *)
(* keeps the singleton single is that the second constructor never comes   *)
(* to its assignment, since RegisterClassEx refuses the thread it started. *)
(* LInv follows the two threads through that.                              *)
(***************************************************************************)
EXTENDS LCDWindow, TLAPS, FiniteSetTheorems

EmulatorAt == {"idle", "test", "construct", "wait", "publish", "use"}

\* Before the first constructor.
NoneMade ==
  /\ made = 0
  /\ _instance = NoLCD
  /\ pc[0] \in {"idle", "test", "construct"}
  /\ \A k \in LCDs : pc[k] = "unborn" /\ ~windowHandle[k]
  /\ ~classRegistered

\* The emulator's thread is in the first constructor, or has published LCD 1.
FirstMade ==
  \/ pc[0] \in {"wait", "publish"} /\ building[0] = 1 /\ _instance = NoLCD
  \/ pc[0] \in {"idle", "test", "use"} /\ _instance = 1

\* The first window thread: past the creation of its window it has one, which is in
\* the map for good.  It may also have ended, refused, without the window or even the
\* class.
FirstWindow ==
  /\ pc[1] \in {"register", "create", "update", "test", "construct", "wait", "pixel",
                "loop", "ended"}
  /\ classRegistered => pc[1] # "register"
  /\ pc[1] \notin {"register", "ended"} => classRegistered
  /\ windowHandle[1] => pc[1] \notin {"register", "create"}
  /\ pc[1] \notin {"register", "create", "ended"} => windowHandle[1]
  /\ pc[0] = "publish" \/ _instance = 1 => windowHandle[1]
  /\ pc[1] = "pixel" => _instance = 1

\* The second window thread, if there is one, never comes to create a window, and
\* who constructs the second LCD never comes to the end of the constructor.
SecondWindow ==
  /\ made \in {1, 2}
  /\ made = 1 => pc[1] # "wait" /\ \A k \in LCDs : k > 1 => pc[k] = "unborn"
  /\ made = 2 => pc[1] = "wait" /\ building[1] = 2
  /\ \A k \in LCDs : k > 1 => ~windowHandle[k] /\ pc[k] \in {"unborn", "register", "ended"}

SomeMade == FirstMade /\ FirstWindow /\ SecondWindow

LTypeOK ==
  /\ pc \in [Threads -> EmulatorAt \cup {"unborn", "register", "create", "update", "pixel",
                                         "loop", "ended"}]
  /\ building \in [Threads -> 0 .. MaxLCDs]
  /\ made \in 0 .. MaxLCDs
  /\ _instance \in 0 .. MaxLCDs
  /\ windowHandle \in [LCDs -> BOOLEAN]
  /\ classRegistered \in BOOLEAN

LInv == LTypeOK /\ (NoneMade \/ SomeMade)

-----------------------------------------------------------------------------

\* The ranges of threads and LCDs.
LEMMA Ranges ==
  /\ 0 \in Threads /\ 1 \in Threads /\ 1 \in LCDs /\ MaxLCDs \in Nat
  /\ \A k \in LCDs : k \in Threads /\ k # 0 /\ k \in Nat
  /\ \A t \in Threads : t # 0 => t \in LCDs
  /\ \A t \in Threads : t = 0 \/ t = 1 \/ (t > 1 /\ t \in LCDs)
  BY LCDWindowAssumption DEF Threads, LCDs

\* What a change of one thread's position does.
LEMMA GotoFacts ==
  ASSUME LTypeOK, NEW t \in Threads, NEW w, Goto(t, w)
  PROVE  /\ pc'[t] = w
         /\ \A u \in Threads : u # t => pc'[u] = pc[u]
         /\ w \in EmulatorAt \cup {"unborn", "register", "create", "update", "pixel", "loop",
                                    "ended"}
              => pc' \in [Threads -> EmulatorAt \cup {"unborn", "register", "create", "update",
                                                      "pixel", "loop", "ended"}]
  BY DEF LTypeOK, Goto

\* No LCD and no window at the start.
LEMMA InitLInv == Init => LInv
<1> SUFFICES ASSUME Init PROVE LInv
  OBVIOUS
<1>1. LTypeOK
  <2>1. pc \in [Threads -> EmulatorAt \cup {"unborn", "register", "create", "update", "pixel",
                                             "loop", "ended"}]
    BY DEF Init, EmulatorAt
  <2>2. /\ building \in [Threads -> 0 .. MaxLCDs] /\ made \in 0 .. MaxLCDs
        /\ _instance \in 0 .. MaxLCDs
    BY Ranges DEF Init, NoLCD
  <2>. QED BY <2>1, <2>2 DEF Init, LTypeOK
<1>2. NoneMade
  BY Ranges DEF Init, NoneMade, NoLCD
<1>. QED BY <1>1, <1>2 DEF LInv

\* The emulator's thread enters and leaves its call.
LEMMA CallInv ==
  ASSUME LInv, (\E n \in Levels : SetSystemVariable(n)) \/ UseInstance
  PROVE  LInv'
<1>1. \/ pc[0] = "idle" /\ Goto(0, "test")
      \/ pc[0] = "use" /\ Goto(0, "idle")
  BY DEF SetSystemVariable, UseInstance
<1>2. UNCHANGED <<building, made, _instance, windowHandle, classRegistered>>
  BY DEF SetSystemVariable, UseInstance
<1>3. pc'[0] \in {"idle", "test"} /\ \A k \in LCDs : pc'[k] = pc[k]
  BY <1>1, Ranges, GotoFacts DEF LInv
<1>4. LTypeOK'
  BY <1>1, <1>2, Ranges, GotoFacts DEF LInv, LTypeOK, EmulatorAt
<1>5. NoneMade => NoneMade'
  BY <1>2, <1>3 DEF NoneMade
<1>6. FirstMade => FirstMade'
  BY <1>1, <1>2, <1>3 DEF FirstMade
<1>7. FirstMade /\ FirstWindow => FirstWindow'
  BY <1>1, <1>2, <1>3, Ranges DEF FirstMade, FirstWindow
<1>8. SecondWindow => SecondWindow'
  BY <1>2, <1>3, Ranges DEF SecondWindow
<1>. QED BY <1>4, <1>5, <1>6, <1>7, <1>8 DEF LInv, SomeMade

\* A thread tests _instance.
LEMMA TestInv ==
  ASSUME LInv, NEW t \in Threads, TestInstance(t)
  PROVE  LInv'
<1> DEFINE w == IF _instance = NoLCD THEN "construct" ELSE After(t)
<1>1. pc[t] = "test" /\ Goto(t, w)
  BY DEF TestInstance
<1>2. UNCHANGED <<building, made, _instance, windowHandle, classRegistered>>
  BY DEF TestInstance
<1>3. pc'[t] = w /\ \A u \in Threads : u # t => pc'[u] = pc[u]
  BY <1>1, GotoFacts DEF LInv
<1>4. LTypeOK'
  BY <1>1, <1>2, GotoFacts DEF LInv, LTypeOK, EmulatorAt, After
<1>5. ASSUME NoneMade PROVE NoneMade'
  <2>1. t = 0
    BY <1>1, <1>5, Ranges DEF NoneMade
  <2>. QED BY <1>2, <1>3, <1>5, <2>1, Ranges DEF NoneMade
<1>6. ASSUME SomeMade PROVE SomeMade'
  <2>1. t = 0 \/ t = 1
    BY <1>1, <1>6, Ranges DEF SomeMade, SecondWindow
  <2>2. CASE t = 0
    <3>1. w = "use" /\ _instance = 1
      BY <1>1, <1>6, <2>2 DEF SomeMade, FirstMade, After, NoLCD
    <3>2. pc'[0] = "use" /\ \A k \in LCDs : pc'[k] = pc[k]
      BY <1>3, <2>2, <3>1, Ranges
    <3>. QED BY <1>2, <1>6, <3>1, <3>2, Ranges DEF SomeMade, FirstMade, FirstWindow, SecondWindow
  <2>3. CASE t = 1
    <3>1. w \in {"construct", "pixel"} /\ (w = "pixel" => _instance = 1)
      BY <1>6, <2>3 DEF SomeMade, FirstMade, After, NoLCD
    <3>2. pc'[1] = w /\ pc'[0] = pc[0] /\ \A k \in LCDs : k > 1 => pc'[k] = pc[k]
      BY <1>3, <2>3, Ranges
    <3> HIDE DEF w
    <3>3. FirstMade'
      BY <1>2, <1>6, <3>2 DEF SomeMade, FirstMade
    <3>4. FirstWindow'
      BY <1>1, <1>2, <1>6, <2>3, <3>1, <3>2, Ranges DEF SomeMade, FirstWindow
    <3>5. SecondWindow'
      BY <1>1, <1>2, <1>6, <2>3, <3>1, <3>2, Ranges DEF SomeMade, SecondWindow
    <3>. QED BY <3>3, <3>4, <3>5 DEF SomeMade
  <2>. QED BY <2>1, <2>2, <2>3
<1>. QED BY <1>4, <1>5, <1>6 DEF LInv

\* A constructor starts: the emulator's first, the first window thread's second,
\* and there is no other.
LEMMA ConstructInv ==
  ASSUME LInv, NEW t \in Threads, ConstructLCD(t)
  PROVE  LInv'
<1> DEFINE n == made + 1
<1>1. /\ pc[t] = "construct" /\ made < MaxLCDs /\ made' = n
      /\ building' = [building EXCEPT ![t] = n]
      /\ pc' = [pc EXCEPT ![t] = "wait", ![n] = "register"]
      /\ UNCHANGED <<_instance, windowHandle, classRegistered>>
  BY DEF ConstructLCD
<1>2. made \in Nat /\ n \in LCDs /\ n \in Threads
  BY <1>1, Ranges DEF LInv, LTypeOK, LCDs
<1>3. /\ pc'[n] = "register"
      /\ t # n => pc'[t] = "wait"
      /\ \A u \in Threads : u # t /\ u # n => pc'[u] = pc[u]
      /\ building'[t] = n
      /\ \A u \in Threads : u # t => building'[u] = building[u]
  BY <1>1, <1>2 DEF LInv, LTypeOK
<1>4. LTypeOK'
  BY <1>1, <1>2 DEF LInv, LTypeOK, LCDs, EmulatorAt
<1>5. ASSUME NoneMade PROVE SomeMade'
  <2>1. t = 0 /\ n = 1
    BY <1>1, <1>5, Ranges DEF NoneMade
  <2>2. FirstMade'
    BY <1>1, <1>3, <1>5, <2>1, Ranges DEF NoneMade, FirstMade
  <2>3. FirstWindow'
    BY <1>1, <1>3, <1>5, <2>1, Ranges DEF NoneMade, FirstWindow, NoLCD
  <2>4. SecondWindow'
    <3>1. made' = 1 /\ pc'[1] = "register"
      BY <1>1, <1>3, <2>1
    <3>2. \A k \in LCDs : k > 1 => pc'[k] = "unborn" /\ ~windowHandle'[k]
      <4> SUFFICES ASSUME NEW k \in LCDs, k > 1 PROVE pc'[k] = "unborn" /\ ~windowHandle'[k]
        OBVIOUS
      <4>1. k \in Threads /\ k # t /\ k # n
        BY <2>1, Ranges
      <4>2. pc'[k] = pc[k] /\ windowHandle' = windowHandle
        BY <1>1, <1>3, <4>1
      <4>. QED BY <1>5, <4>2 DEF NoneMade
    <3>. QED BY <3>1, <3>2 DEF SecondWindow
  <2>. QED BY <2>2, <2>3, <2>4 DEF SomeMade
<1>6. ASSUME SomeMade PROVE SomeMade'
  <2>1. t = 1 /\ n = 2 /\ made = 1
    BY <1>1, <1>6, Ranges DEF SomeMade, FirstMade, SecondWindow
  <2>2. FirstMade'
    <3>1. pc'[0] = pc[0] /\ building'[0] = building[0]
      BY <1>3, <2>1, Ranges
    <3>. QED BY <1>1, <1>6, <3>1 DEF SomeMade, FirstMade
  <2>3. FirstWindow'
    BY <1>1, <1>3, <1>6, <2>1, Ranges DEF SomeMade, FirstWindow
  <2>4. SecondWindow'
    BY <1>1, <1>3, <1>6, <2>1, Ranges DEF SomeMade, SecondWindow
  <2>. QED BY <2>2, <2>3, <2>4 DEF SomeMade
<1>. QED BY <1>4, <1>5, <1>6 DEF LInv

\* Only the emulator's wait ends.
LEMMA WaitInv ==
  ASSUME LInv, NEW t \in Threads, WaitForWindow(t)
  PROVE  LInv'
<1>1. pc[t] = "wait" /\ windowHandle[building[t]] /\ Goto(t, "publish")
  BY DEF WaitForWindow
<1>2. UNCHANGED <<building, made, _instance, windowHandle, classRegistered>>
  BY DEF WaitForWindow
<1>3. SomeMade
  BY <1>1, Ranges DEF LInv, NoneMade
<1>4. t = 0 \/ t = 1
  BY <1>1, <1>3, Ranges DEF SomeMade, SecondWindow
<1>5. t # 1
  <2> SUFFICES ASSUME t = 1 PROVE FALSE
    OBVIOUS
  <2>1. building[1] = 2 /\ made = 2
    BY <1>1, <1>3 DEF SomeMade, SecondWindow
  <2>2. 2 \in LCDs /\ 2 > 1
    BY <2>1 DEF LInv, LTypeOK, LCDs
  <2>3. ~windowHandle[2]
    BY <1>3, <2>2 DEF SomeMade, SecondWindow
  <2>. QED BY <1>1, <2>1, <2>3
<1>6. pc'[0] = "publish" /\ \A k \in LCDs : pc'[k] = pc[k]
  BY <1>1, <1>4, <1>5, Ranges, GotoFacts DEF LInv
<1>7. LTypeOK'
  BY <1>1, <1>2, GotoFacts DEF LInv, LTypeOK, EmulatorAt
<1>8. SomeMade'
  BY <1>1, <1>2, <1>3, <1>4, <1>5, <1>6, Ranges
     DEF SomeMade, FirstMade, FirstWindow, SecondWindow
<1>. QED BY <1>7, <1>8 DEF LInv

\* Only the emulator's thread publishes, and only LCD 1.
LEMMA PublishIsFirst ==
  ASSUME LInv, NEW t \in Threads, PublishInstance(t)
  PROVE  SomeMade /\ t = 0 /\ building[0] = 1 /\ _instance = NoLCD
<1>1. pc[t] = "publish"
  BY DEF PublishInstance
<1>2. SomeMade
  BY <1>1, Ranges DEF LInv, NoneMade
<1>3. t = 0
  BY <1>1, <1>2, Ranges DEF SomeMade, FirstWindow, SecondWindow
<1>. QED BY <1>1, <1>2, <1>3 DEF SomeMade, FirstMade

\* _instance is assigned.
LEMMA PublishInv ==
  ASSUME LInv, NEW t \in Threads, PublishInstance(t)
  PROVE  LInv'
<1>1. SomeMade /\ t = 0 /\ building[0] = 1 /\ pc[0] = "publish"
  BY PublishIsFirst DEF PublishInstance
<1>2. /\ Goto(0, "use") /\ _instance' = 1 /\ building' = [building EXCEPT ![0] = NoLCD]
      /\ UNCHANGED <<made, windowHandle, classRegistered>>
  BY <1>1 DEF PublishInstance, After
<1>3. pc'[0] = "use" /\ \A k \in LCDs : pc'[k] = pc[k] /\ building'[k] = building[k]
  BY <1>2, Ranges, GotoFacts DEF LInv, LTypeOK
<1>4. LTypeOK'
  <2>1. building' \in [Threads -> 0 .. MaxLCDs]
    BY <1>2, Ranges DEF LInv, LTypeOK, NoLCD
  <2>. QED BY <2>1, <1>2, Ranges, GotoFacts DEF LInv, LTypeOK, EmulatorAt, LCDs
<1>5. SomeMade'
  BY <1>1, <1>2, <1>3, Ranges DEF SomeMade, FirstMade, FirstWindow, SecondWindow
<1>. QED BY <1>4, <1>5 DEF LInv

\* A window thread registers the class or is refused; the second one always is.
LEMMA RegisterInv ==
  ASSUME LInv, NEW k \in LCDs, RegisterClass(k)
  PROVE  LInv'
<1>1. /\ pc[k] = "register"
      /\ \/ ~classRegistered /\ classRegistered' = TRUE /\ Goto(k, "create")
         \/ classRegistered' = classRegistered /\ Goto(k, "ended")
      /\ UNCHANGED <<building, made, _instance, windowHandle>>
  BY DEF RegisterClass
<1>2. SomeMade
  BY <1>1 DEF LInv, NoneMade
<1>3. /\ \/ ~classRegistered /\ classRegistered' /\ pc'[k] = "create"
         \/ classRegistered' = classRegistered /\ pc'[k] = "ended"
      /\ \A u \in Threads : u # k => pc'[u] = pc[u]
  BY <1>1, Ranges, GotoFacts DEF LInv
<1>4. LTypeOK'
  BY <1>1, Ranges, GotoFacts DEF LInv, LTypeOK, EmulatorAt
<1>5. CASE k = 1
  <2>1. pc'[0] = pc[0] /\ \A j \in LCDs : j > 1 => pc'[j] = pc[j]
    BY <1>3, <1>5, Ranges
  <2>2. made = 1
    BY <1>1, <1>2, <1>5 DEF SomeMade, SecondWindow
  <2>3. FirstMade'
    BY <1>1, <1>2, <2>1 DEF SomeMade, FirstMade
  <2>4. FirstWindow'
    BY <1>1, <1>2, <1>3, <1>5, <2>1 DEF SomeMade, FirstWindow
  <2>5. SecondWindow'
    BY <1>1, <1>2, <1>3, <1>5, <2>1, <2>2 DEF SomeMade, SecondWindow
  <2>. QED BY <1>4, <2>3, <2>4, <2>5 DEF LInv, SomeMade
<1>6. CASE k # 1
  <2>1. made = 2 /\ classRegistered
    BY <1>1, <1>2, <1>6, Ranges DEF SomeMade, FirstWindow, SecondWindow
  <2>2. pc'[1] = pc[1] /\ pc'[0] = pc[0] /\ pc'[k] = "ended" /\ classRegistered'
        /\ \A j \in LCDs : j # k => pc'[j] = pc[j]
    BY <1>3, <1>6, <2>1, Ranges
  <2>3. FirstMade'
    BY <1>1, <1>2, <2>2 DEF SomeMade, FirstMade
  <2>4. FirstWindow'
    BY <1>1, <1>2, <2>1, <2>2 DEF SomeMade, FirstWindow
  <2>5. SecondWindow'
    BY <1>1, <1>2, <2>1, <2>2 DEF SomeMade, SecondWindow
  <2>. QED BY <1>4, <2>3, <2>4, <2>5 DEF LInv, SomeMade
<1>. QED BY <1>5, <1>6

\* The first window thread creates, paints and closes its window.
LEMMA FirstWindowMoves ==
  ASSUME LInv, NEW w, pc[1] \in {"create", "update", "pixel", "loop"},
         w \in {"update", "test", "loop", "ended"},
         Goto(1, w), UNCHANGED <<building, made, _instance, classRegistered>>,
         windowHandle' = [windowHandle EXCEPT ![1] = TRUE] \/ windowHandle' = windowHandle,
         pc[1] = "create" => windowHandle' # windowHandle \/ w = "ended"
  PROVE  LInv'
<1>1. SomeMade
  BY Ranges DEF LInv, NoneMade
<1>2. pc'[1] = w /\ pc'[0] = pc[0] /\ \A k \in LCDs : k > 1 => pc'[k] = pc[k]
  BY Ranges, GotoFacts DEF LInv
<1>3. /\ windowHandle'[1] \/ (w = "ended" /\ windowHandle'[1] = windowHandle[1])
      /\ \A k \in LCDs : k > 1 => windowHandle'[k] = windowHandle[k]
  BY <1>1, Ranges DEF LInv, LTypeOK, SomeMade, FirstWindow
<1>4. windowHandle' \in [LCDs -> BOOLEAN]
  BY DEF LInv, LTypeOK
<1>5. LTypeOK'
  BY <1>4, Ranges, GotoFacts DEF LInv, LTypeOK, EmulatorAt
<1>6. FirstMade'
  BY <1>1, <1>2 DEF SomeMade, FirstMade
<1>7. FirstWindow'
  BY <1>1, <1>2, <1>3 DEF SomeMade, FirstWindow
<1>8. SecondWindow'
  BY <1>1, <1>2, <1>3, Ranges DEF SomeMade, SecondWindow
<1>. QED BY <1>5, <1>6, <1>7, <1>8 DEF LInv, SomeMade

\* No other window thread has a window.
LEMMA OnlyFirst ==
  ASSUME LInv, NEW k \in LCDs, pc[k] \in {"create", "update", "pixel", "loop"}
  PROVE  k = 1
  BY Ranges DEF LInv, NoneMade, SomeMade, SecondWindow

\* The other steps of a window thread.
LEMMA WindowInv ==
  ASSUME LInv, NEW k \in LCDs,
         CreateWindow(k) \/ BeginPaint(k) \/ PaintPixel(k) \/ CloseWindow(k)
  PROVE  LInv'
<1>1. k = 1
  BY OnlyFirst DEF CreateWindow, BeginPaint, PaintPixel, CloseWindow
<1>2. CASE CreateWindow(1)
  <2>1. /\ pc[1] = "create" /\ UNCHANGED <<building, made, _instance, classRegistered>>
        /\ \/ Goto(1, "update") /\ windowHandle' = [windowHandle EXCEPT ![1] = TRUE]
           \/ Goto(1, "ended") /\ windowHandle' = windowHandle
    BY <1>2 DEF CreateWindow
  <2>2. ~windowHandle[1]
    BY <2>1, Ranges DEF LInv, NoneMade, SomeMade, FirstWindow
  <2>3. CASE Goto(1, "ended") /\ windowHandle' = windowHandle
    BY <2>1, <2>3, FirstWindowMoves
  <2>4. CASE Goto(1, "update") /\ windowHandle' = [windowHandle EXCEPT ![1] = TRUE]
    <3>1. windowHandle' # windowHandle
      BY <2>2, <2>4, Ranges DEF LInv, LTypeOK
    <3>. QED BY <2>1, <2>4, <3>1, FirstWindowMoves
  <2>. QED BY <2>1, <2>3, <2>4
<1>3. CASE BeginPaint(1)
  BY <1>3, FirstWindowMoves DEF BeginPaint
<1>4. CASE PaintPixel(1)
  BY <1>4, FirstWindowMoves DEF PaintPixel
<1>5. CASE CloseWindow(1)
  BY <1>5, FirstWindowMoves DEF CloseWindow
<1>. QED BY <1>1, <1>2, <1>3, <1>4, <1>5

\* LInv is inductive.
LEMMA NextLInv == LInv /\ [Next]_vars => LInv'
<1> SUFFICES ASSUME LInv, [Next]_vars PROVE LInv'
  OBVIOUS
<1>1. CASE UNCHANGED vars
  BY <1>1 DEF vars, LInv, LTypeOK, NoneMade, SomeMade, FirstMade, FirstWindow, SecondWindow
<1>2. CASE (\E n \in Levels : SetSystemVariable(n)) \/ UseInstance
  BY <1>2, CallInv
<1>3. CASE \E t \in Threads : GetInstanceStep(t)
  BY <1>3, TestInv, ConstructInv, WaitInv, PublishInv DEF GetInstanceStep
<1>4. CASE \E k \in LCDs : WindowStep(k) \/ CloseWindow(k)
  BY <1>4, RegisterInv, WindowInv DEF WindowStep
<1>. QED BY <1>1, <1>2, <1>3, <1>4 DEF Next

\* The two threads that construct LCDs stay where LInv has them.
THEOREM LInvariance == Spec => []LInv
  BY InitLInv, NextLInv, PTL DEF Spec

\* However GetInstance interleaves on the emulator's and the window threads, there is
\* at most one window, and the handler handed out owns it.
THEOREM SingleWindow == Spec => []OneWindow
<1>1. ASSUME LInv PROVE OneWindow
  <2>1. {k \in LCDs : windowHandle[k]} \subseteq {1}
    BY <1>1, Ranges DEF LInv, NoneMade, SomeMade, SecondWindow
  <2>2. Cardinality({k \in LCDs : windowHandle[k]}) <= 1
    <3>1. IsFiniteSet({1}) /\ Cardinality({1}) = 1
      BY FS_Singleton
    <3>. QED BY <2>1, <3>1, FS_Subset
  <2>3. _instance # NoLCD => windowHandle[_instance]
    BY <1>1 DEF LInv, NoneMade, SomeMade, FirstMade, FirstWindow
  <2>4. made <= 2
    BY <1>1 DEF LInv, NoneMade, SomeMade, SecondWindow
  <2>. QED BY <2>2, <2>3, <2>4 DEF OneWindow
<1>. QED BY <1>1, LInvariance, PTL

\* The handler GetInstance has handed out is never replaced, although the assignment
\* is not repeated under any lock: the LCD whose address the firmware has stays in use.
THEOREM InstanceNeverReplaced == Spec => InstanceStable
<1>1. ASSUME LInv, [Next]_vars, _instance # NoLCD
      PROVE  _instance' = _instance
  <2>1. CASE \E t \in Threads : PublishInstance(t)
    BY <1>1, <2>1, PublishIsFirst
  <2>2. CASE ~\E t \in Threads : PublishInstance(t)
    BY <1>1, <2>2 DEF Next, GetInstanceStep, WindowStep, SetSystemVariable, UseInstance,
                      TestInstance, ConstructLCD, WaitForWindow, RegisterClass, CreateWindow,
                      BeginPaint, PaintPixel, CloseWindow, vars
  <2>. QED BY <2>1, <2>2
<1>2. LInv /\ [Next]_vars => [_instance # NoLCD => _instance' = _instance]_vars
  BY <1>1
<1>. QED BY <1>2, LInvariance, PTL DEF Spec, InstanceStable

\* Neither UseInstance nor the painting of a pixel goes through a null _instance.
THEOREM HandlerPresent ==
  Spec => [](/\ pc[0] = "use" => _instance \in LCDs
             /\ \A k \in LCDs : pc[k] = "pixel" => _instance \in LCDs)
<1>1. LInv => /\ pc[0] = "use" => _instance \in LCDs
              /\ \A k \in LCDs : pc[k] = "pixel" => _instance \in LCDs
  BY Ranges, OnlyFirst DEF LInv, NoneMade, SomeMade, FirstMade, FirstWindow
<1>. QED BY <1>1, LInvariance, PTL
=============================================================================

------------------------------ MODULE LCDWindow ------------------------------
(***************************************************************************)
(* The LCD and its window: the lazily created singleton LCDHandler, the    *)
(* constructor of LCD, which starts a window thread and polls until that   *)
(* thread has published its window handle, and the window thread, whose    *)
(* WM_PAINT asks the singleton for the brightness, pixel by pixel.         *)
(*                                                                         *)
(* Thread 0 is the emulator's; thread k > 0 is the window thread of the    *)
(* k-th LCD.  GetInstance is not atomic: it tests _instance, and assigns   *)
(* it only when the constructor, which waits for another thread, returns.  *)
(* Each call on g_LcdWindowMap holds its mutex and is one step.            *)
(***************************************************************************)
EXTENDS Naturals, FiniteSets

CONSTANTS
  MaxLCDs,   \* bound: LCD objects ever constructed
  Levels,    \* values SetSystemVariable gives brightness_level
  Pixels     \* pixels painted one by one, a sample of the 320 x 240

ASSUME LCDWindowAssumption ==
  /\ MaxLCDs \in Nat \ {0}
  /\ Pixels \in Nat \ {0}
  /\ 2 \in Levels

NoLCD   == 0
LCDs    == 1 .. MaxLCDs
Threads == 0 .. MaxLCDs

VARIABLES
  pc,               \* where each thread is
  building,         \* the LCD whose constructor each thread is in, or NoLCD
  made,             \* LCD objects constructed or under construction
  _instance,        \* LCDHandler::_instance, as the LCD it owns, or NoLCD
  windowHandle,     \* g_LcdWindowMap[lcd].windowHandle is set
  classRegistered,  \* the window class exists in the process
  refused,          \* auxiliary: the host refused the new class, or a window
  level,            \* brightness_level of each handler
  wanted,           \* emulator thread: the call it makes on the singleton
  pixel,            \* pixels of the current WM_PAINT done, per window thread
  painted           \* levels at which the current or last picture was painted

vars == <<pc, building, made, _instance, windowHandle, classRegistered, refused,
          level, wanted, pixel, painted>>

Init ==
  /\ pc = [t \in Threads |-> IF t = 0 THEN "idle" ELSE "unborn"]
  /\ building = [t \in Threads |-> NoLCD]
  /\ made = 0
  /\ _instance = NoLCD
  /\ windowHandle = [k \in LCDs |-> FALSE]
  /\ classRegistered = FALSE
  /\ refused = FALSE
  /\ level = [k \in LCDs |-> 2]
  /\ wanted = 2
  /\ pixel = [k \in LCDs |-> 0]
  /\ painted = [k \in LCDs |-> {}]

Goto(t, where) == pc' = [pc EXCEPT ![t] = where]

-----------------------------------------------------------------------------
(* The emulator's thread: GetActiveLCD and SetSystemVariable. *)

\* GetActiveLCD needs the handler as well; it is a call that sets nothing new.
SetSystemVariable(n) ==
  /\ pc[0] = "idle"
  /\ wanted' = n
  /\ Goto(0, "test")
  /\ UNCHANGED <<building, made, _instance, windowHandle, classRegistered,
                 refused, level, pixel, painted>>

\* The body of the call, with the handler that GetInstance returned.
UseInstance ==
  /\ pc[0] = "use"
  /\ level' = [level EXCEPT ![_instance] = wanted]
  /\ Goto(0, "idle")
  /\ UNCHANGED <<building, made, _instance, windowHandle, classRegistered,
                 refused, wanted, pixel, painted>>

-----------------------------------------------------------------------------
(* LCDHandler::GetInstance, on any thread. *)

\* Where a thread goes once it has the handler.
After(t) == IF t = 0 THEN "use" ELSE "pixel"

TestInstance(t) ==
  /\ pc[t] = "test"
  /\ Goto(t, IF _instance = NoLCD THEN "construct" ELSE After(t))
  /\ UNCHANGED <<building, made, _instance, windowHandle, classRegistered,
                 refused, level, wanted, pixel, painted>>

\* InitActiveLCD and the LCD constructor up to its wait: a map entry without a
\* handle and a new window thread.
ConstructLCD(t) ==
  /\ pc[t] = "construct"
  /\ made < MaxLCDs
  /\ made' = made + 1
  /\ building' = [building EXCEPT ![t] = made + 1]
  /\ pc' = [pc EXCEPT ![t] = "wait", ![made + 1] = "register"]
  /\ UNCHANGED <<_instance, windowHandle, classRegistered, refused, level,
                 wanted, pixel, painted>>

\* The round of the polling loop that finds the handle; the others stutter.
WaitForWindow(t) ==
  /\ pc[t] = "wait"
  /\ windowHandle[building[t]]
  /\ Goto(t, "publish")
  /\ UNCHANGED <<building, made, _instance, windowHandle, classRegistered,
                 refused, level, wanted, pixel, painted>>

\* _instance = new LCDHandler
PublishInstance(t) ==
  /\ pc[t] = "publish"
  /\ _instance' = building[t]
  /\ building' = [building EXCEPT ![t] = NoLCD]
  /\ Goto(t, After(t))
  /\ UNCHANGED <<made, windowHandle, classRegistered, refused, level, wanted,
                 pixel, painted>>

-----------------------------------------------------------------------------
(* WindowThreadProc. *)

\* Faulty: the window class is registered afresh by every window thread.
RegisterClassEveryTime(k) ==
  /\ pc[k] = "register"
  /\ Goto(k, "create")
  /\ classRegistered' = TRUE
  /\ UNCHANGED <<building, made, _instance, windowHandle, refused, level, wanted,
                 pixel, painted>>

\* RegisterClassEx fails when the class exists, and the host may refuse it when it
\* does not; either way the thread just returns.
RegisterClass(k) ==
  /\ pc[k] = "register"
  /\ \/ /\ ~classRegistered
        /\ classRegistered' = TRUE
        /\ Goto(k, "create")
        /\ UNCHANGED refused
     \/ /\ refused' = (refused \/ ~classRegistered)
        /\ Goto(k, "ended")
        /\ UNCHANGED classRegistered
  /\ UNCHANGED <<building, made, _instance, windowHandle, level, wanted, pixel,
                 painted>>

\* Faulty: the handle is kept to the thread.
CreateWindowUnpublished(k) ==
  /\ pc[k] = "create"
  /\ Goto(k, "update")
  /\ UNCHANGED <<building, made, _instance, windowHandle, classRegistered, refused,
                 level, wanted, pixel, painted>>

\* The handle is put into g_LcdWindowMap before the window is shown.  When the host
\* makes no window the thread returns and publishes nothing.
CreateWindow(k) ==
  /\ pc[k] = "create"
  /\ \/ /\ windowHandle' = [windowHandle EXCEPT ![k] = TRUE]
        /\ Goto(k, "update")
        /\ UNCHANGED refused
     \/ /\ refused' = TRUE
        /\ Goto(k, "ended")
        /\ UNCHANGED windowHandle
  /\ UNCHANGED <<building, made, _instance, classRegistered, level, wanted,
                 pixel, painted>>

\* WM_PAINT, sent by UpdateWindow and then after every WM_TIMER.
BeginPaint(k) ==
  /\ pc[k] \in {"update", "loop"}
  /\ pixel' = [pixel EXCEPT ![k] = 0]
  /\ painted' = [painted EXCEPT ![k] = {}]
  /\ Goto(k, "test")
  /\ UNCHANGED <<building, made, _instance, windowHandle, classRegistered,
                 refused, level, wanted>>

\* Faulty: the level is the one LCD's constructor puts into LcdMagic.
PaintPixelFixedLevel(k) ==
  /\ pc[k] = "pixel"
  /\ painted' = [painted EXCEPT ![k] = @ \cup {2}]
  /\ pixel' = [pixel EXCEPT ![k] = @ + 1]
  /\ Goto(k, IF pixel[k] + 1 = Pixels THEN "loop" ELSE "test")
  /\ UNCHANGED <<building, made, _instance, windowHandle, classRegistered,
                 refused, level, wanted>>

\* One pixel: the handler is asked for again for each.
PaintPixel(k) ==
  /\ pc[k] = "pixel"
  /\ painted' = [painted EXCEPT ![k] = @ \cup {level[_instance]}]
  /\ pixel' = [pixel EXCEPT ![k] = @ + 1]
  /\ Goto(k, IF pixel[k] + 1 = Pixels THEN "loop" ELSE "test")
  /\ UNCHANGED <<building, made, _instance, windowHandle, classRegistered,
                 refused, level, wanted>>

\* WM_CLOSE and WM_DESTROY end the message loop and the thread.
CloseWindow(k) ==
  /\ pc[k] = "loop"
  /\ Goto(k, "ended")
  /\ UNCHANGED <<building, made, _instance, windowHandle, classRegistered,
                 refused, level, wanted, pixel, painted>>

-----------------------------------------------------------------------------
GetInstanceStep(t) ==
  TestInstance(t) \/ ConstructLCD(t) \/ WaitForWindow(t) \/ PublishInstance(t)

WindowStep(k) ==
  RegisterClass(k) \/ CreateWindow(k) \/ BeginPaint(k) \/ PaintPixel(k)

Next ==
  \/ \E n \in Levels : SetSystemVariable(n)
  \/ UseInstance
  \/ \E t \in Threads : GetInstanceStep(t)
  \/ \E k \in LCDs : WindowStep(k) \/ CloseWindow(k)

Spec == Init /\ [][Next]_vars

\* The host schedules all of its threads.
FairSpec ==
  /\ Spec
  /\ WF_vars(UseInstance)
  /\ \A t \in Threads : WF_vars(GetInstanceStep(t))
  /\ \A k \in LCDs : WF_vars(WindowStep(k))

-----------------------------------------------------------------------------
(* Properties. *)

\* However the emulator's thread and the window threads interleave inside
\* GetInstance, there is at most one window, a handler that is handed out owns
\* the LCD of that window, and a second handler does not lead to a third.
OneWindow ==
  /\ Cardinality({k \in LCDs : windowHandle[k]}) <= 1
  /\ _instance # NoLCD => windowHandle[_instance]
  /\ made <= 2

\* Once GetInstance has handed out a handler it always hands out that one: the
\* LCD whose address GetActiveLCD gave to the firmware is the one in use.
InstanceStable == [][_instance # NoLCD => _instance' = _instance]_vars

\* A system call that needs the LCD returns, whatever the threads do to each other
\* inside GetInstance, unless the host has refused the class or the window.  (After
\* a refusal nobody publishes a handle, and the constructor polls for one for ever.)
CallReturns == pc[0] = "test" ~> (pc[0] = "idle" \/ refused)

\* A brightness that stays set ends up on the whole picture, if the window
\* thread goes on painting.
BrightnessShown ==
  \A n \in Levels :
    (/\ <>[](_instance # NoLCD /\ level[_instance] = n /\ pc[0] = "idle")
     /\ [](pc[1] \notin {"ended", "construct"}))
    => <>[](painted[1] \subseteq {n})

\* The comment in the LCD constructor: the wait is for the window that the new
\* thread creates.  While the host refuses nothing, no thread waits for a thread
\* that has ended without creating one.
WaitsForNewWindow ==
  \A t \in Threads :
    pc[t] = "wait" /\ ~refused => pc[building[t]] # "ended" \/ windowHandle[building[t]]
=============================================================================

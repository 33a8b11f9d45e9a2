------------------------------- MODULE UIEvents -------------------------------
(***************************************************************************)
(* Keyboard and touch input: the window procedure turns Windows messages   *)
(* into UIMultipressEvents and pushes them on the vector `events` from the *)
(* window thread; the firmware's UI thread takes them all at once with the *)
(* GetEvent system call, on the emulator's thread.  Both hold `lock` while *)
(* they touch the vector, so each is one step.                             *)
(*                                                                         *)
(* What the firmware knows of the keyboard and of the pen is what it has   *)
(* read from the batches.  The auxiliary variables hold that, and what     *)
(* Windows told the window procedure, so that the two can be compared.     *)
(***************************************************************************)
EXTENDS Naturals, Sequences, SequencesExt, TLC

CONSTANTS
  VirtualKeys,   \* the virtual-key codes Windows reports
  Points,        \* positions in the client area
  NoPoint,       \* the pen is not down
  Slots,         \* entries of multipress_events: 8
  MaxQueued      \* bound: events waiting at once

ASSUME UIEventsAssumption ==
  /\ Slots \in Nat \ {0}
  /\ MaxQueued \in Nat /\ MaxQueued > Slots
  /\ NoPoint \notin Points

VARIABLES
  events,        \* the vector of queued events
  is_lbtn_down,  \* WndProc's static flag
  window,        \* "open" or "closed"
  event,         \* the ui_event_prime_s the firmware passed to GetEvent
  unread,        \* GetEvent has filled `event` and the firmware has not read it
  hostKeys,      \* auxiliary: device keys Windows last reported as down
  hostPen,       \* auxiliary: where Windows last reported the pen, or NoPoint
  guestKeys,     \* auxiliary: device keys the firmware takes to be down
  guestPen,      \* auxiliary: where the firmware takes the pen to be
  lostKeys,      \* auxiliary: keys of which the latest event was thrown away
  lostPen        \* auxiliary: the latest change of the pen was thrown away

hostVars  == <<is_lbtn_down, window, hostKeys, hostPen>>
guestVars == <<event, unread, guestKeys, guestPen, lostKeys, lostPen>>
vars      == <<events, hostVars, guestVars>>

\* Faulty: the second copy of the table has a wrong row.
NumpadUpWrongRow == "VK_NUMPAD1" :> "X"

\* The two copies of numpad_mapping, one in the handler of WM_KEYDOWN and one in
\* that of WM_KEYUP; a digit stands for the ten of them and their operators.
NumpadDown == "VK_NUMPAD1" :> "1"
NumpadUp   == "VK_NUMPAD1" :> "1"

\* A sample of the keymap: a digit, a letter; VK_F1 is not in it.
vk_to_device_keymap == ("1" :> 89) @@ ("X" :> 68)

Mapped(vk, numpad) == IF vk \in DOMAIN numpad THEN numpad[vk] ELSE vk

DeviceKeys == Range(vk_to_device_keymap)
KeyTypes   == {"KEY", "KEY_UP"}
TouchTypes == {"TOUCH_BEGIN", "TOUCH_MOVE", "TOUCH_END"}

UIMultipressEvent ==
  [type : KeyTypes, key_code0 : DeviceKeys] \cup [type : TouchTypes, touch : Points]

NoEvents == [event_type |-> "INVALID", multipress_events |-> <<>>]

Init ==
  /\ events = <<>>
  /\ is_lbtn_down = FALSE
  /\ window = "open"
  /\ event = NoEvents
  /\ unread = FALSE
  /\ hostKeys = {} /\ guestKeys = {} /\ lostKeys = {}
  /\ hostPen = NoPoint /\ guestPen = NoPoint /\ lostPen = FALSE

-----------------------------------------------------------------------------
(* What a sequence of events tells of the keys and of the pen. *)

KeysOf(evs)   == {ev.key_code0 : ev \in {e \in Range(evs) : e.type \in KeyTypes}}
HasTouch(evs) == \E ev \in Range(evs) : ev.type \in TouchTypes

\* The last event about key k says that it is down.
Presses(evs, k) ==
  \E i \in DOMAIN evs :
    /\ evs[i] = [type |-> "KEY", key_code0 |-> k]
    /\ \A j \in DOMAIN evs : j > i /\ evs[j].type \in KeyTypes => evs[j].key_code0 # k

\* The keys that are down after the events, when those in `keys` were before.
KeysAfter(keys, evs) ==
  {k \in DeviceKeys : Presses(evs, k) \/ k \in keys \ KeysOf(evs)}

LastTouch(evs) ==
  CHOOSE i \in DOMAIN evs :
    /\ evs[i].type \in TouchTypes
    /\ \A j \in DOMAIN evs : evs[j].type \in TouchTypes => j <= i

Touched(ev) == IF ev.type = "TOUCH_END" THEN NoPoint ELSE ev.touch

\* Where the pen is after the events.
PenAfter(pen, evs) ==
  IF HasTouch(evs) THEN Touched(evs[LastTouch(evs)]) ELSE pen

-----------------------------------------------------------------------------
(* The window thread. *)

\* EnqueueEvent; the thread it means to wake is left alone by WakeThread.
EnqueueEvent(ev) ==
  /\ Len(events) < MaxQueued
  /\ events' = Append(events, ev)

KeyMessage(vk, numpad, type) ==
  /\ window = "open"
  /\ Mapped(vk, numpad) \in DOMAIN vk_to_device_keymap
  /\ LET ev == [type |-> type,
                key_code0 |-> vk_to_device_keymap[Mapped(vk, numpad)]]
     IN  EnqueueEvent(ev)
  /\ UNCHANGED <<is_lbtn_down, window, hostPen, guestVars>>

\* The device key a virtual key stands for: both handlers are to agree on it.
DeviceKey(vk) == vk_to_device_keymap[Mapped(vk, NumpadDown)]

WM_KEYDOWN(vk) ==
  /\ KeyMessage(vk, NumpadDown, "KEY")
  /\ hostKeys' = hostKeys \cup {DeviceKey(vk)}

WM_KEYUP(vk) ==
  /\ KeyMessage(vk, NumpadUp, "KEY_UP")
  /\ hostKeys' = hostKeys \ {DeviceKey(vk)}

TouchMessage(type, p) ==
  /\ window = "open"
  /\ EnqueueEvent([type |-> type, touch |-> p])
  /\ UNCHANGED <<window, hostKeys, guestVars>>

WM_LBUTTONDOWN(p) ==
  /\ TouchMessage("TOUCH_BEGIN", p)
  /\ is_lbtn_down' = TRUE
  /\ hostPen' = p

\* Faulty: the flag is not reset.
WM_LBUTTONUPKeepsFlag(p) ==
  /\ TouchMessage("TOUCH_END", p)
  /\ is_lbtn_down' = is_lbtn_down
  /\ hostPen' = NoPoint

\* The button may be released without having been pressed in the window, and
\* pressed without being released there: nothing captures the mouse.
WM_LBUTTONUP(p) ==
  /\ TouchMessage("TOUCH_END", p)
  /\ is_lbtn_down' = FALSE
  /\ hostPen' = NoPoint

WM_MOUSEMOVE(p) ==
  /\ is_lbtn_down
  /\ TouchMessage("TOUCH_MOVE", p)
  /\ hostPen' = IF hostPen = NoPoint THEN NoPoint ELSE p
  /\ UNCHANGED is_lbtn_down

\* WM_CLOSE destroys the window, WM_DESTROY ends the message loop.
WM_CLOSE ==
  /\ window = "open"
  /\ window' = "closed"
  /\ UNCHANGED <<events, is_lbtn_down, hostKeys, hostPen, guestVars>>

-----------------------------------------------------------------------------
(* The emulator's thread. *)

HasKeyEvent == \E ev \in Range(events) : ev.type \in KeyTypes

TickType == IF HasKeyEvent THEN "TICK_2" ELSE "TICK"

\* Faulty: one event more than the array has room for.
FitsOffByOne == Len(events) <= Slots + 1

Fits == Len(events) <= Slots

\* Faulty: only the first of the queued events is copied.
DeliverFirst ==
  /\ Fits
  /\ event' = [event_type |-> TickType,
               multipress_events |-> SubSeq(events, 1, IF events = <<>> THEN 0 ELSE 1)]
  /\ UNCHANGED <<lostKeys, lostPen>>

\* Everything that waits is copied, and the vector is cleared.
Deliver ==
  /\ Fits
  /\ event' = [event_type |-> TickType, multipress_events |-> events]
  /\ UNCHANGED <<lostKeys, lostPen>>

\* Too many: they are all thrown away and the batch is empty.
Discard ==
  /\ ~Fits
  /\ event' = [event_type |-> TickType, multipress_events |-> <<>>]
  /\ lostKeys' = lostKeys \cup KeysOf(events)
  /\ lostPen' = (lostPen \/ HasTouch(events))

\* An empty vector gives an empty TICK and asks for the next thread (CodeHook
\* of Threads); _ui_thread_id is written there and read by nobody.
GetEvent ==
  /\ ~unread
  /\ Deliver \/ Discard
  /\ events' = <<>>
  /\ unread' = TRUE
  /\ UNCHANGED <<hostVars, guestKeys, guestPen>>

\* External: the firmware reads the batch; the next call begins by zeroing it.
ReadEvent ==
  LET batch == event.multipress_events IN
  /\ unread
  /\ unread' = FALSE
  /\ event' = NoEvents
  /\ guestKeys' = KeysAfter(guestKeys, batch)
  /\ guestPen' = PenAfter(guestPen, batch)
  /\ lostKeys' = lostKeys \ KeysOf(batch)
  /\ lostPen' = (lostPen /\ ~HasTouch(batch))
  /\ UNCHANGED <<events, hostVars>>

KeyDown  == \E vk \in VirtualKeys : WM_KEYDOWN(vk)
KeyUp    == \E vk \in VirtualKeys : WM_KEYUP(vk)
PenDown  == \E p \in Points : WM_LBUTTONDOWN(p)
PenUp    == \E p \in Points : WM_LBUTTONUP(p)
PenMove  == \E p \in Points : WM_MOUSEMOVE(p)

Next ==
  \/ KeyDown \/ KeyUp \/ PenDown \/ PenUp \/ PenMove \/ WM_CLOSE
  \/ GetEvent \/ ReadEvent

Spec == Init /\ [][Next]_vars

\* The firmware's UI thread polls GetEvent in a loop whenever it is scheduled.
FairSpec == Spec /\ WF_vars(GetEvent) /\ WF_vars(ReadEvent)

-----------------------------------------------------------------------------
(* Properties. *)

\* Every variable has its type; a batch never holds more events than
\* multipress_events has entries, whatever arrives between two calls.
TypeOK ==
  /\ events \in Seq(UIMultipressEvent) /\ Len(events) <= MaxQueued
  /\ is_lbtn_down \in BOOLEAN
  /\ window \in {"open", "closed"}
  /\ event.event_type \in {"INVALID", "TICK", "TICK_2"}
  /\ event.multipress_events \in Seq(UIMultipressEvent)
  /\ Len(event.multipress_events) <= Slots
  /\ unread \in BOOLEAN
  /\ hostKeys \subseteq DeviceKeys /\ guestKeys \subseteq DeviceKeys
  /\ hostPen \in Points \cup {NoPoint} /\ guestPen \in Points \cup {NoPoint}
  /\ lostKeys \subseteq DeviceKeys /\ lostPen \in BOOLEAN

\* What the firmware has read, is about to read and will find queued.
Pending == event.multipress_events \o events

\* Once it has read everything that waits, the firmware knows which keys are
\* down: the window procedure and GetEvent keep the order of key events, lose
\* none but those of a vector that outgrew the batch, and press and release a
\* key under the same code.  A key whose events were thrown away is known again
\* from its next event on.
KeysFollow ==
  \A k \in DeviceKeys \ (lostKeys \ KeysOf(Pending)) :
    (k \in KeysAfter(guestKeys, Pending)) = (k \in hostKeys)

\* The same of the pen: once the firmware has read everything that waits, it
\* knows whether the pen is down and where (WM_LBUTTONDOWN, WM_MOUSEMOVE and
\* WM_LBUTTONUP keep is_lbtn_down and the queue in step).
PenFollows ==
  ~lostPen \/ HasTouch(Pending) => PenAfter(guestPen, Pending) = hostPen

\* A key that is held down is eventually known to be down, released, or its
\* event was thrown away: no event waits in the vector for ever although no
\* thread is woken for it.
KeysReachFirmware ==
  \A k \in DeviceKeys :
    k \in hostKeys ~> (k \in guestKeys \/ k \notin hostKeys \/ k \in lostKeys)
=============================================================================

---------------------------- MODULE UIEventsProofs ----------------------------
(***************************************************************************)
(* What is proved of keyboard and touch input, for every keymap sample,    *)
(* every size of a batch and every interleaving of the window's thread     *)
(* with the firmware's.                                                    *)
(*                                                                         *)
(* A batch that is read is followed by what waits in the vector, so the    *)
(* heart of the argument is what two sequences of events, one after the    *)
(* other, tell of a key or of the pen (KeysConcat, PenConcat).  UInv adds  *)
(* to the properties that nothing is left in a batch once it is read       *)
(* (EmptyWhenRead), and that WndProc's flag says whether the pen is down   *)
(* (PenFlag): without it a move would put the firmware's pen down.         *)
(***************************************************************************)
EXTENDS UIEvents, TLAPS, SequenceTheorems, WellFoundedInduction

EmptyWhenRead == ~unread => event.multipress_events = <<>>

PenFlag == is_lbtn_down <=> hostPen # NoPoint

UInv == TypeOK /\ EmptyWhenRead /\ PenFlag /\ KeysFollow /\ PenFollows

-----------------------------------------------------------------------------
(* Sequences of events. *)

\* The places of a concatenation.
LEMMA Places ==
  ASSUME NEW a \in Seq(UIMultipressEvent), NEW b \in Seq(UIMultipressEvent)
  PROVE  /\ a \o b \in Seq(UIMultipressEvent) /\ Len(a) \in Nat
         /\ DOMAIN a \subseteq Nat \ {0} /\ DOMAIN b \subseteq Nat \ {0}
         /\ DOMAIN (a \o b) \subseteq Nat \ {0}
         /\ \A i \in DOMAIN a : i \in DOMAIN (a \o b) /\ (a \o b)[i] = a[i] /\ i <= Len(a)
         /\ \A j \in DOMAIN b : j + Len(a) \in DOMAIN (a \o b) /\ (a \o b)[j + Len(a)] = b[j]
         /\ \A i \in DOMAIN (a \o b) : i \in DOMAIN a \/ \E j \in DOMAIN b : i = j + Len(a)
<1>1. PICK s, m, n : s = a \o b /\ m = Len(a) /\ n = Len(b)
  OBVIOUS
<1>2. m \in Nat /\ n \in Nat /\ DOMAIN a = 1 .. m /\ DOMAIN b = 1 .. n
  BY <1>1, LenProperties
<1>3. /\ s \in Seq(UIMultipressEvent) /\ Len(s) = m + n
      /\ \A i \in 1 .. m + n : s[i] = IF i <= m THEN a[i] ELSE b[i - m]
  BY <1>1, ConcatProperties
<1>4. DOMAIN s = 1 .. m + n
  BY <1>3, LenProperties
<1>5. \A i \in 1 .. m : i \in 1 .. m + n /\ i <= m
  BY <1>2
<1>6. \A j \in 1 .. n : j + m \in 1 .. m + n /\ ~(j + m <= m) /\ (j + m) - m = j
  BY <1>2
<1>7. \A i \in 1 .. m + n : i \in 1 .. m \/ (i - m \in 1 .. n /\ i = (i - m) + m)
  BY <1>2
<1>8. \A i \in 1 .. m : i \in DOMAIN s /\ s[i] = a[i] /\ i <= m
  BY <1>3, <1>4, <1>5
<1>9. \A j \in 1 .. n : j + m \in DOMAIN s /\ s[j + m] = b[j]
  BY <1>3, <1>4, <1>6
<1>10. \A i \in DOMAIN s : i \in 1 .. m \/ \E j \in 1 .. n : i = j + m
  BY <1>4, <1>7
<1>11. DOMAIN s \subseteq Nat \ {0} /\ 1 .. m \subseteq Nat \ {0} /\ 1 .. n \subseteq Nat \ {0}
  BY <1>2, <1>4
<1> QED BY <1>1, <1>2, <1>3, <1>8, <1>9, <1>10, <1>11

\* The events of two sequences.
LEMMA RangeConcat ==
  ASSUME NEW a \in Seq(UIMultipressEvent), NEW b \in Seq(UIMultipressEvent)
  PROVE  Range(a \o b) = Range(a) \cup Range(b)
<1>1. PICK s, m : s = a \o b /\ m = Len(a)
  OBVIOUS
<1>2. /\ \A i \in DOMAIN a : i \in DOMAIN s /\ s[i] = a[i]
      /\ \A j \in DOMAIN b : j + m \in DOMAIN s /\ s[j + m] = b[j]
      /\ \A i \in DOMAIN s : i \in DOMAIN a \/ \E j \in DOMAIN b : i = j + m
  BY <1>1, Places
<1>3. \A x \in Range(s) : x \in Range(a) \cup Range(b)
  BY <1>2 DEF Range
<1>4. \A x \in Range(a) : x \in Range(s)
  BY <1>2 DEF Range
<1>5. \A x \in Range(b) : x \in Range(s)
  BY <1>2 DEF Range
<1> QED BY <1>1, <1>3, <1>4, <1>5

\* The keys that two sequences are about.
LEMMA KeysOfConcat ==
  ASSUME NEW a \in Seq(UIMultipressEvent), NEW b \in Seq(UIMultipressEvent)
  PROVE  KeysOf(a \o b) = KeysOf(a) \cup KeysOf(b)
<1>1. Range(a \o b) = Range(a) \cup Range(b)
  BY RangeConcat
<1> QED BY <1>1 DEF KeysOf

\* Whether two sequences are about the pen.
LEMMA HasTouchConcat ==
  ASSUME NEW a \in Seq(UIMultipressEvent), NEW b \in Seq(UIMultipressEvent)
  PROVE  HasTouch(a \o b) <=> HasTouch(a) \/ HasTouch(b)
<1>1. Range(a \o b) = Range(a) \cup Range(b)
  BY RangeConcat
<1> QED BY <1>1 DEF HasTouch

\* A key is the subject of a sequence when an event is about it.
LEMMA KeysOfIndex ==
  ASSUME NEW s \in Seq(UIMultipressEvent), NEW k
  PROVE  k \in KeysOf(s) <=> \E i \in DOMAIN s : s[i].type \in KeyTypes /\ s[i].key_code0 = k
BY DEF KeysOf, Range

\* The last word on a key is that of the second sequence, if it is about the key.
LEMMA PressesConcat ==
  ASSUME NEW a \in Seq(UIMultipressEvent), NEW b \in Seq(UIMultipressEvent), NEW k
  PROVE  Presses(a \o b, k) <=> Presses(b, k) \/ (Presses(a, k) /\ k \notin KeysOf(b))
<1>1. PICK s, m : s = a \o b /\ m = Len(a)
  OBVIOUS
<1>2. /\ s \in Seq(UIMultipressEvent) /\ m \in Nat
      /\ DOMAIN a \subseteq Nat \ {0} /\ DOMAIN b \subseteq Nat \ {0} /\ DOMAIN s \subseteq Nat \ {0}
      /\ \A i \in DOMAIN a : i \in DOMAIN s /\ s[i] = a[i] /\ i <= m
      /\ \A j \in DOMAIN b : j + m \in DOMAIN s /\ s[j + m] = b[j]
      /\ \A i \in DOMAIN s : i \in DOMAIN a \/ \E j \in DOMAIN b : i = j + m
  BY <1>1, Places
<1>3. PICK ev : ev = [type |-> "KEY", key_code0 |-> k]
  OBVIOUS
<1>4. ev.type \in KeyTypes /\ ev.key_code0 = k
  BY <1>3 DEF KeyTypes
<1>5. ASSUME Presses(s, k)
      PROVE  Presses(b, k) \/ (Presses(a, k) /\ k \notin KeysOf(b))
  <2>1. PICK i \in DOMAIN s : s[i] = ev /\
              \A j \in DOMAIN s : j > i /\ s[j].type \in KeyTypes => s[j].key_code0 # k
    BY <1>3, <1>5 DEF Presses
  <2>2. CASE i \in DOMAIN a
    <3>1. a[i] = ev /\ \A j \in DOMAIN a : j > i /\ a[j].type \in KeyTypes => a[j].key_code0 # k
      BY <1>2, <2>1, <2>2
    <3>2. \A j \in DOMAIN b : j + m > i
      BY <1>2, <2>2
    <3>3. \A j \in DOMAIN b : b[j].type \in KeyTypes => b[j].key_code0 # k
      BY <1>2, <2>1, <3>2
    <3>4. k \notin KeysOf(b)
      BY <3>3, KeysOfIndex
    <3> QED BY <1>3, <2>2, <3>1, <3>4 DEF Presses
  <2>3. CASE \E j \in DOMAIN b : i = j + m
    <3>1. PICK h \in DOMAIN b : i = h + m
      BY <2>3
    <3>2. \A j \in DOMAIN b : j > h => j + m > i
      BY <1>2, <3>1
    <3>3. b[h] = ev /\ \A j \in DOMAIN b : j > h /\ b[j].type \in KeyTypes => b[j].key_code0 # k
      BY <1>2, <2>1, <3>1, <3>2
    <3> QED BY <1>3, <3>3 DEF Presses
  <2> QED BY <1>2, <2>2, <2>3
<1>6. ASSUME Presses(b, k)
      PROVE  Presses(s, k)
  <2>1. PICK h \in DOMAIN b : b[h] = ev /\
              \A j \in DOMAIN b : j > h /\ b[j].type \in KeyTypes => b[j].key_code0 # k
    BY <1>3, <1>6 DEF Presses
  <2>2. PICK i \in DOMAIN s : i = h + m /\ s[i] = ev
    BY <1>2, <2>1
  <2>3. \A j \in DOMAIN a : ~(j > i)
    BY <1>2, <2>2
  <2>4. \A j \in DOMAIN b : j + m > i => j > h
    BY <1>2, <2>2
  <2>5. \A j \in DOMAIN s : j > i /\ s[j].type \in KeyTypes => s[j].key_code0 # k
    BY <1>2, <2>1, <2>3, <2>4
  <2> QED BY <1>3, <2>2, <2>5 DEF Presses
<1>7. ASSUME Presses(a, k), k \notin KeysOf(b)
      PROVE  Presses(s, k)
  <2>1. PICK i \in DOMAIN a : a[i] = ev /\
              \A j \in DOMAIN a : j > i /\ a[j].type \in KeyTypes => a[j].key_code0 # k
    BY <1>3, <1>7 DEF Presses
  <2>2. \A j \in DOMAIN b : b[j].type \in KeyTypes => b[j].key_code0 # k
    BY <1>7, KeysOfIndex
  <2>3. ASSUME NEW j \in DOMAIN s, j > i, s[j].type \in KeyTypes
        PROVE  s[j].key_code0 # k
    <3>1. CASE j \in DOMAIN a
      BY <1>2, <2>1, <2>3, <3>1
    <3>2. CASE \E h \in DOMAIN b : j = h + m
      <4>1. PICK h \in DOMAIN b : j = h + m
        BY <3>2
      <4>2. s[j] = b[h]
        BY <1>2, <4>1
      <4> QED BY <2>2, <2>3, <4>2
    <3> QED BY <1>2, <3>1, <3>2
  <2>4. i \in DOMAIN s /\ s[i] = ev
    BY <1>2, <2>1
  <2> QED BY <1>3, <2>3, <2>4 DEF Presses
<1> QED BY <1>1, <1>5, <1>6, <1>7

\* A key that is said to be down is the subject of the sequence.
LEMMA PressesKeysOf ==
  ASSUME NEW s \in Seq(UIMultipressEvent), NEW k, Presses(s, k)
  PROVE  k \in KeysOf(s)
<1>1. PICK i \in DOMAIN s : s[i] = [type |-> "KEY", key_code0 |-> k]
  BY DEF Presses
<1>2. s[i].type \in KeyTypes /\ s[i].key_code0 = k
  BY <1>1 DEF KeyTypes
<1> QED BY <1>2, KeysOfIndex

\* Reading one sequence and then another is reading them at once.
LEMMA KeysConcat ==
  ASSUME NEW a \in Seq(UIMultipressEvent), NEW b \in Seq(UIMultipressEvent), NEW keys
  PROVE  KeysAfter(keys, a \o b) = KeysAfter(KeysAfter(keys, a), b)
<1>1. \A k : Presses(a \o b, k) <=> Presses(b, k) \/ (Presses(a, k) /\ k \notin KeysOf(b))
  BY PressesConcat
<1>2. KeysOf(a \o b) = KeysOf(a) \cup KeysOf(b)
  BY KeysOfConcat
<1> QED BY <1>1, <1>2 DEF KeysAfter

-----------------------------------------------------------------------------
(* The pen. *)

\* A set of natural numbers with a bound has a greatest element.
LEMMA GreatestPlace ==
  ASSUME NEW T \in SUBSET Nat, T # {}, NEW n \in Nat, \A t \in T : t <= n
  PROVE  \E x \in T : \A y \in T : y <= x
<1> DEFINE R == {p \in Nat \X Nat : p[1] < p[2]}
           U == {n - t : t \in T}
<1>1. IsWellFoundedOn(R, Nat)
  BY NatLessThanWellFounded DEF OpToRel
<1>2. U \in SUBSET Nat
  OBVIOUS
<1>3. PICK t0 \in T : n - t0 \in U
  OBVIOUS
<1>4. \A x \in U : \E t \in T : x = n - t
  OBVIOUS
<1>5. \A t \in T : n - t \in U
  OBVIOUS
<1>6. \A x, y \in Nat : x < y => <<x, y>> \in R
  OBVIOUS
<1> HIDE DEF R, U
<1>7. PICK u \in U : \A y \in U : ~ (<<y, u>> \in R)
  BY <1>1, <1>2, <1>3, WFMin
<1>8. \A y \in U : ~(y < u)
  BY <1>2, <1>6, <1>7
<1>9. PICK x \in T : u = n - x
  BY <1>4
<1>10. \A y \in T : ~(n - y < n - x)
  BY <1>5, <1>8, <1>9
<1> QED BY <1>9, <1>10

\* The place of the last event about the pen.
LEMMA LastTouchFacts ==
  ASSUME NEW s \in Seq(UIMultipressEvent), HasTouch(s)
  PROVE  /\ LastTouch(s) \in DOMAIN s /\ s[LastTouch(s)].type \in TouchTypes
         /\ \A j \in DOMAIN s : s[j].type \in TouchTypes => j <= LastTouch(s)
<1>1. PICK T : T = {i \in DOMAIN s : s[i].type \in TouchTypes}
  OBVIOUS
<1>2. Len(s) \in Nat /\ DOMAIN s = 1 .. Len(s)
  BY LenProperties
<1>3. T \in SUBSET Nat /\ \A t \in T : t <= Len(s)
  BY <1>1, <1>2
<1>4. T # {}
  BY <1>1 DEF HasTouch, Range
<1>5. PICK x \in T : \A y \in T : y <= x
  BY <1>2, <1>3, <1>4, GreatestPlace
<1>6. \E i \in DOMAIN s :
        /\ s[i].type \in TouchTypes
        /\ \A j \in DOMAIN s : s[j].type \in TouchTypes => j <= i
  BY <1>1, <1>5
<1> QED BY <1>6 DEF LastTouch

\* There is only one such place.
LEMMA LastTouchIs ==
  ASSUME NEW s \in Seq(UIMultipressEvent), NEW i \in DOMAIN s, s[i].type \in TouchTypes,
         \A j \in DOMAIN s : s[j].type \in TouchTypes => j <= i
  PROVE  HasTouch(s) /\ LastTouch(s) = i
<1>1. HasTouch(s)
  BY DEF HasTouch, Range
<1>2. /\ LastTouch(s) \in DOMAIN s /\ s[LastTouch(s)].type \in TouchTypes
      /\ \A j \in DOMAIN s : s[j].type \in TouchTypes => j <= LastTouch(s)
  BY <1>1, LastTouchFacts
<1>3. DOMAIN s \subseteq Nat
  BY LenProperties
<1>4. LastTouch(s) <= i /\ i <= LastTouch(s)
  BY <1>2
<1> QED BY <1>1, <1>2, <1>3, <1>4

\* Reading one sequence and then another is reading them at once.
LEMMA PenConcat ==
  ASSUME NEW a \in Seq(UIMultipressEvent), NEW b \in Seq(UIMultipressEvent), NEW pen
  PROVE  PenAfter(pen, a \o b) = PenAfter(PenAfter(pen, a), b)
<1>1. PICK s, m : s = a \o b /\ m = Len(a)
  OBVIOUS
<1>2. /\ s \in Seq(UIMultipressEvent) /\ m \in Nat
      /\ DOMAIN a \subseteq Nat \ {0} /\ DOMAIN b \subseteq Nat \ {0} /\ DOMAIN s \subseteq Nat \ {0}
      /\ \A i \in DOMAIN a : i \in DOMAIN s /\ s[i] = a[i] /\ i <= m
      /\ \A j \in DOMAIN b : j + m \in DOMAIN s /\ s[j + m] = b[j]
      /\ \A i \in DOMAIN s : i \in DOMAIN a \/ \E j \in DOMAIN b : i = j + m
  BY <1>1, Places
<1>3. HasTouch(s) <=> HasTouch(a) \/ HasTouch(b)
  BY <1>1, HasTouchConcat
<1>4. CASE HasTouch(b)
  <2>1. PICK l : l = LastTouch(b)
    OBVIOUS
  <2>2. /\ l \in DOMAIN b /\ b[l].type \in TouchTypes
        /\ \A j \in DOMAIN b : b[j].type \in TouchTypes => j <= l
    BY <1>4, <2>1, LastTouchFacts
  <2>3. l + m \in DOMAIN s /\ s[l + m] = b[l]
    BY <1>2, <2>2
  <2>4. /\ \A j \in DOMAIN a : j <= l + m
        /\ \A j \in DOMAIN b : j <= l => j + m <= l + m
    BY <1>2, <2>2
  <2>5. \A j \in DOMAIN s : s[j].type \in TouchTypes => j <= l + m
    BY <1>2, <2>2, <2>4
  <2>6. LastTouch(s) = l + m
    BY <1>2, <2>2, <2>3, <2>5, LastTouchIs
  <2>7. PenAfter(pen, s) = Touched(b[l])
    BY <1>3, <1>4, <2>3, <2>6 DEF PenAfter
  <2>8. \A p : PenAfter(p, b) = Touched(b[l])
    BY <1>4, <2>1 DEF PenAfter
  <2> QED BY <1>1, <2>7, <2>8
<1>5. CASE ~HasTouch(b) /\ HasTouch(a)
  <2>1. PICK l : l = LastTouch(a)
    OBVIOUS
  <2>2. /\ l \in DOMAIN a /\ a[l].type \in TouchTypes
        /\ \A j \in DOMAIN a : a[j].type \in TouchTypes => j <= l
    BY <1>5, <2>1, LastTouchFacts
  <2>3. \A j \in DOMAIN b : b[j].type \notin TouchTypes
    BY <1>5 DEF HasTouch, Range
  <2>4. \A j \in DOMAIN s : s[j].type \in TouchTypes => j <= l
    BY <1>2, <2>2, <2>3
  <2>5. l \in DOMAIN s /\ s[l] = a[l]
    BY <1>2, <2>2
  <2>6. LastTouch(s) = l
    BY <1>2, <2>2, <2>4, <2>5, LastTouchIs
  <2>7. PenAfter(pen, s) = Touched(a[l])
    BY <1>3, <1>5, <2>5, <2>6 DEF PenAfter
  <2>8. PenAfter(pen, a) = Touched(a[l]) /\ \A p : PenAfter(p, b) = p
    BY <1>5, <2>1 DEF PenAfter
  <2> QED BY <1>1, <2>7, <2>8
<1>6. CASE ~HasTouch(b) /\ ~HasTouch(a)
  BY <1>1, <1>3, <1>6 DEF PenAfter
<1> QED BY <1>4, <1>5, <1>6

-----------------------------------------------------------------------------
(* No event, and one. *)

\* No event tells nothing.
LEMMA NoEvent ==
  /\ <<>> \in Seq(UIMultipressEvent) /\ Len(<<>>) = 0
  /\ KeysOf(<<>>) = {} /\ ~HasTouch(<<>>)
  /\ \A keys \in SUBSET DeviceKeys : KeysAfter(keys, <<>>) = keys
  /\ \A pen : PenAfter(pen, <<>>) = pen
<1>1. <<>> \in Seq(UIMultipressEvent) /\ Len(<<>>) = 0 /\ DOMAIN <<>> = {}
  OBVIOUS
<1>2. Range(<<>>) = {}
  BY <1>1 DEF Range
<1>3. KeysOf(<<>>) = {} /\ ~HasTouch(<<>>)
  BY <1>2 DEF KeysOf, HasTouch
<1>4. \A k : ~Presses(<<>>, k)
  BY <1>1 DEF Presses
<1> QED BY <1>1, <1>3, <1>4 DEF KeysAfter, PenAfter

\* The kinds of event.
LEMMA EventFacts ==
  ASSUME NEW ev \in UIMultipressEvent
  PROVE  /\ ev.type \in KeyTypes => ev.key_code0 \in DeviceKeys /\ ev.type \notin TouchTypes
         /\ ev.type \in TouchTypes => ev.touch \in Points
         /\ ev.type \in KeyTypes \cup TouchTypes
         /\ ev.type = "KEY" => ev = [type |-> "KEY", key_code0 |-> ev.key_code0]
BY DEF UIMultipressEvent, KeyTypes, TouchTypes

\* One event.
LEMMA OneEvent ==
  ASSUME NEW ev \in UIMultipressEvent
  PROVE  /\ <<ev>> \in Seq(UIMultipressEvent)
         /\ DOMAIN <<ev>> = {1} /\ <<ev>>[1] = ev /\ Range(<<ev>>) = {ev}
<1>1. <<ev>> \in Seq(UIMultipressEvent) /\ DOMAIN <<ev>> = {1} /\ <<ev>>[1] = ev
  OBVIOUS
<1>2. Range(<<ev>>) = {ev}
  BY <1>1 DEF Range
<1> QED BY <1>1, <1>2

\* An event about a key changes what is known of that key only.
LEMMA OneKey ==
  ASSUME NEW ev \in UIMultipressEvent, ev.type \in KeyTypes, NEW keys \in SUBSET DeviceKeys
  PROVE  /\ KeysOf(<<ev>>) = {ev.key_code0} /\ ~HasTouch(<<ev>>)
         /\ KeysAfter(keys, <<ev>>) = IF ev.type = "KEY" THEN keys \cup {ev.key_code0}
                                                         ELSE keys \ {ev.key_code0}
<1>1. /\ <<ev>> \in Seq(UIMultipressEvent)
      /\ DOMAIN <<ev>> = {1} /\ <<ev>>[1] = ev /\ Range(<<ev>>) = {ev}
  BY OneEvent
<1>2. /\ ev.key_code0 \in DeviceKeys /\ ev.type \notin TouchTypes
      /\ ev.type = "KEY" => ev = [type |-> "KEY", key_code0 |-> ev.key_code0]
  BY EventFacts
<1>3. KeysOf(<<ev>>) = {ev.key_code0} /\ ~HasTouch(<<ev>>)
  BY <1>1, <1>2 DEF KeysOf, HasTouch
<1>4. ASSUME NEW k
      PROVE  Presses(<<ev>>, k) <=> ev = [type |-> "KEY", key_code0 |-> k]
  <2>1. PICK s : s = <<ev>> /\ DOMAIN s = {1} /\ s[1] = ev
    BY <1>1
  <2>2. \A i, j \in DOMAIN s : ~(j > i)
    BY <2>1
  <2> QED BY <2>1, <2>2 DEF Presses
<1>5. CASE ev.type = "KEY"
  <2>1. \A k : Presses(<<ev>>, k) <=> k = ev.key_code0
    BY <1>2, <1>4, <1>5
  <2> QED BY <1>2, <1>3, <1>5, <2>1 DEF KeysAfter
<1>6. CASE ev.type # "KEY"
  <2>1. \A k : ~Presses(<<ev>>, k)
    BY <1>4, <1>6
  <2> QED BY <1>3, <1>6, <2>1 DEF KeysAfter
<1> QED BY <1>3, <1>5, <1>6

\* An event about the pen says where it is.
LEMMA OneTouch ==
  ASSUME NEW ev \in UIMultipressEvent, ev.type \in TouchTypes
  PROVE  /\ KeysOf(<<ev>>) = {} /\ HasTouch(<<ev>>)
         /\ \A keys \in SUBSET DeviceKeys : KeysAfter(keys, <<ev>>) = keys
         /\ \A pen : PenAfter(pen, <<ev>>) = Touched(ev)
         /\ Touched(ev) \in Points \cup {NoPoint}
<1>1. /\ <<ev>> \in Seq(UIMultipressEvent)
      /\ DOMAIN <<ev>> = {1} /\ <<ev>>[1] = ev /\ Range(<<ev>>) = {ev}
  BY OneEvent
<1>2. ev.type \notin KeyTypes /\ ev.touch \in Points
  BY EventFacts
<1>3. KeysOf(<<ev>>) = {} /\ HasTouch(<<ev>>)
  BY <1>1, <1>2 DEF KeysOf, HasTouch
<1>4. \A k : ~Presses(<<ev>>, k)
  BY <1>1, <1>3, PressesKeysOf
<1>5. \A keys \in SUBSET DeviceKeys : KeysAfter(keys, <<ev>>) = keys
  BY <1>3, <1>4 DEF KeysAfter
<1>6. LastTouch(<<ev>>) \in DOMAIN <<ev>>
  BY <1>1, <1>3, LastTouchFacts
<1>7. \A pen : PenAfter(pen, <<ev>>) = Touched(ev)
  BY <1>1, <1>3, <1>6 DEF PenAfter
<1>8. Touched(ev) \in Points \cup {NoPoint}
  BY <1>2 DEF Touched
<1> QED BY <1>3, <1>5, <1>7, <1>8

\* What is learned from events has its type.
LEMMA AfterTypes ==
  ASSUME NEW s \in Seq(UIMultipressEvent), NEW pen \in Points \cup {NoPoint}, NEW keys
  PROVE  /\ KeysOf(s) \subseteq DeviceKeys /\ KeysAfter(keys, s) \subseteq DeviceKeys
         /\ PenAfter(pen, s) \in Points \cup {NoPoint} /\ HasTouch(s) \in BOOLEAN
<1>1. \A i \in DOMAIN s : s[i] \in UIMultipressEvent
  BY LenProperties
<1>2. KeysOf(s) \subseteq DeviceKeys
  BY <1>1, KeysOfIndex, EventFacts
<1>3. KeysAfter(keys, s) \subseteq DeviceKeys
  BY DEF KeysAfter
<1>4. HasTouch(s) => s[LastTouch(s)].touch \in Points
  BY <1>1, LastTouchFacts, EventFacts
<1>5. PenAfter(pen, s) \in Points \cup {NoPoint}
  BY <1>4 DEF PenAfter, Touched
<1> QED BY <1>2, <1>3, <1>5 DEF HasTouch

-----------------------------------------------------------------------------
(* One lemma per kind of step. *)

\* The type of the batch and of the vector.
LEMMA PendingFacts ==
  ASSUME TypeOK
  PROVE  /\ events \in Seq(UIMultipressEvent)
         /\ event.multipress_events \in Seq(UIMultipressEvent)
         /\ Pending \in Seq(UIMultipressEvent)
<1>1. events \in Seq(UIMultipressEvent) /\ event.multipress_events \in Seq(UIMultipressEvent)
  BY DEF TypeOK
<1> QED BY <1>1, ConcatProperties DEF Pending

\* The window's thread queues one event.
LEMMA QueueStep ==
  ASSUME TypeOK, NEW ev \in UIMultipressEvent, EnqueueEvent(ev), UNCHANGED event
  PROVE  /\ Pending' = Pending \o <<ev>>
         /\ events' \in Seq(UIMultipressEvent) /\ Len(events') <= MaxQueued
<1>1. /\ events \in Seq(UIMultipressEvent)
      /\ event.multipress_events \in Seq(UIMultipressEvent)
  BY PendingFacts
<1>2. PICK a, b : a = event.multipress_events /\ b = events
  OBVIOUS
<1>3. <<ev>> \in Seq(UIMultipressEvent) /\ events' = b \o <<ev>>
  BY <1>1, <1>2, OneEvent, AppendIsConcat DEF EnqueueEvent
<1>4. a \o (b \o <<ev>>) = (a \o b) \o <<ev>>
  <2>1. PICK S, u : S = UIMultipressEvent /\ u = <<ev>>
    OBVIOUS
  <2>2. a \in Seq(S) /\ b \in Seq(S) /\ u \in Seq(S)
    BY <1>1, <1>2, <1>3, <2>1
  <2>3. (a \o b) \o u = a \o (b \o u)
    BY <2>2, ConcatAssociative
  <2> QED BY <2>1, <2>3
<1>5. Pending' = Pending \o <<ev>>
  BY <1>2, <1>3, <1>4 DEF Pending
<1>6. events' \in Seq(UIMultipressEvent) /\ Len(events') = Len(events) + 1 /\ Len(events) \in Nat
  BY <1>1, AppendProperties, LenProperties DEF EnqueueEvent
<1>7. Len(events') <= MaxQueued
  BY <1>6, UIEventsAssumption DEF EnqueueEvent
<1> QED BY <1>5, <1>6, <1>7

\* An event about a key is queued.
LEMMA KeyEventStep ==
  ASSUME UInv, NEW ev \in UIMultipressEvent, ev.type \in KeyTypes, EnqueueEvent(ev),
         hostKeys' = IF ev.type = "KEY" THEN hostKeys \cup {ev.key_code0}
                                        ELSE hostKeys \ {ev.key_code0},
         UNCHANGED <<is_lbtn_down, window, hostPen, guestVars>>
  PROVE  UInv'
<1>1. UNCHANGED <<event, unread, guestKeys, guestPen, lostKeys, lostPen>>
  BY DEF guestVars
<1>2. PICK P, s, k : P = Pending /\ s = <<ev>> /\ k = ev.key_code0
  OBVIOUS
<1>3. /\ Pending' = P \o s /\ events' \in Seq(UIMultipressEvent) /\ Len(events') <= MaxQueued
  BY <1>1, <1>2, QueueStep DEF UInv
<1>4. /\ P \in Seq(UIMultipressEvent) /\ s \in Seq(UIMultipressEvent) /\ k \in DeviceKeys
  BY <1>2, PendingFacts, OneEvent, EventFacts DEF UInv
<1>5. KeysAfter(guestKeys, P) \subseteq DeviceKeys
  BY DEF KeysAfter
<1>6. /\ KeysOf(s) = {k} /\ ~HasTouch(s)
      /\ KeysAfter(KeysAfter(guestKeys, P), s) =
           IF ev.type = "KEY" THEN KeysAfter(guestKeys, P) \cup {k}
                              ELSE KeysAfter(guestKeys, P) \ {k}
  BY <1>2, <1>5, OneKey
<1>7. /\ KeysOf(P \o s) = KeysOf(P) \cup {k}
      /\ HasTouch(P \o s) <=> HasTouch(P)
      /\ KeysAfter(guestKeys, P \o s) = IF ev.type = "KEY" THEN KeysAfter(guestKeys, P) \cup {k}
                                                           ELSE KeysAfter(guestKeys, P) \ {k}
      /\ PenAfter(guestPen, P \o s) = PenAfter(guestPen, P)
  <2>1. KeysOf(P \o s) = KeysOf(P) \cup KeysOf(s) /\ (HasTouch(P \o s) <=> HasTouch(P) \/ HasTouch(s))
    BY <1>4, KeysOfConcat, HasTouchConcat
  <2>2. KeysAfter(guestKeys, P \o s) = KeysAfter(KeysAfter(guestKeys, P), s)
    BY <1>4, KeysConcat
  <2>3. PenAfter(guestPen, P \o s) = PenAfter(PenAfter(guestPen, P), s)
    BY <1>4, PenConcat
  <2>4. \A p : PenAfter(p, s) = p
    BY <1>6 DEF PenAfter
  <2> QED BY <1>6, <2>1, <2>2, <2>3, <2>4
<1>8. TypeOK'
  <2>1. hostKeys' \subseteq DeviceKeys
    BY <1>2, <1>4 DEF UInv, TypeOK
  <2> QED BY <1>1, <1>3, <2>1 DEF UInv, TypeOK
<1>9. EmptyWhenRead' /\ PenFlag'
  BY <1>1 DEF UInv, EmptyWhenRead, PenFlag
<1>10. KeysFollow'
  <2>1. \A d \in DeviceKeys \ (lostKeys \ KeysOf(P)) :
          (d \in KeysAfter(guestKeys, P)) = (d \in hostKeys)
    BY <1>2 DEF UInv, KeysFollow
  <2>2. SUFFICES ASSUME NEW d \in DeviceKeys \ (lostKeys \ KeysOf(P \o s))
                 PROVE  (d \in KeysAfter(guestKeys, P \o s)) <=> (d \in hostKeys')
    BY <1>1, <1>3 DEF KeysFollow
  <2>3. CASE d = k
    BY <1>2, <1>7, <2>3
  <2>4. CASE d # k
    <3>1. (d \in KeysAfter(guestKeys, P)) <=> (d \in hostKeys)
      BY <1>7, <2>1, <2>2, <2>4
    <3> QED BY <1>2, <1>7, <2>4, <3>1
  <2> QED BY <2>3, <2>4
<1>11. PenFollows'
  BY <1>1, <1>2, <1>3, <1>7 DEF UInv, PenFollows
<1> QED BY <1>8, <1>9, <1>10, <1>11 DEF UInv

\* An event about the pen is queued.
LEMMA TouchEventStep ==
  ASSUME UInv, NEW ev \in UIMultipressEvent, ev.type \in TouchTypes, EnqueueEvent(ev),
         hostPen' = Touched(ev), is_lbtn_down' \in BOOLEAN, is_lbtn_down' <=> hostPen' # NoPoint,
         UNCHANGED <<window, hostKeys, guestVars>>
  PROVE  UInv'
<1>1. UNCHANGED <<event, unread, guestKeys, guestPen, lostKeys, lostPen>>
  BY DEF guestVars
<1>2. PICK P, s : P = Pending /\ s = <<ev>>
  OBVIOUS
<1>3. /\ Pending' = P \o s /\ events' \in Seq(UIMultipressEvent) /\ Len(events') <= MaxQueued
  BY <1>1, <1>2, QueueStep DEF UInv
<1>4. /\ P \in Seq(UIMultipressEvent) /\ s \in Seq(UIMultipressEvent)
  BY <1>2, PendingFacts, OneEvent DEF UInv
<1>5. KeysAfter(guestKeys, P) \subseteq DeviceKeys
  BY DEF KeysAfter
<1>6. /\ KeysOf(s) = {} /\ HasTouch(s)
      /\ KeysAfter(KeysAfter(guestKeys, P), s) = KeysAfter(guestKeys, P)
      /\ \A pen : PenAfter(pen, s) = Touched(ev)
      /\ Touched(ev) \in Points \cup {NoPoint}
  BY <1>2, <1>5, OneTouch
<1>7. /\ KeysOf(P \o s) = KeysOf(P)
      /\ KeysAfter(guestKeys, P \o s) = KeysAfter(guestKeys, P)
      /\ PenAfter(guestPen, P \o s) = Touched(ev)
  <2>1. KeysOf(P \o s) = KeysOf(P) \cup KeysOf(s)
    BY <1>4, KeysOfConcat
  <2>2. KeysAfter(guestKeys, P \o s) = KeysAfter(KeysAfter(guestKeys, P), s)
    BY <1>4, KeysConcat
  <2>3. PenAfter(guestPen, P \o s) = PenAfter(PenAfter(guestPen, P), s)
    BY <1>4, PenConcat
  <2> QED BY <1>6, <2>1, <2>2, <2>3
<1>8. TypeOK'
  BY <1>1, <1>3, <1>6 DEF UInv, TypeOK
<1>9. EmptyWhenRead' /\ PenFlag'
  BY <1>1 DEF UInv, EmptyWhenRead, PenFlag
<1>10. KeysFollow'
  BY <1>1, <1>2, <1>3, <1>7 DEF UInv, KeysFollow
<1>11. PenFollows'
  BY <1>1, <1>3, <1>7 DEF PenFollows
<1> QED BY <1>8, <1>9, <1>10, <1>11 DEF UInv

\* GetEvent hands over what waits, or throws it away.
LEMMA GetEventStep ==
  ASSUME UInv, GetEvent
  PROVE  UInv'
<1>1. /\ ~unread /\ events' = <<>> /\ unread' = TRUE
      /\ UNCHANGED <<is_lbtn_down, window, hostKeys, hostPen, guestKeys, guestPen>>
  BY DEF GetEvent, hostVars
<1>2. event.multipress_events = <<>>
  BY <1>1 DEF UInv, EmptyWhenRead
<1>3. /\ events \in Seq(UIMultipressEvent) /\ Len(events) \in Nat
      /\ <<>> \in Seq(UIMultipressEvent) /\ Len(<<>>) = 0
  BY PendingFacts, LenProperties, NoEvent DEF UInv
<1>4. Pending = events
  BY <1>2, <1>3, ConcatEmptySeq DEF Pending
<1>5. TickType \in {"INVALID", "TICK", "TICK_2"}
  BY DEF TickType
<1>6. PenFlag' /\ EmptyWhenRead'
  BY <1>1 DEF UInv, PenFlag, EmptyWhenRead
<1>7. CASE Deliver
  <2>1. /\ event'.event_type = TickType /\ event'.multipress_events = events
        /\ Len(events) <= Slots /\ UNCHANGED <<lostKeys, lostPen>>
    BY <1>7 DEF Deliver, Fits
  <2>2. Pending' = events
    BY <1>1, <1>3, <2>1, ConcatEmptySeq DEF Pending
  <2>3. TypeOK'
    BY <1>1, <1>3, <1>5, <2>1, UIEventsAssumption DEF UInv, TypeOK
  <2>4. KeysFollow' /\ PenFollows'
    BY <1>1, <1>4, <2>1, <2>2 DEF UInv, KeysFollow, PenFollows
  <2> QED BY <1>6, <2>3, <2>4 DEF UInv
<1>8. CASE Discard
  <2>1. /\ event'.event_type = TickType /\ event'.multipress_events = <<>>
        /\ lostKeys' = lostKeys \cup KeysOf(events)
        /\ lostPen' = (lostPen \/ HasTouch(events))
    BY <1>8 DEF Discard
  <2>2. Pending' = <<>>
    BY <1>1, <1>3, <2>1, ConcatEmptySeq DEF Pending
  <2>3. KeysOf(events) \subseteq DeviceKeys
    BY <1>3, AfterTypes DEF UInv, TypeOK
  <2>4. TypeOK'
    BY <1>1, <1>3, <1>5, <2>1, <2>3, UIEventsAssumption DEF UInv, TypeOK
  <2>5. guestKeys \subseteq DeviceKeys
    BY DEF UInv, TypeOK
  <2>6. KeysFollow'
    <3>1. SUFFICES ASSUME NEW d \in DeviceKeys, d \notin lostKeys'
                   PROVE  (d \in guestKeys) <=> (d \in hostKeys)
      BY <1>1, <2>2, <2>5, NoEvent DEF KeysFollow
    <3>2. d \notin lostKeys /\ d \notin KeysOf(events)
      BY <2>1, <3>1
    <3>3. (d \in KeysAfter(guestKeys, events)) <=> (d \in hostKeys)
      BY <1>4, <3>2 DEF UInv, KeysFollow
    <3>4. ~Presses(events, d)
      BY <1>3, <3>2, PressesKeysOf
    <3> QED BY <3>2, <3>3, <3>4 DEF KeysAfter
  <2>7. PenFollows'
    <3>1. SUFFICES ASSUME ~lostPen' PROVE PenAfter(guestPen, <<>>) = hostPen
      BY <1>1, <2>2, NoEvent DEF PenFollows
    <3>2. ~lostPen /\ ~HasTouch(events)
      BY <2>1, <3>1
    <3>3. PenAfter(guestPen, events) = hostPen
      BY <1>4, <3>2 DEF UInv, PenFollows
    <3> QED BY <3>2, <3>3, NoEvent DEF PenAfter
  <2> QED BY <1>6, <2>4, <2>6, <2>7 DEF UInv
<1> QED BY <1>7, <1>8 DEF GetEvent

\* The firmware reads the batch.
LEMMA ReadStep ==
  ASSUME UInv, ReadEvent
  PROVE  UInv'
<1>1. PICK a, b : a = event.multipress_events /\ b = events
  OBVIOUS
<1>2. /\ unread' = FALSE /\ event' = NoEvents
      /\ guestKeys' = KeysAfter(guestKeys, a) /\ guestPen' = PenAfter(guestPen, a)
      /\ lostKeys' = lostKeys \ KeysOf(a) /\ lostPen' = (lostPen /\ ~HasTouch(a))
      /\ UNCHANGED <<events, is_lbtn_down, window, hostKeys, hostPen>>
  BY <1>1 DEF ReadEvent, hostVars
<1>3. a \in Seq(UIMultipressEvent) /\ b \in Seq(UIMultipressEvent) /\ Pending = a \o b
  BY <1>1, PendingFacts DEF UInv, Pending
<1>4. /\ event'.event_type = "INVALID" /\ event'.multipress_events = <<>>
      /\ <<>> \in Seq(UIMultipressEvent) /\ Len(<<>>) = 0
  BY <1>2, NoEvent DEF NoEvents
<1>5. Pending' = b
  BY <1>1, <1>2, <1>3, <1>4, ConcatEmptySeq DEF Pending
<1>6. /\ KeysAfter(guestKeys', b) = KeysAfter(guestKeys, Pending)
      /\ PenAfter(guestPen', b) = PenAfter(guestPen, Pending)
  BY <1>2, <1>3, KeysConcat, PenConcat
<1>7. /\ KeysOf(Pending) = KeysOf(a) \cup KeysOf(b)
      /\ HasTouch(Pending) <=> HasTouch(a) \/ HasTouch(b)
  BY <1>3, KeysOfConcat, HasTouchConcat
<1>8. TypeOK'
  <2>1. guestKeys' \subseteq DeviceKeys /\ guestPen' \in Points \cup {NoPoint}
    BY <1>2, <1>3, AfterTypes DEF UInv, TypeOK
  <2>2. lostPen' \in BOOLEAN /\ lostKeys' \subseteq DeviceKeys
    BY <1>2 DEF UInv, TypeOK
  <2>3. Len(event'.multipress_events) <= Slots
    BY <1>4, UIEventsAssumption
  <2> QED BY <1>2, <1>4, <2>1, <2>2, <2>3 DEF UInv, TypeOK
<1>9. EmptyWhenRead' /\ PenFlag'
  BY <1>2, <1>4 DEF UInv, EmptyWhenRead, PenFlag
<1>10. KeysFollow'
  <2>1. lostKeys' \ KeysOf(b) = lostKeys \ KeysOf(Pending)
    BY <1>2, <1>7
  <2> QED BY <1>2, <1>5, <1>6, <2>1 DEF UInv, KeysFollow
<1>11. PenFollows'
  <2>1. ~lostPen' \/ HasTouch(b) => ~lostPen \/ HasTouch(Pending)
    BY <1>2, <1>7
  <2> QED BY <1>2, <1>5, <1>6, <2>1 DEF UInv, PenFollows
<1> QED BY <1>8, <1>9, <1>10, <1>11 DEF UInv

\* A key that the keymap knows is pressed and released under one code.
LEMMA KeyMessageStep ==
  ASSUME UInv, NEW vk \in VirtualKeys, WM_KEYDOWN(vk) \/ WM_KEYUP(vk)
  PROVE  UInv'
<1>1. NumpadUp = NumpadDown
  BY DEF NumpadUp, NumpadDown
<1>2. PICK k : k = DeviceKey(vk)
  OBVIOUS
<1>3. Mapped(vk, NumpadDown) \in DOMAIN vk_to_device_keymap
  BY <1>1 DEF WM_KEYDOWN, WM_KEYUP, KeyMessage
<1>4. k \in DeviceKeys
  BY <1>2, <1>3 DEF DeviceKey, DeviceKeys, Range
<1>5. UNCHANGED <<is_lbtn_down, window, hostPen, guestVars>>
  BY DEF WM_KEYDOWN, WM_KEYUP, KeyMessage
<1>6. CASE WM_KEYDOWN(vk)
  <2>1. PICK ev : ev = [type |-> "KEY", key_code0 |-> k]
    OBVIOUS
  <2>2. /\ ev \in UIMultipressEvent /\ ev.type \in KeyTypes /\ ev.type = "KEY" /\ ev.key_code0 = k
    BY <1>4, <2>1 DEF UIMultipressEvent, KeyTypes
  <2>3. EnqueueEvent(ev) /\ hostKeys' = hostKeys \cup {k}
    BY <1>2, <1>6, <2>1 DEF WM_KEYDOWN, KeyMessage, DeviceKey
  <2> QED BY <1>5, <2>2, <2>3, KeyEventStep
<1>7. CASE WM_KEYUP(vk)
  <2>1. PICK ev : ev = [type |-> "KEY_UP", key_code0 |-> k]
    OBVIOUS
  <2>2. /\ ev \in UIMultipressEvent /\ ev.type \in KeyTypes /\ ev.type # "KEY" /\ ev.key_code0 = k
    BY <1>4, <2>1 DEF UIMultipressEvent, KeyTypes
  <2>3. EnqueueEvent(ev) /\ hostKeys' = hostKeys \ {k}
    BY <1>1, <1>2, <1>7, <2>1 DEF WM_KEYUP, KeyMessage, DeviceKey
  <2> QED BY <1>5, <2>2, <2>3, KeyEventStep
<1> QED BY <1>6, <1>7

\* The pen is put down, moved or lifted.
LEMMA TouchMessageStep ==
  ASSUME UInv, NEW p \in Points, WM_LBUTTONDOWN(p) \/ WM_LBUTTONUP(p) \/ WM_MOUSEMOVE(p)
  PROVE  UInv'
<1>1. UNCHANGED <<window, hostKeys, guestVars>> /\ p # NoPoint
  BY UIEventsAssumption DEF WM_LBUTTONDOWN, WM_LBUTTONUP, WM_MOUSEMOVE, TouchMessage
<1>2. CASE WM_LBUTTONDOWN(p)
  <2>1. PICK ev : ev = [type |-> "TOUCH_BEGIN", touch |-> p]
    OBVIOUS
  <2>2. ev \in UIMultipressEvent /\ ev.type \in TouchTypes /\ Touched(ev) = p
    BY <2>1 DEF UIMultipressEvent, TouchTypes, Touched
  <2>3. EnqueueEvent(ev) /\ hostPen' = p /\ is_lbtn_down' = TRUE
    BY <1>2, <2>1 DEF WM_LBUTTONDOWN, TouchMessage
  <2> QED BY <1>1, <2>2, <2>3, TouchEventStep
<1>3. CASE WM_LBUTTONUP(p)
  <2>1. PICK ev : ev = [type |-> "TOUCH_END", touch |-> p]
    OBVIOUS
  <2>2. ev \in UIMultipressEvent /\ ev.type \in TouchTypes /\ Touched(ev) = NoPoint
    BY <2>1 DEF UIMultipressEvent, TouchTypes, Touched
  <2>3. EnqueueEvent(ev) /\ hostPen' = NoPoint /\ is_lbtn_down' = FALSE
    BY <1>3, <2>1 DEF WM_LBUTTONUP, TouchMessage
  <2> QED BY <1>1, <2>2, <2>3, TouchEventStep
<1>4. CASE WM_MOUSEMOVE(p)
  <2>1. PICK ev : ev = [type |-> "TOUCH_MOVE", touch |-> p]
    OBVIOUS
  <2>2. ev \in UIMultipressEvent /\ ev.type \in TouchTypes /\ Touched(ev) = p
    BY <2>1 DEF UIMultipressEvent, TouchTypes, Touched
  <2>3. is_lbtn_down /\ hostPen # NoPoint /\ is_lbtn_down \in BOOLEAN
    BY <1>4 DEF WM_MOUSEMOVE, UInv, PenFlag, TypeOK
  <2>4. EnqueueEvent(ev) /\ hostPen' = p /\ is_lbtn_down' = is_lbtn_down
    BY <1>4, <2>1, <2>3 DEF WM_MOUSEMOVE, TouchMessage
  <2> QED BY <1>1, <2>2, <2>3, <2>4, TouchEventStep
<1> QED BY <1>2, <1>3, <1>4

-----------------------------------------------------------------------------
(* The theorems. *)

\* Nothing is pressed, and nothing waits.
LEMMA UInvInit == Init => UInv
<1> SUFFICES ASSUME Init PROVE UInv
  OBVIOUS
<1>1. /\ events = <<>> /\ event.multipress_events = <<>> /\ event.event_type = "INVALID"
      /\ hostKeys = {} /\ guestKeys = {} /\ lostKeys = {}
      /\ hostPen = NoPoint /\ guestPen = NoPoint /\ lostPen = FALSE
      /\ is_lbtn_down = FALSE /\ window = "open" /\ unread = FALSE
  BY DEF Init, NoEvents
<1>2. <<>> \in Seq(UIMultipressEvent) /\ Len(<<>>) = 0
  BY NoEvent
<1>3. Pending = <<>>
  BY <1>1, <1>2, ConcatEmptySeq DEF Pending
<1>4. TypeOK
  <2>1. /\ Len(events) <= MaxQueued /\ Len(event.multipress_events) <= Slots
        /\ events \in Seq(UIMultipressEvent) /\ event.multipress_events \in Seq(UIMultipressEvent)
    BY <1>1, <1>2, UIEventsAssumption
  <2>2. /\ is_lbtn_down \in BOOLEAN /\ unread \in BOOLEAN /\ lostPen \in BOOLEAN
        /\ window \in {"open", "closed"} /\ event.event_type \in {"INVALID", "TICK", "TICK_2"}
    BY <1>1
  <2> QED BY <1>1, <2>1, <2>2 DEF TypeOK
<1>5. EmptyWhenRead /\ PenFlag
  BY <1>1 DEF EmptyWhenRead, PenFlag
<1>6. KeysFollow /\ PenFollows
  BY <1>1, <1>3, NoEvent DEF KeysFollow, PenFollows
<1> QED BY <1>4, <1>5, <1>6 DEF UInv

\* Every step keeps the invariant.
LEMMA UInvStep == UInv /\ [Next]_vars => UInv'
<1> SUFFICES ASSUME UInv, [Next]_vars PROVE UInv'
  OBVIOUS
<1>1. CASE KeyDown \/ KeyUp
  BY <1>1, KeyMessageStep DEF KeyDown, KeyUp
<1>2. CASE PenDown \/ PenUp \/ PenMove
  BY <1>2, TouchMessageStep DEF PenDown, PenUp, PenMove
<1>3. CASE WM_CLOSE
  <2>1. /\ UNCHANGED <<events, is_lbtn_down, hostKeys, hostPen>> /\ window' = "closed"
        /\ UNCHANGED <<event, unread, guestKeys, guestPen, lostKeys, lostPen>>
    BY <1>3 DEF WM_CLOSE, guestVars
  <2>2. Pending' = Pending
    BY <2>1 DEF Pending
  <2>3. TypeOK' /\ EmptyWhenRead' /\ PenFlag'
    BY <2>1 DEF UInv, TypeOK, EmptyWhenRead, PenFlag
  <2>4. KeysFollow' /\ PenFollows'
    BY <2>1, <2>2 DEF UInv, KeysFollow, PenFollows
  <2> QED BY <2>3, <2>4 DEF UInv
<1>4. CASE GetEvent
  BY <1>4, GetEventStep
<1>5. CASE ReadEvent
  BY <1>5, ReadStep
<1>6. CASE UNCHANGED vars
  <2>1. UNCHANGED <<events, is_lbtn_down, window, hostKeys, hostPen,
                    event, unread, guestKeys, guestPen, lostKeys, lostPen>>
    BY <1>6 DEF vars, hostVars, guestVars
  <2>2. Pending' = Pending
    BY <2>1 DEF Pending
  <2>3. TypeOK' /\ EmptyWhenRead' /\ PenFlag'
    BY <2>1 DEF UInv, TypeOK, EmptyWhenRead, PenFlag
  <2>4. KeysFollow' /\ PenFollows'
    BY <2>1, <2>2 DEF UInv, KeysFollow, PenFollows
  <2> QED BY <2>3, <2>4 DEF UInv
<1> QED BY <1>1, <1>2, <1>3, <1>4, <1>5, <1>6 DEF Next

\* The invariant of the event queue holds in every reachable state.
THEOREM InputInvariance == Spec => []UInv
<1>1. Init => UInv
  BY UInvInit
<1>2. UInv /\ [Next]_vars => UInv'
  BY UInvStep
<1> QED BY <1>1, <1>2, PTL DEF Spec

\* GetEvent never writes more events than multipress_events has entries, whatever
\* arrives between two calls, and every variable has its type.
THEOREM BatchFits == Spec => []TypeOK
<1>1. UInv => TypeOK
  BY DEF UInv
<1> QED BY <1>1, InputInvariance, PTL

\* Once it has read what waits, the firmware knows which keys are down, but for
\* those whose events GetEvent threw away and that have sent none since.
THEOREM KeysReported == Spec => []KeysFollow
<1>1. UInv => KeysFollow
  BY DEF UInv
<1> QED BY <1>1, InputInvariance, PTL

\* Once it has read what waits, the firmware knows whether the pen is down and
\* where, unless its latest event was thrown away.
THEOREM PenReported == Spec => []PenFollows
<1>1. UInv => PenFollows
  BY DEF UInv
<1> QED BY <1>1, InputInvariance, PTL
=============================================================================

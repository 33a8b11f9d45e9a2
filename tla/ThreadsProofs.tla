---------------------------- MODULE ThreadsProofs ----------------------------
(***************************************************************************)
(* Proofs about the guest threads, for any number of threads, critical     *)
(* sections and events.  The properties of Threads are not inductive one   *)
(* by one: that a waiter is queued once needs that a thread that calls     *)
(* EnterCriticalSection is not queued already, which is BlockedNeverRuns,  *)
(* which needs that CanRun is right about the queues.  IInv puts them      *)
(* together; each action is shown to preserve it, looking only at the      *)
(* section or the event it touches: the first part.                        *)
(*                                                                         *)
(* The second part is about the CPU contexts, for any number of points     *)
(* told apart.  Contexts takes every step of Threads together with what it *)
(* does to the engine, so it implements Threads and inherits its theorems. *)
(* That a switch is invisible is not inductive by itself: SwitchThread     *)
(* loads what an earlier stop saved, and loads nothing when the ring has   *)
(* one thread, so the engine must still be the thread's own while it is    *)
(* stopped, and a thread not created yet must have the context its         *)
(* constructor gives it.                                                   *)
(***************************************************************************)
EXTENDS Contexts, TLAPS, SequenceTheorems

-----------------------------------------------------------------------------
(* Queues: what Append, Tail and RemoveFirst do to their elements.         *)

\* The first element of a queue and the rest, position by position.
LEMMA HeadTail ==
  ASSUME NEW S, NEW q \in Seq(S), q # << >>
  PROVE  /\ Len(q) \in Nat \ {0}
         /\ Head(q) = q[1]
         /\ Head(q) \in S
         /\ Tail(q) \in Seq(S)
         /\ Len(Tail(q)) = Len(q) - 1
         /\ \A i \in 1 .. Len(q) - 1 : Tail(q)[i] = q[i + 1]
  OBVIOUS

\* A queue with an element appended, position by position.
LEMMA AppendFacts ==
  ASSUME NEW S, NEW q \in Seq(S), NEW x \in S
  PROVE  /\ Append(q, x) \in Seq(S)
         /\ Len(Append(q, x)) = Len(q) + 1
         /\ \A i \in 1 .. Len(q) : Append(q, x)[i] = q[i]
         /\ Append(q, x)[Len(q) + 1] = x
         /\ Len(q) \in Nat
  OBVIOUS

\* A queue without its k-th element, position by position.
LEMMA RemoveAtFacts ==
  ASSUME NEW S, NEW q \in Seq(S), NEW k \in 1 .. Len(q)
  PROVE  /\ RemoveAt(q, k) \in Seq(S)
         /\ Len(RemoveAt(q, k)) = Len(q) - 1
         /\ \A i \in 1 .. Len(q) - 1 : RemoveAt(q, k)[i] = IF i < k THEN q[i] ELSE q[i + 1]
<1> DEFINE a == SubSeq(q, 1, k - 1)
           b == SubSeq(q, k + 1, Len(q))
<1>0. Len(q) \in Nat
  OBVIOUS
<1>1. a \in Seq(S) /\ Len(a) = k - 1 /\ \A i \in 1 .. k - 1 : a[i] = q[i]
  <2>1. \A i \in 1 .. k - 1 : q[i] \in S
    OBVIOUS
  <2>2. a \in Seq(S) /\ Len(a) = IF 1 <= k - 1 THEN k - 1 - 1 + 1 ELSE 0
    BY <1>0, <2>1, SubSeqProperties
  <2>. QED BY <1>0, <2>2, SubSeqProperties
<1>2. b \in Seq(S) /\ Len(b) = Len(q) - k /\ \A i \in 1 .. Len(q) - k : b[i] = q[k + i]
  BY <1>0, SubSeqProperties
<1> HIDE DEF a, b
<1>3. RemoveAt(q, k) = a \o b
  BY DEF RemoveAt, a, b
<1>4. a \o b \in Seq(S) /\ Len(a \o b) = Len(q) - 1
  <2>1. a \in Seq(S) /\ b \in Seq(S)
    BY <1>1, <1>2
  <2>2. a \o b \in Seq(S) /\ Len(a \o b) = Len(a) + Len(b)
    BY <2>1
  <2>3. Len(a) = k - 1 /\ Len(b) = Len(q) - k
    BY <1>1, <1>2
  <2>4. (k - 1) + (Len(q) - k) = Len(q) - 1
    BY <1>0
  <2>. QED BY <2>2, <2>3, <2>4
<1>5. \A i \in 1 .. Len(q) - 1 : (a \o b)[i] = IF i < k THEN q[i] ELSE q[i + 1]
  BY <1>0, <1>1, <1>2
<1>. QED BY <1>3, <1>4, <1>5

\* In a queue without repetitions RemoveFirst takes out the one occurrence.
LEMMA RemoveFirstIsRemoveAt ==
  ASSUME NEW S, NEW q \in Seq(S), NEW k \in 1 .. Len(q), Distinct(q)
  PROVE  RemoveFirst(q, q[k]) = RemoveAt(q, k)
<1> DEFINE I == {i \in 1 .. Len(q) : q[i] = q[k]}
<1>1. I = {k}
  BY DEF Distinct
<1>2. Min(I) = k
  <2>1. k <= k
    OBVIOUS
  <2>. QED BY <1>1, <2>1 DEF Min
<1>. QED BY <1>1, <1>2 DEF RemoveFirst, SelectInSeq

\* Queueing a newcomer keeps the queue free of repetitions.
LEMMA AppendQueue ==
  ASSUME NEW S, NEW q \in Seq(S), NEW x \in S, Distinct(q), ~Has(q, x)
  PROVE  /\ Distinct(Append(q, x))
         /\ \A y : Has(Append(q, x), y) <=> Has(q, y) \/ y = x
<1>1. Distinct(Append(q, x))
  BY AppendFacts DEF Distinct, Has
<1>2. \A y : Has(Append(q, x), y) => Has(q, y) \/ y = x
  BY AppendFacts DEF Has
<1>3. \A y : Has(q, y) => Has(Append(q, x), y)
  BY AppendFacts DEF Has
<1>4. Has(Append(q, x), x)
  BY AppendFacts DEF Has
<1>. QED BY <1>1, <1>2, <1>3, <1>4

\* Serving the first waiter takes exactly that one out of the queue.
LEMMA TailQueue ==
  ASSUME NEW S, NEW q \in Seq(S), q # << >>, Distinct(q)
  PROVE  /\ Distinct(Tail(q))
         /\ Has(q, Head(q))
         /\ \A y : Has(Tail(q), y) <=> Has(q, y) /\ y # Head(q)
<1>1. Distinct(Tail(q)) /\ Has(q, Head(q))
  BY HeadTail DEF Distinct, Has
<1>2. ASSUME NEW y, Has(Tail(q), y)
      PROVE  Has(q, y) /\ y # Head(q)
  <2>1. PICK i \in 1 .. Len(Tail(q)) : Tail(q)[i] = y
    BY <1>2 DEF Has
  <2>2. i + 1 \in 1 .. Len(q) /\ q[i + 1] = y /\ 1 \in 1 .. Len(q) /\ i + 1 # 1
    BY <2>1, HeadTail
  <2>. QED BY <2>2, HeadTail DEF Has, Distinct
<1>3. ASSUME NEW y, Has(q, y), y # Head(q)
      PROVE  Has(Tail(q), y)
  <2>1. PICK i \in 1 .. Len(q) : q[i] = y
    BY <1>3 DEF Has
  <2>2. i - 1 \in 1 .. Len(Tail(q)) /\ Tail(q)[i - 1] = y
    BY <1>3, <2>1, HeadTail
  <2>. QED BY <2>2 DEF Has
<1>. QED BY <1>1, <1>2, <1>3

\* Taking out a thread that waits leaves the others, as std::find and erase do.
LEMMA RemoveFirstQueue ==
  ASSUME NEW S, NEW q \in Seq(S), NEW x, Distinct(q), Has(q, x)
  PROVE  /\ RemoveFirst(q, x) \in Seq(S)
         /\ Len(RemoveFirst(q, x)) = Len(q) - 1
         /\ RemoveFirst(q, x) # q
         /\ Distinct(RemoveFirst(q, x))
         /\ \A y : Has(RemoveFirst(q, x), y) <=> Has(q, y) /\ y # x
<1>1. PICK k \in 1 .. Len(q) : q[k] = x
  BY DEF Has
<1> DEFINE r == RemoveFirst(q, x)
<1>2. /\ r \in Seq(S) /\ Len(r) = Len(q) - 1 /\ Len(q) \in Nat
      /\ \A i \in 1 .. Len(q) - 1 : r[i] = IF i < k THEN q[i] ELSE q[i + 1]
  BY <1>1, RemoveFirstIsRemoveAt, RemoveAtFacts
<1> HIDE DEF r
<1>3. r # q
  BY <1>2
<1>4. Distinct(r)
  BY <1>2 DEF Distinct
<1>5. ASSUME NEW y, Has(r, y)
      PROVE  Has(q, y) /\ y # x
  <2>1. PICK i \in 1 .. Len(q) - 1 : r[i] = y
    BY <1>2, <1>5 DEF Has
  <2> DEFINE j == IF i < k THEN i ELSE i + 1
  <2>2. j \in 1 .. Len(q) /\ j # k /\ q[j] = y
    BY <1>2, <2>1
  <2>. QED BY <1>1, <2>2 DEF Has, Distinct
<1>6. ASSUME NEW y, Has(q, y), y # x
      PROVE  Has(r, y)
  <2>1. PICK j \in 1 .. Len(q) : q[j] = y
    BY <1>6 DEF Has
  <2>2. CASE j < k
    BY <1>2, <2>1, <2>2 DEF Has
  <2>3. CASE j > k
    <3>1. j - 1 \in 1 .. Len(r) /\ r[j - 1] = y
      BY <1>2, <2>1, <2>3
    <3>. QED BY <3>1 DEF Has
  <2>. QED BY <1>1, <1>6, <2>1, <2>2, <2>3
<1>. QED BY <1>2, <1>3, <1>4, <1>5, <1>6 DEF r

-----------------------------------------------------------------------------
(* The inductive invariant.                                                *)

\* Nobody waits for an event that has not been created yet.
FutureEventsIdle == \A e \in EventIds : e > nevents => ev[e].waiters = << >>

IInv ==
  /\ TypeOK
  /\ OwnerAgreement
  /\ WaitersAgreement
  /\ EventAgreement
  /\ FutureEventsIdle
  /\ BlockedNeverRuns

USE ThreadsAssumption

\* The state in which Execute starts the engine satisfies the invariant.
LEMMA InitIInv == Init => IInv
<1> SUFFICES ASSUME Init PROVE IInv
  OBVIOUS
<1>1. TypeOK
  <2>. << >> \in Seq(Tids)
    OBVIOUS
  <2>0. PICK r \in CSRecord : r = FreshCS
    <3>1. FreshCS \in CSRecord
      BY DEF FreshCS, CSRecord
    <3>. QED BY <3>1
  <2>1. [r EXCEPT !.init = FALSE] \in CSRecord
    BY DEF CSRecord
  <2>2. cs \in [CriticalSections -> CSRecord]
    BY <2>0, <2>1 DEF Init
  <2>3. ev \in [EventIds -> EventRecord]
    BY DEF Init, EventRecord
  <2>4. nthreads \in 1 .. MaxThreads /\ next \in [Tids -> Live] /\ current \in Live
    BY DEF Init, Live
  <2>5. /\ requested \in [Tids -> CriticalSections \cup {NoCS}]
        /\ owned \in [Tids -> [CriticalSections -> Nat]]
        /\ waitingEvent \in [Tids -> 0 .. MaxEvents]
        /\ waitEnd \in [Tids -> WaitAlarm] /\ sleepEnd \in [Tids -> Alarm]
    BY DEF Init, Alarm, WaitAlarm
  <2>6. phase \in {"hook", "guest", "stopped", "failed"} /\ nevents \in 0 .. MaxEvents
    BY DEF Init
  <2>7. yielding \in BOOLEAN /\ elapsed \in BOOLEAN
    BY DEF Init
  <2>. QED BY <2>2, <2>3, <2>4, <2>5, <2>6, <2>7 DEF TypeOK
<1>2. OwnerAgreement
  BY DEF Init, OwnerAgreement, OwnerAgrees, Tids, FreshCS, NoOwner
<1>3. WaitersAgreement
  BY DEF Init, WaitersAgreement, WaitersAgree, Distinct, Has, FreshCS
<1>4. EventAgreement
  BY DEF Init, EventAgreement, EventAgrees, Distinct, Has, EventIds
<1>5. BlockedNeverRuns
  BY DEF Init, BlockedNeverRuns
<1>6. FutureEventsIdle
  BY DEF Init, FutureEventsIdle
<1>. QED BY <1>1, <1>2, <1>3, <1>4, <1>5, <1>6 DEF IInv

\* A thread that waits for a section does not own it: CanRun never takes its
\* "granted meanwhile" branch.
LEMMA NeverGranted ==
  ASSUME IInv, NEW t \in Tids
  PROVE  ~Granted(t)
  BY DEF IInv, TypeOK, WaitersAgreement, WaitersAgree, Granted

\* What is left of TypeOK for the variables of the critical sections.
CSTypeOK ==
  /\ cs \in [CriticalSections -> CSRecord]
  /\ requested \in [Tids -> CriticalSections \cup {NoCS}]
  /\ owned \in [Tids -> [CriticalSections -> Nat]]

\* What TypeOK says of the parts of one section and one thread.
LEMMA CSFields ==
  ASSUME TypeOK, NEW c \in CriticalSections
  PROVE  /\ cs[c].ownerHandle \in Tids \cup {NoOwner}
         /\ cs[c].recursionCount \in Nat
         /\ cs[c].waiters \in Seq(Tids)
         /\ cs[c].contentionCount \in Nat
         /\ \A t \in Tids : owned[t][c] \in Nat
         /\ NoOwner \notin Tids
  BY DEF TypeOK, CSRecord, NoOwner, Tids

\* A step that touches section c only has to be looked at there.
LEMMA OneSection ==
  ASSUME IInv, NEW c \in CriticalSections,
         \A d \in CriticalSections \ {c} : cs'[d] = cs[d],
         \A d \in CriticalSections \ {c}, u \in Tids : owned'[u][d] = owned[u][d],
         \A d \in CriticalSections \ {c}, u \in Tids : requested'[u] = d <=> requested[u] = d,
         OwnerAgrees(c)', WaitersAgree(c)'
  PROVE  OwnerAgreement' /\ WaitersAgreement'
<1>1. TypeOK /\ OwnerAgreement /\ WaitersAgreement
  BY DEF IInv
<1>2. ASSUME NEW d \in CriticalSections \ {c}
      PROVE  OwnerAgrees(d)' /\ WaitersAgree(d)'
  <2>1. OwnerAgrees(d) /\ WaitersAgree(d)
    BY <1>1 DEF OwnerAgreement, WaitersAgreement
  <2>2. OwnerAgrees(d)'
    BY <1>1, <2>1, CSFields DEF OwnerAgrees
  <2>3. WaitersAgree(d)'
    BY <2>1 DEF WaitersAgree
  <2>. QED BY <2>2, <2>3
<1>. QED BY <1>2 DEF OwnerAgreement, WaitersAgreement

\* The same facts about one section, as the lemmas below use them.
LEMMA SectionFacts ==
  ASSUME IInv, NEW c \in CriticalSections
  PROVE  /\ TypeOK /\ OwnerAgrees(c) /\ WaitersAgree(c)
         /\ cs \in [CriticalSections -> CSRecord]
         /\ cs[c] \in CSRecord
         /\ requested \in [Tids -> CriticalSections \cup {NoCS}]
         /\ owned \in [Tids -> [CriticalSections -> Nat]]
  BY DEF IInv, TypeOK, OwnerAgreement, WaitersAgreement

\* EnterCriticalSection by the owner.
LEMMA ReenterStep ==
  ASSUME IInv, NEW t \in Tids, NEW c \in CriticalSections, Reenter(t, c)
  PROVE  CSTypeOK' /\ OwnerAgreement' /\ WaitersAgreement'
<1>1. PICK r \in CSRecord : r = cs[c]
  BY SectionFacts
<1>2. [r EXCEPT !.recursionCount = r.recursionCount + 1] \in CSRecord
  BY DEF CSRecord
<1>3. CSTypeOK'
  BY <1>1, <1>2, SectionFacts DEF CSTypeOK, Reenter
<1>4. /\ \A d \in CriticalSections \ {c} : cs'[d] = cs[d]
      /\ \A d \in CriticalSections \ {c}, u \in Tids : owned'[u][d] = owned[u][d]
      /\ cs'[c].recursionCount = cs[c].recursionCount + 1
      /\ cs'[c].ownerHandle = cs[c].ownerHandle
      /\ cs'[c].waiters = cs[c].waiters
      /\ cs'[c].contentionCount = cs[c].contentionCount
      /\ \A u \in Tids \ {t} : owned'[u][c] = owned[u][c]
      /\ owned'[t][c] = owned[t][c] + 1
      /\ cs[c].ownerHandle = t
      /\ requested' = requested
  BY <1>1, SectionFacts DEF CSRecord, Reenter
<1>5. OwnerAgrees(c)'
  BY <1>4, SectionFacts, CSFields DEF OwnerAgrees
<1>6. WaitersAgree(c)'
  BY <1>4, SectionFacts DEF WaitersAgree
<1>. QED BY <1>3, <1>4, <1>5, <1>6, OneSection

\* EnterCriticalSection of a free section.
LEMMA AcquireStep ==
  ASSUME IInv, NEW t \in Tids, NEW c \in CriticalSections, Acquire(t, c)
  PROVE  CSTypeOK' /\ OwnerAgreement' /\ WaitersAgreement'
<1>1. PICK r \in CSRecord : r = cs[c]
  BY SectionFacts
<1>2. [[r EXCEPT !.ownerHandle = t] EXCEPT !.recursionCount = 1] \in CSRecord
  BY DEF CSRecord
<1>3. CSTypeOK'
  BY <1>1, <1>2, SectionFacts DEF CSTypeOK, Acquire
<1>4. /\ \A d \in CriticalSections \ {c} : cs'[d] = cs[d]
      /\ \A d \in CriticalSections \ {c}, u \in Tids : owned'[u][d] = owned[u][d]
      /\ cs'[c].recursionCount = 1
      /\ cs'[c].ownerHandle = t
      /\ cs'[c].waiters = << >>
      /\ cs[c].waiters = << >>
      /\ cs'[c].contentionCount = cs[c].contentionCount
      /\ \A u \in Tids \ {t} : owned'[u][c] = owned[u][c]
      /\ owned'[t][c] = 1
      /\ cs[c].ownerHandle = NoOwner
      /\ requested' = requested
  BY <1>1, SectionFacts DEF CSRecord, Acquire, Acquirable
<1>5. OwnerAgrees(c)'
  BY <1>4, SectionFacts, CSFields DEF OwnerAgrees
<1>6. WaitersAgree(c)'
  BY <1>4, SectionFacts DEF WaitersAgree, Has
<1>. QED BY <1>3, <1>4, <1>5, <1>6, OneSection

\* EnterCriticalSection of a section that another thread owns.
LEMMA EnqueueStep ==
  ASSUME IInv, NEW t \in Tids, NEW c \in CriticalSections, Enqueue(t, c), requested[t] = NoCS
  PROVE  CSTypeOK' /\ OwnerAgreement' /\ WaitersAgreement'
<1>1. PICK r \in CSRecord : r = cs[c]
  BY SectionFacts
<1>2. [[r EXCEPT !.waiters = Append(r.waiters, t)]
         EXCEPT !.contentionCount = r.contentionCount + 1] \in CSRecord
  <2>1. PICK q \in Seq(Tids) : q = Append(r.waiters, t)
    BY <1>1, CSFields, SectionFacts, AppendFacts
  <2>2. PICK k \in Nat : k = r.contentionCount + 1
    BY <1>1, CSFields, SectionFacts
  <2>3. [[r EXCEPT !.waiters = q] EXCEPT !.contentionCount = k] \in CSRecord
    BY DEF CSRecord
  <2>. QED BY <2>1, <2>2, <2>3
<1>3. CSTypeOK'
  BY <1>1, <1>2, SectionFacts DEF CSTypeOK, Enqueue
<1>4. /\ \A d \in CriticalSections \ {c} : cs'[d] = cs[d]
      /\ owned' = owned
      /\ cs'[c].recursionCount = cs[c].recursionCount
      /\ cs'[c].ownerHandle = cs[c].ownerHandle
      /\ cs'[c].waiters = Append(cs[c].waiters, t)
      /\ cs'[c].contentionCount = cs[c].contentionCount + 1
      /\ \A u \in Tids \ {t} : requested'[u] = requested[u]
      /\ requested'[t] = c
  BY <1>1, SectionFacts DEF CSRecord, Enqueue
<1>5. cs[c].ownerHandle # t /\ cs[c].ownerHandle # NoOwner
  BY SectionFacts DEF Enqueue, MustWait, Acquirable, OwnerAgrees
<1>6. ~Has(cs[c].waiters, t)
  BY SectionFacts DEF WaitersAgree
<1>7. OwnerAgrees(c)'
  BY <1>4, <1>5, SectionFacts DEF OwnerAgrees
<1>8. /\ Distinct(cs'[c].waiters)
      /\ \A y : Has(cs'[c].waiters, y) <=> Has(cs[c].waiters, y) \/ y = t
      /\ Len(cs'[c].waiters) = Len(cs[c].waiters) + 1
  BY <1>4, <1>6, AppendQueue, AppendFacts, SectionFacts, CSFields DEF WaitersAgree
<1>9. WaitersAgree(c)'
  BY <1>4, <1>5, <1>8, SectionFacts DEF WaitersAgree
<1>. QED BY <1>3, <1>4, <1>7, <1>9, OneSection

\* LeaveCriticalSection that passes the section on.
LEMMA HandOverStep ==
  ASSUME IInv, NEW t \in Tids, NEW c \in CriticalSections, HandOver(t, c)
  PROVE  CSTypeOK' /\ OwnerAgreement' /\ WaitersAgreement'
<1> DEFINE n == Head(cs[c].waiters)
<1>1. PICK r \in CSRecord : r = cs[c]
  BY SectionFacts
<1>2. /\ cs[c].waiters # << >> /\ n \in Tids /\ owned[t][c] = 1
      /\ Len(Tail(cs[c].waiters)) = Len(cs[c].waiters) - 1 /\ Len(cs[c].waiters) \in Nat \ {0}
      /\ Distinct(Tail(cs[c].waiters)) /\ Has(cs[c].waiters, n)
      /\ \A y : Has(Tail(cs[c].waiters), y) <=> Has(cs[c].waiters, y) /\ y # n
  BY HeadTail, TailQueue, SectionFacts, CSFields DEF HandOver, WaitersAgree
<1> HIDE DEF n
<1>3. [[[[r EXCEPT !.waiters = Tail(r.waiters)] EXCEPT !.contentionCount = Dec(r.contentionCount)]
         EXCEPT !.ownerHandle = n] EXCEPT !.recursionCount = 1] \in CSRecord
  <2>1. PICK q \in Seq(Tids) : q = Tail(r.waiters)
    BY <1>1, <1>2, CSFields, SectionFacts, HeadTail
  <2>2. PICK k \in Nat : k = Dec(r.contentionCount)
    BY <1>1, CSFields, SectionFacts DEF Dec
  <2>3. [[[[r EXCEPT !.waiters = q] EXCEPT !.contentionCount = k]
           EXCEPT !.ownerHandle = n] EXCEPT !.recursionCount = 1] \in CSRecord
    BY <1>2 DEF CSRecord
  <2>. QED BY <2>1, <2>2, <2>3
<1>4. CSTypeOK'
  BY <1>1, <1>2, <1>3, SectionFacts DEF CSTypeOK, HandOver, n
<1>5. /\ \A d \in CriticalSections \ {c} : cs'[d] = cs[d]
      /\ \A d \in CriticalSections \ {c}, u \in Tids : owned'[u][d] = owned[u][d]
      /\ cs'[c].recursionCount = 1
      /\ cs'[c].ownerHandle = n
      /\ cs'[c].waiters = Tail(cs[c].waiters)
      /\ cs'[c].contentionCount = Dec(cs[c].contentionCount)
      /\ \A u \in Tids \ {n} : requested'[u] = requested[u]
      /\ requested'[n] = NoCS
  BY <1>1, <1>2, SectionFacts DEF CSRecord, HandOver, n
<1>6. cs[c].ownerHandle = t /\ n # t
  BY <1>2, SectionFacts DEF OwnerAgrees, WaitersAgree
<1>7. /\ \A u \in Tids \ {t, n} : owned'[u][c] = owned[u][c]
      /\ owned'[t][c] = 0
      /\ owned'[n][c] = 1
  BY <1>2, <1>6, SectionFacts DEF HandOver, n
<1>8. OwnerAgrees(c)'
  BY <1>2, <1>5, <1>6, <1>7, SectionFacts, CSFields DEF OwnerAgrees
<1>9. WaitersAgree(c)'
  <2>1. cs'[c].contentionCount = Len(cs'[c].waiters)
    BY <1>2, <1>5, SectionFacts DEF WaitersAgree, Dec
  <2>2. \A u \in Tids : requested'[u] = c <=> Has(cs'[c].waiters, u)
    BY SMTT(30), <1>2, <1>5, SectionFacts DEF WaitersAgree
  <2>. QED BY <1>2, <1>5, <2>1, <2>2 DEF WaitersAgree
<1>10. requested[n] = c
  BY <1>2, SectionFacts DEF WaitersAgree
<1>. QED BY <1>2, <1>4, <1>5, <1>8, <1>9, <1>10, OneSection

\* LeaveCriticalSection of a section nobody waits for.
LEMMA ReleaseStep ==
  ASSUME IInv, NEW t \in Tids, NEW c \in CriticalSections, Release(t, c)
  PROVE  CSTypeOK' /\ OwnerAgreement' /\ WaitersAgreement'
<1>1. PICK r \in CSRecord : r = cs[c]
  BY SectionFacts
<1>2. [[r EXCEPT !.ownerHandle = NoOwner] EXCEPT !.recursionCount = 0] \in CSRecord
  BY DEF CSRecord
<1>3. CSTypeOK'
  BY <1>1, <1>2, SectionFacts DEF CSTypeOK, Release
<1>4. /\ \A d \in CriticalSections \ {c} : cs'[d] = cs[d]
      /\ \A d \in CriticalSections \ {c}, u \in Tids : owned'[u][d] = owned[u][d]
      /\ cs'[c].recursionCount = 0
      /\ cs'[c].ownerHandle = NoOwner
      /\ cs'[c].waiters = << >>
      /\ cs[c].waiters = << >>
      /\ cs'[c].contentionCount = cs[c].contentionCount
      /\ \A u \in Tids \ {t} : owned'[u][c] = owned[u][c]
      /\ owned'[t][c] = 0
      /\ owned[t][c] = 1
      /\ requested' = requested
  BY <1>1, SectionFacts DEF CSRecord, Release
<1>5. OwnerAgrees(c)'
  <2>1. cs[c].ownerHandle = t
    BY <1>4, SectionFacts DEF OwnerAgrees
  <2>2. \A u \in Tids : ~(owned'[u][c] > 0)
    BY <1>4, <2>1, SectionFacts DEF OwnerAgrees
  <2>. QED BY <1>4, <2>2, SectionFacts, CSFields DEF OwnerAgrees
<1>6. WaitersAgree(c)'
  BY <1>4, SectionFacts DEF WaitersAgree, Has
<1>. QED BY <1>3, <1>4, <1>5, <1>6, OneSection

\* LeaveCriticalSection of a nested entry.
LEMMA LeaveOnceStep ==
  ASSUME IInv, NEW t \in Tids, NEW c \in CriticalSections, LeaveOnce(t, c)
  PROVE  CSTypeOK' /\ OwnerAgreement' /\ WaitersAgreement'
<1>1. PICK r \in CSRecord : r = cs[c]
  BY SectionFacts
<1>2. [r EXCEPT !.recursionCount = Dec(r.recursionCount)] \in CSRecord
  BY DEF CSRecord, Dec
<1>3. CSTypeOK'
  BY <1>1, <1>2, SectionFacts DEF CSTypeOK, LeaveOnce
<1>4. /\ \A d \in CriticalSections \ {c} : cs'[d] = cs[d]
      /\ \A d \in CriticalSections \ {c}, u \in Tids : owned'[u][d] = owned[u][d]
      /\ cs'[c].recursionCount = Dec(cs[c].recursionCount)
      /\ cs'[c].ownerHandle = cs[c].ownerHandle
      /\ cs'[c].waiters = cs[c].waiters
      /\ cs'[c].contentionCount = cs[c].contentionCount
      /\ \A u \in Tids \ {t} : owned'[u][c] = owned[u][c]
      /\ owned'[t][c] = owned[t][c] - 1
      /\ owned[t][c] > 1
      /\ requested' = requested
  BY <1>1, SectionFacts DEF CSRecord, LeaveOnce
<1>5. OwnerAgrees(c)'
  BY <1>4, SectionFacts, CSFields DEF OwnerAgrees, Dec
<1>6. WaitersAgree(c)'
  BY <1>4, SectionFacts DEF WaitersAgree
<1>. QED BY <1>3, <1>4, <1>5, <1>6, OneSection

\* OSInitCriticalSection of an idle section.
LEMMA OSInitStep ==
  ASSUME IInv, NEW t \in Tids, NEW c \in CriticalSections, OSInitCriticalSection(t, c)
  PROVE  CSTypeOK' /\ OwnerAgreement' /\ WaitersAgreement'
<1>1. FreshCS \in CSRecord
  <2>1. << >> \in Seq(Tids)
    OBVIOUS
  <2>. QED BY <2>1 DEF FreshCS, CSRecord
<1>2. CSTypeOK'
  BY <1>1, SectionFacts DEF CSTypeOK, OSInitCriticalSection
<1>3. /\ \A d \in CriticalSections \ {c} : cs'[d] = cs[d]
      /\ cs'[c].recursionCount = 0 /\ cs'[c].contentionCount = 0
      /\ cs'[c].ownerHandle = NoOwner /\ cs[c].ownerHandle = NoOwner
      /\ cs'[c].waiters = << >> /\ cs[c].waiters = << >>
      /\ owned' = owned /\ requested' = requested
  BY SectionFacts DEF OSInitCriticalSection, FreshCS
<1>4. OwnerAgrees(c)'
  BY <1>3, SectionFacts DEF OwnerAgrees
<1>5. WaitersAgree(c)'
  BY <1>3, SectionFacts DEF WaitersAgree, Has
<1>. QED BY <1>2, <1>3, <1>4, <1>5, OneSection

-----------------------------------------------------------------------------
(* Events.                                                                 *)

EventTypeOK ==
  /\ ev \in [EventIds -> EventRecord]
  /\ waitingEvent \in [Tids -> 0 .. MaxEvents]
  /\ waitEnd \in [Tids -> WaitAlarm]

\* What the invariant says of one event.
LEMMA EventFacts ==
  ASSUME IInv, NEW e \in EventIds
  PROVE  /\ EventAgrees(e) /\ FutureEventsIdle /\ EventTypeOK
         /\ ev[e] \in EventRecord
         /\ ev[e].manualReset \in BOOLEAN
         /\ ev[e].signaled \in BOOLEAN
         /\ ev[e].waiters \in Seq(Tids)
         /\ ev[e].contentionCount \in Nat
  BY DEF IInv, TypeOK, EventTypeOK, EventAgreement, EventRecord

\* A step that touches event e only has to be looked at there.
LEMMA OneEvent ==
  ASSUME IInv, NEW e \in EventIds,
         \A f \in EventIds \ {e} : ev'[f] = ev[f],
         \A f \in EventIds \ {e}, u \in Tids : waitingEvent'[u] = f <=> waitingEvent[u] = f,
         e <= nevents \/ ev'[e].waiters = << >>,
         nevents' \in Nat, nevents' >= nevents, 
         EventAgrees(e)'
  PROVE  EventAgreement' /\ FutureEventsIdle'
<1>1. ASSUME NEW f \in EventIds \ {e}
      PROVE  EventAgrees(f)'
  BY <1>1, EventFacts DEF EventAgrees
<1>2. nevents \in Nat /\ EventIds \subseteq Nat
  BY DEF IInv, TypeOK, EventIds
<1>3. FutureEventsIdle'
  <2> SUFFICES ASSUME NEW f \in EventIds, f > nevents' PROVE ev'[f].waiters = << >>
    BY DEF FutureEventsIdle
  <2>1. f > nevents
    BY <1>2
  <2>2. CASE f = e
    BY <1>2, <2>1, <2>2
  <2>3. CASE f # e
    BY <2>1, <2>3 DEF IInv, FutureEventsIdle
  <2>. QED BY <2>2, <2>3
<1>. QED BY <1>1, <1>3 DEF EventAgreement

\* OSCreateEvent takes an id nobody waits for.
LEMMA CreateEventStep ==
  ASSUME IInv, NEW t \in Tids, NEW manual \in BOOLEAN, NEW initial \in BOOLEAN,
         OSCreateEvent(t, manual, initial)
  PROVE  nevents' \in 0 .. MaxEvents /\ EventTypeOK' /\ EventAgreement' /\ FutureEventsIdle'
<1>0. PICK e \in EventIds : e = nevents + 1
  BY DEF IInv, TypeOK, OSCreateEvent, EventIds
<1> DEFINE r == [manualReset |-> manual, signaled |-> initial,
          waiters |-> << >>, contentionCount |-> 0]
<1>1. nevents' = e /\ nevents \in Nat
  BY <1>0 DEF IInv, TypeOK, OSCreateEvent, EventIds
<1>2. r \in EventRecord
  <2>1. << >> \in Seq(Tids)
    OBVIOUS
  <2>. QED BY <2>1 DEF EventRecord
<1>3. r.waiters = << >> /\ r.contentionCount = 0
  OBVIOUS
<1>4. /\ ev' = [ev EXCEPT ![e] = r]
      /\ waitingEvent' = waitingEvent /\ waitEnd' = waitEnd
  BY <1>0 DEF OSCreateEvent
<1> HIDE DEF r
<1>5. EventTypeOK'
  BY <1>1, <1>2, <1>4, EventFacts DEF EventTypeOK
<1>6. ev[e].waiters = << >>
  BY <1>0, <1>1, EventFacts DEF FutureEventsIdle
<1>7. ev'[e] = r /\ \A f \in EventIds \ {e} : ev'[f] = ev[f]
  BY <1>1, <1>4, EventFacts DEF EventTypeOK
<1>8. EventAgrees(e)'
  BY <1>1, <1>3, <1>4, <1>6, <1>7, EventFacts DEF EventAgrees, Has, Distinct
<1>9. EventAgreement' /\ FutureEventsIdle'
  BY <1>0, <1>1, <1>3, <1>4, <1>7, <1>8, OneEvent
<1>. QED BY <1>1, <1>5, <1>9 DEF EventIds

\* ToSet lists the elements of a queue.
LEMMA ToSetHas ==
  ASSUME NEW S, NEW q \in Seq(S), NEW x
  PROVE  x \in ToSet(q) <=> Has(q, x)
  BY DEF ToSet, Has

\* Waking threads keeps the types of the wait fields.
LEMMA StopWaitingType ==
  ASSUME IInv, NEW S, StopWaiting(S)
  PROVE  /\ waitingEvent' \in [Tids -> 0 .. MaxEvents]
         /\ waitEnd' \in [Tids -> WaitAlarm]
<1>1. waitingEvent \in [Tids -> 0 .. MaxEvents] /\ waitEnd \in [Tids -> WaitAlarm]
  BY DEF IInv, TypeOK
<1>2. "off" \in WaitAlarm /\ 0 \in 0 .. MaxEvents
  BY DEF WaitAlarm, Alarm
<1>. QED BY <1>1, <1>2 DEF StopWaiting

\* SetEvent of a manual-reset event.
LEMMA SetManualStep ==
  ASSUME IInv, NEW e \in EventIds, e <= nevents, nevents' = nevents, SetManual(e)
  PROVE  EventTypeOK' /\ EventAgreement' /\ FutureEventsIdle'
<1>1. PICK r \in EventRecord : r = ev[e]
  BY EventFacts
<1>2. ~(ev[e].contentionCount > Len(ev[e].waiters))
  BY EventFacts DEF EventAgrees
<1>3. ev' = [ev EXCEPT ![e] = [[[r EXCEPT !.signaled = TRUE] EXCEPT !.waiters = << >>]
                                 EXCEPT !.contentionCount = 0]]
  BY <1>1, <1>2, EventFacts DEF SetManual
<1>4. [[[r EXCEPT !.signaled = TRUE] EXCEPT !.waiters = << >>]
          EXCEPT !.contentionCount = 0] \in EventRecord
  <2>1. << >> \in Seq(Tids)
    OBVIOUS
  <2>. QED BY <2>1 DEF EventRecord
<1>5. \A u \in Tids : waitingEvent'[u] = IF waitingEvent[u] = e THEN 0 ELSE waitingEvent[u]
  BY ToSetHas, EventFacts DEF SetManual, StopWaiting, EventAgrees
<1>6. EventTypeOK'
  <2>1. ev' \in [EventIds -> EventRecord]
    BY <1>3, <1>4, EventFacts DEF EventTypeOK
  <2>. QED BY <2>1, StopWaitingType, EventFacts DEF EventTypeOK, SetManual
<1>7. /\ ev'[e].waiters = << >> /\ ev'[e].contentionCount = 0
      /\ \A f \in EventIds \ {e} : ev'[f] = ev[f]
  BY <1>3, EventFacts DEF EventTypeOK, EventRecord
<1>8. EventAgrees(e)'
  BY <1>5, <1>7 DEF EventAgrees, Has, Distinct, EventIds
<1>9. nevents \in Nat /\ 0 \notin EventIds
  BY DEF IInv, TypeOK, EventIds
<1>. QED BY <1>5, <1>6, <1>7, <1>8, <1>9, OneEvent

\* SetEvent of an auto-reset event that has waiters.
LEMMA SetAutoWakesStep ==
  ASSUME IInv, NEW e \in EventIds, e <= nevents, nevents' = nevents, SetAutoWakes(e)
  PROVE  EventTypeOK' /\ EventAgreement' /\ FutureEventsIdle'
<1>1. PICK r \in EventRecord : r = ev[e]
  BY EventFacts
<1>2. PICK n \in Tids : n = Head(ev[e].waiters)
  BY HeadTail, EventFacts DEF SetAutoWakes
<1>3. /\ Len(Tail(ev[e].waiters)) = Len(ev[e].waiters) - 1 /\ Len(ev[e].waiters) \in Nat \ {0}
      /\ Distinct(Tail(ev[e].waiters)) /\ Has(ev[e].waiters, n)
      /\ \A y : Has(Tail(ev[e].waiters), y) <=> Has(ev[e].waiters, y) /\ y # n
  BY <1>2, HeadTail, TailQueue, EventFacts DEF SetAutoWakes, EventAgrees
<1>4. PICK q \in Seq(Tids) : q = Tail(r.waiters)
  BY <1>1, EventFacts, HeadTail DEF SetAutoWakes
<1>5. PICK k \in Nat : k = Dec(r.contentionCount)
  BY <1>1, EventFacts DEF Dec
<1>6. ev' = [ev EXCEPT ![e] = [[[r EXCEPT !.signaled = FALSE] EXCEPT !.waiters = q]
                                 EXCEPT !.contentionCount = k]]
  BY <1>1, <1>4, <1>5, EventFacts DEF SetAutoWakes
<1>7. [[[r EXCEPT !.signaled = FALSE] EXCEPT !.waiters = q]
          EXCEPT !.contentionCount = k] \in EventRecord
  BY DEF EventRecord
<1>8. EventTypeOK'
  <2>1. ev' \in [EventIds -> EventRecord]
    BY <1>6, <1>7, EventFacts DEF EventTypeOK
  <2>. QED BY <2>1, StopWaitingType DEF EventTypeOK, SetAutoWakes
<1>9. \A u \in Tids : waitingEvent'[u] = IF u = n THEN 0 ELSE waitingEvent[u]
  BY <1>2 DEF SetAutoWakes, StopWaiting
<1>10. /\ ev'[e].waiters = q /\ ev'[e].contentionCount = k /\ ev'[e].signaled = FALSE
       /\ \A f \in EventIds \ {e} : ev'[f] = ev[f]
  BY <1>6, EventFacts DEF EventTypeOK, EventRecord
<1>11. k = Len(q)
  BY <1>1, <1>3, <1>4, <1>5, EventFacts DEF EventAgrees, Dec
<1>12. waitingEvent[n] = e /\ e # 0 /\ nevents \in Nat
  BY <1>3, EventFacts DEF EventAgrees, EventIds, IInv, TypeOK
<1>13. EventAgrees(e)'
  BY <1>1, <1>3, <1>4, <1>9, <1>10, <1>11, <1>12, EventFacts DEF EventAgrees
<1>14. \A f \in EventIds : f # 0
  BY DEF EventIds
<1>. QED BY <1>8, <1>9, <1>10, <1>12, <1>13, <1>14, OneEvent

\* A step that changes nothing but the signaled flag of an event without waiters.
LEMMA FlagStep ==
  ASSUME IInv, NEW e \in EventIds, e <= nevents, nevents' = nevents,
         NEW flag \in BOOLEAN, ev' = [ev EXCEPT ![e].signaled = flag],
         ev[e].waiters = << >>, UNCHANGED <<waitingEvent, waitEnd>>
  PROVE  EventTypeOK' /\ EventAgreement' /\ FutureEventsIdle'
<1>1. PICK r \in EventRecord : r = ev[e]
  BY EventFacts
<1>2. [r EXCEPT !.signaled = flag] \in EventRecord
  BY DEF EventRecord
<1>3. EventTypeOK'
  BY <1>1, <1>2, EventFacts DEF EventTypeOK
<1>4. /\ ev'[e].waiters = << >> /\ ev'[e].contentionCount = ev[e].contentionCount
      /\ \A f \in EventIds \ {e} : ev'[f] = ev[f]
  BY <1>1, EventFacts DEF EventTypeOK, EventRecord
<1>5. EventAgrees(e)' /\ nevents \in Nat
  BY <1>4, EventFacts DEF EventAgrees, IInv, TypeOK
<1>. QED BY <1>3, <1>4, <1>5, OneEvent

\* WaitForEvent that has to wait.
LEMMA WaitEnqueueStep ==
  ASSUME IInv, NEW t \in Tids, NEW e \in EventIds, NEW timeout,
         e <= nevents, nevents' = nevents, waitingEvent[t] = 0, WaitEnqueue(t, e, timeout)
  PROVE  EventTypeOK' /\ EventAgreement' /\ FutureEventsIdle'
<1>1. PICK r \in EventRecord : r = ev[e]
  BY EventFacts
<1>2. PICK q \in Seq(Tids) : q = Append(r.waiters, t)
  BY <1>1, EventFacts, AppendFacts
<1>3. PICK k \in Nat : k = r.contentionCount + 1
  BY <1>1, EventFacts
<1>4. ev' = [ev EXCEPT ![e] = [[r EXCEPT !.waiters = q] EXCEPT !.contentionCount = k]]
  BY <1>1, <1>2, <1>3, EventFacts DEF WaitEnqueue
<1>5. [[r EXCEPT !.waiters = q] EXCEPT !.contentionCount = k] \in EventRecord
  BY DEF EventRecord
<1>6. EventTypeOK'
  <2>1. ev' \in [EventIds -> EventRecord]
    BY <1>4, <1>5, EventFacts DEF EventTypeOK
  <2>2. waitingEvent' \in [Tids -> 0 .. MaxEvents]
    BY EventFacts DEF EventTypeOK, WaitEnqueue, EventIds
  <2>3. waitEnd' \in [Tids -> WaitAlarm]
    BY EventFacts DEF EventTypeOK, WaitEnqueue, WaitAlarm, Alarm
  <2>. QED BY <2>1, <2>2, <2>3 DEF EventTypeOK
<1>7. /\ ev'[e].waiters = q /\ ev'[e].contentionCount = k /\ ev'[e].signaled = ev[e].signaled
      /\ \A f \in EventIds \ {e} : ev'[f] = ev[f]
  BY <1>1, <1>4, EventFacts DEF EventTypeOK, EventRecord
<1>8. /\ waitingEvent'[t] = e
      /\ \A u \in Tids \ {t} : waitingEvent'[u] = waitingEvent[u]
      /\ ~ev[e].signaled
  BY EventFacts DEF EventTypeOK, WaitEnqueue
<1>9. ~Has(ev[e].waiters, t) /\ nevents \in Nat /\ \A f \in EventIds : f # 0
  BY EventFacts DEF EventAgrees, EventIds, IInv, TypeOK
<1>10. /\ Distinct(q) /\ Len(q) = Len(ev[e].waiters) + 1
       /\ \A y : Has(q, y) <=> Has(ev[e].waiters, y) \/ y = t
  BY <1>1, <1>2, <1>9, AppendQueue, AppendFacts, EventFacts DEF EventAgrees
<1>11. EventAgrees(e)'
  BY <1>1, <1>3, <1>7, <1>8, <1>10, EventFacts DEF EventAgrees
<1>. QED BY <1>6, <1>7, <1>8, <1>9, <1>11, OneEvent

-----------------------------------------------------------------------------
(* CanRun.                                                                 *)

\* A wait ends in CanRun only by its timeout: SetEvent has already woken whoever
\* waited for a signaled event.
LEMMA NeverSignaled ==
  ASSUME IInv, NEW t \in Tids
  PROVE  ~Signaled(t)
<1>1. SUFFICES ASSUME Signaled(t) PROVE FALSE
  OBVIOUS
<1>2. PICK e \in EventIds : e = waitingEvent[t]
  BY <1>1 DEF Signaled, IInv, TypeOK, EventIds
<1>. QED BY <1>1, <1>2, EventFacts DEF Signaled, EventAgrees, Has

\* CanRun changes the events only, and lets no blocked thread through.
LEMMA CanRunStep ==
  ASSUME IInv, NEW t \in Tids, nevents' = nevents, CanRunEffect(t)
  PROVE  /\ EventTypeOK' /\ EventAgreement' /\ FutureEventsIdle'
         /\ requested' = requested /\ owned' = owned
         /\ sleepEnd' \in [Tids -> Alarm]
         /\ CanRun(t) => sleepEnd'[t] = "off" /\ requested[t] = NoCS /\ waitingEvent'[t] = 0
<1>1. ~Granted(t) /\ ~Signaled(t)
  BY NeverGranted, NeverSignaled
<1>2. requested' = requested /\ owned' = owned
  BY <1>1 DEF CanRunEffect
<1>3. sleepEnd' \in [Tids -> Alarm]
  BY DEF CanRunEffect, IInv, TypeOK, Alarm
<1> DEFINE wakes == ~Asleep(t) /\ requested[t] = NoCS /\ TimedOut(t)
<1>4. CASE ~wakes
  <2>1. UNCHANGED <<ev, waitingEvent, waitEnd>>
    BY <1>1, <1>4 DEF CanRunEffect
  <2>2. EventTypeOK' /\ EventAgreement' /\ FutureEventsIdle'
    BY <2>1 DEF IInv, TypeOK, EventTypeOK, EventAgreement, EventAgrees, FutureEventsIdle
  <2>3. CanRun(t) => sleepEnd'[t] = "off" /\ requested[t] = NoCS /\ waitingEvent'[t] = 0
    BY <1>1, <1>4, <2>1 DEF CanRun, CanRunEffect, IInv, TypeOK
  <2>. QED BY <1>2, <1>3, <2>2, <2>3
<1>5. CASE wakes
  <2>1. PICK e \in EventIds : e = waitingEvent[t]
    BY <1>5 DEF TimedOut, IInv, TypeOK, EventIds
  <2>2. PICK r \in EventRecord : r = ev[e]
    BY EventFacts
  <2>3. Has(ev[e].waiters, t)
    BY <2>1, EventFacts DEF EventAgrees
  <2>4. PICK q \in Seq(Tids) : q = RemoveFirst(r.waiters, t)
    BY <2>2, <2>3, EventFacts, RemoveFirstQueue DEF EventAgrees
  <2>5. /\ Len(q) = Len(ev[e].waiters) - 1 /\ q # ev[e].waiters /\ Distinct(q)
        /\ \A y : Has(q, y) <=> Has(ev[e].waiters, y) /\ y # t
    BY <2>2, <2>3, <2>4, EventFacts, RemoveFirstQueue DEF EventAgrees
  <2>6. PICK k \in Nat : k = Dec(r.contentionCount)
    BY <2>2, EventFacts DEF Dec
  <2>7. ~ev[e].signaled
    BY <2>3, EventFacts DEF EventAgrees, Has
  <2>8. /\ ev' = [ev EXCEPT ![e].waiters = q, ![e].contentionCount = k,
                            ![e].signaled = ev[e].signaled /\ ev[e].manualReset]
        /\ StopWaiting({t})
    BY <1>5, <2>1, <2>2, <2>4, <2>5, <2>6 DEF CanRunEffect
  <2>9. [[[r EXCEPT !.waiters = q] EXCEPT !.contentionCount = k] EXCEPT !.signaled = FALSE]
          \in EventRecord
    BY DEF EventRecord
  <2>10. ev' = [ev EXCEPT ![e] = [[[r EXCEPT !.waiters = q] EXCEPT !.contentionCount = k]
                                    EXCEPT !.signaled = FALSE]]
    BY <2>2, <2>7, <2>8, EventFacts
  <2>11. EventTypeOK'
    <3>1. ev' \in [EventIds -> EventRecord]
      BY <2>9, <2>10, EventFacts DEF EventTypeOK
    <3>. QED BY <2>8, <3>1, StopWaitingType DEF EventTypeOK
  <2>12. /\ ev'[e].waiters = q /\ ev'[e].contentionCount = k /\ ev'[e].signaled = FALSE
         /\ \A f \in EventIds \ {e} : ev'[f] = ev[f]
    BY <2>10, EventFacts DEF EventTypeOK, EventRecord
  <2>13. \A u \in Tids : waitingEvent'[u] = IF u = t THEN 0 ELSE waitingEvent[u]
    BY <2>8 DEF StopWaiting
  <2>14. k = Len(q)
    BY <2>2, <2>3, <2>5, <2>6, EventFacts DEF EventAgrees, Dec, Has
  <2>15. \A f \in EventIds : f # 0 /\ f \in Nat
    BY DEF EventIds
  <2>16. EventAgrees(e)'
    BY <2>5, <2>12, <2>13, <2>14, <2>15, EventFacts DEF EventAgrees
  <2>17. e <= nevents /\ nevents \in Nat
    BY <2>3, <2>15, EventFacts DEF FutureEventsIdle, Has, IInv, TypeOK
  <2>18. EventAgreement' /\ FutureEventsIdle'
    BY <2>1, <2>12, <2>13, <2>15, <2>16, <2>17, OneEvent
  <2>19. sleepEnd'[t] = "off" /\ requested[t] = NoCS /\ waitingEvent'[t] = 0
    BY <1>5, <2>13 DEF CanRunEffect, IInv, TypeOK
  <2>. QED BY <1>2, <1>3, <2>11, <2>18, <2>19
<1>. QED BY <1>4, <1>5

-----------------------------------------------------------------------------
(* The invariant is preserved, one lemma per kind of step.                 *)

\* The variables of the scheduler.
SchedTypeOK ==
  /\ nthreads \in 1 .. MaxThreads
  /\ next \in [Tids -> Live]
  /\ current \in Live
  /\ phase \in {"hook", "guest", "stopped", "failed"}
  /\ yielding \in BOOLEAN
  /\ elapsed \in BOOLEAN

\* TypeOK, taken apart.
LEMMA TypeParts ==
  TypeOK => /\ SchedTypeOK /\ CSTypeOK /\ EventTypeOK
            /\ nevents \in 0 .. MaxEvents /\ sleepEnd \in [Tids -> Alarm]
  BY DEF TypeOK, SchedTypeOK, CSTypeOK, EventTypeOK

\* The invariant after a step, put together from its parts.
LEMMA IInvParts ==
  ASSUME SchedTypeOK', CSTypeOK', EventTypeOK',
         nevents' \in 0 .. MaxEvents, sleepEnd' \in [Tids -> Alarm],
         OwnerAgreement', WaitersAgreement', EventAgreement', FutureEventsIdle',
         BlockedNeverRuns'
  PROVE  IInv'
<1>1. TypeOK'
  BY DEF TypeOK, SchedTypeOK, CSTypeOK, EventTypeOK
<1>. QED BY <1>1 DEF IInv

\* The current thread is a thread.
LEMMA CurrentIsTid == TypeOK => current \in Tids
  BY DEF TypeOK, Live, Tids

\* A step that leaves the sections, or the events, alone keeps what is said of them.
LEMMA SectionsUnchanged ==
  ASSUME IInv, UNCHANGED csVars
  PROVE  CSTypeOK' /\ OwnerAgreement' /\ WaitersAgreement'
  BY DEF IInv, TypeOK, CSTypeOK, csVars, OwnerAgreement, OwnerAgrees, WaitersAgreement, WaitersAgree

\* The same for the events.
LEMMA EventsUnchanged ==
  ASSUME IInv, UNCHANGED <<nevents, ev, waitingEvent>>
  PROVE  /\ EventAgreement' /\ FutureEventsIdle'
         /\ nevents' \in 0 .. MaxEvents
         /\ waitEnd' = waitEnd => EventTypeOK'
  BY DEF IInv, TypeOK, EventTypeOK, EventAgreement, EventAgrees, FutureEventsIdle

\* A system call ends in the phase "hook" and changes nothing of the scheduler but
\* what Yield and OSCreateThread do.
LEMMA SvcSched ==
  ASSUME IInv, NEW t \in Tids, Svc(t), UNCHANGED <<nthreads, next, current, elapsed>>,
         yielding' \in BOOLEAN
  PROVE  SchedTypeOK' /\ BlockedNeverRuns'
<1>1. SchedTypeOK
  BY TypeParts DEF IInv
<1>2. Live' = Live
  BY DEF Live
<1>. QED BY <1>1, <1>2 DEF SchedTypeOK, Svc, BlockedNeverRuns

\* The three system calls on critical sections.
LEMMA SectionCallStep ==
  ASSUME IInv, NEW t \in Tids, NEW c \in CriticalSections,
         \/ OSInitCriticalSection(t, c)
         \/ OSEnterCriticalSection(t, c)
         \/ OSLeaveCriticalSection(t, c)
  PROVE  IInv'
<1>1. /\ Svc(t) /\ UNCHANGED <<nthreads, next, current, yielding, elapsed>>
      /\ UNCHANGED <<nevents, ev, waitingEvent, waitEnd, sleepEnd>>
  BY DEF OSInitCriticalSection, OSEnterCriticalSection, OSLeaveCriticalSection, eventVars
<1>2. requested[t] = NoCS
  BY <1>1 DEF IInv, BlockedNeverRuns, Svc
<1>3. CSTypeOK' /\ OwnerAgreement' /\ WaitersAgreement'
  <2>1. CASE OSInitCriticalSection(t, c)
    BY <2>1, OSInitStep
  <2>2. CASE OSEnterCriticalSection(t, c)
    <3>1. CASE EnterIgnored(t, c)
      BY <3>1, SectionsUnchanged DEF EnterIgnored
    <3>. QED BY <1>2, <2>2, <3>1, ReenterStep, AcquireStep, EnqueueStep DEF OSEnterCriticalSection
  <2>3. CASE OSLeaveCriticalSection(t, c)
    <3>1. CASE LeaveIgnored(t, c)
      BY <3>1, SectionsUnchanged DEF LeaveIgnored
    <3>. QED BY <2>3, <3>1, HandOverStep, ReleaseStep, LeaveOnceStep DEF OSLeaveCriticalSection
  <2>. QED BY <2>1, <2>2, <2>3
<1>4. yielding' \in BOOLEAN /\ sleepEnd' \in [Tids -> Alarm]
  BY <1>1 DEF IInv, TypeOK
<1>5. SchedTypeOK' /\ BlockedNeverRuns'
  BY <1>1, <1>4, SvcSched
<1>6. EventTypeOK' /\ EventAgreement' /\ FutureEventsIdle' /\ nevents' \in 0 .. MaxEvents
  BY <1>1, EventsUnchanged
<1>. QED BY <1>3, <1>4, <1>5, <1>6, IInvParts

\* The three system calls on events.
LEMMA EventCallStep ==
  ASSUME IInv, NEW t \in Tids,
         \/ \E manual, initial \in BOOLEAN : OSCreateEvent(t, manual, initial)
         \/ \E e \in EventIds :
              \/ OSSetEvent(t, e)
              \/ \E timeout \in {"zero", "positive", "negative"} : OSWaitForEvent(t, e, timeout)
  PROVE  IInv'
<1>1. /\ Svc(t) /\ UNCHANGED <<nthreads, next, current, yielding, elapsed>>
      /\ UNCHANGED <<csVars, sleepEnd>>
  BY DEF OSCreateEvent, OSSetEvent, OSWaitForEvent
<1>2. waitingEvent[t] = 0 /\ nevents \in 0 .. MaxEvents
  BY <1>1 DEF IInv, BlockedNeverRuns, Svc, TypeOK
<1>3. nevents' \in 0 .. MaxEvents /\ EventTypeOK' /\ EventAgreement' /\ FutureEventsIdle'
  <2>1. CASE \E manual, initial \in BOOLEAN : OSCreateEvent(t, manual, initial)
    BY <2>1, CreateEventStep
  <2>2. ASSUME NEW e \in EventIds, OSSetEvent(t, e)
        PROVE  nevents' \in 0 .. MaxEvents /\ EventTypeOK' /\ EventAgreement' /\ FutureEventsIdle'
    <3>1. e <= nevents /\ nevents' = nevents
      BY <1>2, <2>2 DEF OSSetEvent
    <3>2. CASE SetManual(e)
      BY <1>2, <3>1, <3>2, SetManualStep
    <3>3. CASE SetAutoWakes(e)
      BY <1>2, <3>1, <3>3, SetAutoWakesStep
    <3>4. CASE SetAutoLatches(e)
      BY <1>2, <3>1, <3>4, FlagStep DEF SetAutoLatches
    <3>. QED BY <2>2, <3>2, <3>3, <3>4 DEF OSSetEvent
  <2>3. ASSUME NEW e \in EventIds, NEW timeout \in {"zero", "positive", "negative"},
               OSWaitForEvent(t, e, timeout)
        PROVE  nevents' \in 0 .. MaxEvents /\ EventTypeOK' /\ EventAgreement' /\ FutureEventsIdle'
    <3>1. e <= nevents /\ nevents' = nevents
      BY <1>2, <2>3 DEF OSWaitForEvent
    <3>2. CASE WaitSatisfied(e)
      <4>1. ev[e].waiters = << >> /\ ev[e].manualReset \in BOOLEAN
        BY <3>2, EventFacts DEF WaitSatisfied, EventAgrees
      <4>. QED BY <1>2, <3>1, <3>2, <4>1, FlagStep DEF WaitSatisfied
    <3>3. CASE WaitReturns(t, e, timeout)
      BY <3>1, <3>3, EventsUnchanged DEF WaitReturns
    <3>4. CASE WaitEnqueue(t, e, timeout)
      BY <1>2, <3>1, <3>4, WaitEnqueueStep
    <3>. QED BY <2>3, <3>2, <3>3, <3>4 DEF OSWaitForEvent
  <2>. QED BY <2>1, <2>2, <2>3
<1>4. yielding' \in BOOLEAN /\ sleepEnd' \in [Tids -> Alarm]
  BY <1>1 DEF IInv, TypeOK
<1>5. SchedTypeOK' /\ BlockedNeverRuns'
  BY <1>1, <1>4, SvcSched
<1>6. CSTypeOK' /\ OwnerAgreement' /\ WaitersAgreement'
  BY <1>1, SectionsUnchanged
<1>. QED BY <1>3, <1>4, <1>5, <1>6, IInvParts

\* Sleep, thread creation, yield and every other block.
LEMMA ThreadCallStep ==
  ASSUME IInv, NEW t \in Tids, OSSleep(t) \/ OSCreateThread(t) \/ Yield(t) \/ EndBlock(t)
  PROVE  IInv'
<1>1. Svc(t) /\ UNCHANGED <<current, elapsed, csVars, eventVars>>
  BY DEF OSSleep, OSCreateThread, Yield, EndBlock
<1>2. CSTypeOK' /\ OwnerAgreement' /\ WaitersAgreement'
  BY <1>1, SectionsUnchanged
<1>3. EventTypeOK' /\ EventAgreement' /\ FutureEventsIdle' /\ nevents' \in 0 .. MaxEvents
  BY <1>1, EventsUnchanged DEF eventVars
<1>4. sleepEnd' \in [Tids -> Alarm]
  BY DEF OSSleep, OSCreateThread, Yield, EndBlock, IInv, TypeOK, Alarm
<1>5. SchedTypeOK' /\ BlockedNeverRuns'
  <2>1. CASE OSCreateThread(t)
    <3>1. SchedTypeOK
      BY TypeParts DEF IInv
    <3>2. nthreads' \in 1 .. MaxThreads /\ Live' = 0 .. nthreads /\ current' \in Live'
      BY <2>1, <3>1 DEF OSCreateThread, SchedTypeOK, Live
    <3>3. next' \in [Tids -> Live']
      BY <2>1, <3>1, <3>2 DEF OSCreateThread, SchedTypeOK, Live
    <3>4. phase' = "hook" /\ yielding' \in BOOLEAN /\ elapsed' \in BOOLEAN
      BY <2>1, <3>1 DEF OSCreateThread, Svc, SchedTypeOK
    <3>. QED BY <3>2, <3>3, <3>4 DEF SchedTypeOK, BlockedNeverRuns
  <2>2. CASE OSSleep(t) \/ Yield(t) \/ EndBlock(t)
    <3>1. yielding' \in BOOLEAN
      BY <2>2 DEF OSSleep, Yield, EndBlock, IInv, TypeOK
    <3>. QED BY <1>1, <2>2, <3>1, SvcSched DEF OSSleep, Yield, EndBlock
  <2>. QED BY <2>1, <2>2
<1>. QED BY <1>2, <1>3, <1>4, <1>5, IInvParts

\* code_hook.
LEMMA CodeHookStep ==
  ASSUME IInv, CodeHook
  PROVE  IInv'
<1>1. current \in Tids /\ nevents' = nevents /\ cs' = cs /\ current' = current
  BY CurrentIsTid DEF IInv, CodeHook
<1>2. /\ EventTypeOK' /\ EventAgreement' /\ FutureEventsIdle'
      /\ requested' = requested /\ owned' = owned
      /\ sleepEnd' \in [Tids -> Alarm]
      /\ CanRun(current) => /\ sleepEnd'[current] = "off" /\ requested[current] = NoCS
                            /\ waitingEvent'[current] = 0
  BY <1>1, CanRunStep DEF CodeHook
<1>3. CSTypeOK' /\ OwnerAgreement' /\ WaitersAgreement'
  BY <1>1, <1>2, SectionsUnchanged DEF csVars
<1>4. nevents' \in 0 .. MaxEvents
  BY <1>1 DEF IInv, TypeOK
<1>5. SchedTypeOK'
  <2>1. SchedTypeOK
    BY TypeParts DEF IInv
  <2>2. Live' = Live
    BY DEF Live, CodeHook
  <2>. QED BY <2>1, <2>2 DEF SchedTypeOK, CodeHook
<1>6. BlockedNeverRuns'
  BY <1>1, <1>2 DEF CodeHook, BlockedNeverRuns
<1>. QED BY <1>2, <1>3, <1>4, <1>5, <1>6, IInvParts

\* Faults, returns, switches and the end of a quantum.
LEMMA EngineStep ==
  ASSUME IInv, EmuError \/ ThreadReturn \/ SwitchThread \/ QuantumElapses
  PROVE  IInv'
<1>1. UNCHANGED <<csVars, eventVars, sleepEnd>>
  BY DEF EmuError, ThreadReturn, SwitchThread, QuantumElapses
<1>2. CSTypeOK' /\ OwnerAgreement' /\ WaitersAgreement'
  BY <1>1, SectionsUnchanged
<1>3. EventTypeOK' /\ EventAgreement' /\ FutureEventsIdle' /\ nevents' \in 0 .. MaxEvents
  BY <1>1, EventsUnchanged DEF eventVars
<1>4. sleepEnd' \in [Tids -> Alarm]
  BY <1>1 DEF IInv, TypeOK
<1>5. SchedTypeOK'
  <2>1. SchedTypeOK /\ current \in Tids
    BY TypeParts, CurrentIsTid DEF IInv
  <2>2. Live' = Live
    BY DEF Live, EmuError, ThreadReturn, SwitchThread, QuantumElapses
  <2>. QED BY <2>1, <2>2 DEF SchedTypeOK, EmuError, ThreadReturn, SwitchThread, QuantumElapses
<1>6. BlockedNeverRuns'
  BY <1>1 DEF IInv, BlockedNeverRuns, EmuError, ThreadReturn, SwitchThread, QuantumElapses,
              csVars, eventVars
<1>. QED BY <1>2, <1>3, <1>4, <1>5, <1>6, IInvParts

\* The clock reaches the end of a sleep or of a timed wait.
LEMMA ClockStep ==
  ASSUME IInv, NEW t \in Tids, SleepElapses(t) \/ WaitElapses(t)
  PROVE  IInv'
<1>1. UNCHANGED <<schedVars, csVars, nevents, ev, waitingEvent>>
  BY DEF SleepElapses, WaitElapses, eventVars
<1>2. CSTypeOK' /\ OwnerAgreement' /\ WaitersAgreement'
  BY <1>1, SectionsUnchanged
<1>3. EventAgreement' /\ FutureEventsIdle' /\ nevents' \in 0 .. MaxEvents
  BY <1>1, EventsUnchanged
<1>4. EventTypeOK' /\ sleepEnd' \in [Tids -> Alarm]
  BY <1>1 DEF SleepElapses, WaitElapses, eventVars, EventTypeOK, IInv, TypeOK, Alarm, WaitAlarm
<1>5. SchedTypeOK'
  BY <1>1, TypeParts DEF IInv, SchedTypeOK, schedVars, Live
<1>6. BlockedNeverRuns'
  <2>1. CASE SleepElapses(t)
    BY <1>1, <2>1 DEF SleepElapses, IInv, TypeOK, BlockedNeverRuns, schedVars, csVars
  <2>2. CASE WaitElapses(t)
    BY <1>1, <2>2 DEF WaitElapses, IInv, BlockedNeverRuns, schedVars, csVars
  <2>. QED BY <2>1, <2>2
<1>. QED BY <1>2, <1>3, <1>4, <1>5, <1>6, IInvParts

\* A step of the rest of the program.
LEMMA StutterStep ==
  ASSUME IInv, UNCHANGED vars
  PROVE  IInv'
<1>1. UNCHANGED <<schedVars, csVars, nevents, ev, waitingEvent, waitEnd, sleepEnd>>
  BY DEF vars, eventVars
<1>2. CSTypeOK' /\ OwnerAgreement' /\ WaitersAgreement'
  BY <1>1, SectionsUnchanged
<1>3. EventTypeOK' /\ EventAgreement' /\ FutureEventsIdle' /\ nevents' \in 0 .. MaxEvents
  BY <1>1, EventsUnchanged
<1>4. SchedTypeOK' /\ sleepEnd' \in [Tids -> Alarm]
  BY <1>1, TypeParts DEF IInv, SchedTypeOK, schedVars, Live
<1>5. BlockedNeverRuns'
  BY <1>1 DEF IInv, BlockedNeverRuns, schedVars, csVars
<1>. QED BY <1>2, <1>3, <1>4, <1>5, IInvParts

\* Every step preserves the invariant.
LEMMA NextIInv == IInv /\ [Next]_vars => IInv'
<1> SUFFICES ASSUME IInv, [Next]_vars PROVE IInv'
  OBVIOUS
<1>1. ASSUME NEW t \in Tids, GuestStep(t) PROVE IInv'
  BY <1>1, SectionCallStep, EventCallStep, ThreadCallStep DEF GuestStep
<1>. QED BY <1>1, CodeHookStep, EngineStep, ClockStep, StutterStep DEF Next

-----------------------------------------------------------------------------
(* The theorems.                                                           *)

\* In every reachable state of every instance the invariant holds.
THEOREM Invariance == Spec => []IInv
  BY InitIInv, NextIInv, PTL DEF Spec

\* The fields of Thread, CriticalSection, Event and StateManager keep their types
\* whatever the guest calls, and only existing threads are ever scheduled.
THEOREM TypeCorrect == Spec => []TypeOK
<1>1. IInv => TypeOK
  BY DEF IInv
<1>. QED BY <1>1, Invariance, PTL

\* Mutual exclusion for any number of threads and sections: owner, recursion count
\* and ownership tables agree after every EnterCriticalSection, LeaveCriticalSection
\* and CanRun.
THEOREM MutualExclusion == Spec => []OwnerAgreement
<1>1. IInv => OwnerAgreement
  BY DEF IInv
<1>. QED BY <1>1, Invariance, PTL

\* The waiter queue of every section holds exactly the threads whose _requested
\* points to it, never its owner.
THEOREM QueuesAgree == Spec => []WaitersAgreement
<1>1. IInv => WaitersAgreement
  BY DEF IInv
<1>. QED BY <1>1, Invariance, PTL

\* No wake-up is lost: nobody waits for a signaled event, and the queue of every
\* event holds exactly the threads that wait for it.
THEOREM NoLostWakeup == Spec => []EventAgreement
<1>1. IInv => EventAgreement
  BY DEF IInv
<1>. QED BY <1>1, Invariance, PTL

\* code_hook never lets a thread run that sleeps or waits.
THEOREM BlockedStop == Spec => []BlockedNeverRuns
<1>1. IInv => BlockedNeverRuns
  BY DEF IInv
<1>. QED BY <1>1, Invariance, PTL

-----------------------------------------------------------------------------
(* The ring.                                                               *)

\* Linking a new thread in behind the running one keeps the ring in one piece: a
\* set closed under the new links, without the new thread, is closed under the old.
LEMMA CreateThreadRing ==
  ASSUME IInv, OneRing, NEW t \in Tids, OSCreateThread(t)
  PROVE  OneRing'
<1>1. PICK n \in Nat : n = nthreads
  BY DEF IInv, TypeOK
<1>2. /\ next \in [Tids -> Live] /\ t \in Live /\ n \notin Live /\ n \in Tids
      /\ Live' = Live \cup {n} /\ Live \subseteq Tids
  BY <1>1 DEF IInv, TypeOK, OSCreateThread, Svc, Live, Tids
<1>3. /\ next'[t] = n /\ next'[n] = next[t]
      /\ \A u \in Live \ {t} : next'[u] = next[u]
  BY <1>1, <1>2 DEF OSCreateThread
<1>4. SUFFICES ASSUME NEW S \in SUBSET Live', S # {}, \A u \in S : next'[u] \in S
               PROVE  S = Live'
  BY DEF OneRing
<1> DEFINE S0 == S \ {n}
<1>5. S0 \subseteq Live
  BY <1>2
<1>6. S0 # {}
  <2>1. next[t] # n
    BY <1>2
  <2>. QED BY <1>2, <1>3, <1>4, <2>1
<1>7. \A u \in S0 : next[u] \in S0
  <2> SUFFICES ASSUME NEW u \in S0 PROVE next[u] \in S0
    OBVIOUS
  <2>1. next[u] \in Live
    BY <1>2, <1>5
  <2>2. next[u] \in S
    BY <1>2, <1>3, <1>4, <1>5
  <2>. QED BY <1>2, <2>1, <2>2
<1>8. S0 = Live
  BY <1>5, <1>6, <1>7 DEF OneRing
<1>9. n \in S
  BY <1>2, <1>3, <1>4, <1>8
<1>. QED BY <1>2, <1>8, <1>9

\* No other step touches the ring.
LEMMA NextRing == IInv /\ OneRing /\ [Next]_vars => OneRing'
<1> SUFFICES ASSUME IInv, OneRing, [Next]_vars PROVE OneRing'
  OBVIOUS
<1>1. CASE \E t \in Tids : OSCreateThread(t)
  BY <1>1, CreateThreadRing
<1>2. CASE UNCHANGED <<nthreads, next>>
  BY <1>2 DEF OneRing, Live
<1>3. ASSUME NEW t \in Tids, GuestStep(t)
      PROVE  OSCreateThread(t) \/ UNCHANGED <<nthreads, next>>
  BY <1>3 DEF GuestStep, OSInitCriticalSection, OSEnterCriticalSection, OSLeaveCriticalSection,
              OSCreateEvent, OSSetEvent, OSWaitForEvent, OSSleep, Yield, EndBlock
<1>4. ASSUME \/ EmuError \/ ThreadReturn \/ CodeHook \/ SwitchThread \/ QuantumElapses
             \/ \E t \in Tids : SleepElapses(t) \/ WaitElapses(t)
             \/ UNCHANGED vars
      PROVE  UNCHANGED <<nthreads, next>>
  BY <1>4 DEF EmuError, ThreadReturn, CodeHook, SwitchThread, QuantumElapses, SleepElapses,
              WaitElapses, vars, schedVars
<1>. QED BY <1>1, <1>2, <1>3, <1>4 DEF Next

\* Whatever threads create threads, in whatever order, _nextThread leads from every
\* thread to every other.
THEOREM RingIsWhole == Spec => []OneRing
<1>1. Init => OneRing
  BY DEF Init, OneRing, Live
<1>. QED BY <1>1, NextRing, Invariance, PTL DEF Spec

-----------------------------------------------------------------------------
(* The order of service.                                                   *)

InOrder(c) ==
  \/ /\ cs'[c].ownerHandle = cs[c].ownerHandle
     /\ IsPrefix(cs[c].waiters, cs'[c].waiters)
  \/ /\ cs'[c].ownerHandle = Head(cs[c].waiters)
     /\ cs'[c].waiters = Tail(cs[c].waiters)

\* A queue is a prefix of itself and of itself with a newcomer.
LEMMA PrefixFacts ==
  ASSUME NEW S, NEW q \in Seq(S), NEW x \in S
  PROVE  IsPrefix(q, q) /\ IsPrefix(q, Append(q, x))
<1>1. IsPrefix(q, q)
  BY DEF IsPrefix
<1>2. SubSeq(q, 1, Len(q)) = SubSeq(Append(q, x), 1, Len(q))
  OBVIOUS
<1>. QED BY <1>1, <1>2, AppendFacts DEF IsPrefix

\* A call on section d serves the waiters of section c in order.
LEMMA SectionCallInOrder ==
  ASSUME IInv, NEW t \in Tids, NEW c \in CriticalSections, NEW d \in CriticalSections,
         \/ OSInitCriticalSection(t, d)
         \/ OSEnterCriticalSection(t, d)
         \/ OSLeaveCriticalSection(t, d),
         cs[c].waiters # << >>
  PROVE  InOrder(c)
<1>1. CASE cs'[c] = cs[c]
  BY <1>1, PrefixFacts, SectionFacts, CSFields DEF InOrder
<1>2. CASE c # d
  BY <1>1, <1>2, SectionFacts DEF OSInitCriticalSection, OSEnterCriticalSection,
     OSLeaveCriticalSection, Reenter, Acquire, Enqueue, EnterIgnored, HandOver, Release,
     LeaveOnce, LeaveIgnored, csVars
<1>3. CASE c = d
  <2>0. PICK r \in CSRecord : r = cs[c]
    BY SectionFacts
  <2>1. CASE Reenter(t, c) \/ LeaveOnce(t, c)
    <3>1. ASSUME Reenter(t, c)
          PROVE  cs'[c].ownerHandle = cs[c].ownerHandle /\ cs'[c].waiters = cs[c].waiters
      BY <2>0, <3>1, SectionFacts DEF Reenter, CSRecord
    <3>2. ASSUME LeaveOnce(t, c)
          PROVE  cs'[c].ownerHandle = cs[c].ownerHandle /\ cs'[c].waiters = cs[c].waiters
      BY <2>0, <3>2, SectionFacts DEF LeaveOnce, CSRecord
    <3>. QED BY <2>1, <3>1, <3>2, PrefixFacts, SectionFacts, CSFields DEF InOrder
  <2>2. CASE Enqueue(t, c)
    <3>1. cs'[c].ownerHandle = cs[c].ownerHandle /\ cs'[c].waiters = Append(cs[c].waiters, t)
      BY <2>0, <2>2, SectionFacts DEF Enqueue, CSRecord
    <3>. QED BY <3>1, PrefixFacts, SectionFacts, CSFields DEF InOrder
  <2>3. CASE HandOver(t, c)
    <3>1. cs'[c].ownerHandle = Head(cs[c].waiters) /\ cs'[c].waiters = Tail(cs[c].waiters)
      BY <2>0, <2>3, SectionFacts DEF HandOver, CSRecord
    <3>. QED BY <3>1 DEF InOrder
  <2>4. CASE EnterIgnored(t, c) \/ LeaveIgnored(t, c)
    BY <1>1, <2>4 DEF EnterIgnored, LeaveIgnored, csVars
  <2>. QED BY <1>3, <2>1, <2>2, <2>3, <2>4 DEF OSInitCriticalSection, OSEnterCriticalSection,
     OSLeaveCriticalSection, Acquire, Acquirable, Release
<1>. QED BY <1>2, <1>3

\* Every step serves the waiters in order.
LEMMA NextInOrder ==
  ASSUME IInv, [Next]_vars, NEW c \in CriticalSections, cs[c].waiters # << >>
  PROVE  InOrder(c)
<1>1. CASE cs' = cs
  BY <1>1, PrefixFacts, SectionFacts, CSFields DEF InOrder
<1>2. ASSUME NEW t \in Tids, GuestStep(t)
      PROVE  \/ cs' = cs
             \/ \E d \in CriticalSections : \/ OSInitCriticalSection(t, d)
                                            \/ OSEnterCriticalSection(t, d)
                                            \/ OSLeaveCriticalSection(t, d)
  BY <1>2 DEF GuestStep, OSCreateEvent, OSSetEvent, OSWaitForEvent, OSSleep, OSCreateThread,
              Yield, EndBlock, csVars
<1>3. ASSUME \/ EmuError \/ ThreadReturn \/ CodeHook \/ SwitchThread \/ QuantumElapses
             \/ \E t \in Tids : SleepElapses(t) \/ WaitElapses(t)
             \/ UNCHANGED vars
      PROVE  cs' = cs
  BY <1>3 DEF EmuError, ThreadReturn, CodeHook, SwitchThread, QuantumElapses, SleepElapses,
              WaitElapses, vars, csVars
<1>. QED BY <1>1, <1>2, <1>3, SectionCallInOrder DEF Next

\* LeaveCriticalSection serves the waiters of every section first come, first
\* served, and no EnterCriticalSection gets in between.
THEOREM FirstComeFirstServed == Spec => NoOvertaking
<1>1. IInv /\ [Next]_vars =>
        [\A c \in CriticalSections : cs[c].waiters # << >> => InOrder(c)]_vars
  BY NextInOrder
<1>. QED BY <1>1, Invariance, PTL DEF Spec, NoOvertaking, InOrder

-----------------------------------------------------------------------------
(* The CPU contexts. *)

CtxTypeOK ==
  /\ eng \in Context
  /\ saved \in [Tids -> Context]
  /\ isNew \in [Tids -> BOOLEAN]
  /\ point \in [Tids -> 0 .. MaxPoint]
  /\ returned \in [Tids -> BOOLEAN]
  /\ faulted \in [Tids -> BOOLEAN]

\* The engine holds the current thread, stopped or not.
EngineOwn ==
  ~returned[current] =>
    /\ eng.regs = <<current, point[current]>>
    /\ ~faulted[current] =>
         /\ eng.pc = <<current, point[current]>>
         /\ point[current] # 0 => eng.rest = <<current, point[current]>>

Fresh(t) == saved[t] = At(t, 0) /\ isNew[t] /\ point[t] = 0 /\ ~returned[t] /\ ~faulted[t]

UnbornFresh == \A t \in Tids : t >= nthreads => Fresh(t)

SnapshotOf(t) ==
  /\ saved[t].regs = <<t, point[t]>>
  /\ isNew[t] => point[t] = 0
  /\ ~faulted[t] =>
       /\ saved[t].pc = <<t, point[t]>>
       /\ ~isNew[t] /\ point[t] # 0 => saved[t].rest = <<t, point[t]>>

Idle(t) == (t # current \/ phase \in {"stopped", "failed"}) /\ ~returned[t]

Snapshots == \A t \in Live : Idle(t) => SnapshotOf(t)

CtxInv ==
  /\ CtxTypeOK
  /\ EngineOwn
  /\ UnbornFresh
  /\ Snapshots

-----------------------------------------------------------------------------
(* Contexts implements Threads.                                            *)

\* Every step of the contexts is a step of the scheduler.
LEMMA CtxNextIsNext == [CtxNext]_allVars => [Next]_vars
  BY DEF CtxNext, allVars, Next, CtxGuestStep, CtxEmuError, CtxThreadReturn, CtxCodeHook,
         CtxSwitchThread, CtxClock

\* The scheduler, run together with the engine's contexts, behaves as Threads says:
\* all that is proved of Threads holds while contexts are saved and loaded.
THEOREM ContextsRefineThreads == CtxSpec => Spec
<1>1. CtxInit => Init
  BY DEF CtxInit
<1>. QED BY <1>1, CtxNextIsNext, PTL DEF CtxSpec, Spec

-----------------------------------------------------------------------------
(* What the steps of the scheduler do to the variables contexts depend on. *)

\* A context is three stamps.
LEMMA AtFacts ==
  ASSUME NEW t \in Tids, NEW n \in 0 .. MaxPoint
  PROVE  /\ At(t, n) \in Context
         /\ At(t, n).pc = <<t, n>> /\ At(t, n).regs = <<t, n>> /\ At(t, n).rest = <<t, n>>
  BY DEF At, Context, Stamp

\* The next point is never the start.
LEMMA AfterFacts == \A n \in 0 .. MaxPoint : After(n) \in 1 .. MaxPoint
  BY ContextsAssumption DEF After

\* The current thread and its successor exist.
LEMMA CurrentFacts ==
  ASSUME TypeOK
  PROVE  /\ current \in Live /\ current \in Tids /\ Live \subseteq Tids
         /\ next[current] \in Live
         /\ nthreads \in Nat
  BY ThreadsAssumption DEF TypeOK, Live, Tids

\* The threads that exist after a step are threads.
LEMMA NewLive ==
  ASSUME TypeOK'
  PROVE  Live' \subseteq Tids
<1>1. \A n \in 1 .. MaxThreads : (0 .. n - 1) \subseteq Tids
  BY ThreadsAssumption DEF Tids
<1>2. nthreads' \in 1 .. MaxThreads
  BY DEF TypeOK
<1>. QED BY <1>1, <1>2, Zenon DEF Live

\* A guest step keeps the current thread and adds at most one thread.
LEMMA GuestStepFrame ==
  ASSUME NEW t \in Tids, GuestStep(t)
  PROVE  /\ phase = "guest" /\ phase' = "hook" /\ current' = current
         /\ nthreads' = nthreads \/ nthreads' = nthreads + 1
  BY DEF GuestStep, Svc, OSInitCriticalSection, OSEnterCriticalSection, OSLeaveCriticalSection,
         OSCreateEvent, OSSetEvent, OSWaitForEvent, OSSleep, OSCreateThread, Yield, EndBlock

-----------------------------------------------------------------------------
(* CtxInv holds initially and is preserved.                                *)

\* The main thread is loaded, the others have not been created.
LEMMA CtxInitInv == CtxInit => CtxInv
<1> SUFFICES ASSUME CtxInit PROVE CtxInv
  OBVIOUS
<1>1. 0 \in Tids /\ 0 \in 0 .. MaxPoint /\ current = 0
  BY ThreadsAssumption, ContextsAssumption DEF CtxInit, Init, Tids
<1>2. \A t \in Tids : Fresh(t) /\ SnapshotOf(t)
  BY <1>1, AtFacts DEF CtxInit, Fresh, SnapshotOf
<1>3. CtxTypeOK
  BY <1>1, AtFacts DEF CtxInit, CtxTypeOK
<1>4. EngineOwn
  BY <1>1, AtFacts DEF CtxInit, EngineOwn
<1>5. Live \subseteq Tids
  BY ThreadsAssumption DEF CtxInit, Init, Live, Tids
<1>. QED BY <1>2, <1>3, <1>4, <1>5 DEF CtxInv, UnbornFresh, Snapshots

\* What Advance does to the engine and to the points.
LEMMA AdvanceStep ==
  ASSUME TypeOK, CtxTypeOK, Advance
  PROVE  /\ eng' \in Context /\ point' \in [Tids -> 0 .. MaxPoint]
         /\ eng'.pc = <<current, point'[current]>>
         /\ eng'.regs = <<current, point'[current]>>
         /\ eng'.rest = <<current, point'[current]>>
         /\ faulted' \in [Tids -> BOOLEAN] /\ ~faulted'[current]
         /\ \A t \in Tids : t # current => point'[t] = point[t] /\ faulted'[t] = faulted[t]
<1>1. point[current] \in 0 .. MaxPoint /\ After(point[current]) \in 1 .. MaxPoint
  BY CurrentFacts, AfterFacts DEF CtxTypeOK
<1>2. point' = [point EXCEPT ![current] = After(point[current])]
  BY DEF Advance
<1>3. point' \in [Tids -> 0 .. MaxPoint] /\ point'[current] = After(point[current])
      /\ \A t \in Tids : t # current => point'[t] = point[t]
  BY <1>1, <1>2, CurrentFacts DEF CtxTypeOK
<1>4. eng' = At(current, After(point[current]))
  BY DEF Advance
<1>5. /\ faulted' \in [Tids -> BOOLEAN] /\ ~faulted'[current]
      /\ \A t \in Tids : t # current => faulted'[t] = faulted[t]
  BY CurrentFacts DEF Advance, CtxTypeOK
<1>. QED BY <1>1, <1>3, <1>4, <1>5, AtFacts, CurrentFacts

\* What the skip of a fault does: the registers are right, the thread is marked.
LEMMA SkipStep ==
  ASSUME TypeOK, CtxTypeOK, SkipFault
  PROVE  /\ eng' \in Context /\ point' \in [Tids -> 0 .. MaxPoint]
         /\ eng'.regs = <<current, point'[current]>>
         /\ faulted' \in [Tids -> BOOLEAN] /\ faulted'[current]
         /\ \A t \in Tids : t # current => point'[t] = point[t] /\ faulted'[t] = faulted[t]
<1> DEFINE here == <<current, After(point[current])>>
<1>1. current \in Tids /\ point[current] \in 0 .. MaxPoint /\ After(point[current]) \in 0 .. MaxPoint
  BY CurrentFacts, AfterFacts DEF CtxTypeOK
<1>2. here \in Stamp /\ Errant \in Stamp
  BY <1>1, ContextsAssumption DEF Stamp, Errant
<1>3. point' \in [Tids -> 0 .. MaxPoint] /\ point'[current] = After(point[current])
      /\ \A t \in Tids : t # current => point'[t] = point[t]
  BY <1>1 DEF SkipFault, CtxTypeOK
<1>4. /\ faulted' \in [Tids -> BOOLEAN] /\ faulted'[current]
      /\ \A t \in Tids : t # current => faulted'[t] = faulted[t]
  BY <1>1 DEF SkipFault, CtxTypeOK
<1>5. \E pc, rest \in Stamp : eng' = [pc |-> pc, regs |-> here, rest |-> rest]
  BY <1>2 DEF SkipFault
<1>6. eng' \in Context /\ eng'.regs = here
  <2> HIDE DEF here
  <2>. QED BY <1>2, <1>5 DEF Context
<1>. QED BY <1>3, <1>4, <1>6

\* Saving the engine's registers takes a snapshot of the thread.
LEMMA SaveStep ==
  ASSUME CtxTypeOK, NEW t \in Tids, NEW context \in Context, SaveState(t, context)
  PROVE  /\ saved' \in [Tids -> Context] /\ isNew' \in [Tids -> BOOLEAN]
         /\ saved'[t] = context /\ isNew'[t] = FALSE
         /\ \A u \in Tids : u # t => saved'[u] = saved[u] /\ isNew'[u] = isNew[u]
  BY DEF CtxTypeOK, SaveState

\* The current thread runs to its next point in a system call or up to a branch.
LEMMA CtxGuestInv ==
  ASSUME IInv, CtxInv, CtxGuestStep
  PROVE  CtxInv'
<1> USE DEF CtxInv
<1>0. TypeOK
  BY DEF IInv
<1>1. /\ phase' = "hook" /\ current' = current
      /\ nthreads' = nthreads \/ nthreads' = nthreads + 1
  BY GuestStepFrame DEF CtxGuestStep
<1>2. Advance /\ saved' = saved /\ isNew' = isNew /\ returned' = returned
  BY DEF CtxGuestStep
<1>3. CtxTypeOK'
  BY <1>0, <1>2, AdvanceStep DEF CtxTypeOK
<1>4. EngineOwn'
  BY <1>0, <1>1, <1>2, AdvanceStep DEF EngineOwn
<1>5. \A t \in Tids : t # current => /\ Fresh(t) => Fresh(t)'
                                     /\ SnapshotOf(t) => SnapshotOf(t)'
  BY <1>0, <1>2, AdvanceStep DEF Fresh, SnapshotOf
<1>6. current \in Live /\ Live \subseteq Tids /\ nthreads \in Nat
  BY <1>0, CurrentFacts
<1>7. UnbornFresh'
  <2> SUFFICES ASSUME NEW t \in Tids, t >= nthreads' PROVE Fresh(t)'
    BY DEF UnbornFresh
  <2>1. t >= nthreads /\ t # current
    BY <1>1, <1>6 DEF Live, Tids
  <2>. QED BY <2>1, <1>5 DEF UnbornFresh
<1>8. Snapshots'
  <2> SUFFICES ASSUME NEW t \in Live', Idle(t)' PROVE SnapshotOf(t)'
    BY DEF Snapshots
  <2>1. t # current /\ ~returned[t]
    BY <1>1, <1>2 DEF Idle
  <2>2. CASE t \in Live
    BY <2>1, <2>2, <1>5, <1>6 DEF Snapshots, Idle
  <2>3. CASE t \notin Live
    <3>1. t \in Tids /\ t >= nthreads
      <4>1. TypeOK'
        <5>1. [Next]_vars
          BY CtxNextIsNext DEF CtxNext
        <5>. QED BY <5>1, NextIInv DEF IInv
      <4>4. t \in Tids
        BY <4>1, NewLive
      <4>. QED BY <4>4, <2>3, <1>1, <1>6 DEF Live, Tids
    <3>2. Fresh(t)
      BY <3>1 DEF UnbornFresh
    <3>3. 0 \in 0 .. MaxPoint
      BY ContextsAssumption
    <3>4. SnapshotOf(t)
      BY <3>1, <3>2, <3>3, AtFacts DEF Fresh, SnapshotOf
    <3>. QED BY <3>1, <3>4, <2>1, <1>5
  <2>. QED BY <2>2, <2>3
<1>. QED BY <1>3, <1>4, <1>7, <1>8

\* A step that keeps the threads that exist and the current one, and changes the
\* context of the current thread alone.
LEMMA OwnContextInv ==
  ASSUME TypeOK, CtxInv, CtxTypeOK', EngineOwn',
         nthreads' = nthreads, current' = current,
         \A t \in Tids : t # current =>
            /\ saved'[t] = saved[t] /\ isNew'[t] = isNew[t]
            /\ point'[t] = point[t] /\ returned'[t] = returned[t] /\ faulted'[t] = faulted[t],
         Idle(current)' => SnapshotOf(current)'
  PROVE  CtxInv'
<1>1. current \in Live /\ Live \subseteq Tids /\ nthreads \in Nat /\ Live' = Live
  BY CurrentFacts DEF Live
<1>2. UnbornFresh'
  BY <1>1 DEF CtxInv, UnbornFresh, Fresh, Live, Tids
<1>3. ASSUME NEW t \in Live, t # current, Idle(t)'
      PROVE  SnapshotOf(t)'
  BY <1>1, <1>3 DEF CtxInv, Snapshots, Idle, SnapshotOf
<1>4. Snapshots'
  BY <1>1, <1>3 DEF Snapshots
<1>. QED BY <1>2, <1>4 DEF CtxInv

\* A fault: the engine is skipped past it and saved.
LEMMA CtxErrorInv ==
  ASSUME IInv, CtxInv, CtxEmuError
  PROVE  CtxInv'
<1>0. TypeOK /\ CtxTypeOK
  BY DEF IInv, CtxInv
<1>1. nthreads' = nthreads /\ current' = current
  BY DEF CtxEmuError, EmuError
<1>2. SkipFault /\ SaveState(current, eng') /\ returned' = returned
  BY DEF CtxEmuError
<1>3. eng' \in Context /\ current \in Tids
  BY <1>0, <1>2, SkipStep, CurrentFacts
<1>4. CtxTypeOK'
  BY <1>0, <1>2, <1>3, SkipStep, SaveStep DEF CtxTypeOK
<1>5. EngineOwn'
  BY <1>0, <1>1, <1>2, SkipStep DEF EngineOwn
<1>6. SnapshotOf(current)'
  BY <1>0, <1>1, <1>2, <1>3, SkipStep, SaveStep DEF SnapshotOf
<1>7. \A t \in Tids : t # current =>
            /\ saved'[t] = saved[t] /\ isNew'[t] = isNew[t]
            /\ point'[t] = point[t] /\ returned'[t] = returned[t] /\ faulted'[t] = faulted[t]
  BY <1>0, <1>2, <1>3, SkipStep, SaveStep
<1>. QED BY <1>0, <1>1, <1>4, <1>5, <1>6, <1>7, OwnContextInv

\* The start routine returns.
LEMMA CtxReturnInv ==
  ASSUME IInv, CtxInv, CtxThreadReturn
  PROVE  CtxInv'
<1>0. TypeOK /\ CtxTypeOK /\ current \in Tids
  BY CurrentFacts DEF IInv, CtxInv
<1>1. nthreads' = nthreads /\ current' = current
  BY DEF CtxThreadReturn, ThreadReturn
<1>2. Advance /\ returned' = [returned EXCEPT ![current] = TRUE] /\ saved' = saved /\ isNew' = isNew
  BY DEF CtxThreadReturn
<1>3. returned'[current] /\ \A t \in Tids : t # current => returned'[t] = returned[t]
  BY <1>0, <1>2 DEF CtxTypeOK
<1>4. CtxTypeOK'
  BY <1>0, <1>2, AdvanceStep DEF CtxTypeOK
<1>5. EngineOwn' /\ ~Idle(current)'
  BY <1>1, <1>3 DEF EngineOwn, Idle
<1>. QED BY <1>0, <1>1, <1>2, <1>3, <1>4, <1>5, AdvanceStep, OwnContextInv

\* code_hook lets the block run or saves the thread.
LEMMA CtxHookInv ==
  ASSUME IInv, CtxInv, CtxCodeHook
  PROVE  CtxInv'
<1>0. TypeOK /\ CtxTypeOK /\ current \in Tids /\ eng \in Context
  BY CurrentFacts DEF IInv, CtxInv, CtxTypeOK
<1>1. nthreads' = nthreads /\ current' = current /\ phase' \in {"guest", "stopped"}
  BY DEF CtxCodeHook, CodeHook
<1>2. eng' = eng /\ point' = point /\ returned' = returned /\ faulted' = faulted
  BY DEF CtxCodeHook
<1>3. EngineOwn'
  BY <1>1, <1>2 DEF CtxInv, EngineOwn
<1>4. CASE phase' = "guest"
  <2>1. saved' = saved /\ isNew' = isNew
    BY <1>4 DEF CtxCodeHook
  <2>2. CtxTypeOK' /\ ~Idle(current)'
    BY <1>0, <1>1, <1>2, <1>4, <2>1 DEF CtxTypeOK, Idle
  <2>. QED BY <1>0, <1>1, <1>2, <1>3, <2>1, <2>2, OwnContextInv
<1>5. CASE phase' = "stopped"
  <2>1. SaveState(current, eng)
    BY <1>5 DEF CtxCodeHook
  <2>2. CtxTypeOK'
    BY <1>0, <1>2, <2>1, SaveStep DEF CtxTypeOK
  <2>3. Idle(current)' => SnapshotOf(current)'
    BY <1>0, <1>1, <1>2, <1>3, <2>1, SaveStep DEF EngineOwn, Idle, SnapshotOf
  <2>4. \A t \in Tids : t # current => saved'[t] = saved[t] /\ isNew'[t] = isNew[t]
    BY <1>0, <2>1, SaveStep
  <2>. QED BY <1>0, <1>1, <1>2, <1>3, <2>2, <2>3, <2>4, OwnContextInv
<1>. QED BY <1>1, <1>4, <1>5

\* SwitchThread loads the snapshot of the next thread.
LEMMA CtxSwitchInv ==
  ASSUME IInv, CtxInv, CtxSwitchThread
  PROVE  CtxInv'
<1> DEFINE n == next[current]
           base == IF n # current THEN Loaded(n) ELSE eng
<1>0. TypeOK /\ CtxTypeOK /\ current \in Live /\ n \in Live /\ Live \subseteq Tids
  BY CurrentFacts DEF IInv, CtxInv
<1>1. nthreads' = nthreads /\ current' = n /\ phase' = "hook" /\ phase \in {"stopped", "failed"}
  BY DEF CtxSwitchThread, SwitchThread
<1>2. /\ saved' = saved /\ isNew' = isNew /\ point' = point
      /\ returned' = returned /\ faulted' = faulted
  BY DEF CtxSwitchThread
<1>3. eng' = [base EXCEPT !.pc = saved[n].pc]
  BY DEF CtxSwitchThread
<1>4. eng \in Context /\ saved[n] \in Context
  BY <1>0 DEF CtxTypeOK
<1>5. Loaded(n) \in Context
  BY <1>4 DEF Loaded, Context
<1>6. base \in Context
  BY <1>4, <1>5
<1>7. eng' \in Context /\ eng'.pc = saved[n].pc /\ eng'.regs = base.regs /\ eng'.rest = base.rest
  BY <1>3, <1>4, <1>6 DEF Context
<1>8. ~returned[n] => SnapshotOf(n)
  BY <1>0, <1>1 DEF CtxInv, Snapshots, Idle
<1>9. ~returned[n] => /\ base.regs = <<n, point[n]>>
                      /\ ~faulted[n] /\ point[n] # 0 => base.rest = <<n, point[n]>>
  <2>1. CASE n = current
    BY <2>1 DEF CtxInv, EngineOwn
  <2>2. CASE n # current
    BY <2>2, <1>8 DEF SnapshotOf, Loaded
  <2>. QED BY <2>1, <2>2
<1> HIDE DEF base
<1>10. EngineOwn'
  BY <1>1, <1>2, <1>7, <1>8, <1>9 DEF EngineOwn, SnapshotOf
<1>11. CtxTypeOK'
  BY <1>0, <1>2, <1>7 DEF CtxTypeOK
<1>12. UnbornFresh'
  BY <1>1, <1>2 DEF CtxInv, UnbornFresh, Fresh
<1>13. Snapshots'
  BY <1>1, <1>2 DEF CtxInv, Snapshots, Idle, SnapshotOf, Live
<1>. QED BY <1>10, <1>11, <1>12, <1>13 DEF CtxInv

\* Time passes.
LEMMA CtxClockInv ==
  ASSUME IInv, CtxInv, CtxClock \/ UNCHANGED allVars
  PROVE  CtxInv'
<1>1. UNCHANGED ctxVars /\ UNCHANGED <<nthreads, current, phase>>
  BY DEF CtxClock, QuantumElapses, SleepElapses, WaitElapses, allVars, vars, schedVars
<1>. QED BY <1>1 DEF ctxVars, CtxInv, CtxTypeOK, EngineOwn, UnbornFresh, Fresh, Snapshots, Idle,
                     SnapshotOf, Live

-----------------------------------------------------------------------------

\* The engine is always the current thread's, and every other snapshot is good.
THEOREM CtxInvariance == CtxSpec => [](IInv /\ CtxInv)
<1>1. IInv /\ CtxInv /\ [CtxNext]_allVars => CtxInv'
  BY CtxGuestInv, CtxErrorInv, CtxReturnInv, CtxHookInv, CtxSwitchInv, CtxClockInv DEF CtxNext
<1>. QED BY <1>1, CtxInitInv, ContextsRefineThreads, Invariance, PTL DEF CtxSpec

\* Switching between any number of threads is invisible to them: whenever a thread
\* runs on, the engine holds the registers it had when it stopped, and its program
\* counter and remaining state, too, unless a fault stopped it (code_hook, Execute,
\* SwitchThread, SaveState, LoadState).
THEOREM SwitchInvisible == CtxSpec => []ResumesWhereItStopped
<1>1. CtxInv => ResumesWhereItStopped
  BY DEF CtxInv, EngineOwn, ResumesWhereItStopped
<1>. QED BY <1>1, CtxInvariance, PTL

\* The snapshot of a thread that is not running has its latest registers, and is
\* complete if code_hook took it, although only code_hook and the error path of
\* Execute ever save one.
THEOREM SnapshotsUpToDate == CtxSpec => []SnapshotsCurrent
<1>1. CtxInv => SnapshotsCurrent
  BY DEF CtxInv, Snapshots, Idle, SnapshotOf, SnapshotsCurrent
<1>. QED BY <1>1, CtxInvariance, PTL
=============================================================================

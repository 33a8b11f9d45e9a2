------------------------------ MODULE Allocator ------------------------------
(***************************************************************************)
(* What the guest may rely on of lmalloc, lrealloc and _lfree, without a   *)
(* free list, cookies or a placement policy: live blocks are areas of the  *)
(* heap that never overlap, and an operation on one block leaves all the   *)
(* others as they are.                                                     *)
(***************************************************************************)
EXTENDS Integers

CONSTANTS Base, Limit   \* the heap is [Base, Limit)

VARIABLE live           \* pointer of a live block -> its size

Init == live = [p \in {} |-> 0]

\* [p, p + n) lies in the heap and touches none of the given blocks.
Clear(p, n, blocks) ==
  /\ Base <= p /\ p + n <= Limit
  /\ \A q \in blocks : p + n <= q \/ q + live[q] <= p

Others(p) == DOMAIN live \ {p}

\* Every block outside S exists before and after, with the same size.
SameExcept(S) ==
  /\ DOMAIN live' \ S = DOMAIN live \ S
  /\ \A q \in DOMAIN live \ S : live'[q] = live[q]

Grant(p) ==
  /\ p \notin DOMAIN live
  /\ Clear(p, live'[p], DOMAIN live)
  /\ SameExcept({p})

Release(p) ==
  /\ p \notin DOMAIN live'
  /\ SameExcept({p})

Resize(p) ==
  /\ p \in DOMAIN live'
  /\ Clear(p, live'[p], Others(p))
  /\ SameExcept({p})

\* The new area is taken while the old one is still live.
Move(p, q) ==
  /\ p \notin DOMAIN live' /\ q \notin DOMAIN live
  /\ Clear(q, live'[q], DOMAIN live)
  /\ live'[q] >= live[p]
  /\ SameExcept({p, q})

Next ==
  \/ \E p \in DOMAIN live' : Grant(p)
  \/ \E p \in DOMAIN live : Release(p) \/ Resize(p) \/ \E q \in DOMAIN live' : Move(p, q)

Spec == Init /\ [][Next]_live
=============================================================================

---------------------------- MODULE ProfileStore ----------------------------
(***************************************************************************)
(* What the firmware may rely on of its settings, without files and lines: *)
(* a table with one value for a section and a key.  A setting without a    *)
(* value is Empty, and is answered with the caller's default.              *)
(***************************************************************************)
CONSTANTS Sections, Keys, Texts, Values, Defaults, Empty, Nothing, Trim

VARIABLES
  store,    \* section and key -> value
  ret,      \* what the last call that changes settings returned
  answer    \* what the last question about the table put into the caller's buffer,
            \* or Nothing

Init ==
  /\ store \in [Sections \X Keys -> Texts]
  /\ ret = 0
  /\ answer = Nothing

\* A call that returns 1 has done what it says, and one that returns 0 nothing.
Change(new) ==
  /\ UNCHANGED answer
  /\ \/ ret' = 1 /\ store' = new
     \/ ret' = 0 /\ UNCHANGED store

Put(s, k, v) == Change([store EXCEPT ![<<s, k>>] = Trim[v]])

Delete(s, k) == Change([store EXCEPT ![<<s, k>>] = Empty])

DeleteSection(s) ==
  Change([x \in Sections \X Keys |-> IF x[1] = s THEN Empty ELSE store[x]])

Ask(s, k, default) ==
  /\ answer' = IF store[<<s, k>>] = Empty THEN default ELSE store[<<s, k>>]
  /\ UNCHANGED <<store, ret>>

\* A question that is not about the table: it names no section, or there is no
\* file.  What it is answered is not said here.
Unasked == answer' = Nothing /\ UNCHANGED <<store, ret>>

\* A call with arguments that name no setting.
Reject == ret' = 0 /\ UNCHANGED <<answer, store>>

Next ==
  \/ \E s \in Sections : DeleteSection(s)
  \/ \E s \in Sections, k \in Keys :
       \/ Delete(s, k)
       \/ \E v \in Values : Put(s, k, v)
       \/ \E v \in Defaults : Ask(s, k, v)
  \/ Unasked
  \/ Reject

Spec == Init /\ [][Next]_<<store, ret, answer>>
=============================================================================

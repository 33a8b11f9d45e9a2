------------------------------ MODULE MCImages ------------------------------
(* An instance of Images, and so of MemoryMap, for TLC.  Pages have two bytes. *)
EXTENDS Images

Req(addr, size, must, uses, fits) ==
  [file |-> "none", addr |-> addr, size |-> size, must |-> must, uses |-> uses, fits |-> fits]

Kernel        == Req(12, 2, TRUE, TRUE, TRUE)
Segment(a, n) == Req(a, n, TRUE, TRUE, TRUE)
PEProgram(f)  == [file |-> f, addr |-> 0, size |-> 0, must |-> TRUE, uses |-> FALSE, fits |-> TRUE]

\* The display, another device, and the clock, whose request may fail.
MCRegisters == <<Req(0, 1, TRUE, FALSE, TRUE), Req(2, 1, TRUE, FALSE, TRUE),
                 Req(4, 1, FALSE, FALSE, TRUE)>>

\* Two segments; segments that overlap, lie on a device or on the clock, start inside
\* a page, are empty, or have data that are too long; a PE program.
MCPrograms ==
  {<<Kernel>> \o p : p \in
     {<<Segment(6, 2), Segment(14, 1)>>, <<Segment(6, 2), Segment(5, 3)>>,
      <<Segment(2, 2)>>, <<Segment(4, 2)>>, <<Segment(15, 1)>>, <<Segment(6, 0)>>,
      <<Segment(6, 2), Req(14, 1, TRUE, TRUE, FALSE)>>, <<PEProgram("a")>>}}

Sec(rva, size) == [rva |-> rva, size |-> size, truncated |-> FALSE]

\* a and b want the same base; b starts with an empty section and its second one
\* covers the first of a; the sections of c overlap, or one is truncated.
MCPreferred == [f \in Files |-> IF f = "b" THEN 14 ELSE 16]
MCSections ==
  [f \in Files |-> CASE f = "a" -> <<Sec(0, 2), Sec(2, 1)>>
                     [] f = "b" -> <<Sec(0, 0), Sec(0, 1), Sec(2, 3)>>
                     [] f = "c" -> <<Sec(0, 3), Sec(2, 1)>>
                     [] f = "d" -> <<Sec(0, 1), [rva |-> 2, size |-> 1, truncated |-> TRUE]>>]

\* The kernel is at the first, the second may be taken.
MCBases     == <<10, 16, 20>>
MCStubBases == <<12, 16, 24>>

MCAddresses == 0 .. 25
MCSizes     == 0 .. 3

\* Host buffers lie as the guest's blocks do and touch where those touch, or one
\* touches the kernel's, which its block does not.
MCHostAddresses == [a \in MCAddresses |-> IF a = 16 THEN {a + 30, a + 28} ELSE {a + 30}]
=============================================================================

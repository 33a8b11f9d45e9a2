---------------------------- MODULE PELoaderProofs ----------------------------
(***************************************************************************)
(* What is proved of LoadPEImage, for every set of files, every graph of   *)
(* imports, cycles included, and every place where a load may fail.        *)
(*                                                                         *)
(* The properties look at the tables when no load is in progress; the      *)
(* invariant LInv says what keeps them right while one is: what the frames *)
(* of the recursion look like (Shape, Names), that the image of a frame is *)
(* its own until it is entered in the process table (Own), what a table    *)
(* entry has (Table, Handles), what imports are bound to (Bindings, Bound, *)
(* NoHarm), and who answers for each mapped image (Accounted).  The image  *)
(* asked for is not in `loaded`, so a cycle maps it twice, and the second  *)
(* copy is overwritten in the process table: Overtaken says that an image  *)
(* of the table is bound to it by then.                                    *)
(***************************************************************************)
EXTENDS PELoader, TLAPS, SequenceTheorems, FiniteSetTheorems

Types ==
  /\ kind \in [Dlls -> Kinds]
  /\ imports \in [Dlls -> SUBSET Dlls] /\ \A d \in Dlls : d \notin imports[d]
  /\ g_loaded \in [Dlls -> Copies \cup {None}]
  /\ loaded \in [Dlls -> Copies \cup {None}]
  /\ stack \in Seq(Frame)
  /\ mapped \subseteq Copies /\ leftover \subseteq Copies /\ exported \subseteq Copies
  /\ bind \in [Copies -> [Dlls -> Copies \cup {None, Stub}]]
  /\ copies \in 0 .. MaxCopies
  /\ handles \subseteq Dlls \X Copies

\* Every call that has failed was made, and the one in progress has not failed.
Counts ==
  /\ loads \in 0 .. MaxLoads /\ failures \in 0 .. MaxLoads
  /\ failures <= loads /\ (stack # <<>> => failures < loads)

\* The frames: all but the innermost wait for the image that they import.
Shape ==
  \A i \in 1 .. Len(stack) :
    /\ stack[i].root <=> i = 1
    /\ i # Len(stack) => stack[i].at = "imports" /\ stack[i + 1].dll \in stack[i].todo
    /\ stack[i].at = "imports" => stack[i].copy # None
    /\ stack[i].at = "map" => stack[i].copy = None
    /\ stack[i].at = "ok" => stack[i].copy # None /\ stack[i].copy = g_loaded[stack[i].dll]
    /\ stack[i].todo \subseteq imports[stack[i].dll]

\* The table of the call: no name is on the stack twice, but for the first, and
\* none is in the process table before its load has ended.
Names ==
  /\ \A i, j \in 1 .. Len(stack) :
       i # 1 /\ j # 1 /\ i # j => stack[i].dll # stack[j].dll
  /\ \A i \in 1 .. Len(stack) :
       i # 1 /\ stack[i].at = "imports" =>
         loaded[stack[i].dll] # None /\ g_loaded[stack[i].dll] = None

\* A frame whose image is not in the process table yet, or never will be.
Private(f) == f.at \in {"imports", "error"} /\ f.copy # None

\* The copies made so far.
Made == 1 .. copies

Own ==
  \A i \in 1 .. Len(stack) : Private(stack[i]) =>
    /\ stack[i].copy \in Made
    /\ \A d \in Dlls : g_loaded[d] # stack[i].copy
    /\ \A h \in handles : h[1] # stack[i].dll
    /\ \A j \in 1 .. Len(stack) : i # j => stack[i].copy # stack[j].copy

OwnMapped ==
  \A i \in 1 .. Len(stack) : stack[i].at = "imports" => stack[i].copy \in mapped \cap exported

Table ==
  \A d \in Dlls : g_loaded[d] # None =>
    /\ g_loaded[d] \in mapped \cap exported \cap Made
    /\ \A e \in imports[d] : bind[g_loaded[d]][e] # None

Handles == \A h \in handles : h[2] = g_loaded[h[1]]

Bindings ==
  /\ \A c \in Copies, e \in Dlls : bind[c][e] = Stub => kind[e] = "missing"
  /\ \A e \in Dlls : loaded[e] # None => loaded[e] \in exported

Bound ==
  \A i \in 1 .. Len(stack) : stack[i].at = "imports" =>
    \A e \in imports[stack[i].dll] : e \notin stack[i].todo => bind[stack[i].copy][e] # None

\* Until a load fails, nothing that anything is bound to is unmapped.
NoHarm ==
  failures = 0 /\ (stack = <<>> \/ Top.at # "error") =>
    /\ \A e \in Dlls : loaded[e] \in mapped \cup {None}
    /\ \A c \in Copies, e \in Dlls : bind[c][e] \in mapped \cup {None, Stub}

\* The image asked for is being loaded, and was in no table when it was mapped.
RootLoading == stack # <<>> /\ stack[1].at = "imports"

\* c was overwritten in the process table, and the image of e is bound to it.
BoundBy(e, c) ==
  /\ g_loaded[e] # None /\ \E d \in Dlls : c = bind[g_loaded[e]][d]
  /\ RootLoading => e # stack[1].dll

Accounted ==
  \A c \in mapped :
    \/ \E i \in 1 .. Len(stack) : Private(stack[i]) /\ stack[i].copy = c
    \/ \E d \in Dlls : g_loaded[d] = c
    \/ \E e \in Dlls : BoundBy(e, c)

\* The second copy of the image asked for: some image of the table is bound to it,
\* or one that is being loaded is, or its load has just returned.
Overtaken ==
  RootLoading /\ Top.at # "error" /\ g_loaded[stack[1].dll] # None =>
    \/ \E e \in Dlls : /\ e # stack[1].dll /\ g_loaded[e] # None
                       /\ bind[g_loaded[e]][stack[1].dll] = g_loaded[stack[1].dll]
    \/ \E k \in 1 .. Len(stack) :
         /\ k # 1 /\ stack[k].dll # stack[1].dll /\ stack[k].at = "imports"
         /\ stack[1].dll \notin stack[k].todo
         /\ bind[stack[k].copy][stack[1].dll] = g_loaded[stack[1].dll]
    \/ Len(stack) # 1 /\ Top.dll = stack[1].dll /\ Top.at = "ok"

LInv ==
  /\ Types /\ Counts /\ Shape /\ Names /\ Own /\ OwnMapped /\ Table /\ Handles
  /\ Bindings /\ Bound /\ NoHarm /\ Accounted /\ Overtaken

-----------------------------------------------------------------------------
(* The stack. *)

\* What is left of a sequence without its last element.
LEMMA FrontOf ==
  ASSUME NEW S, NEW s \in Seq(S), s # <<>>
  PROVE  /\ Len(s) \in Nat \ {0}
         /\ Front(s) \in Seq(S)
         /\ Len(Front(s)) = Len(s) - 1
         /\ \A i \in 1 .. Len(s) - 1 : Front(s)[i] = s[i]
<1>1. Len(s) \in Nat \ {0}
  BY EmptySeq
<1>2. PICK n \in Nat : n = Len(s) - 1
  BY <1>1
<1>3. \A i \in 1 .. n : s[i] \in S
  BY <1>1, <1>2, ElementOfSeq
<1>4. /\ SubSeq(s, 1, n) \in Seq(S)
      /\ Len(SubSeq(s, 1, n)) = IF 1 <= n THEN n - 1 + 1 ELSE 0
      /\ \A i \in 1 .. n - 1 + 1 : SubSeq(s, 1, n)[i] = s[1 + i - 1]
  BY <1>3, SubSeqProperties
<1>5. n - 1 + 1 = n /\ (1 <= n \/ n = 0) /\ \A i \in 1 .. n : 1 + i - 1 = i
  OBVIOUS
<1>6. Front(s) = SubSeq(s, 1, n)
  BY <1>2 DEF Front
<1> QED BY <1>1, <1>2, <1>4, <1>5, <1>6

\* The innermost frame.
LEMMA TopFacts ==
  ASSUME stack \in Seq(Frame), stack # <<>>
  PROVE  /\ Len(stack) \in Nat \ {0} /\ Len(stack) \in 1 .. Len(stack)
         /\ Top = stack[Len(stack)] /\ Top \in Frame
<1>1. Len(stack) \in Nat \ {0} /\ Len(stack) \in 1 .. Len(stack)
  BY EmptySeq
<1>2. Top = stack[Len(stack)]
  BY DEF Top, Last
<1>3. stack[Len(stack)] \in Frame
  BY <1>1, ElementOfSeq
<1> QED BY <1>1, <1>2, <1>3

\* Every frame.
LEMMA FrameFacts ==
  ASSUME Types, NEW i \in 1 .. Len(stack)
  PROVE  /\ stack[i] \in Frame /\ stack[i].dll \in Dlls /\ stack[i].todo \subseteq Dlls
         /\ stack[i].copy \in Copies \cup {None}
<1>1. stack[i] \in Frame
  BY ElementOfSeq DEF Types
<1> QED BY <1>1 DEF Frame

\* One frame in the place of the innermost one.
LEMMA SetTopFacts ==
  ASSUME stack \in Seq(Frame), stack # <<>>, NEW f \in Frame, SetTop(f)
  PROVE  /\ stack' \in Seq(Frame) /\ stack' # <<>> /\ Len(stack') = Len(stack)
         /\ \A i \in 1 .. Len(stack) : i # Len(stack) => stack'[i] = stack[i]
         /\ stack'[Len(stack)] = f /\ Top' = f
<1>1. /\ Len(stack) \in Nat \ {0}
      /\ Front(stack) \in Seq(Frame)
      /\ Len(Front(stack)) = Len(stack) - 1
      /\ \A i \in 1 .. Len(stack) - 1 : Front(stack)[i] = stack[i]
  BY FrontOf
<1>2. stack' = Append(Front(stack), f)
  BY <1>1, AppendIsConcat DEF SetTop
<1>3. /\ stack' \in Seq(Frame) /\ stack' # <<>> /\ Len(stack') = Len(stack)
      /\ \A i \in 1 .. Len(stack) - 1 : stack'[i] = stack[i]
      /\ stack'[Len(stack)] = f
  BY <1>1, <1>2, AppendProperties
<1>4. \A i \in 1 .. Len(stack) : i # Len(stack) => i \in 1 .. Len(stack) - 1
  BY <1>1
<1>5. Top' = stack'[Len(stack')]
  BY DEF Top, Last
<1> QED BY <1>3, <1>4, <1>5

\* One more frame.
LEMMA PushFacts ==
  ASSUME stack \in Seq(Frame), NEW f \in Frame, stack' = Append(stack, f)
  PROVE  /\ stack' \in Seq(Frame) /\ stack' # <<>>
         /\ Len(stack) \in Nat /\ Len(stack') = Len(stack) + 1
         /\ \A i \in 1 .. Len(stack) : stack'[i] = stack[i]
         /\ stack'[Len(stack) + 1] = f /\ Top' = f
<1>1. /\ stack' \in Seq(Frame) /\ stack' # <<>>
      /\ Len(stack) \in Nat /\ Len(stack') = Len(stack) + 1
      /\ \A i \in 1 .. Len(stack) : stack'[i] = stack[i]
      /\ stack'[Len(stack) + 1] = f
  BY AppendProperties, LenProperties
<1>2. Top' = stack'[Len(stack')]
  BY DEF Top, Last
<1> QED BY <1>1, <1>2

\* One frame in the place of the two innermost ones.
LEMMA ReturnFacts ==
  ASSUME stack \in Seq(Frame), stack # <<>>, Len(stack) # 1, NEW f \in Frame,
         stack' = Front(Front(stack)) \o <<f>>
  PROVE  /\ stack' \in Seq(Frame) /\ stack' # <<>>
         /\ Len(stack) \in Nat \ {0, 1} /\ Len(stack') = Len(stack) - 1
         /\ \A i \in 1 .. Len(stack) - 1 : i # Len(stack) - 1 => stack'[i] = stack[i]
         /\ stack'[Len(stack) - 1] = f /\ Top' = f
<1>1. /\ Len(stack) \in Nat \ {0, 1}
      /\ Front(stack) \in Seq(Frame)
      /\ Len(Front(stack)) = Len(stack) - 1
      /\ \A i \in 1 .. Len(stack) - 1 : Front(stack)[i] = stack[i]
  BY FrontOf
<1>2. Front(stack) # <<>>
  <2>1. Len(<<>>) = 0
    OBVIOUS
  <2> QED BY <1>1, <2>1
<1>3. /\ Front(Front(stack)) \in Seq(Frame)
      /\ Len(Front(Front(stack))) = Len(Front(stack)) - 1
      /\ \A i \in 1 .. Len(Front(stack)) - 1 : Front(Front(stack))[i] = Front(stack)[i]
  BY <1>1, <1>2, FrontOf
<1>4. stack' = Append(Front(Front(stack)), f)
  BY <1>3, AppendIsConcat
<1>5. /\ stack' \in Seq(Frame) /\ stack' # <<>>
      /\ Len(stack') = Len(Front(Front(stack))) + 1
      /\ \A i \in 1 .. Len(Front(Front(stack))) : stack'[i] = Front(Front(stack))[i]
      /\ stack'[Len(Front(Front(stack))) + 1] = f
  BY <1>3, <1>4, AppendProperties
<1>6. PICK n \in Nat : n = Len(Front(Front(stack))) /\ n = Len(stack) - 2
  BY <1>1, <1>3
<1>7. Len(stack') = n + 1 /\ n + 1 = Len(stack) - 1 /\ stack'[n + 1] = f
  BY <1>1, <1>5, <1>6
<1>8. \A i \in 1 .. n : stack'[i] = stack[i]
  BY <1>1, <1>3, <1>5, <1>6
<1>9. \A i \in 1 .. Len(stack) - 1 : i # Len(stack) - 1 => i \in 1 .. n
  BY <1>1, <1>6
<1>10. Top' = stack'[Len(stack')]
  BY DEF Top, Last
<1> QED BY <1>1, <1>5, <1>7, <1>8, <1>9, <1>10

-----------------------------------------------------------------------------
(* One lemma per kind of step. *)

\* The innermost frame is t, and f takes its place: same file, same call.
TopBecomes(t, f) ==
  /\ t \in Frame /\ f \in Frame /\ f.dll = t.dll /\ f.root = t.root
  /\ Len(stack) \in Nat \ {0} /\ Len(stack') = Len(stack)
  /\ stack # <<>> /\ stack' # <<>> /\ stack' \in Seq(Frame)
  /\ \A i \in 1 .. Len(stack) : i # Len(stack) => stack'[i] = stack[i]
  /\ stack[Len(stack)] = t /\ stack'[Len(stack)] = f
  /\ Top = t /\ Top' = f

\* The frames that SetTop leaves behind.
LEMMA TopBecomesFacts ==
  ASSUME Types, stack # <<>>, NEW f \in Frame, SetTop(f), f.dll = Top.dll, f.root = Top.root
  PROVE  TopBecomes(Top, f)
<1>1. stack \in Seq(Frame)
  BY DEF Types
<1>2. /\ Len(stack) \in Nat \ {0} /\ Top = stack[Len(stack)] /\ Top \in Frame
  BY <1>1, TopFacts
<1>3. /\ stack' \in Seq(Frame) /\ stack' # <<>> /\ Len(stack') = Len(stack)
      /\ \A i \in 1 .. Len(stack) : i # Len(stack) => stack'[i] = stack[i]
      /\ stack'[Len(stack)] = f /\ Top' = f
  BY <1>1, SetTopFacts
<1> QED BY <1>2, <1>3 DEF TopBecomes

\* A load that fails is marked, and nothing else happens but that a truncated
\* file leaves some sections.
LEMMA FailStep ==
  ASSUME LInv, stack # <<>>, Fail, Top.at \in {"map", "imports"},
         UNCHANGED <<disk, g_loaded, loaded, mapped, exported, bind, loads, handles, failures>>,
         copies' \in {copies, copies + 1}, copies' \in 0 .. MaxCopies, leftover' \subseteq Copies
  PROVE  LInv'
<1>1. PICK t, f : t = Top /\ f = [Top EXCEPT !.at = "error"]
  OBVIOUS
<1>2. UNCHANGED <<kind, imports>>
  BY DEF disk
<1>3. t \in Frame
  BY <1>1, TopFacts DEF LInv, Types
<1>4. /\ f \in Frame /\ f.dll = t.dll /\ f.root = t.root /\ f.at = "error"
      /\ f.copy = t.copy /\ f.todo = t.todo
  BY <1>1, <1>3 DEF Frame
<1>5. TopBecomes(t, f)
  BY <1>1, <1>4, TopBecomesFacts DEF LInv, Fail
<1>6. t.at \in {"map", "imports"} /\ (t.at = "map" => t.copy = None)
  BY <1>1, <1>5 DEF LInv, Shape, TopBecomes
<1>7. Made \subseteq Made'
  BY DEF LInv, Types, Made
<1>8. Types'
  BY <1>2, <1>5 DEF LInv, Types, TopBecomes
<1>9. Counts'
  BY <1>5 DEF LInv, Counts, TopBecomes
<1>10. Shape'
  BY SMTT(30), <1>2, <1>4, <1>5 DEF LInv, Shape, TopBecomes
<1>11. Names'
  BY <1>4, <1>5 DEF LInv, Names, TopBecomes
<1>12. Own'
  BY <1>4, <1>5, <1>6, <1>7 DEF LInv, Own, TopBecomes, Private
<1>13. OwnMapped'
  BY <1>4, <1>5 DEF LInv, OwnMapped, TopBecomes
<1>14. Table'
  BY <1>2, <1>7 DEF LInv, Table
<1>15. Handles' /\ Bindings'
  BY <1>2 DEF LInv, Handles, Bindings
<1>16. Bound'
  BY <1>2, <1>4, <1>5 DEF LInv, Bound, TopBecomes
<1>17. NoHarm' /\ Overtaken'
  BY <1>4, <1>5 DEF LInv, NoHarm, Overtaken, TopBecomes
<1>18. Accounted'
  BY <1>4, <1>5, <1>6 DEF LInv, Accounted, BoundBy, RootLoading, Private, TopBecomes
<1> QED BY <1>8, <1>9, <1>10, <1>11, <1>12, <1>13, <1>14, <1>15, <1>16, <1>17, <1>18 DEF LInv

\* The outermost frame when the innermost one is replaced.
LEMMA RootAfter ==
  ASSUME NEW t, NEW f, TopBecomes(t, f)
  PROVE  /\ 1 \in 1 .. Len(stack) /\ Len(stack) \in 1 .. Len(stack)
         /\ Len(stack) # 1 => stack'[1] = stack[1]
         /\ Len(stack) = 1 => stack[1] = t /\ stack'[1] = f
BY DEF TopBecomes

\* Numbers that are not copies.
LEMMA Distinct ==
  /\ None \notin Copies /\ Stub \notin Copies /\ Stub # None
  /\ \A c \in Copies : c # None /\ c # Stub
BY PELoaderAssumption DEF None, Stub, Copies

\* The image is found in the process table.
LEMMA CachedStep ==
  ASSUME LInv, MapCached
  PROVE  LInv'
<1>1. PICK t, c, f : /\ t = Top /\ c = g_loaded[Top.dll]
                     /\ f = [Top EXCEPT !.at = "ok", !.copy = g_loaded[Top.dll]]
  OBVIOUS
<1>2. /\ stack # <<>> /\ t.at = "map" /\ c # None /\ SetTop(f) /\ loaded' = Enter(t, c)
      /\ c = g_loaded[t.dll]
      /\ UNCHANGED <<kind, imports, g_loaded, mapped, leftover, exported, bind, copies,
                     loads, handles, failures>>
  BY <1>1 DEF MapCached, disk
<1>3. t \in Frame /\ t.dll \in Dlls /\ c \in Copies \cup {None}
  <2>1. t \in Frame
    BY <1>1, <1>2, TopFacts DEF LInv, Types
  <2> QED BY <1>1, <2>1 DEF LInv, Types, Frame
<1>4. /\ f \in Frame /\ f.dll = t.dll /\ f.root = t.root /\ f.at = "ok"
      /\ f.copy = c /\ f.todo = t.todo
  BY <1>1, <1>3 DEF Frame
<1>5. TopBecomes(t, f)
  BY <1>1, <1>2, <1>4, TopBecomesFacts DEF LInv
<1>6. c \in mapped \cap exported
  BY <1>1, <1>2, <1>3 DEF LInv, Table
<1>7. /\ loaded' \in [Dlls -> Copies \cup {None}]
      /\ \A d \in Dlls : loaded'[d] = loaded[d] \/ loaded'[d] = c
  BY <1>2, <1>3 DEF LInv, Types, Enter
<1>8. Types'
  BY <1>2, <1>5, <1>7 DEF LInv, Types, TopBecomes
<1>9. Counts'
  BY <1>2, <1>5 DEF LInv, Counts, TopBecomes
<1>10. Shape'
  BY <1>2, <1>4, <1>5 DEF LInv, Shape, TopBecomes
<1>11. Names'
  <2>1. \A i \in 1 .. Len(stack) : stack[i] \in Frame /\ stack[i].dll \in Dlls
    BY FrameFacts DEF LInv
  <2> QED BY <1>2, <1>4, <1>5, <1>7, <2>1 DEF LInv, Names, TopBecomes
<1>12. Own'
  <2>1. Made' = Made
    BY <1>2 DEF Made
  <2>2. SUFFICES ASSUME NEW i \in 1 .. Len(stack), Private(stack'[i])
                 PROVE  /\ stack'[i].copy \in Made
                        /\ \A d \in Dlls : g_loaded[d] # stack'[i].copy
                        /\ \A h \in handles : h[1] # stack'[i].dll
                        /\ \A j \in 1 .. Len(stack) : i # j => stack'[i].copy # stack'[j].copy
    BY <1>2, <1>5, <2>1 DEF Own, TopBecomes
  <2>3. i # Len(stack) /\ stack'[i] = stack[i] /\ Private(stack[i])
    BY <1>4, <1>5, <2>2 DEF Private, TopBecomes
  <2>4. /\ stack[i].copy \in Made
        /\ \A d \in Dlls : g_loaded[d] # stack[i].copy
        /\ \A h \in handles : h[1] # stack[i].dll
        /\ \A j \in 1 .. Len(stack) : i # j => stack[i].copy # stack[j].copy
    BY <2>3 DEF LInv, Own
  <2>5. \A j \in 1 .. Len(stack) : i # j => stack[i].copy # stack'[j].copy
    BY <1>2, <1>3, <1>4, <1>5, <2>4 DEF TopBecomes
  <2> QED BY <2>3, <2>4, <2>5
<1>13. OwnMapped'
  BY <1>2, <1>4, <1>5 DEF LInv, OwnMapped, TopBecomes
<1>14. Table' /\ Handles'
  BY <1>2 DEF LInv, Table, Handles, Made
<1>15. Bindings'
  BY <1>2, <1>6, <1>7 DEF LInv, Bindings
<1>16. Bound'
  BY <1>2, <1>4, <1>5 DEF LInv, Bound, TopBecomes
<1>17. NoHarm'
  BY <1>2, <1>4, <1>5, <1>6, <1>7 DEF LInv, NoHarm, TopBecomes
<1>18. RootLoading' => RootLoading /\ stack'[1] = stack[1] /\ Len(stack) # 1
  BY <1>4, <1>5, RootAfter DEF RootLoading, TopBecomes
<1>19. Accounted'
  BY <1>2, <1>4, <1>5, <1>18 DEF LInv, Accounted, BoundBy, Private, TopBecomes
<1>20. Overtaken'
  BY <1>2, <1>4, <1>5, <1>18 DEF LInv, Overtaken, TopBecomes
<1> QED BY <1>8, <1>9, <1>10, <1>11, <1>12, <1>13, <1>14, <1>15, <1>16, <1>17, <1>19, <1>20 DEF LInv

\* The sections are mapped: a new copy, of which the frame is the only owner.
LEMMA SectionsStep ==
  ASSUME LInv, MapSections
  PROVE  LInv'
<1>1. PICK t, c, f : /\ t = Top /\ c = copies + 1
                     /\ f = [Top EXCEPT !.at = "imports", !.copy = copies + 1,
                                        !.todo = imports[Top.dll]]
  OBVIOUS
<1>2. /\ stack # <<>> /\ t.at = "map" /\ g_loaded[t.dll] = None /\ SetTop(f)
      /\ copies < MaxCopies /\ copies' = c /\ loaded' = Enter(t, c)
      /\ mapped' = mapped \cup {c} /\ exported' = exported \cup {c}
      /\ UNCHANGED <<kind, imports, g_loaded, leftover, bind, loads, handles, failures>>
  BY <1>1 DEF MapSections, Place, ParseAndFillExports, disk
<1>3. t \in Frame /\ t.dll \in Dlls /\ imports[t.dll] \in SUBSET Dlls
  <2>1. t \in Frame
    BY <1>1, <1>2, TopFacts DEF LInv, Types
  <2> QED BY <2>1 DEF LInv, Types, Frame
<1>4. /\ c \in Copies /\ c # None /\ c \notin Made /\ c \in Made' /\ Made \subseteq Made'
      /\ copies' \in 0 .. MaxCopies
  BY <1>1, <1>2, PELoaderAssumption DEF LInv, Types, Made, Copies, None
<1>5. /\ f \in Frame /\ f.dll = t.dll /\ f.root = t.root /\ f.at = "imports"
      /\ f.copy = c /\ f.todo = imports[t.dll]
  BY <1>1, <1>3, <1>4 DEF Frame
<1>6. TopBecomes(t, f)
  BY <1>1, <1>2, <1>5, TopBecomesFacts DEF LInv
<1>7. /\ loaded' \in [Dlls -> Copies \cup {None}]
      /\ \A d \in Dlls : loaded'[d] = loaded[d] \/ loaded'[d] = c
      /\ ~t.root => loaded'[t.dll] = c
  BY <1>2, <1>3, <1>4 DEF LInv, Types, Enter
<1>8. Types'
  BY <1>2, <1>4, <1>6, <1>7 DEF LInv, Types, TopBecomes
<1>9. Counts'
  BY <1>2, <1>6 DEF LInv, Counts, TopBecomes
<1>10. Shape'
  BY <1>2, <1>4, <1>5, <1>6 DEF LInv, Shape, TopBecomes
<1>11. Names'
  <2>1. \A i \in 1 .. Len(stack) : stack[i] \in Frame /\ stack[i].dll \in Dlls
    BY FrameFacts DEF LInv
  <2>2. Len(stack) # 1 => ~t.root
    BY <1>6, RootAfter DEF LInv, Shape, TopBecomes
  <2> QED BY <1>2, <1>4, <1>5, <1>6, <1>7, <2>1, <2>2 DEF LInv, Names, TopBecomes
<1>12. Own'
  <2>1. \A d \in Dlls : g_loaded[d] # c
    BY <1>4 DEF LInv, Table
  <2>2. \A h \in handles : h[1] # t.dll
    BY <1>2, Distinct DEF LInv, Handles, Types
  <2>3. \A i \in 1 .. Len(stack) : i # Len(stack) => Private(stack[i]) /\ stack[i].copy \in Made
    BY DEF LInv, Own, Shape, Private
  <2>4. SUFFICES ASSUME NEW i \in 1 .. Len(stack), Private(stack'[i])
                 PROVE  /\ stack'[i].copy \in Made'
                        /\ \A d \in Dlls : g_loaded[d] # stack'[i].copy
                        /\ \A h \in handles : h[1] # stack'[i].dll
                        /\ \A j \in 1 .. Len(stack) : i # j => stack'[i].copy # stack'[j].copy
    BY <1>2, <1>6 DEF Own, TopBecomes
  <2>5. CASE i = Len(stack)
    BY <1>4, <1>5, <1>6, <2>1, <2>2, <2>3, <2>5 DEF TopBecomes
  <2>6. CASE i # Len(stack)
    <3>1. /\ stack'[i] = stack[i] /\ Private(stack[i]) /\ stack[i].copy \in Made
      BY <1>6, <2>3, <2>6 DEF TopBecomes
    <3>2. /\ \A d \in Dlls : g_loaded[d] # stack[i].copy
          /\ \A h \in handles : h[1] # stack[i].dll
          /\ \A j \in 1 .. Len(stack) : i # j => stack[i].copy # stack[j].copy
      BY <3>1 DEF LInv, Own
    <3>3. \A j \in 1 .. Len(stack) : i # j => stack[i].copy # stack'[j].copy
      BY <1>4, <1>5, <1>6, <3>1, <3>2 DEF TopBecomes
    <3> QED BY <1>4, <3>1, <3>2, <3>3
  <2> QED BY <2>5, <2>6
<1>13. OwnMapped'
  BY <1>2, <1>5, <1>6 DEF LInv, OwnMapped, TopBecomes
<1>14. Table' /\ Handles'
  BY <1>2, <1>4 DEF LInv, Table, Handles
<1>15. Bindings'
  BY <1>2, <1>7 DEF LInv, Bindings
<1>16. Bound'
  BY <1>2, <1>5, <1>6 DEF LInv, Bound, TopBecomes
<1>17. NoHarm'
  BY <1>2, <1>5, <1>6, <1>7 DEF LInv, NoHarm, TopBecomes
<1>18. /\ Len(stack) # 1 => stack'[1] = stack[1] /\ RootLoading' = RootLoading
       /\ Len(stack) = 1 => stack'[1].dll = t.dll /\ ~RootLoading
  BY <1>2, <1>5, <1>6, RootAfter DEF RootLoading, TopBecomes
<1>19. Accounted'
  <2>1. \A e \in Dlls : \A b : BoundBy(e, b) => BoundBy(e, b)'
    BY <1>2, <1>18 DEF BoundBy
  <2>2. \E i \in 1 .. Len(stack') : Private(stack'[i]) /\ stack'[i].copy = c
    BY <1>4, <1>5, <1>6, RootAfter DEF Private, TopBecomes
  <2>3. ASSUME NEW b \in mapped, NEW i \in 1 .. Len(stack), Private(stack[i]), stack[i].copy = b
        PROVE  \E j \in 1 .. Len(stack') : Private(stack'[j]) /\ stack'[j].copy = b
    BY <1>2, <1>6, <2>3 DEF Private, TopBecomes
  <2> QED BY <1>2, <2>1, <2>2, <2>3 DEF LInv, Accounted, Private
<1>20. Overtaken'
  <2>1. CASE Len(stack) = 1
    BY <1>2, <1>18, <2>1 DEF Overtaken
  <2>2. CASE Len(stack) # 1
    <3>1. Top.at = "map" /\ \A k \in 1 .. Len(stack) :
             stack[k].at = "imports" => k # Len(stack) /\ stack'[k] = stack[k]
      BY <1>2, <1>6 DEF TopBecomes
    <3> QED BY ZenonT(60), <1>2, <1>6, <1>18, <2>2, <3>1 DEF LInv, Overtaken, TopBecomes
  <2> QED BY <2>1, <2>2
<1> QED BY <1>8, <1>9, <1>10, <1>11, <1>12, <1>13, <1>14, <1>15, <1>16, <1>17, <1>19, <1>20 DEF LInv

\* One entry of the import table of copy a is written.
Written(a, e, b) ==
  /\ bind' \in [Copies -> [Dlls -> Copies \cup {None, Stub}]]
  /\ \A c \in Copies, d \in Dlls :
       bind'[c][d] = IF c = a /\ d = e THEN b ELSE bind[c][d]

\* What EXCEPT does to the import tables.
LEMMA WrittenFacts ==
  ASSUME Types, NEW a \in Copies, NEW e \in Dlls, NEW b \in Copies \cup {Stub},
         bind' = [bind EXCEPT ![a][e] = b]
  PROVE  Written(a, e, b)
<1>1. bind \in [Copies -> [Dlls -> Copies \cup {None, Stub}]]
  BY DEF Types
<1>2. bind' = [bind EXCEPT ![a] = [bind[a] EXCEPT ![e] = b]]
  OBVIOUS
<1>3. [bind[a] EXCEPT ![e] = b] \in [Dlls -> Copies \cup {None, Stub}]
  BY <1>1
<1> QED BY <1>1, <1>2, <1>3 DEF Written

\* The import table of an image that is being loaded is nobody else's: what is
\* written to it changes no image of the process table.
LEMMA WrittenPrivate ==
  ASSUME LInv, NEW i \in 1 .. Len(stack), stack[i].at = "imports", NEW e \in Dlls,
         NEW b \in Copies \cup {Stub}, Written(stack[i].copy, e, b),
         b = Stub => kind[e] = "missing"
  PROVE  /\ \A c \in Copies, d \in Dlls : bind'[c][d] = Stub => kind[d] = "missing"
         /\ \A c \in Copies, d \in Dlls : bind[c][d] # None => bind'[c][d] # None
         /\ \A d, k \in Dlls : g_loaded[k] # None => bind'[g_loaded[k]][d] = bind[g_loaded[k]][d]
         /\ \A j \in 1 .. Len(stack) : j # i /\ stack[j].copy # None =>
              \A d \in Dlls : bind'[stack[j].copy][d] = bind[stack[j].copy][d]
         /\ \A d \in Dlls : bind'[stack[i].copy][d] = IF d = e THEN b ELSE bind[stack[i].copy][d]
<1>1. stack[i].copy \in Copies /\ Private(stack[i])
  BY FrameFacts DEF LInv, Shape, Private
<1>2. \A j \in 1 .. Len(stack) : stack[j].copy # None => stack[j].copy \in Copies
  BY FrameFacts DEF LInv
<1>3. \A d \in Dlls : g_loaded[d] # None => g_loaded[d] \in Copies
  BY DEF LInv, Types
<1>4. \A d \in Dlls : g_loaded[d] # stack[i].copy
  BY <1>1 DEF LInv, Own
<1>5. \A j \in 1 .. Len(stack) : j # i => stack[i].copy # stack[j].copy
  BY <1>1 DEF LInv, Own
<1>6. b # None
  BY Distinct
<1>7. \A c \in Copies, d \in Dlls : bind[c][d] = Stub => kind[d] = "missing"
  BY DEF LInv, Bindings
<1>8. \A c \in Copies, d \in Dlls : bind'[c][d] = Stub => kind[d] = "missing"
  BY <1>7 DEF Written
<1>9. \A c \in Copies, d \in Dlls : bind[c][d] # None => bind'[c][d] # None
  BY <1>6 DEF Written
<1>10. \A d, k \in Dlls : g_loaded[k] # None => bind'[g_loaded[k]][d] = bind[g_loaded[k]][d]
  BY <1>3, <1>4 DEF Written
<1>11. \A j \in 1 .. Len(stack) : j # i /\ stack[j].copy # None =>
          \A d \in Dlls : bind'[stack[j].copy][d] = bind[stack[j].copy][d]
  BY <1>2, <1>5 DEF Written
<1>12. \A d \in Dlls : bind'[stack[i].copy][d] = IF d = e THEN b ELSE bind[stack[i].copy][d]
  BY <1>1 DEF Written
<1> QED BY <1>8, <1>9, <1>10, <1>11, <1>12

\* An import is bound without loading anything.
LEMMA BindStep ==
  ASSUME LInv, NEW e \in Dlls, Importing(e), NEW b \in Copies \cup {Stub},
         bind' = [bind EXCEPT ![Top.copy][e] = b],
         SetTop([Top EXCEPT !.todo = @ \ {e}]),
         b = Stub => kind[e] = "missing",
         failures = 0 => b \in mapped \cup {Stub},
         UNCHANGED <<disk, g_loaded, loaded, mapped, leftover, exported, copies, loads,
                     handles, failures>>
  PROVE  LInv'
<1>1. PICK t, f : t = Top /\ f = [Top EXCEPT !.todo = @ \ {e}]
  OBVIOUS
<1>2. /\ stack # <<>> /\ t.at = "imports" /\ e \in t.todo /\ SetTop(f)
      /\ UNCHANGED <<kind, imports, g_loaded, loaded, mapped, leftover, exported, copies,
                     loads, handles, failures>>
  BY <1>1 DEF Importing, disk
<1>3. t \in Frame
  BY <1>1, <1>2, TopFacts DEF LInv, Types
<1>4. /\ f \in Frame /\ f.dll = t.dll /\ f.root = t.root /\ f.at = "imports"
      /\ f.copy = t.copy /\ f.todo = t.todo \ {e}
  BY <1>1, <1>2, <1>3 DEF Frame
<1>5. TopBecomes(t, f)
  BY <1>1, <1>2, <1>4, TopBecomesFacts DEF LInv
<1>6. PICK n : n = Len(stack) /\ n \in 1 .. Len(stack)
  BY <1>5, RootAfter
<1>7. /\ stack[n] = t /\ stack'[n] = f /\ Len(stack') = Len(stack) /\ Top = t /\ Top' = f
      /\ stack' # <<>> /\ stack' \in Seq(Frame)
      /\ \A i \in 1 .. Len(stack) : i # n => stack'[i] = stack[i]
  BY <1>5, <1>6 DEF TopBecomes
<1>8. t.copy \in Copies
  BY <1>2, <1>6, <1>7, FrameFacts DEF LInv, Shape
<1>9. Written(stack[n].copy, e, b)
  BY <1>1, <1>7, <1>8, WrittenFacts DEF LInv
<1>10. /\ \A c \in Copies, d \in Dlls : bind'[c][d] = Stub => kind[d] = "missing"
       /\ \A d, k \in Dlls : g_loaded[k] # None => bind'[g_loaded[k]][d] = bind[g_loaded[k]][d]
       /\ \A j \in 1 .. Len(stack) : j # n /\ stack[j].copy # None =>
            \A d \in Dlls : bind'[stack[j].copy][d] = bind[stack[j].copy][d]
       /\ \A d \in Dlls : bind'[t.copy][d] = IF d = e THEN b ELSE bind[t.copy][d]
  <2>1. stack[n].at = "imports"
    BY <1>2, <1>7
  <2>2. \A d \in Dlls : bind'[stack[n].copy][d] = IF d = e THEN b ELSE bind[stack[n].copy][d]
    BY <1>6, <1>9, <2>1, WrittenPrivate
  <2>3. /\ \A c \in Copies, d \in Dlls : bind'[c][d] = Stub => kind[d] = "missing"
        /\ \A d, k \in Dlls : g_loaded[k] # None => bind'[g_loaded[k]][d] = bind[g_loaded[k]][d]
        /\ \A j \in 1 .. Len(stack) : j # n /\ stack[j].copy # None =>
             \A d \in Dlls : bind'[stack[j].copy][d] = bind[stack[j].copy][d]
    BY <1>6, <1>9, <2>1, WrittenPrivate
  <2> QED BY <1>7, <2>2, <2>3
<1>11. Types'
  BY <1>2, <1>7, <1>9 DEF LInv, Types, Written
<1>12. Counts'
  BY <1>2, <1>7 DEF LInv, Counts
<1>13. Shape'
  BY <1>2, <1>4, <1>5 DEF LInv, Shape, TopBecomes
<1>14. Names'
  BY <1>2, <1>4, <1>5 DEF LInv, Names, TopBecomes
<1>15. Own'
  <2>1. Made' = Made
    BY <1>2 DEF Made
  <2>2. \A i \in 1 .. Len(stack) : /\ stack'[i].copy = stack[i].copy /\ stack'[i].dll = stack[i].dll
                                   /\ Private(stack'[i]) <=> Private(stack[i])
    BY <1>2, <1>4, <1>7 DEF Private
  <2> QED BY <1>2, <1>7, <2>1, <2>2 DEF LInv, Own
<1>16. OwnMapped'
  BY <1>2, <1>4, <1>7 DEF LInv, OwnMapped
<1>17. Table'
  <2>1. imports \in [Dlls -> SUBSET Dlls] /\ Made' = Made
    BY <1>2 DEF LInv, Types, Made
  <2> QED BY <1>2, <1>10, <2>1 DEF LInv, Table
<1>18. Handles' /\ Bindings'
  BY <1>2, <1>10 DEF LInv, Handles, Bindings
<1>19. Bound'
  <2>1. b # None
    BY Distinct
  <2>2. \A i \in 1 .. Len(stack) : stack[i].at = "imports" => stack[i].copy # None
    BY DEF LInv, Shape
  <2>3. \A i \in 1 .. Len(stack) : imports[stack[i].dll] \subseteq Dlls
    BY FrameFacts DEF LInv, Types
  <2> QED BY <1>2, <1>4, <1>6, <1>7, <1>10, <2>1, <2>2, <2>3 DEF LInv, Bound
<1>20. NoHarm'
  <2>1. failures = 0 => \A c \in Copies, d \in Dlls : bind'[c][d] \in mapped \cup {None, Stub}
    BY <1>2, <1>7, <1>9 DEF LInv, NoHarm, Written
  <2> QED BY <1>2, <1>4, <1>7, <2>1 DEF LInv, NoHarm
<1>21. RootLoading' = RootLoading /\ stack'[1].dll = stack[1].dll
  BY <1>2, <1>4, <1>5, RootAfter DEF RootLoading, TopBecomes
<1>22. Accounted'
  <2>1. \A k \in Dlls : \A c : BoundBy(k, c) => BoundBy(k, c)'
    BY <1>2, <1>10, <1>21 DEF BoundBy
  <2>2. \A i \in 1 .. Len(stack) : Private(stack[i]) =>
          Private(stack'[i]) /\ stack'[i].copy = stack[i].copy
    BY <1>2, <1>4, <1>7 DEF Private
  <2> QED BY <1>2, <1>7, <2>1, <2>2 DEF LInv, Accounted
<1>23. Overtaken'
  <2>1. SUFFICES ASSUME RootLoading, g_loaded[stack[1].dll] # None
                 PROVE  Overtaken'
    BY <1>2, <1>21 DEF Overtaken
  <2>2. stack[1].dll \in Dlls /\ 1 \in 1 .. Len(stack)
    BY <1>5, RootAfter, FrameFacts DEF LInv
  <2>3. PICK r : r = stack[1].dll /\ r = stack'[1].dll /\ r \in Dlls
    BY <1>21, <2>2
  <2>4. CASE \E k \in Dlls : k # r /\ g_loaded[k] # None /\ bind[g_loaded[k]][r] = g_loaded[r]
    BY <1>2, <1>10, <2>3, <2>4 DEF Overtaken
  <2>5. CASE \E k \in 1 .. Len(stack) :
               /\ k # 1 /\ stack[k].dll # r /\ stack[k].at = "imports"
               /\ r \notin stack[k].todo /\ bind[stack[k].copy][r] = g_loaded[r]
    <3>1. PICK k \in 1 .. Len(stack) :
               /\ k # 1 /\ stack[k].dll # r /\ stack[k].at = "imports"
               /\ r \notin stack[k].todo /\ bind[stack[k].copy][r] = g_loaded[r]
      BY <2>5
    <3>2. stack[k].copy # None
      BY <3>1 DEF LInv, Shape
    <3>3. stack'[k].dll = stack[k].dll /\ stack'[k].at = "imports" /\ r \notin stack'[k].todo
          /\ stack'[k].copy = stack[k].copy
      BY <1>2, <1>4, <1>7, <3>1
    <3>4. bind'[stack[k].copy][r] = bind[stack[k].copy][r]
      BY <1>2, <1>7, <1>10, <2>3, <3>1, <3>2
    <3> QED BY <1>2, <1>7, <2>3, <3>1, <3>3, <3>4 DEF Overtaken
  <2> QED BY <1>2, <1>7, <2>1, <2>3, <2>4, <2>5 DEF LInv, Overtaken
<1> QED BY <1>11, <1>12, <1>13, <1>14, <1>15, <1>16, <1>17, <1>18, <1>19, <1>20, <1>22, <1>23 DEF LInv

\* An import from an image of the table, or from a file that is not there.
LEMMA ImportBound ==
  ASSUME LInv, NEW e \in Dlls, ImportLoaded(e) \/ ImportMissing(e)
  PROVE  LInv'
<1>1. exported \subseteq Copies /\ loaded[e] \in Copies \cup {None}
  BY DEF LInv, Types
<1>2. CASE ImportLoaded(e)
  <2>1. loaded[e] # None /\ Importing(e) /\ BindTo(e, loaded[e])
    BY <1>2 DEF ImportLoaded
  <2>2. PICK b : b = loaded[e]
    OBVIOUS
  <2>3. b \in Copies /\ b \in exported /\ b # Stub
    BY <1>1, <2>1, <2>2, Distinct DEF LInv, Bindings
  <2>4. failures = 0 => b \in mapped
    <3>1. Top.at # "error"
      BY <2>1 DEF Importing
    <3> QED BY <2>1, <2>2, <3>1 DEF LInv, NoHarm
  <2>5. /\ bind' = [bind EXCEPT ![Top.copy][e] = b]
        /\ SetTop([Top EXCEPT !.todo = @ \ {e}])
    BY <2>1, <2>2, <2>3 DEF BindTo
  <2>6. UNCHANGED <<disk, g_loaded, loaded, mapped, leftover, exported, copies, loads,
                    handles, failures>>
    BY <1>2 DEF ImportLoaded
  <2> QED BY <2>1, <2>3, <2>4, <2>5, <2>6, BindStep
<1>3. CASE ImportMissing(e)
  <2>1. kind[e] = "missing" /\ Importing(e) /\ BindTo(e, None)
    BY <1>3 DEF ImportMissing
  <2>2. PICK b : b = Stub
    OBVIOUS
  <2>3. /\ bind' = [bind EXCEPT ![Top.copy][e] = b]
        /\ SetTop([Top EXCEPT !.todo = @ \ {e}])
    BY <1>1, <2>1, <2>2, Distinct DEF BindTo
  <2>4. UNCHANGED <<disk, g_loaded, loaded, mapped, leftover, exported, copies, loads,
                    handles, failures>>
    BY <1>3 DEF ImportMissing
  <2>5. b \in Copies \cup {Stub} /\ (failures = 0 => b \in mapped \cup {Stub})
    BY <2>2
  <2> QED BY <2>1, <2>3, <2>4, <2>5, BindStep
<1> QED BY <1>2, <1>3

\* A file is opened for an import that no table has.
LEMMA PushStep ==
  ASSUME LInv, NEW e \in Dlls, ImportFile(e)
  PROVE  LInv'
<1>1. PICK t, f, n : t = Top /\ f = Activation(e, FALSE) /\ n = Len(stack)
  OBVIOUS
<1>2. /\ stack # <<>> /\ t.at = "imports" /\ e \in t.todo /\ loaded[e] = None
      /\ stack' = Append(stack, f)
      /\ UNCHANGED <<kind, imports, g_loaded, loaded, mapped, leftover, exported, bind, copies,
                     loads, handles, failures>>
  BY <1>1 DEF ImportFile, Importing, disk
<1>3. /\ f \in Frame /\ f.dll = e /\ f.root = FALSE /\ f.at = "map" /\ f.copy = None
      /\ f.todo = {}
  BY <1>1 DEF Activation, Frame
<1>4. stack \in Seq(Frame)
  BY DEF LInv, Types
<1>5. n \in Nat \ {0} /\ n \in 1 .. n /\ stack[n] = t /\ Top = t /\ n = Len(stack)
  BY <1>1, <1>2, <1>4, TopFacts
<1>6. /\ stack' \in Seq(Frame) /\ stack' # <<>> /\ Len(stack') = n + 1
      /\ \A i \in 1 .. n : stack'[i] = stack[i]
      /\ stack'[n + 1] = f /\ Top' = f
  BY <1>2, <1>3, <1>4, <1>5, PushFacts
<1>7. /\ \A i \in 1 .. n + 1 : i \in 1 .. n \/ i = n + 1
      /\ \A i \in 1 .. n : i \in 1 .. n + 1 /\ i # n + 1
      /\ 1 \in 1 .. n /\ n + 1 \in 1 .. n + 1 /\ n + 1 # 1
  BY <1>5
<1>8. \A i \in 1 .. n : stack[i].at = "imports"
  BY <1>2, <1>5 DEF LInv, Shape
<1>9. Types' /\ Made' = Made
  BY <1>2, <1>6 DEF LInv, Types, Made
<1>10. Counts'
  BY <1>2, <1>6 DEF LInv, Counts
<1>11. Shape'
  <2>1. ASSUME NEW i \in 1 .. n
        PROVE  /\ stack'[i].root <=> i = 1
               /\ stack'[i].at = "imports" /\ stack'[i + 1].dll \in stack'[i].todo
               /\ stack'[i].copy # None
               /\ stack'[i].todo \subseteq imports[stack'[i].dll]
    <3>1. /\ stack[i].root <=> i = 1
          /\ stack[i].at = "imports" /\ stack[i].copy # None
          /\ stack[i].todo \subseteq imports[stack[i].dll]
      BY <1>5, <1>8 DEF LInv, Shape
    <3>2. CASE i = n
      BY <1>2, <1>3, <1>5, <1>6, <3>1, <3>2
    <3>3. CASE i # n
      <4>1. i + 1 \in 1 .. n /\ stack[i + 1].dll \in stack[i].todo
        BY <1>5, <3>3 DEF LInv, Shape
      <4> QED BY <1>6, <3>1, <4>1
    <3> QED BY <3>2, <3>3
  <2> QED BY <1>2, <1>3, <1>6, <1>7, <2>1 DEF Shape
<1>12. Names'
  <2>1. \A i \in 1 .. n : i # 1 => loaded[stack[i].dll] # None /\ stack[i].dll # e
    BY <1>2, <1>5, <1>8 DEF LInv, Names
  <2> QED BY <1>2, <1>3, <1>5, <1>6, <1>7, <2>1 DEF LInv, Names
<1>13. Own'
  BY <1>2, <1>3, <1>5, <1>6, <1>7, <1>9 DEF LInv, Own, Private
<1>14. OwnMapped'
  BY <1>2, <1>3, <1>5, <1>6, <1>7 DEF LInv, OwnMapped
<1>15. Table' /\ Handles' /\ Bindings'
  BY <1>2, <1>9 DEF LInv, Table, Handles, Bindings
<1>16. Bound'
  BY <1>2, <1>3, <1>5, <1>6, <1>7 DEF LInv, Bound
<1>17. NoHarm'
  BY <1>2, <1>3, <1>5, <1>6 DEF LInv, NoHarm
<1>18. RootLoading' = RootLoading /\ stack'[1] = stack[1]
  BY <1>2, <1>6, <1>7 DEF RootLoading
<1>19. Accounted'
  <2>1. \A k \in Dlls : \A c : BoundBy(k, c) => BoundBy(k, c)'
    BY <1>2, <1>18 DEF BoundBy
  <2> QED BY <1>2, <1>5, <1>6, <1>7, <2>1 DEF LInv, Accounted
<1>20. Overtaken'
  BY <1>2, <1>5, <1>6, <1>7, <1>18 DEF LInv, Overtaken
<1> QED BY <1>9, <1>10, <1>11, <1>12, <1>13, <1>14, <1>15, <1>16, <1>17, <1>19, <1>20 DEF LInv

\* The image is entered in the process table.
LEMMA DoneStep ==
  ASSUME LInv, ImportsDone
  PROVE  LInv'
<1>1. PICK t, f, n : t = Top /\ f = [Top EXCEPT !.at = "ok"] /\ n = Len(stack)
  OBVIOUS
<1>2. /\ stack # <<>> /\ t.at = "imports" /\ t.todo = {} /\ SetTop(f)
      /\ g_loaded' = [g_loaded EXCEPT ![t.dll] = t.copy]
      /\ UNCHANGED <<kind, imports, loaded, mapped, leftover, exported, bind, copies,
                     loads, handles, failures>>
  BY <1>1 DEF ImportsDone, disk
<1>3. t \in Frame
  BY <1>1, <1>2, TopFacts DEF LInv, Types
<1>4. /\ f \in Frame /\ f.dll = t.dll /\ f.root = t.root /\ f.at = "ok"
      /\ f.copy = t.copy /\ f.todo = {}
  BY <1>1, <1>2, <1>3 DEF Frame
<1>5. TopBecomes(t, f)
  BY <1>1, <1>2, <1>4, TopBecomesFacts DEF LInv
<1>6. /\ n = Len(stack) /\ n \in Nat \ {0} /\ n \in 1 .. n /\ 1 \in 1 .. n
      /\ stack[n] = t /\ stack'[n] = f /\ Len(stack') = n /\ Top = t /\ Top' = f
      /\ stack' # <<>> /\ stack' \in Seq(Frame)
      /\ \A i \in 1 .. n : i # n => stack'[i] = stack[i]
  BY <1>1, <1>5 DEF TopBecomes
<1>7. PICK c, D : c = t.copy /\ D = t.dll
  OBVIOUS
<1>8. /\ c \in mapped \cap exported \cap Made /\ c \in Copies /\ c # None /\ D \in Dlls
      /\ \A d \in Dlls : g_loaded[d] # c
      /\ \A h \in handles : h[1] # D
      /\ \A j \in 1 .. n : j # n => stack[j].copy # c
      /\ \A e \in imports[D] : bind[c][e] # None
  <2>1. c \in mapped \cap exported /\ c # None
    BY <1>2, <1>6, <1>7 DEF LInv, OwnMapped, Shape
  <2>2. Private(stack[n])
    BY <1>2, <1>6, <1>7, <2>1 DEF Private
  <2>3. /\ c \in Made
        /\ \A d \in Dlls : g_loaded[d] # c
        /\ \A h \in handles : h[1] # D
        /\ \A j \in 1 .. n : j # n => stack[j].copy # c
    BY <1>6, <1>7, <2>2 DEF LInv, Own
  <2>4. \A e \in imports[D] : bind[c][e] # None
    BY <1>2, <1>6, <1>7 DEF LInv, Bound
  <2>5. D \in Dlls /\ c \in Copies
    BY <1>6, <1>7, <2>1, FrameFacts DEF LInv
  <2> QED BY <2>1, <2>3, <2>4, <2>5
<1>9. /\ g_loaded' \in [Dlls -> Copies \cup {None}]
      /\ \A d \in Dlls : g_loaded'[d] = IF d = D THEN c ELSE g_loaded[d]
  BY <1>2, <1>7, <1>8 DEF LInv, Types
<1>10. n # 1 => g_loaded[D] = None
  BY <1>2, <1>6, <1>7 DEF LInv, Names
<1>11. \A i \in 1 .. n : stack[i].dll \in Dlls
  BY <1>6, FrameFacts DEF LInv
<1>12. Types' /\ Made' = Made
  BY <1>2, <1>6, <1>9 DEF LInv, Types, Made
<1>13. Counts'
  BY <1>2, <1>6 DEF LInv, Counts
<1>14. Shape'
  <2>1. \A i \in 1 .. n : stack'[i].dll = stack[i].dll
    BY <1>4, <1>6
  <2>2. ASSUME NEW i \in 1 .. n, i # n
        PROVE  /\ stack'[i].root <=> i = 1
               /\ stack'[i].at = "imports" /\ stack'[i + 1].dll \in stack'[i].todo
               /\ stack'[i].copy # None
               /\ stack'[i].todo \subseteq imports[stack'[i].dll]
    <3>1. i + 1 \in 1 .. n
      BY <1>6, <2>2
    <3> QED BY <1>6, <2>1, <2>2, <3>1 DEF LInv, Shape
  <2>3. /\ f.root <=> n = 1
    BY <1>4, <1>6 DEF LInv, Shape
  <2> QED BY <1>2, <1>4, <1>6, <1>7, <1>8, <1>9, <2>2, <2>3 DEF Shape
<1>15. Names'
  <2>1. \A i \in 1 .. n : stack'[i].dll = stack[i].dll
    BY <1>4, <1>6
  <2>2. ASSUME NEW i \in 1 .. n, i # 1, stack'[i].at = "imports"
        PROVE  loaded[stack[i].dll] # None /\ g_loaded'[stack[i].dll] = None
    <3>1. i # n /\ stack[i].at = "imports" /\ n # 1
      BY <1>4, <1>6, <2>2
    <3>2. stack[i].dll # D /\ loaded[stack[i].dll] # None /\ g_loaded[stack[i].dll] = None
      BY <1>6, <1>7, <2>2, <3>1 DEF LInv, Names
    <3> QED BY <1>9, <1>11, <3>2
  <2> QED BY <1>2, <1>6, <2>1, <2>2 DEF LInv, Names
<1>16. Own'
  <2>1. ASSUME NEW i \in 1 .. n, Private(stack'[i])
        PROVE  /\ stack'[i].copy \in Made
               /\ \A d \in Dlls : g_loaded'[d] # stack'[i].copy
               /\ \A h \in handles : h[1] # stack'[i].dll
               /\ \A j \in 1 .. n : i # j => stack'[i].copy # stack'[j].copy
    <3>1. i # n /\ stack'[i] = stack[i] /\ Private(stack[i])
      BY <1>4, <1>6, <2>1 DEF Private
    <3>2. /\ stack[i].copy \in Made
          /\ \A d \in Dlls : g_loaded[d] # stack[i].copy
          /\ \A h \in handles : h[1] # stack[i].dll
          /\ \A j \in 1 .. n : i # j => stack[i].copy # stack[j].copy
      BY <1>6, <3>1 DEF LInv, Own
    <3>3. \A j \in 1 .. n : stack'[j].copy = stack[j].copy
      BY <1>4, <1>6
    <3> QED BY <1>8, <1>9, <3>1, <3>2, <3>3
  <2> QED BY <1>2, <1>6, <1>12, <2>1 DEF Own
<1>17. OwnMapped'
  BY <1>2, <1>4, <1>6 DEF LInv, OwnMapped
<1>18. Table'
  BY <1>2, <1>8, <1>9, <1>12 DEF LInv, Table
<1>19. Handles'
  <2>1. \A h \in handles : h[1] \in Dlls
    BY DEF LInv, Types
  <2> QED BY <1>2, <1>8, <1>9, <2>1 DEF LInv, Handles
<1>20. Bindings'
  BY <1>2 DEF LInv, Bindings
<1>21. Bound'
  BY <1>2, <1>4, <1>6 DEF LInv, Bound
<1>22. NoHarm'
  BY <1>2, <1>4, <1>6 DEF LInv, NoHarm
<1>23. RootLoading' => RootLoading /\ stack'[1] = stack[1] /\ n # 1
  BY <1>2, <1>4, <1>6 DEF RootLoading
<1>24. n = 1 => RootLoading /\ stack[1].dll = D
  BY <1>2, <1>6, <1>7 DEF RootLoading
<1>25. Accounted'
  <2>1. SUFFICES ASSUME NEW b \in mapped
                 PROVE  \/ \E i \in 1 .. n : Private(stack'[i]) /\ stack'[i].copy = b
                        \/ \E d \in Dlls : g_loaded'[d] = b
                        \/ \E e \in Dlls : BoundBy(e, b)'
    BY <1>2, <1>6 DEF Accounted
  <2>2. CASE \E i \in 1 .. n : Private(stack[i]) /\ stack[i].copy = b
    BY <1>6, <1>7, <1>8, <1>9, <2>2
  <2>3. CASE \E d \in Dlls : g_loaded[d] = b
    <3>1. PICK d \in Dlls : g_loaded[d] = b
      BY <2>3
    <3>2. b # None
      BY Distinct DEF LInv, Types
    <3>3. CASE d # D
      BY <1>9, <3>1, <3>3
    <3>4. CASE d = D
      <4>1. n = 1 /\ RootLoading /\ stack[1].dll = D
        BY <1>10, <1>24, <3>1, <3>2, <3>4
      <4>2. PICK e \in Dlls : e # D /\ g_loaded[e] # None /\ bind[g_loaded[e]][D] = b
        BY <1>2, <1>6, <3>1, <3>2, <3>4, <4>1 DEF LInv, Overtaken
      <4>3. BoundBy(e, b)'
        BY <1>2, <1>8, <1>9, <1>23, <4>1, <4>2 DEF BoundBy
      <4> QED BY <4>3
    <3> QED BY <3>3, <3>4
  <2>4. CASE \E e \in Dlls : BoundBy(e, b)
    <3>1. PICK e \in Dlls : BoundBy(e, b)
      BY <2>4
    <3>2. e # D
      BY <1>10, <1>24, <3>1 DEF BoundBy
    <3>3. BoundBy(e, b)'
      BY <1>2, <1>9, <1>23, <3>1, <3>2 DEF BoundBy
    <3> QED BY <3>3
  <2> QED BY <1>6, <2>2, <2>3, <2>4 DEF LInv, Accounted
<1>26. Overtaken'
  <2>1. SUFFICES ASSUME RootLoading', g_loaded'[stack'[1].dll] # None
                 PROVE  Overtaken'
    BY DEF Overtaken
  <2>2. PICK r : r = stack[1].dll /\ r \in Dlls /\ r = stack'[1].dll
    BY <1>6, <1>11, <1>23, <2>1
  <2>3. n # 1 /\ RootLoading /\ g_loaded[D] = None
    BY <1>10, <1>23, <2>1
  <2>4. CASE D = r
    BY <1>4, <1>6, <1>7, <2>2, <2>3, <2>4 DEF Overtaken
  <2>5. CASE D # r
    <3>1. g_loaded'[r] = g_loaded[r] /\ g_loaded[r] # None
      BY <1>9, <2>1, <2>2, <2>5
    <3>2. CASE \E k \in Dlls : k # r /\ g_loaded[k] # None /\ bind[g_loaded[k]][r] = g_loaded[r]
      <4>1. \E k \in Dlls : k # r /\ g_loaded'[k] # None /\ bind[g_loaded'[k]][r] = g_loaded'[r]
        BY <1>9, <2>3, <3>1, <3>2
      <4> QED BY <1>2, <2>2, <4>1 DEF Overtaken
    <3>3. CASE \E k \in 1 .. n :
                 /\ k # 1 /\ stack[k].dll # r /\ stack[k].at = "imports"
                 /\ r \notin stack[k].todo /\ bind[stack[k].copy][r] = g_loaded[r]
      <4>1. PICK k \in 1 .. n :
                 /\ k # 1 /\ stack[k].dll # r /\ stack[k].at = "imports"
                 /\ r \notin stack[k].todo /\ bind[stack[k].copy][r] = g_loaded[r]
        BY <3>3
      <4>2. CASE k = n
        <5>1. \E j \in Dlls : j # r /\ g_loaded'[j] # None /\ bind[g_loaded'[j]][r] = g_loaded'[r]
          BY <1>6, <1>7, <1>8, <1>9, <2>5, <3>1, <4>1, <4>2
        <5> QED BY <1>2, <2>2, <5>1 DEF Overtaken
      <4>3. CASE k # n
        BY <1>2, <1>6, <2>2, <3>1, <4>1, <4>3 DEF Overtaken
      <4> QED BY <4>2, <4>3
    <3> QED BY SMTT(30), <1>2, <1>6, <2>2, <2>3, <3>1, <3>2, <3>3 DEF LInv, Overtaken
  <2> QED BY <2>4, <2>5
<1> QED BY <1>12, <1>13, <1>14, <1>15, <1>16, <1>17, <1>18, <1>19, <1>20, <1>21, <1>22, <1>25, <1>26 DEF LInv

\* The two innermost frames of a call that returns to another: t, and the frame w
\* that waits for it; f takes the place of both.
Returns(n, t, w, f) ==
  /\ n = Len(stack) /\ n \in Nat \ {0, 1} /\ Len(stack') = n - 1
  /\ n - 1 \in 1 .. n - 1 /\ n - 1 \in 1 .. n /\ n \in 1 .. n /\ 1 \in 1 .. n - 1 /\ n - 1 # n
  /\ \A i \in 1 .. n - 1 : i \in 1 .. n /\ i # n
  /\ \A i \in 1 .. n : i \in 1 .. n - 1 \/ i = n
  /\ stack \in Seq(Frame) /\ stack # <<>> /\ stack' \in Seq(Frame) /\ stack' # <<>>
  /\ stack[n] = t /\ stack[n - 1] = w /\ stack'[n - 1] = f /\ Top = t /\ Top' = f
  /\ \A i \in 1 .. n - 1 : i # n - 1 => stack'[i] = stack[i]
  /\ t \in Frame /\ w \in Frame /\ f \in Frame
  /\ w.at = "imports" /\ w.copy # None /\ t.dll \in w.todo
  /\ f.dll = w.dll /\ f.root = w.root /\ f.copy = w.copy /\ f.todo \subseteq w.todo

\* A frame that is not the image asked for has one that waits for it.
LEMMA CallerFacts ==
  ASSUME LInv, stack # <<>>, ~Top.root
  PROVE  /\ Len(stack) \in Nat \ {0, 1} /\ Top = stack[Len(stack)] /\ Top \in Frame
         /\ Caller = stack[Len(stack) - 1] /\ Caller \in Frame
         /\ Caller.at = "imports" /\ Caller.copy # None /\ Top.dll \in Caller.todo
<1>1. stack \in Seq(Frame) /\ Types
  BY DEF LInv, Types
<1>2. /\ Len(stack) \in Nat \ {0} /\ Len(stack) \in 1 .. Len(stack)
      /\ Top = stack[Len(stack)] /\ Top \in Frame
  BY <1>1, TopFacts
<1>3. Len(stack) # 1
  BY <1>2 DEF LInv, Shape
<1>4. PICK m : m = Len(stack) - 1 /\ m \in 1 .. Len(stack) /\ m # Len(stack) /\ m + 1 = Len(stack)
  <2>1. PICK n \in Nat \ {0, 1} : n = Len(stack)
    BY <1>2, <1>3
  <2>2. n - 1 \in 1 .. n /\ n - 1 # n /\ (n - 1) + 1 = n
    BY <2>1
  <2> QED BY <2>1, <2>2
<1>5. Caller = stack[m]
  BY <1>4 DEF Caller
<1>6. stack[m].at = "imports" /\ stack[m].copy # None /\ Top.dll \in stack[m].todo
  BY <1>2, <1>4 DEF LInv, Shape
<1>7. stack[m] \in Frame
  BY <1>1, <1>4, FrameFacts
<1> QED BY <1>2, <1>3, <1>4, <1>5, <1>6, <1>7

\* The frames that such a return leaves behind.
LEMMA ReturnsFacts ==
  ASSUME LInv, stack # <<>>, ~Top.root, NEW f \in Frame,
         stack' = Front(Front(stack)) \o <<f>>,
         f.dll = Caller.dll, f.root = Caller.root, f.copy = Caller.copy,
         f.todo \subseteq Caller.todo
  PROVE  Returns(Len(stack), Top, Caller, f)
<1>1. /\ Len(stack) \in Nat \ {0, 1} /\ Top = stack[Len(stack)] /\ Top \in Frame
      /\ Caller = stack[Len(stack) - 1] /\ Caller \in Frame
      /\ Caller.at = "imports" /\ Caller.copy # None /\ Top.dll \in Caller.todo
  BY CallerFacts
<1>2. stack \in Seq(Frame)
  BY DEF LInv, Types
<1>3. /\ stack' \in Seq(Frame) /\ stack' # <<>> /\ Len(stack') = Len(stack) - 1
      /\ \A i \in 1 .. Len(stack) - 1 : i # Len(stack) - 1 => stack'[i] = stack[i]
      /\ stack'[Len(stack) - 1] = f /\ Top' = f
  BY <1>1, <1>2, ReturnFacts
<1>4. PICK n : n = Len(stack) /\ n \in Nat \ {0, 1}
  BY <1>1
<1>5. /\ n - 1 \in 1 .. n - 1 /\ n - 1 \in 1 .. n /\ n \in 1 .. n /\ 1 \in 1 .. n - 1 /\ n - 1 # n
      /\ \A i \in 1 .. n - 1 : i \in 1 .. n /\ i # n
      /\ \A i \in 1 .. n : i \in 1 .. n - 1 \/ i = n
  BY <1>4
<1> QED BY <1>1, <1>2, <1>3, <1>4, <1>5 DEF Returns

\* What every such return keeps of the frames.
LEMMA ReturnsKeeps ==
  ASSUME LInv, NEW n, NEW t, NEW w, NEW f, Returns(n, t, w, f), t.at \in {"ok", "error"},
         f.at \in {"imports", "error"}, f.at = "error" \/ f.todo = w.todo \ {t.dll},
         UNCHANGED <<kind, imports, g_loaded, loaded, copies, loads, handles, failures>>
  PROVE  /\ Counts' /\ Shape' /\ Names' /\ Own' /\ Handles'
         /\ RootLoading' => RootLoading
         /\ stack'[1].dll = stack[1].dll
         /\ \A i \in 1 .. n - 1 : /\ stack'[i].dll = stack[i].dll /\ stack'[i].copy = stack[i].copy
                                  /\ Private(stack[i]) => Private(stack'[i])
<1>1. /\ n = Len(stack) /\ Len(stack') = n - 1 /\ n \in Nat \ {0, 1}
      /\ \A i \in 1 .. n - 1 : i \in 1 .. n /\ i # n
  BY DEF Returns
<1>2. \A i \in 1 .. n - 1 : /\ stack'[i].dll = stack[i].dll /\ stack'[i].copy = stack[i].copy
                            /\ stack'[i].root = stack[i].root
                            /\ Private(stack[i]) /\ Private(stack'[i])
                            /\ stack[i].at = "imports"
                            /\ stack'[i].todo \subseteq stack[i].todo
                            /\ i # n - 1 => stack'[i] = stack[i]
  <2>1. ASSUME NEW i \in 1 .. n - 1
        PROVE  stack[i].at = "imports" /\ stack[i].copy # None
    BY <1>1 DEF LInv, Shape
  <2> QED BY SMTT(30), <2>1 DEF Returns, Private
<1>3. Counts'
  BY DEF LInv, Counts, Returns
<1>4. Shape'
  <2>1. ASSUME NEW i \in 1 .. n - 1
        PROVE  /\ stack'[i].root <=> i = 1
               /\ i # n - 1 => stack'[i].at = "imports" /\ stack'[i + 1].dll \in stack'[i].todo
               /\ stack'[i].copy # None /\ stack'[i].at \in {"imports", "error"}
               /\ stack'[i].todo \subseteq imports[stack'[i].dll]
    <3>1. /\ stack[i].root <=> i = 1
          /\ stack[i].todo \subseteq imports[stack[i].dll]
          /\ stack[i].copy # None
      BY <1>1, <1>2 DEF LInv, Shape
    <3>2. i # n - 1 => i + 1 \in 1 .. n - 1 /\ stack[i + 1].dll \in stack[i].todo
      <4>1. i # n - 1 => i + 1 \in 1 .. n - 1
        BY <1>1
      <4>2. i \in 1 .. Len(stack) /\ i # Len(stack)
        BY <1>1
      <4> QED BY <4>1, <4>2 DEF LInv, Shape
    <3>3. stack'[i].at \in {"imports", "error"}
      BY SMTT(30), <1>2 DEF Returns
    <3> QED BY <1>2, <3>1, <3>2, <3>3
  <2> QED BY <1>1, <2>1 DEF Shape
<1>5. Names'
  BY <1>1, <1>2 DEF LInv, Names
<1>6. Own'
  <2>1. Made' = Made
    BY DEF Made
  <2>2. ASSUME NEW i \in 1 .. n - 1
        PROVE  /\ stack[i].copy \in Made
               /\ \A d \in Dlls : g_loaded[d] # stack[i].copy
               /\ \A h \in handles : h[1] # stack[i].dll
               /\ \A j \in 1 .. n - 1 : i # j => stack[i].copy # stack[j].copy
    <3>1. Private(stack[i]) /\ i \in 1 .. Len(stack)
      BY <1>1, <1>2
    <3> QED BY <1>1, <3>1 DEF LInv, Own
  <2>3. ASSUME NEW i \in 1 .. n - 1
        PROVE  /\ stack'[i].copy \in Made'
               /\ \A d \in Dlls : g_loaded'[d] # stack'[i].copy
               /\ \A h \in handles' : h[1] # stack'[i].dll
               /\ \A j \in 1 .. n - 1 : i # j => stack'[i].copy # stack'[j].copy
    <3>1. \A j \in 1 .. n - 1 : stack'[j].copy = stack[j].copy /\ stack'[j].dll = stack[j].dll
      BY <1>2
    <3> QED BY <2>1, <2>2, <3>1
  <2> QED BY <1>1, <2>3 DEF Own
<1>7. Handles'
  BY DEF LInv, Handles
<1>8. stack'[1].dll = stack[1].dll /\ (RootLoading' => RootLoading)
  BY <1>2 DEF RootLoading, Returns
<1> QED BY <1>2, <1>3, <1>4, <1>5, <1>6, <1>7, <1>8

\* A load that has ended well returns to the one that imports from it.
LEMMA DepStep ==
  ASSUME LInv, ReturnDep
  PROVE  LInv'
<1>1. PICK t, w, f, n : /\ t = Top /\ w = Caller /\ f = [Caller EXCEPT !.todo = @ \ {Top.dll}]
                        /\ n = Len(stack)
  OBVIOUS
<1>2. /\ stack # <<>> /\ t.at = "ok" /\ ~t.root
      /\ bind' = [bind EXCEPT ![w.copy][t.dll] = IF t.copy \in exported THEN t.copy ELSE Stub]
      /\ stack' = Front(Front(stack)) \o <<f>>
      /\ UNCHANGED <<kind, imports, g_loaded, loaded, mapped, leftover, exported, copies,
                     loads, handles, failures>>
  BY <1>1 DEF ReturnDep, disk
<1>3. w \in Frame
  BY <1>1, <1>2, CallerFacts
<1>4. /\ f \in Frame /\ f.dll = w.dll /\ f.root = w.root /\ f.copy = w.copy /\ f.at = w.at
      /\ f.todo = w.todo \ {t.dll}
  BY <1>1, <1>3 DEF Frame
<1>5. Returns(n, t, w, f)
  <2>1. f.todo \subseteq w.todo
    BY <1>4
  <2> QED BY <1>1, <1>2, <1>4, <2>1, ReturnsFacts
<1>6. f.at = "imports"
  BY <1>4, <1>5 DEF Returns
<1>7. PICK m : m = n - 1
  OBVIOUS
<1>8. /\ n = Len(stack) /\ Len(stack') = m /\ m \in 1 .. m /\ m \in 1 .. n /\ n \in 1 .. n
      /\ m # n /\ 1 \in 1 .. m /\ n \in Nat \ {0, 1}
      /\ \A i \in 1 .. m : i \in 1 .. n /\ i # n
      /\ \A i \in 1 .. n : i \in 1 .. m \/ i = n
      /\ stack[n] = t /\ stack[m] = w /\ stack'[m] = f /\ Top = t /\ Top' = f
      /\ \A i \in 1 .. m : i # m => stack'[i] = stack[i]
      /\ w.at = "imports" /\ w.copy # None /\ t.dll \in w.todo
      /\ stack' # <<>> /\ stack' \in Seq(Frame)
  BY <1>5, <1>7 DEF Returns
<1>9. /\ t.copy \in exported /\ t.copy \in Copies /\ t.dll \in Dlls
      /\ t.copy = g_loaded[t.dll] /\ t.copy \in mapped
  <2>1. t.copy # None /\ t.copy = g_loaded[t.dll]
    BY <1>2, <1>8 DEF LInv, Shape
  <2>2. t.dll \in Dlls /\ t.copy \in Copies
    BY <1>8, <2>1, FrameFacts DEF LInv
  <2> QED BY <2>1, <2>2 DEF LInv, Table
<1>10. PICK e, b : e = t.dll /\ b = t.copy
  OBVIOUS
<1>11. w.copy \in Copies
  BY <1>8, FrameFacts DEF LInv
<1>12. Written(stack[m].copy, e, b)
  <2>1. bind' = [bind EXCEPT ![w.copy][e] = b]
    BY <1>2, <1>9, <1>10
  <2>2. Written(w.copy, e, b)
    BY <1>9, <1>10, <1>11, <2>1, WrittenFacts DEF LInv
  <2> QED BY <1>8, <2>2
<1>13. b # Stub /\ b # None /\ b \in Copies /\ e \in Dlls /\ e \in w.todo /\ b = g_loaded[e]
  BY <1>8, <1>9, <1>10, Distinct
<1>14. /\ \A c \in Copies, d \in Dlls : bind'[c][d] = Stub => kind[d] = "missing"
       /\ \A d, k \in Dlls : g_loaded[k] # None => bind'[g_loaded[k]][d] = bind[g_loaded[k]][d]
       /\ \A j \in 1 .. n : j # m /\ stack[j].copy # None =>
            \A d \in Dlls : bind'[stack[j].copy][d] = bind[stack[j].copy][d]
       /\ \A d \in Dlls : bind'[w.copy][d] = IF d = e THEN b ELSE bind[w.copy][d]
  <2>1. stack[m].at = "imports" /\ m \in 1 .. Len(stack)
    BY <1>8
  <2>2. /\ \A c \in Copies, d \in Dlls : bind'[c][d] = Stub => kind[d] = "missing"
        /\ \A d, k \in Dlls : g_loaded[k] # None => bind'[g_loaded[k]][d] = bind[g_loaded[k]][d]
        /\ \A j \in 1 .. Len(stack) : j # m /\ stack[j].copy # None =>
             \A d \in Dlls : bind'[stack[j].copy][d] = bind[stack[j].copy][d]
    BY <1>12, <1>13, <2>1, WrittenPrivate
  <2>3. \A d \in Dlls : bind'[stack[m].copy][d] = IF d = e THEN b ELSE bind[stack[m].copy][d]
    BY <1>12, <1>13, <2>1, WrittenPrivate
  <2> QED BY <1>8, <2>2, <2>3
<1>15. /\ Counts' /\ Shape' /\ Names' /\ Own' /\ Handles'
       /\ RootLoading' => RootLoading
       /\ stack'[1].dll = stack[1].dll
       /\ \A i \in 1 .. m : /\ stack'[i].dll = stack[i].dll /\ stack'[i].copy = stack[i].copy
                            /\ Private(stack[i]) => Private(stack'[i])
  BY <1>2, <1>4, <1>5, <1>6, <1>7, ReturnsKeeps
<1>16. Types' /\ Made' = Made
  BY <1>2, <1>8, <1>12 DEF LInv, Types, Written, Made
<1>17. OwnMapped'
  BY <1>2, <1>4, <1>8 DEF LInv, OwnMapped
<1>18. Table'
  <2>1. imports \in [Dlls -> SUBSET Dlls]
    BY DEF LInv, Types
  <2> QED BY <1>2, <1>14, <1>16, <2>1 DEF LInv, Table
<1>19. Bindings'
  BY <1>2, <1>14 DEF LInv, Bindings
<1>20. Bound'
  <2>1. \A i \in 1 .. n : stack[i].at = "imports" => stack[i].copy # None
    BY <1>8 DEF LInv, Shape
  <2>2. \A i \in 1 .. n : imports[stack[i].dll] \subseteq Dlls
    BY <1>8, FrameFacts DEF LInv, Types
  <2>3. ASSUME NEW i \in 1 .. m, i # m
        PROVE  stack'[i].at = "imports" =>
                 \A d \in imports[stack'[i].dll] : d \notin stack'[i].todo => bind'[stack'[i].copy][d] # None
    BY <1>8, <1>14, <2>1, <2>2, <2>3 DEF LInv, Bound
  <2>4. \A d \in imports[w.dll] : d \notin f.todo => bind'[w.copy][d] # None
    BY <1>4, <1>8, <1>10, <1>13, <1>14, <2>2 DEF LInv, Bound
  <2>5. ASSUME NEW i \in 1 .. m
        PROVE  stack'[i].at = "imports" =>
                 \A d \in imports[stack'[i].dll] : d \notin stack'[i].todo => bind'[stack'[i].copy][d] # None
    <3>1. CASE i = m
      BY <1>4, <1>8, <2>4, <3>1
    <3> QED BY <2>3, <3>1
  <2> QED BY <1>2, <1>8, <2>5 DEF Bound
<1>21. NoHarm'
  <2>1. failures = 0 => \A c \in Copies, d \in Dlls : bind'[c][d] \in mapped \cup {None, Stub}
    BY <1>2, <1>8, <1>9, <1>10, <1>12 DEF LInv, NoHarm, Written
  <2> QED BY <1>2, <1>6, <1>8, <2>1 DEF LInv, NoHarm
<1>22. Accounted'
  <2>1. \A k \in Dlls : \A c : BoundBy(k, c) => BoundBy(k, c)'
    BY <1>2, <1>14, <1>15 DEF BoundBy
  <2>2. ~Private(stack[n])
    BY <1>2, <1>8 DEF Private
  <2>3. \A c : (\E i \in 1 .. n : Private(stack[i]) /\ stack[i].copy = c) =>
               (\E i \in 1 .. m : Private(stack'[i]) /\ stack'[i].copy = c)
    BY <1>8, <1>15, <2>2
  <2> QED BY ZenonT(60), <1>2, <1>8, <2>1, <2>3 DEF LInv, Accounted
<1>23. Overtaken'
  <2>1. SUFFICES ASSUME RootLoading', g_loaded'[stack'[1].dll] # None
                 PROVE  Overtaken'
    BY DEF Overtaken
  <2>2. PICK r : r = stack[1].dll /\ r \in Dlls /\ r = stack'[1].dll
    BY <1>8, <1>15, FrameFacts DEF LInv
  <2>3. RootLoading /\ g_loaded[r] # None
    BY <1>2, <1>15, <2>1, <2>2
  <2>4. CASE \E k \in Dlls : k # r /\ g_loaded[k] # None /\ bind[g_loaded[k]][r] = g_loaded[r]
    <3>1. \E k \in Dlls : k # r /\ g_loaded[k] # None /\ bind'[g_loaded[k]][r] = g_loaded[r]
      BY <1>14, <2>2, <2>4
    <3> QED BY <1>2, <2>2, <3>1 DEF Overtaken
  <2>5. CASE \E k \in 1 .. n :
               /\ k # 1 /\ stack[k].dll # r /\ stack[k].at = "imports"
               /\ r \notin stack[k].todo /\ bind[stack[k].copy][r] = g_loaded[r]
    <3>1. PICK k \in 1 .. n :
               /\ k # 1 /\ stack[k].dll # r /\ stack[k].at = "imports"
               /\ r \notin stack[k].todo /\ bind[stack[k].copy][r] = g_loaded[r]
      BY <2>5
    <3>2. k \in 1 .. m /\ stack[k].copy # None
      BY <1>2, <1>8, <3>1 DEF LInv, Shape
    <3>3. stack'[k].dll = stack[k].dll /\ stack'[k].at = "imports" /\ r \notin stack'[k].todo
          /\ stack'[k].copy = stack[k].copy
      BY <1>4, <1>8, <3>1, <3>2
    <3>4. bind'[stack[k].copy][r] = bind[stack[k].copy][r]
      BY <1>8, <1>13, <1>14, <2>2, <3>1, <3>2
    <3> QED BY ZenonT(60), <1>2, <1>8, <2>2, <3>1, <3>2, <3>3, <3>4 DEF Overtaken
  <2>6. CASE t.dll = r
    <3>1. w.dll \in Dlls /\ w.todo \subseteq imports[w.dll]
      BY <1>8, FrameFacts DEF LInv, Shape
    <3>2. w.dll # r
      BY <1>8, <2>6, <3>1 DEF LInv, Types
    <3>3. m # 1
      BY <1>8, <2>2, <3>2
    <3>4. bind'[f.copy][r] = g_loaded[r] /\ r \notin f.todo /\ f.dll # r
      BY <1>4, <1>10, <1>13, <1>14, <2>2, <2>6, <3>2
    <3>5. /\ m # 1 /\ stack'[m].dll # r /\ stack'[m].at = "imports" /\ r \notin stack'[m].todo
          /\ bind'[stack'[m].copy][r] = g_loaded[r] /\ m \in 1 .. Len(stack')
      BY <1>6, <1>8, <3>3, <3>4
    <3> QED BY <1>2, <2>2, <3>5 DEF Overtaken
  <2>7. Top.at # "error"
    BY <1>2, <1>8
  <2> QED BY <1>8, <2>2, <2>3, <2>4, <2>5, <2>6, <2>7 DEF LInv, Overtaken
<1> QED BY <1>15, <1>16, <1>17, <1>18, <1>19, <1>20, <1>21, <1>22, <1>23 DEF LInv

\* The call in progress ends; nothing of it is left on the stack.
LEMMA EmptyFacts ==
  ASSUME stack' = <<>>
  PROVE  /\ stack' \in Seq(Frame) /\ Len(stack') = 0 /\ ~RootLoading'
         /\ \A i \in 1 .. Len(stack') : FALSE
         /\ Shape' /\ Names' /\ Own' /\ OwnMapped' /\ Bound' /\ Overtaken'
<1>1. Len(stack') = 0 /\ stack' \in Seq(Frame)
  OBVIOUS
<1>2. \A i \in 1 .. Len(stack') : FALSE
  BY <1>1
<1>3. ~RootLoading'
  BY DEF RootLoading
<1>4. Shape' /\ Names' /\ Own'
  BY <1>2 DEF Shape, Names, Own
<1>5. OwnMapped' /\ Bound' /\ Overtaken'
  BY <1>2, <1>3 DEF OwnMapped, Bound, Overtaken
<1> QED BY <1>1, <1>2, <1>3, <1>4, <1>5

\* LoadPEImage returns the image that was asked for.
LEMMA RootStep ==
  ASSUME LInv, ReturnRoot
  PROVE  LInv'
<1>1. PICK t, n : t = Top /\ n = Len(stack)
  OBVIOUS
<1>2. /\ stack # <<>> /\ t.at = "ok" /\ t.root /\ stack' = <<>>
      /\ handles' = handles \cup {<<t.dll, t.copy>>}
      /\ UNCHANGED <<kind, imports, g_loaded, loaded, mapped, leftover, exported, bind, copies,
                     loads, failures>>
  BY <1>1 DEF ReturnRoot, disk
<1>3. n = Len(stack) /\ n \in 1 .. n /\ stack[n] = t /\ Top = t
  BY <1>1, <1>2, TopFacts DEF LInv, Types
<1>4. n = 1
  BY <1>2, <1>3 DEF LInv, Shape
<1>5. /\ t.copy # None /\ t.copy = g_loaded[t.dll]
  BY <1>2, <1>3 DEF LInv, Shape
<1>6. t.dll \in Dlls /\ t.copy \in Copies
  BY <1>3, <1>5, FrameFacts DEF LInv
<1>7. /\ stack' \in Seq(Frame) /\ ~RootLoading'
      /\ Shape' /\ Names' /\ Own' /\ OwnMapped' /\ Bound' /\ Overtaken'
  BY <1>2, EmptyFacts
<1>8. Types' /\ Made' = Made
  <2>1. handles' \subseteq Dlls \X Copies
    BY <1>2, <1>6 DEF LInv, Types
  <2> QED BY <1>2, <1>7, <2>1 DEF LInv, Types, Made
<1>9. Counts'
  BY <1>2 DEF LInv, Counts
<1>10. Table' /\ Bindings'
  BY <1>2, <1>8 DEF LInv, Table, Bindings
<1>11. Handles'
  BY <1>2, <1>5 DEF LInv, Handles
<1>12. NoHarm'
  BY <1>2, <1>3 DEF LInv, NoHarm
<1>13. Accounted'
  <2>1. \A i \in 1 .. n : ~Private(stack[i])
    BY <1>2, <1>3, <1>4 DEF Private
  <2>2. \A k \in Dlls : \A c : BoundBy(k, c) => BoundBy(k, c)'
    BY <1>2, <1>7 DEF BoundBy
  <2> QED BY <1>2, <1>3, <2>1, <2>2 DEF LInv, Accounted
<1> QED BY <1>7, <1>8, <1>9, <1>10, <1>11, <1>12, <1>13 DEF LInv

\* A load that has failed frees its image, and fails the load that waits for it.
LEMMA ErrorStep ==
  ASSUME LInv, ReturnError
  PROVE  LInv'
<1>1. PICK t, w, f, n : /\ t = Top /\ w = Caller /\ f = [Caller EXCEPT !.at = "error"]
                        /\ n = Len(stack)
  OBVIOUS
<1>2. /\ stack # <<>> /\ t.at = "error" /\ mapped' = mapped \ {t.copy}
      /\ UNCHANGED <<kind, imports, g_loaded, loaded, leftover, exported, bind, copies,
                     loads, handles>>
  BY <1>1 DEF ReturnError, disk
<1>3. n = Len(stack) /\ n \in 1 .. n /\ stack[n] = t /\ Top = t
  BY <1>1, <1>2, TopFacts DEF LInv, Types
<1>4. t.copy # None => Private(t)
  BY <1>2 DEF Private
<1>5. \A d \in Dlls : g_loaded[d] # None => g_loaded[d] # t.copy
  BY <1>3, <1>4 DEF LInv, Own
<1>6. Made' = Made
  BY <1>2 DEF Made
<1>7. Table' /\ Bindings' /\ Handles'
  BY <1>2, <1>5, <1>6 DEF LInv, Table, Bindings, Handles
<1>8. CASE t.root
  <2>1. stack' = <<>> /\ failures' = failures + 1
    BY <1>1, <1>8 DEF ReturnError
  <2>2. n = 1
    BY <1>3, <1>8 DEF LInv, Shape
  <2>3. /\ stack' \in Seq(Frame) /\ ~RootLoading'
        /\ Shape' /\ Names' /\ Own' /\ OwnMapped' /\ Bound' /\ Overtaken'
    BY <2>1, EmptyFacts
  <2>4. Types'
    BY <1>2, <2>3 DEF LInv, Types
  <2>5. Counts' /\ NoHarm'
    BY <1>2, <2>1, PELoaderAssumption DEF LInv, Counts, NoHarm
  <2>6. Accounted'
    <3>1. \A i \in 1 .. n : stack[i].copy = t.copy
      BY <1>3, <2>2
    <3>2. \A k \in Dlls : \A c : BoundBy(k, c) => BoundBy(k, c)'
      BY <1>2, <2>3 DEF BoundBy
    <3> QED BY <1>2, <1>3, <3>1, <3>2 DEF LInv, Accounted
  <2> QED BY <1>7, <2>3, <2>4, <2>5, <2>6 DEF LInv
<1>9. CASE ~t.root
  <2>1. stack' = Front(Front(stack)) \o <<f>> /\ UNCHANGED failures
    BY <1>1, <1>9 DEF ReturnError
  <2>2. w \in Frame
    BY <1>1, <1>2, <1>9, CallerFacts
  <2>3. /\ f \in Frame /\ f.dll = w.dll /\ f.root = w.root /\ f.copy = w.copy /\ f.at = "error"
        /\ f.todo = w.todo
    BY <1>1, <2>2 DEF Frame
  <2>4. Returns(n, t, w, f)
    <3>1. f.todo \subseteq w.todo
      BY <2>3
    <3> QED BY <1>1, <1>2, <1>9, <2>1, <2>3, <3>1, ReturnsFacts
  <2>5. PICK m : m = n - 1
    OBVIOUS
  <2>6. /\ Len(stack') = m /\ \A i \in 1 .. m : i \in 1 .. n /\ i # n
        /\ \A i \in 1 .. n : i \in 1 .. m \/ i = n
        /\ stack'[m] = f /\ Top' = f /\ stack' # <<>> /\ stack' \in Seq(Frame)
        /\ \A i \in 1 .. m : i # m => stack'[i] = stack[i]
    BY <2>4, <2>5 DEF Returns
  <2>7. /\ Counts' /\ Shape' /\ Names' /\ Own' /\ Handles'
        /\ RootLoading' => RootLoading
        /\ stack'[1].dll = stack[1].dll
        /\ \A i \in 1 .. m : /\ stack'[i].dll = stack[i].dll /\ stack'[i].copy = stack[i].copy
                             /\ Private(stack[i]) => Private(stack'[i])
    BY <1>2, <2>1, <2>3, <2>4, <2>5, ReturnsKeeps
  <2>8. Types'
    BY <1>2, <2>6 DEF LInv, Types
  <2>9. OwnMapped'
    <3>1. ASSUME NEW i \in 1 .. m, stack'[i].at = "imports"
          PROVE  stack'[i].copy \in mapped' \cap exported
      <4>1. i \in 1 .. n /\ i # n /\ stack'[i] = stack[i] /\ stack[i].at = "imports"
        BY <2>3, <2>6, <3>1
      <4>2. stack[i].copy \in mapped \cap exported /\ stack[i].copy # None
        BY <1>3, <4>1 DEF LInv, OwnMapped, Shape
      <4>3. stack[i].copy # t.copy
        BY <1>3, <1>4, <4>1, <4>2 DEF LInv, Own
      <4> QED BY <1>2, <4>1, <4>2, <4>3
    <3> QED BY <1>2, <2>6, <3>1 DEF OwnMapped
  <2>10. Bound'
    <3>1. \A i \in 1 .. m : stack'[i].at = "imports" => i \in 1 .. n /\ stack'[i] = stack[i]
      BY <2>3, <2>6
    <3> QED BY <1>2, <1>3, <2>6, <3>1 DEF LInv, Bound
  <2>11. NoHarm' /\ Overtaken'
    BY <2>3, <2>6 DEF NoHarm, Overtaken
  <2>12. Accounted'
    <3>1. \A k \in Dlls : \A c : BoundBy(k, c) => BoundBy(k, c)'
      BY <1>2, <2>7 DEF BoundBy
    <3>2. ASSUME NEW c, c # t.copy, NEW i \in 1 .. n, Private(stack[i]), stack[i].copy = c
          PROVE  \E j \in 1 .. m : Private(stack'[j]) /\ stack'[j].copy = c
      <4>1. i \in 1 .. m
        BY <1>3, <2>6, <3>2
      <4> QED BY <2>7, <3>2, <4>1
    <3> QED BY SMTT(30), <1>2, <1>3, <2>6, <3>1, <3>2 DEF LInv, Accounted
  <2> QED BY <1>7, <2>7, <2>8, <2>9, <2>10, <2>11, <2>12 DEF LInv
<1> QED BY <1>8, <1>9

\* LoadPEImage is called: the file is not there, or its load starts.
LEMMA LoadStep ==
  ASSUME LInv, NEW d \in Dlls, LoadPEImage(d)
  PROVE  LInv'
<1>1. /\ stack = <<>> /\ loads < MaxLoads /\ loads' = loads + 1
      /\ loaded' = [e \in Dlls |-> None]
      /\ UNCHANGED <<kind, imports, g_loaded, mapped, leftover, exported, bind, copies, handles>>
  BY DEF LoadPEImage, disk
<1>2. /\ loaded' \in [Dlls -> Copies \cup {None}] /\ \A e \in Dlls : loaded'[e] = None
  BY <1>1
<1>3. Made' = Made
  BY <1>1 DEF Made
<1>4. Table' /\ Bindings' /\ Handles'
  BY <1>1, <1>2, <1>3 DEF LInv, Table, Bindings, Handles
<1>5. \A i \in 1 .. Len(stack) : FALSE
  BY <1>1
<1>6. CASE kind[d] = "missing"
  <2>1. stack' = <<>> /\ failures' = failures + 1
    BY <1>1, <1>6 DEF LoadPEImage
  <2>2. /\ stack' \in Seq(Frame) /\ ~RootLoading'
        /\ Shape' /\ Names' /\ Own' /\ OwnMapped' /\ Bound' /\ Overtaken'
    BY <2>1, EmptyFacts
  <2>3. Types'
    BY <1>1, <1>2, <2>2 DEF LInv, Types
  <2>4. Counts' /\ NoHarm'
    BY <1>1, <2>1, PELoaderAssumption DEF LInv, Counts, NoHarm
  <2>5. Accounted'
    <3>1. \A k \in Dlls : \A c : BoundBy(k, c) => BoundBy(k, c)'
      BY <1>1, <2>2 DEF BoundBy
    <3> QED BY <1>1, <1>5, <3>1 DEF LInv, Accounted
  <2> QED BY <1>4, <2>2, <2>3, <2>4, <2>5 DEF LInv
<1>7. CASE kind[d] # "missing"
  <2>1. PICK f : f = Activation(d, TRUE)
    OBVIOUS
  <2>2. stack' = <<f>> /\ UNCHANGED failures
    BY <1>7, <2>1 DEF LoadPEImage
  <2>3. /\ f \in Frame /\ f.dll = d /\ f.root = TRUE /\ f.at = "map" /\ f.copy = None
        /\ f.todo = {}
    BY <2>1 DEF Activation, Frame
  <2>4. /\ stack' \in Seq(Frame) /\ stack' # <<>> /\ Len(stack') = 1 /\ stack'[1] = f
    BY <2>2, <2>3
  <2>5. Top' = f
    BY <2>4 DEF Top, Last
  <2>6. \A i \in 1 .. Len(stack') : i = 1 /\ stack'[i] = f
    BY <2>4
  <2>7. Types' /\ Counts'
    BY <1>1, <1>2, <2>2, <2>4, PELoaderAssumption DEF LInv, Types, Counts
  <2>8. Shape' /\ Names' /\ OwnMapped' /\ Bound'
    BY <2>3, <2>4, <2>6 DEF Shape, Names, OwnMapped, Bound
  <2>9. Own' /\ ~RootLoading'
    BY <2>3, <2>6, <2>4 DEF Own, Private, RootLoading
  <2>10. NoHarm' /\ Overtaken'
    BY <1>1, <1>2, <2>2, <2>9 DEF LInv, NoHarm, Overtaken
  <2>11. Accounted'
    <3>1. \A k \in Dlls : \A c : BoundBy(k, c) => BoundBy(k, c)'
      BY <1>1, <2>9 DEF BoundBy
    <3> QED BY <1>1, <1>5, <3>1 DEF LInv, Accounted
  <2> QED BY <1>4, <2>7, <2>8, <2>9, <2>10, <2>11 DEF LInv
<1> QED BY <1>6, <1>7

\* No image has been loaded.
LEMMA LInvInit == Init => LInv
<1> SUFFICES ASSUME Init PROVE LInv
  OBVIOUS
<1>1. stack = <<>> /\ stack \in Seq(Frame) /\ Len(stack) = 0
  BY DEF Init
<1>2. \A i \in 1 .. Len(stack) : FALSE
  BY <1>1
<1>3. /\ g_loaded \in [Dlls -> Copies \cup {None}] /\ \A d \in Dlls : g_loaded[d] = None
      /\ loaded \in [Dlls -> Copies \cup {None}] /\ \A d \in Dlls : loaded[d] = None
      /\ bind \in [Copies -> [Dlls -> Copies \cup {None, Stub}]]
      /\ \A c \in Copies, d \in Dlls : bind[c][d] = None
  BY DEF Init
<1>4. imports \in [Dlls -> SUBSET Dlls] /\ \A d \in Dlls : d \notin imports[d]
  BY DEF Init
<1>5. Types /\ Counts
  BY <1>1, <1>3, <1>4, PELoaderAssumption DEF Init, Types, Counts
<1>6. Shape /\ Names /\ Own /\ OwnMapped /\ Bound
  BY <1>2 DEF Shape, Names, Own, OwnMapped, Bound
<1>7. Table /\ Handles /\ Bindings /\ NoHarm
  BY <1>3, Distinct DEF Init, Table, Handles, Bindings, NoHarm
<1>8. Accounted /\ Overtaken
  BY <1>1 DEF Init, Accounted, Overtaken, RootLoading
<1> QED BY <1>5, <1>6, <1>7, <1>8 DEF LInv

\* Every step keeps the invariant.
LEMMA LInvStep == LInv /\ [Next]_vars => LInv'
<1> SUFFICES ASSUME LInv, [Next]_vars PROVE LInv'
  OBVIOUS
<1>1. CASE MapCached
  BY <1>1, CachedStep
<1>2. CASE MapFails
  <2>1. copies' \in {copies, copies + 1} /\ copies' \in 0 .. MaxCopies /\ leftover' \subseteq Copies
    BY <1>2 DEF MapFails, LInv, Types
  <2> QED BY <1>2, <2>1, FailStep DEF MapFails
<1>3. CASE MapTruncated
  <2>1. copies' \in {copies, copies + 1} /\ copies' \in 0 .. MaxCopies /\ leftover' \subseteq Copies
    BY <1>3, PELoaderAssumption DEF MapTruncated, LInv, Types, Copies
  <2> QED BY <1>3, <2>1, FailStep DEF MapTruncated
<1>4. CASE MapSections
  BY <1>4, SectionsStep
<1>5. CASE \E e \in Dlls : ImportLoaded(e) \/ ImportMissing(e) \/ ImportFile(e)
  BY <1>5, ImportBound, PushStep
<1>6. CASE ImportFails
  <2>1. copies' \in {copies, copies + 1} /\ copies' \in 0 .. MaxCopies /\ leftover' \subseteq Copies
    BY <1>6 DEF ImportFails, LInv, Types
  <2> QED BY <1>6, <2>1, FailStep DEF ImportFails
<1>7. CASE ImportsDone
  BY <1>7, DoneStep
<1>8. CASE ReturnDep
  BY <1>8, DepStep
<1>9. CASE ReturnRoot
  BY <1>9, RootStep
<1>10. CASE ReturnError
  BY <1>10, ErrorStep
<1>11. CASE \E d \in Dlls : LoadPEImage(d)
  BY <1>11, LoadStep
<1>12. CASE UNCHANGED vars
  <2>1. UNCHANGED <<kind, imports, g_loaded, loaded, stack, mapped, leftover, exported, bind,
                    copies, loads, handles, failures>>
    BY <1>12 DEF vars, disk
  <2>2. Types' /\ Counts' /\ Shape' /\ Names'
    BY <2>1 DEF LInv, Types, Counts, Shape, Names
  <2>3. Own' /\ OwnMapped' /\ Table' /\ Handles' /\ Bindings' /\ Bound'
    BY <2>1 DEF LInv, Own, OwnMapped, Table, Handles, Bindings, Bound, Made
  <2>4. NoHarm' /\ Accounted' /\ Overtaken'
    BY <2>1 DEF LInv, NoHarm, Accounted, Overtaken, BoundBy, RootLoading, Top
  <2> QED BY <2>2, <2>3, <2>4 DEF LInv
<1> QED BY <1>1, <1>2, <1>3, <1>4, <1>5, <1>6, <1>7, <1>8, <1>9, <1>10, <1>11, <1>12
       DEF Next, LoaderStep

-----------------------------------------------------------------------------
(* The theorems. *)

\* No name but that of the image asked for is on the stack twice, so the recursion
\* is no deeper than there are names.
LEMMA Depth ==
  ASSUME LInv
  PROVE  Len(stack) <= Cardinality(Dlls) + 1
<1>1. PICK n \in Nat : n = Len(stack)
  BY LenProperties DEF LInv, Types
<1>2. IsFiniteSet(Dlls) /\ Cardinality(Dlls) \in Nat
  BY PELoaderAssumption, FS_CardinalityType
<1>3. CASE n <= 1
  BY <1>1, <1>2, <1>3
<1>4. CASE n > 1
  <2>1. PICK g : g = [i \in 2 .. n |-> stack[i].dll]
    OBVIOUS
  <2>2. \A i \in 2 .. n : i \in 1 .. Len(stack) /\ i # 1
    BY <1>1
  <2>3. \A i \in 2 .. n : stack[i].dll \in Dlls
    BY <2>2, FrameFacts DEF LInv
  <2>4. \A i, j \in 2 .. n : i # j => stack[i].dll # stack[j].dll
    BY <2>2 DEF LInv, Names
  <2>5. g \in Injection(2 .. n, Dlls)
    BY <2>1, <2>3, <2>4 DEF Injection, IsInjective
  <2>6. Cardinality(2 .. n) <= Cardinality(Dlls)
    BY <1>2, <2>5, FS_Injection
  <2>7. Cardinality(2 .. n) = n - 2 + 1
    BY <1>1, <1>4, FS_Interval
  <2> QED BY <1>1, <1>2, <2>6, <2>7
<1> QED BY <1>1, <1>3, <1>4

\* The invariant of the loader holds in every reachable state.
THEOREM LoaderInvariance == Spec => []LInv
<1>1. Init => LInv
  BY LInvInit
<1>2. LInv /\ [Next]_vars => LInv'
  BY LInvStep
<1> QED BY <1>1, <1>2, PTL DEF Spec

\* Every variable has its type, and ResolveImports never goes deeper than there
\* are files, plus the image asked for, whatever cycles the imports have.
THEOREM DepthBounded == Spec => []TypeOK
<1>1. LInv => TypeOK
  <2> SUFFICES ASSUME LInv PROVE TypeOK
    OBVIOUS
  <2>1. Len(stack) <= Cardinality(Dlls) + 1
    BY Depth
  <2> QED BY <2>1 DEF LInv, Types, Counts, TypeOK
<1> QED BY <1>1, LoaderInvariance, PTL

\* No load that fails, at whatever depth, unmaps an image that the process table
\* holds or that LoadLibrary has returned, and GetPEImageByHandle finds every base
\* that was returned.
THEOREM LoadedImagesStay == Spec => []LoadedStaysMapped
<1>1. LInv => LoadedStaysMapped
  <2> SUFFICES ASSUME LInv PROVE LoadedStaysMapped
    OBVIOUS
  <2>1. \A h \in handles : h[1] \in Dlls /\ h[2] \in Copies /\ h[2] = g_loaded[h[1]]
    BY DEF LInv, Types, Handles
  <2>2. \A d \in Dlls : g_loaded[d] # None => g_loaded[d] \in mapped
    BY DEF LInv, Table
  <2>3. \A h \in handles : h[2] \in mapped
    BY <2>1, <2>2, Distinct
  <2>4. ASSUME NEW c \in exported, NEW d \in Dlls, g_loaded[d] = c
        PROVE  c \in mapped
    <3>1. c # None
      BY Distinct DEF LInv, Types
    <3> QED BY <2>2, <2>4, <3>1
  <2>5. Done \subseteq mapped
    BY <2>3, <2>4 DEF Done
  <2>6. \A h \in handles : h[1] \in GetPEImageByHandle(h[2])
    BY <2>1 DEF GetPEImageByHandle
  <2> QED BY <2>5, <2>6 DEF LoadedStaysMapped
<1> QED BY <1>1, LoaderInvariance, PTL

\* A load that fails, at whatever depth and for whatever reason, leaves no image
\* behind that no image of the process table uses.
THEOREM FailedLoadsCleanUp == Spec => []FailureCleansUp
<1>1. LInv => FailureCleansUp
  <2> SUFFICES ASSUME LInv, stack = <<>>, NEW c \in mapped
               PROVE  \E d \in Dlls : \/ g_loaded[d] = c
                                      \/ g_loaded[d] # None /\ c \in Range(bind[g_loaded[d]])
    BY DEF FailureCleansUp
  <2>1. \A i \in 1 .. Len(stack) : FALSE
    OBVIOUS
  <2>2. CASE \E d \in Dlls : g_loaded[d] = c
    BY <2>2
  <2>3. CASE \E e \in Dlls : BoundBy(e, c)
    <3>1. PICK e \in Dlls : BoundBy(e, c)
      BY <2>3
    <3>2. PICK d \in Dlls : g_loaded[e] # None /\ c = bind[g_loaded[e]][d]
      BY <3>1 DEF BoundBy
    <3>3. g_loaded[e] \in Copies
      BY <3>2 DEF LInv, Types
    <3>4. DOMAIN bind[g_loaded[e]] = Dlls
      BY <3>3 DEF LInv, Types
    <3>5. c \in Range(bind[g_loaded[e]])
      BY <3>2, <3>4 DEF Range
    <3> QED BY <3>2, <3>5
  <2> QED BY <2>1, <2>2, <2>3 DEF LInv, Accounted
<1> QED BY <1>1, LoaderInvariance, PTL

\* In whatever order a cycle of imports is entered, an import from a file that is
\* there is bound to the exports of its image; while no load has failed, that
\* image is mapped.
THEOREM EveryImportBound == Spec => []ImportsBound
<1>1. LInv => ImportsBound
  <2> SUFFICES ASSUME LInv, NEW d \in Dlls, NEW e \in Dlls, g_loaded[d] # None
               PROVE  /\ bind[g_loaded[d]][e] = Stub => kind[e] = "missing"
                      /\ stack = <<>> /\ failures = 0 /\ e \in imports[d] =>
                           bind[g_loaded[d]][e] \in mapped \cup {Stub}
    BY DEF ImportsBound
  <2>1. g_loaded[d] \in Copies
    BY DEF LInv, Types
  <2>2. bind[g_loaded[d]][e] = Stub => kind[e] = "missing"
    BY <2>1 DEF LInv, Bindings
  <2>3. e \in imports[d] => bind[g_loaded[d]][e] # None
    BY DEF LInv, Table
  <2>4. stack = <<>> /\ failures = 0 => bind[g_loaded[d]][e] \in mapped \cup {None, Stub}
    BY <2>1 DEF LInv, NoHarm
  <2> QED BY <2>2, <2>3, <2>4
<1> QED BY <1>1, LoaderInvariance, PTL
=============================================================================

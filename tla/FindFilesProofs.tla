--------------------------- MODULE FindFilesProofs ---------------------------
(***************************************************************************)
(* Proofs about FindFiles: files and directories, patterns, searches.      *)
(* What the recursive functions compute for every input is shown by        *)
(* induction on sets of numbers (UpTo).                                    *)
(***************************************************************************)
EXTENDS FindFiles, TLAPS, SequenceTheorems, FiniteSetTheorems, WellFoundedInduction

-----------------------------------------------------------------------------
(* Numbers. *)

\* A set of natural numbers has a least element.
LEMMA LeastNumber ==
  ASSUME NEW T \in SUBSET Nat, T # {}
  PROVE  \E m \in T : \A n \in T : m <= n
<1> DEFINE R == {p \in Nat \X Nat : p[1] < p[2]}
<1>1. IsWellFoundedOn(R, Nat)
  BY NatLessThanWellFounded DEF OpToRel
<1> HIDE DEF R
<1>2. PICK m \in T : \A n \in T : <<n, m>> \notin R
  BY <1>1, WFMin
<1>3. \A n \in T : ~(n < m)
  BY <1>2 DEF R
<1> QED BY <1>3

\* Induction up to a bound, for a set in place of a property.
LEMMA UpTo ==
  ASSUME NEW N \in Nat, NEW T, 0 \in T, \A n \in T : n \in Nat /\ n < N => n + 1 \in T
  PROVE  0 .. N \subseteq T
<1> DEFINE Missing == (0 .. N) \ T
<1> SUFFICES ASSUME Missing # {} PROVE FALSE
  OBVIOUS
<1>1. Missing \in SUBSET Nat
  OBVIOUS
<1>2. PICK m \in Missing : \A n \in Missing : m <= n
  <2> HIDE DEF Missing
  <2> QED BY <1>1, LeastNumber
<1>3. m # 0 /\ m - 1 \in 0 .. N /\ m - 1 < m /\ m - 1 < N
  BY <1>2
<1>4. m - 1 \in T
  BY <1>2, <1>3
<1>5. PICK k \in Nat : k = m - 1
  BY <1>3
<1>6. k + 1 = m /\ k < N
  BY <1>2, <1>3, <1>5
<1>7. k + 1 \in T
  BY <1>4, <1>5, <1>6
<1> QED BY <1>2, <1>6, <1>7

-----------------------------------------------------------------------------
(* Sequences. *)

\* A sequence without its last element, or the empty one.
LEMMA FrontFacts ==
  ASSUME NEW S, NEW s \in Seq(S)
  PROVE  Front(s) \in Seq(S)
<1>1. Len(s) \in Nat
  OBVIOUS
<1>2. \A i \in 1 .. Len(s) - 1 : s[i] \in S
  BY <1>1
<1> QED BY <1>1, <1>2, SubSeqProperties DEF Front

\* The beginnings of a sequence.
LEMMA PrefixFacts ==
  ASSUME NEW S, NEW s \in Seq(S), NEW n \in 0 .. Len(s)
  PROVE  /\ SubSeq(s, 1, n) \in Seq(S)
         /\ Len(SubSeq(s, 1, n)) = n
         /\ \A i \in 1 .. n : SubSeq(s, 1, n)[i] = s[i]
<1>1. Len(s) \in Nat
  OBVIOUS
<1>2. \A i \in 1 .. n : s[i] \in S
  BY <1>1
<1>3. /\ SubSeq(s, 1, n) \in Seq(S)
      /\ Len(SubSeq(s, 1, n)) = IF 1 <= n THEN n - 1 + 1 ELSE 0
      /\ \A i \in 1 .. n - 1 + 1 : SubSeq(s, 1, n)[i] = s[1 + i - 1]
  BY <1>1, <1>2, SubSeqProperties
<1> QED BY <1>1, <1>3

-----------------------------------------------------------------------------
(* Path names: what lexically_normal does to the components. *)

\* The recursion of Normal, up to the n-th component.
Scan(path, n, u) ==
  u = [k \in 0 .. n |->
         IF k = 0 THEN <<>>
         ELSE IF path[k] = Up THEN Front(u[k - 1]) ELSE Append(u[k - 1], path[k])]

\* The recursion, place by place.
LEMMA ScanPlaces ==
  ASSUME NEW path, NEW n \in Nat, NEW u
  PROVE  Scan(path, n, u) <=>
           /\ u = [k \in 0 .. n |-> u[k]]
           /\ u[0] = <<>>
           /\ \A k \in 1 .. n :
                u[k] = IF path[k] = Up THEN Front(u[k - 1]) ELSE Append(u[k - 1], path[k])
<1>1. ASSUME Scan(path, n, u)
      PROVE  /\ u = [k \in 0 .. n |-> u[k]]
             /\ u[0] = <<>>
             /\ \A k \in 1 .. n :
                  u[k] = IF path[k] = Up THEN Front(u[k - 1]) ELSE Append(u[k - 1], path[k])
  <2>1. \A k \in 0 .. n :
          u[k] = IF k = 0 THEN <<>>
                 ELSE IF path[k] = Up THEN Front(u[k - 1]) ELSE Append(u[k - 1], path[k])
    BY <1>1 DEF Scan
  <2>2. u = [k \in 0 .. n |-> u[k]]
    BY <1>1 DEF Scan
  <2>3. 0 \in 0 .. n /\ \A k \in 1 .. n : k \in 0 .. n /\ k # 0
    OBVIOUS
  <2> QED BY <2>1, <2>2, <2>3
<1>2. ASSUME u = [k \in 0 .. n |-> u[k]], u[0] = <<>>,
             \A k \in 1 .. n :
               u[k] = IF path[k] = Up THEN Front(u[k - 1]) ELSE Append(u[k - 1], path[k])
      PROVE  Scan(path, n, u)
  <2>1. \A k \in 0 .. n : k = 0 \/ k \in 1 .. n
    OBVIOUS
  <2> QED BY <1>2, <2>1 DEF Scan
<1> QED BY <1>1, <1>2

\* There is such a function.
LEMMA ScanExists ==
  ASSUME NEW path, NEW N \in Nat
  PROVE  \E u : Scan(path, N, u)
<1> DEFINE T == {n \in 0 .. N : \E u : Scan(path, n, u)}
<1>1. 0 \in T
  <2> DEFINE u == [k \in 0 .. 0 |-> <<>>]
  <2>1. u = [k \in 0 .. 0 |-> u[k]] /\ u[0] = <<>> /\ 1 .. 0 = {}
    OBVIOUS
  <2> HIDE DEF u
  <2>2. Scan(path, 0, u)
    BY <2>1, ScanPlaces
  <2> QED BY <2>2
<1>2. ASSUME NEW n \in T, n < N
      PROVE  n + 1 \in T
  <2>1. PICK u : Scan(path, n, u)
    OBVIOUS
  <2>2. n \in Nat
    OBVIOUS
  <2>3. /\ u = [k \in 0 .. n |-> u[k]] /\ u[0] = <<>>
        /\ \A k \in 1 .. n :
             u[k] = IF path[k] = Up THEN Front(u[k - 1]) ELSE Append(u[k - 1], path[k])
    BY <2>1, <2>2, ScanPlaces
  <2>4. PICK x : x = IF path[n + 1] = Up THEN Front(u[n]) ELSE Append(u[n], path[n + 1])
    OBVIOUS
  <2> DEFINE v == [k \in 0 .. n + 1 |-> IF k = n + 1 THEN x ELSE u[k]]
  <2>5. v = [k \in 0 .. n + 1 |-> v[k]] /\ v[n + 1] = x /\ \A k \in 0 .. n : v[k] = u[k]
    BY <2>2
  <2> HIDE DEF v
  <2>6. v[0] = <<>>
    BY <2>2, <2>3, <2>5
  <2>7. ASSUME NEW k \in 1 .. n + 1
        PROVE  v[k] = IF path[k] = Up THEN Front(v[k - 1]) ELSE Append(v[k - 1], path[k])
    <3>1. CASE k = n + 1
      <4>1. k - 1 = n /\ n \in 0 .. n
        BY <2>2, <3>1
      <4>2. v[k - 1] = u[n]
        BY <2>5, <4>1
      <4> QED BY <2>4, <2>5, <3>1, <4>2
    <3>2. CASE k # n + 1
      <4>1. k \in 1 .. n /\ k \in 0 .. n /\ k - 1 \in 0 .. n
        BY <2>2, <3>2
      <4>2. v[k] = u[k] /\ v[k - 1] = u[k - 1]
        BY <2>5, <4>1
      <4> QED BY <2>3, <4>1, <4>2
    <3> QED BY <3>1, <3>2
  <2>8. Scan(path, n + 1, v)
    <3>1. n + 1 \in Nat
      BY <2>2
    <3> QED BY <2>5, <2>6, <2>7, <3>1, ScanPlaces
  <2> QED BY <2>2, <2>8, <1>2
<1> HIDE DEF T
<1>3. 0 .. N \subseteq T
  BY <1>1, <1>2, UpTo
<1> QED BY <1>3 DEF T

\* Normal is the last value of the recursion.
LEMMA NormalScan ==
  ASSUME NEW S, NEW path \in Seq(S)
  PROVE  \E u : Scan(path, Len(path), u) /\ Normal(path) = u[Len(path)]
<1>1. Len(path) \in Nat
  OBVIOUS
<1>2. \E u : Scan(path, Len(path), u)
  BY <1>1, ScanExists
<1>3. Scan(path, Len(path), CHOOSE u : Scan(path, Len(path), u))
  BY <1>2
<1>4. Normal(path) = (CHOOSE u : Scan(path, Len(path), u))[Len(path)]
  BY DEF Normal, Scan
<1> QED BY <1>3, <1>4

\* Two recursions over paths that begin alike agree on the beginning.
LEMMA ScanAgree ==
  ASSUME NEW p, NEW q, NEW m \in Nat, NEW n \in Nat, m <= n, NEW u, NEW v,
         Scan(p, m, u), Scan(q, n, v), \A k \in 1 .. m : p[k] = q[k]
  PROVE  u[m] = v[m]
<1> DEFINE T == {k \in 0 .. m : u[k] = v[k]}
<1>1. /\ u[0] = <<>> /\ v[0] = <<>>
      /\ \A k \in 1 .. m : u[k] = IF p[k] = Up THEN Front(u[k - 1]) ELSE Append(u[k - 1], p[k])
      /\ \A k \in 1 .. n : v[k] = IF q[k] = Up THEN Front(v[k - 1]) ELSE Append(v[k - 1], q[k])
  BY ScanPlaces
<1>2. 0 \in T
  BY <1>1
<1>3. ASSUME NEW k \in T, k < m
      PROVE  k + 1 \in T
  <2>1. k \in Nat /\ k + 1 \in 1 .. m /\ k + 1 \in 1 .. n /\ (k + 1) - 1 = k /\ u[k] = v[k]
    BY <1>3
  <2>2. u[k + 1] = v[k + 1]
    BY <1>1, <2>1
  <2> QED BY <2>1, <2>2
<1> HIDE DEF T
<1>4. 0 .. m \subseteq T
  BY <1>2, <1>3, UpTo
<1> QED BY <1>4 DEF T

\* No ".." is left over, and nothing is added.
LEMMA NormalType ==
  ASSUME NEW S, NEW path \in Seq(S \cup {Up})
  PROVE  Normal(path) \in Seq(S)
<1>1. PICK u : Scan(path, Len(path), u) /\ Normal(path) = u[Len(path)]
  BY NormalScan
<1>2. PICK n \in Nat : n = Len(path)
  OBVIOUS
<1>3. /\ u[0] = <<>>
      /\ \A k \in 1 .. n : u[k] = IF path[k] = Up THEN Front(u[k - 1]) ELSE Append(u[k - 1], path[k])
  BY <1>1, <1>2, ScanPlaces
<1> DEFINE T == {k \in 0 .. n : u[k] \in Seq(S)}
<1>4. 0 \in T
  <2>1. 0 \in 0 .. n /\ <<>> \in Seq(S)
    OBVIOUS
  <2> QED BY <1>3, <2>1
<1>5. ASSUME NEW k \in T, k < n
      PROVE  k + 1 \in T
  <2>1. k \in Nat /\ k + 1 \in 1 .. n /\ (k + 1) - 1 = k /\ u[k] \in Seq(S)
    BY <1>5
  <2>2. path[k + 1] \in S \cup {Up}
    BY <1>2, <2>1
  <2>3. CASE path[k + 1] = Up
    <3>1. u[k + 1] = Front(u[k])
      BY <1>3, <2>1, <2>3
    <3>2. u[k + 1] \in Seq(S)
      BY <2>1, <3>1, FrontFacts
    <3> QED BY <2>1, <3>2
  <2>4. CASE path[k + 1] # Up
    <3>1. u[k + 1] = Append(u[k], path[k + 1])
      BY <1>3, <2>1, <2>4
    <3>2. u[k + 1] \in Seq(S)
      BY <2>1, <2>2, <2>4, <3>1
    <3> QED BY <2>1, <3>2
  <2> QED BY <2>3, <2>4
<1> HIDE DEF T
<1>6. 0 .. n \subseteq T
  BY <1>4, <1>5, UpTo
<1> QED BY <1>1, <1>2, <1>6 DEF T

\* A name behind a path stays behind it.
LEMMA NormalAppend ==
  ASSUME NEW S, NEW path \in Seq(S), NEW x \in S, x # Up
  PROVE  Normal(Append(path, x)) = Append(Normal(path), x)
<1>1. PICK q : q = Append(path, x)
  OBVIOUS
<1>2. PICK n \in Nat : n = Len(path)
  OBVIOUS
<1>3. q \in Seq(S) /\ Len(q) = n + 1 /\ q[n + 1] = x /\ \A k \in 1 .. n : path[k] = q[k]
  BY <1>1, <1>2
<1>4. PICK u : Scan(path, n, u) /\ Normal(path) = u[n]
  BY <1>2, NormalScan
<1>5. PICK v : Scan(q, n + 1, v) /\ Normal(q) = v[n + 1]
  BY <1>3, NormalScan
<1>6. u[n] = v[n]
  BY <1>2, <1>3, <1>4, <1>5, ScanAgree, SMTT(60)
<1>7. v[n + 1] = Append(v[n], x)
  <2>1. n + 1 \in Nat /\ n + 1 \in 1 .. n + 1 /\ (n + 1) - 1 = n
    BY <1>2
  <2>2. v[n + 1] = IF q[n + 1] = Up THEN Front(v[(n + 1) - 1]) ELSE Append(v[(n + 1) - 1], q[n + 1])
    BY <1>5, <2>1, ScanPlaces
  <2> QED BY <1>3, <2>1, <2>2
<1> QED BY <1>1, <1>4, <1>5, <1>6, <1>7

\* A path without ".." stays as it is.
LEMMA NormalPlain ==
  ASSUME NEW S, Up \notin S, NEW path \in Seq(S)
  PROVE  Normal(path) = path
<1>1. PICK u : Scan(path, Len(path), u) /\ Normal(path) = u[Len(path)]
  BY NormalScan
<1>2. PICK n \in Nat : n = Len(path)
  OBVIOUS
<1>3. /\ u[0] = <<>>
      /\ \A k \in 1 .. n : u[k] = IF path[k] = Up THEN Front(u[k - 1]) ELSE Append(u[k - 1], path[k])
  BY <1>1, <1>2, ScanPlaces
<1> DEFINE T == {k \in 0 .. n : /\ u[k] \in Seq(S) /\ Len(u[k]) = k
                                /\ \A i \in 1 .. k : u[k][i] = path[i]}
<1>4. 0 \in T
  <2>1. 0 \in 0 .. n /\ 1 .. 0 = {}
    OBVIOUS
  <2>2. u[0] \in Seq(S) /\ Len(u[0]) = 0
    BY <1>3, EmptySeq
  <2> QED BY <2>1, <2>2
<1>5. ASSUME NEW k \in T, k < n
      PROVE  k + 1 \in T
  <2>1. /\ k \in Nat /\ k + 1 \in 1 .. n /\ (k + 1) - 1 = k
        /\ u[k] \in Seq(S) /\ Len(u[k]) = k /\ \A i \in 1 .. k : u[k][i] = path[i]
    BY <1>5
  <2>2. PICK x \in S : x = path[k + 1]
    BY <1>2, <2>1
  <2>3. u[k + 1] = Append(u[k], x)
    BY <1>3, <2>1, <2>2
  <2>4. /\ u[k + 1] \in Seq(S) /\ Len(u[k + 1]) = k + 1
        /\ u[k + 1][k + 1] = x /\ \A i \in 1 .. k : u[k + 1][i] = u[k][i]
    BY <2>1, <2>3
  <2>5. ASSUME NEW i \in 1 .. k + 1 PROVE u[k + 1][i] = path[i]
    BY <2>1, <2>2, <2>4
  <2> QED BY <2>1, <2>4, <2>5
<1> HIDE DEF T
<1>6. n \in T
  <2>1. 0 .. n \subseteq T
    BY <1>4, <1>5, UpTo
  <2> QED BY <2>1
<1>7. u[n] \in Seq(S) /\ Len(u[n]) = n /\ \A i \in 1 .. n : u[n][i] = path[i]
  BY <1>6 DEF T
<1>8. u[n] = path
  BY <1>2, <1>7, SeqEqual
<1> QED BY <1>1, <1>2, <1>8

-----------------------------------------------------------------------------
(* The disk, the directories and the table of open files. *)

\* What a host path consists of.
Component == Names \cup Drives
HostPath  == Seq(Component)

\* Every path is normal.
PathsOK ==
  /\ g_currentDrive \in Drives
  /\ g_cwds \in [Drives -> HostPath]
  /\ dirs \in SUBSET HostPath /\ files \in SUBSET HostPath

Row == [fp : FileIds \cup {NoFile}, hostPath : HostPath]

\* An open row has the FILE on its path to itself; data name a row of the table.
TableOK ==
  /\ g_vfile_table \in Seq(Row)
  /\ \A h \in DOMAIN g_vfile_table : g_vfile_table[h].fp # NoFile =>
       /\ g_vfile_table[h].fp \in DOMAIN streams
       /\ streams[g_vfile_table[h].fp] = g_vfile_table[h].hostPath
       /\ g_vfile_table[h].hostPath \in files
  /\ \A h, k \in DOMAIN g_vfile_table :
       h # k /\ g_vfile_table[h].fp = g_vfile_table[k].fp => g_vfile_table[h].fp = NoFile
  /\ \A w \in written : w[2] \in DOMAIN g_vfile_table /\ g_vfile_table[w[2]].hostPath = w[1]

FsInv == PathsOK /\ TableOK

\* ".." is no component of a host path.
LEMMA UpIsNone == Up \notin Component
BY FileSystemAssumption DEF Component

\* The path that a name of the firmware stands for.
LEMMA MappedPath ==
  ASSUME PathsOK, NEW p \in VMPaths
  PROVE  Joined(p) \in Seq(Component \cup {Up}) /\ MapVMPathToHost(p) \in HostPath
<1>1. p.comps \in Seq(Names \cup {Up}) /\ p.drive \in Drives
  BY FileSystemAssumption DEF VMPath
<1>2. p.comps \in Seq(Component \cup {Up})
  BY <1>1, SeqMonotonic DEF Component
<1>3. Cwd \in Seq(Component \cup {Up})
  BY SeqMonotonic DEF PathsOK, Cwd, HostPath
<1>4. <<p.drive>> \in Seq(Component \cup {Up})
  BY <1>1 DEF Component
<1>5. Joined(p) \in Seq(Component \cup {Up})
  BY <1>2, <1>3, <1>4, ConcatProperties DEF Joined
<1> QED BY <1>5, NormalType DEF MapVMPathToHost, HostPath

\* The directories on the way to a path are paths.
LEMMA PrefixPaths ==
  ASSUME NEW path \in HostPath
  PROVE  Prefixes(path) \in SUBSET HostPath /\ Parent(path) \in HostPath
<1>1. \A l \in 0 .. Len(path) : SubSeq(path, 1, l) \in HostPath
  BY PrefixFacts DEF HostPath
<1> QED BY <1>1, FrontFacts DEF HostPath, Prefixes, Parent

\* Creating the directories of a path.
LEMMA ParentsMade ==
  ASSUME PathsOK, NEW path \in HostPath
  PROVE  WithParents(path) \in SUBSET HostPath
<1>1. Parent(path) \in HostPath
  BY PrefixPaths
<1>2. Prefixes(Parent(path)) \in SUBSET HostPath
  BY <1>1, PrefixPaths
<1> QED BY <1>2 DEF WithParents, PathsOK

\* A row of the table has the fields of one.
LEMMA RowFacts ==
  ASSUME TableOK, NEW h \in DOMAIN g_vfile_table
  PROVE  g_vfile_table[h] \in Row /\ h \in Nat
BY DEF TableOK

\* A new handle.
LEMMA HandleGiven ==
  ASSUME TableOK, NEW path \in HostPath, GiveHandle(path), files' = files \cup {path},
         written' \in SUBSET written
  PROVE  TableOK'
<1>1. PICK f \in FileIds \ DOMAIN streams :
        /\ streams' = [x \in DOMAIN streams \cup {f} |-> IF x = f THEN path ELSE streams[x]]
        /\ g_vfile_table' = Append(g_vfile_table, [fp |-> f, hostPath |-> path])
  BY DEF GiveHandle
<1>2. PICK r : r = [fp |-> f, hostPath |-> path]
  OBVIOUS
<1>3. r \in Row /\ r.fp = f /\ r.hostPath = path /\ f # NoFile
  BY <1>1, <1>2, FileSystemAssumption DEF Row, FileIds, NoFile
<1>4. PICK n \in Nat : n = Len(g_vfile_table) /\ DOMAIN g_vfile_table = 1 .. n
  BY DEF TableOK
<1>5. PICK t : t = g_vfile_table'
  OBVIOUS
<1>6. /\ t \in Seq(Row) /\ DOMAIN t = 1 .. n + 1 /\ t[n + 1] = r
      /\ \A h \in 1 .. n : t[h] = g_vfile_table[h]
  BY <1>1, <1>2, <1>3, <1>4, <1>5 DEF TableOK
<1>7. \A h \in 1 .. n + 1 : h \in 1 .. n \/ h = n + 1
  BY <1>4
<1>8. \A h \in 1 .. n : h \in 1 .. n + 1
  BY <1>4
<1>9. \A h \in 1 .. n : t[h].fp # f
  BY <1>1, <1>3, <1>4, <1>6 DEF TableOK
<1>10. ASSUME NEW h \in 1 .. n + 1, t[h].fp # NoFile
       PROVE  /\ t[h].fp \in DOMAIN streams' /\ streams'[t[h].fp] = t[h].hostPath
              /\ t[h].hostPath \in files'
  <2>1. CASE h = n + 1
    BY <1>1, <1>3, <1>6, <2>1
  <2>2. CASE h \in 1 .. n
    <3>1. /\ t[h].fp \in DOMAIN streams /\ streams[t[h].fp] = t[h].hostPath
          /\ t[h].hostPath \in files
      BY <1>4, <1>6, <1>10, <2>2 DEF TableOK
    <3> QED BY <1>1, <1>9, <2>2, <3>1
  <2> QED BY <1>7, <2>1, <2>2
<1>11. ASSUME NEW h \in 1 .. n + 1, NEW k \in 1 .. n + 1, h # k, t[h].fp = t[k].fp
       PROVE  t[h].fp = NoFile
  <2>1. CASE h = n + 1 \/ k = n + 1
    BY <1>3, <1>6, <1>7, <1>9, <1>11, <2>1
  <2>2. CASE h \in 1 .. n /\ k \in 1 .. n
    BY <1>4, <1>6, <1>11, <2>2 DEF TableOK
  <2> QED BY <1>7, <2>1, <2>2
<1>12. ASSUME NEW w \in written'
       PROVE  w[2] \in 1 .. n + 1 /\ t[w[2]].hostPath = w[1]
  <2>1. w[2] \in 1 .. n /\ g_vfile_table[w[2]].hostPath = w[1]
    BY <1>4 DEF TableOK
  <2> QED BY <1>6, <1>8, <2>1
<1> QED BY <1>5, <1>6, <1>10, <1>11, <1>12 DEF TableOK

\* Nothing happens to the table, and no open file goes away.
LEMMA TableKept ==
  ASSUME TableOK, UNCHANGED tableVars, written' \in SUBSET written,
         \A path \in files : path \in files' \/ path \notin Range(streams)
  PROVE  TableOK'
<1>1. ASSUME NEW h \in DOMAIN g_vfile_table, g_vfile_table[h].fp # NoFile
      PROVE  g_vfile_table[h].hostPath \in files'
  <2>1. /\ g_vfile_table[h].fp \in DOMAIN streams
        /\ streams[g_vfile_table[h].fp] = g_vfile_table[h].hostPath
        /\ g_vfile_table[h].hostPath \in files
    BY <1>1 DEF TableOK
  <2>2. g_vfile_table[h].hostPath \in Range(streams)
    BY <2>1 DEF Range
  <2> QED BY <2>1, <2>2
<1> QED BY <1>1 DEF TableOK, tableVars

\* Closing.
LEMMA HandleClosed ==
  ASSUME TableOK, NEW h \in DOMAIN g_vfile_table, _fclose(h)
  PROVE  TableOK'
<1>1. PICK t, g : t = g_vfile_table' /\ g = g_vfile_table[h].fp
  OBVIOUS
<1>2. PICK n \in Nat : n = Len(g_vfile_table) /\ DOMAIN g_vfile_table = 1 .. n
  BY DEF TableOK
<1>3. PICK r : r = [g_vfile_table[h] EXCEPT !.fp = NoFile]
  OBVIOUS
<1>4. r \in Row /\ r.fp = NoFile /\ r.hostPath = g_vfile_table[h].hostPath
  BY <1>3, RowFacts DEF Row
<1>5. t = [g_vfile_table EXCEPT ![h] = r]
  BY <1>1, <1>3 DEF _fclose
<1>6. /\ t \in Seq(Row) /\ DOMAIN t = 1 .. n /\ t[h] = r
      /\ \A k \in 1 .. n : k # h => t[k] = g_vfile_table[k]
  BY <1>2, <1>4, <1>5, ExceptSeq DEF TableOK
<1>7. streams' = [x \in DOMAIN streams \ {g} |-> streams[x]] /\ files' = files /\ written' = written
  BY <1>1 DEF _fclose, Without, diskVars
<1>8. ASSUME NEW k \in 1 .. n, t[k].fp # NoFile
      PROVE  /\ t[k].fp \in DOMAIN streams' /\ streams'[t[k].fp] = t[k].hostPath
             /\ t[k].hostPath \in files'
  <2>1. k # h /\ t[k] = g_vfile_table[k]
    BY <1>4, <1>6, <1>8
  <2>2. /\ t[k].fp \in DOMAIN streams /\ streams[t[k].fp] = t[k].hostPath
        /\ t[k].hostPath \in files
    BY <1>2, <1>8, <2>1 DEF TableOK
  <2>3. t[k].fp # g
    BY <1>1, <1>2, <1>8, <2>1 DEF TableOK
  <2> QED BY <1>7, <2>2, <2>3
<1>9. ASSUME NEW j \in 1 .. n, NEW k \in 1 .. n, j # k, t[j].fp = t[k].fp
      PROVE  t[j].fp = NoFile
  BY <1>2, <1>4, <1>6, <1>9 DEF TableOK
<1>10. \A w \in written' : w[2] \in 1 .. n /\ t[w[2]].hostPath = w[1]
  BY <1>2, <1>4, <1>6, <1>7 DEF TableOK
<1> QED BY <1>1, <1>6, <1>8, <1>9, <1>10 DEF TableOK

\* Writing.
LEMMA DataWritten ==
  ASSUME TableOK, NEW h \in DOMAIN g_vfile_table, _fwrite(h)
  PROVE  TableOK'
<1>1. PICK w : w = <<streams[g_vfile_table[h].fp], h>>
  OBVIOUS
<1>2. w[2] \in DOMAIN g_vfile_table /\ g_vfile_table[w[2]].hostPath = w[1]
  BY <1>1 DEF TableOK, _fwrite
<1>3. written' = written \cup {w} /\ UNCHANGED <<files, streams, g_vfile_table>>
  BY <1>1 DEF _fwrite, tableVars
<1> QED BY <1>2, <1>3 DEF TableOK

\* Opening with either handler.
LEMMA FileOpened ==
  ASSUME FsInv, NEW p \in VMPaths, NEW mode, _OpenFile(p, mode) \/ __wfopen(p, mode)
  PROVE  FsInv'
<1>1. PICK path \in HostPath : path = MapVMPathToHost(p)
  BY MappedPath DEF FsInv
<1>2. PICK D \in SUBSET HostPath : D = IF Writing(mode) THEN WithParents(path) ELSE dirs
  BY <1>1, ParentsMade DEF FsInv, PathsOK
<1>3. /\ dirs' = D /\ UNCHANGED driveVars
      /\ \/ /\ GiveHandle(path) /\ files' = files \cup {path}
            /\ written' = IF Writing(mode) THEN Erased(path) ELSE written
         \/ UNCHANGED <<files, written, tableVars>>
  BY <1>1, <1>2 DEF _OpenFile, __wfopen
<1>4. PathsOK'
  BY <1>1, <1>2, <1>3 DEF FsInv, PathsOK, driveVars
<1>5. TableOK'
  <2>1. written' \in SUBSET written
    BY <1>3 DEF Erased
  <2>2. CASE GiveHandle(path) /\ files' = files \cup {path}
    BY <1>1, <2>1, <2>2, HandleGiven DEF FsInv
  <2>3. CASE UNCHANGED <<files, written, tableVars>>
    BY <2>1, <2>3, TableKept DEF FsInv
  <2> QED BY <1>3, <2>2, <2>3
<1> QED BY <1>4, <1>5 DEF FsInv

\* Creating a directory, or going to one.
LEMMA DirectoryMade ==
  ASSUME FsInv, NEW p \in VMPaths, _amkdir(p) \/ _achdir(p)
  PROVE  FsInv'
<1>1. PICK path \in HostPath : path = MapVMPathToHost(p)
  BY MappedPath DEF FsInv
<1>2. UNCHANGED <<files, written, tableVars>>
  BY DEF _amkdir, _achdir
<1>3. TableOK'
  BY <1>2, TableKept DEF FsInv
<1>4. dirs' \in SUBSET HostPath
  <2>1. Prefixes(path) \in SUBSET HostPath
    BY PrefixPaths
  <2> QED BY <1>1, <2>1 DEF _amkdir, _achdir, SelectDrive, ChangeDirectory, MakeDirs, FsInv, PathsOK
<1>5. p.drive \in Drives
  BY FileSystemAssumption DEF VMPath
<1>6. g_currentDrive' \in Drives /\ g_cwds' \in [Drives -> HostPath]
  <2>1. CASE UNCHANGED driveVars
    BY <2>1 DEF FsInv, PathsOK, driveVars
  <2>2. CASE SelectDrive(p)
    BY <1>5, <2>2 DEF SelectDrive, FsInv, PathsOK
  <2>3. CASE ChangeDirectory(p) /\ ~UNCHANGED driveVars
    <3>1. DriveOf(p) \in Drives
      BY <1>5 DEF DriveOf, FsInv, PathsOK
    <3>2. g_cwds' = [g_cwds EXCEPT ![DriveOf(p)] = path] /\ g_currentDrive' = DriveOf(p)
      BY <1>1, <2>3 DEF ChangeDirectory
    <3> QED BY <3>1, <3>2 DEF FsInv, PathsOK
  <2> QED BY <2>1, <2>2, <2>3 DEF _amkdir, _achdir
<1>7. PathsOK'
  BY <1>2, <1>4, <1>6 DEF FsInv, PathsOK
<1> QED BY <1>3, <1>7 DEF FsInv

\* Removing: a file that is open stays.
LEMMA FileRemoved ==
  ASSUME FsInv, NEW p \in VMPaths, _aremove(p)
  PROVE  FsInv'
<1>1. PICK path : path = MapVMPathToHost(p)
  OBVIOUS
<1>2. PICK gone : gone = IF Removable(path) THEN {path} ELSE {}
  OBVIOUS
<1>3. /\ files' = files \ gone /\ dirs' = dirs \ gone /\ UNCHANGED <<driveVars, tableVars>>
      /\ written' = {w \in written : w[1] \notin gone}
  BY <1>1, <1>2 DEF _aremove
<1>4. \A q \in files : q \in files' \/ q \notin Range(streams)
  BY <1>2, <1>3 DEF Removable
<1>5. TableOK'
  BY <1>3, <1>4, TableKept DEF FsInv
<1>6. PathsOK'
  BY <1>3 DEF FsInv, PathsOK, driveVars
<1> QED BY <1>5, <1>6 DEF FsInv

\* Every step on files.
LEMMA FileStepKeeps ==
  ASSUME FsInv, FileStep
  PROVE  FsInv'
<1>1. CASE \E p \in VMPaths : \E mode \in {"r", "w"} : _OpenFile(p, mode) \/ __wfopen(p, mode)
  BY <1>1, FileOpened
<1>2. CASE \E p \in VMPaths : _amkdir(p) \/ _achdir(p)
  BY <1>2, DirectoryMade
<1>3. CASE \E p \in VMPaths : _aremove(p)
  BY <1>3, FileRemoved
<1>4. ASSUME NEW h \in DOMAIN g_vfile_table, _fclose(h)
      PROVE  FsInv'
  <2>1. TableOK'
    BY <1>4, HandleClosed DEF FsInv
  <2>2. PathsOK'
    BY <1>4 DEF _fclose, FsInv, PathsOK, driveVars, diskVars
  <2> QED BY <2>1, <2>2 DEF FsInv
<1>5. ASSUME NEW h \in DOMAIN g_vfile_table, _fwrite(h)
      PROVE  FsInv'
  <2>1. TableOK'
    BY <1>5, DataWritten DEF FsInv
  <2>2. PathsOK'
    BY <1>5 DEF _fwrite, FsInv, PathsOK, driveVars
  <2> QED BY <2>1, <2>2 DEF FsInv
<1> QED BY <1>1, <1>2, <1>3, <1>4, <1>5 DEF FileStep

\* A step that leaves drives, disk and table alone.
LEMMA FsUnchanged ==
  ASSUME FsInv, UNCHANGED <<driveVars, diskVars, tableVars>>
  PROVE  FsInv'
BY DEF FsInv, PathsOK, TableOK, driveVars, diskVars, tableVars

\* Every path stays normal and every handle keeps its file to itself, in every
\* behaviour of FindFiles.
LEMMA FileSystemInvariance == Spec => []FsInv
<1>1. FindInit => FsInv
  <2> SUFFICES ASSUME FindInit PROVE FsInv
    OBVIOUS
  <2>1. "A" \in Drives
    BY FileSystemAssumption
  <2>2. <<>> \in HostPath /\ \A d \in Drives : <<d>> \in HostPath
    BY DEF HostPath, Component
  <2>3. \A n \in Names : <<"A", n>> \in HostPath
    BY <2>1 DEF HostPath, Component
  <2>4. PathsOK
    BY <2>1, <2>2, <2>3 DEF FindInit, Init, PathsOK
  <2>5. TableOK
    <3>1. <<>> \in Seq(Row) /\ DOMAIN <<>> = {}
      OBVIOUS
    <3>2. g_vfile_table = <<>> /\ written = {}
      BY DEF FindInit, Init
    <3> QED BY <3>1, <3>2 DEF TableOK
  <2> QED BY <2>4, <2>5 DEF FsInv
<1>2. FsInv /\ [Next]_vars => FsInv'
  <2> SUFFICES ASSUME FsInv, [Next]_vars PROVE FsInv'
    OBVIOUS
  <2>1. CASE FileStep
    BY <2>1, FileStepKeeps
  <2>2. CASE FindStep
    <3>1. UNCHANGED <<driveVars, diskVars, tableVars>>
      BY <2>2 DEF FindStep, _afindfirst, _afindnext, _findclose
    <3> QED BY <3>1, FsUnchanged
  <2>3. CASE UNCHANGED vars
    <3>1. UNCHANGED <<driveVars, diskVars, tableVars>>
      BY <2>3 DEF vars, fsVars
    <3> QED BY <3>1, FsUnchanged
  <2> QED BY <2>1, <2>2, <2>3 DEF Next
<1> QED BY <1>1, <1>2, PTL DEF Spec

\* A handle reaches the file it was opened for and no other, for any number of FILE
\* objects and handles: _fclose clears the pointer in a table that never forgets a
\* handle, and fs::remove takes no file that is open.
THEOREM HandlesKeepTheirFiles == Spec => []OwnStream
<1>1. FsInv => OwnStream
  BY DEF FsInv, TableOK, OwnStream
<1> QED BY <1>1, FileSystemInvariance, PTL

\* After a change of directory a plain name means what the directory and the name
\* meant before, for every path name and every directory: lexically_normal drops
\* nothing of a path that is normal already, and keeps a name at the end.
THEOREM ChdirMeansWhatItSays == Spec => ChdirTakesEffect
<1> DEFINE Effect ==
      UNCHANGED <<files, written, tableVars, findVars>> =>
       \A p \in VMPaths :
         p.form # "drive" /\ _achdir(p) /\ InBounds(Joined(p)) /\ CanMakeDirs(MapVMPathToHost(p))
         => \A n \in Names :
              MapVMPathToHost([p EXCEPT !.form = "relative", !.comps = <<n>>])'
              = MapVMPathToHost([p EXCEPT !.comps = Append(@, n)])
<1>1. ASSUME FsInv, NEW p \in VMPaths, p.form # "drive", _achdir(p),
             CanMakeDirs(MapVMPathToHost(p)), NEW n \in Names
      PROVE  MapVMPathToHost([p EXCEPT !.form = "relative", !.comps = <<n>>])'
             = MapVMPathToHost([p EXCEPT !.comps = Append(@, n)])
  <2>1. PICK path \in HostPath : path = MapVMPathToHost(p)
    BY <1>1, MappedPath DEF FsInv
  <2>2. PICK J \in Seq(Component \cup {Up}) : J = Joined(p) /\ path = Normal(J)
    BY <1>1, <2>1, MappedPath DEF FsInv, MapVMPathToHost
  <2>3. p \in VMPath
    BY FileSystemAssumption
  <2>4. PICK q, r : /\ q = [p EXCEPT !.form = "relative", !.comps = <<n>>]
                    /\ r = [p EXCEPT !.comps = Append(@, n)]
    OBVIOUS
  <2>5. /\ q.form = "relative" /\ q.comps = <<n>>
        /\ r.form = p.form /\ r.drive = p.drive /\ r.comps = Append(p.comps, n)
    BY <2>3, <2>4 DEF VMPath
  <2>6. n \in Component /\ n # Up
    BY FileSystemAssumption DEF Component
  <2>7. Cwd' = path
    <3>1. g_cwds' = [g_cwds EXCEPT ![DriveOf(p)] = path] /\ g_currentDrive' = DriveOf(p)
      BY <1>1, <2>1 DEF _achdir, SelectDrive, ChangeDirectory
    <3>2. DriveOf(p) \in Drives
      BY <1>1, <2>3 DEF VMPath, DriveOf, FsInv, PathsOK
    <3> QED BY <1>1, <3>1, <3>2 DEF Cwd, FsInv, PathsOK
  <2>8. MapVMPathToHost(q)' = Append(path, n)
    <3>1. path \o <<n>> = Append(path, n)
      BY <2>6, AppendIsConcat DEF HostPath
    <3>2. Joined(q)' = Append(path, n)
      BY <2>5, <2>7, <3>1 DEF Joined
    <3>3. Append(path, n) \in HostPath
      BY <2>6 DEF HostPath
    <3>4. Normal(Append(path, n)) = Append(path, n)
      BY <3>3, UpIsNone, NormalPlain DEF HostPath
    <3> QED BY <3>2, <3>4 DEF MapVMPathToHost
  <2>9. MapVMPathToHost(r) = Append(path, n)
    <3>1. Joined(r) = Append(J, n)
      <4>1. p.comps \in Seq(Component \cup {Up}) /\ p.drive \in Component
        BY <2>3, SeqMonotonic DEF VMPath, Component
      <4>2. Cwd \in Seq(Component \cup {Up}) /\ <<p.drive>> \in Seq(Component \cup {Up})
        BY <1>1, <4>1, SeqMonotonic DEF FsInv, PathsOK, Cwd, HostPath
      <4>3. ASSUME NEW s \in Seq(Component \cup {Up})
            PROVE  s \o Append(p.comps, n) = Append(s \o p.comps, n)
        BY <2>6, <4>1
      <4> QED BY <2>2, <2>5, <4>2, <4>3 DEF Joined
    <3>2. Normal(Append(J, n)) = Append(Normal(J), n)
      BY <2>6, NormalAppend
    <3> QED BY <2>2, <3>1, <3>2 DEF MapVMPathToHost
  <2> QED BY <2>4, <2>8, <2>9
<1>2. FsInv => Effect
  BY <1>1
<1>3. FsInv /\ [Next]_vars => [Effect]_vars
  BY <1>2
<1> QED BY <1>3, FileSystemInvariance, PTL DEF Spec, ChdirTakesEffect

-----------------------------------------------------------------------------
(* Patterns: wildcard_match against what a pattern means. *)

\* The least element, as the code's scans find it.
LEMMA MinFacts ==
  ASSUME NEW S \in SUBSET Nat, S # {}
  PROVE  Min(S) \in S /\ \A x \in S : Min(S) <= x
<1>1. \E m \in S : \A n \in S : m <= n
  BY LeastNumber
<1> QED BY <1>1 DEF Min

Rest(p, i) == {k \in i .. Len(p) : p[k] # Star}

\* The recursion of wildcard_match.
Step(p, t, i, j, m) ==
  IF i > Len(p) THEN j > Len(t)
  ELSE IF p[i] = Star
  THEN Rest(p, i) = {} \/ \E k \in j .. Len(t) : m[Min(Rest(p, i))][k]
  ELSE /\ j <= Len(t)
       /\ SameChar(p[i], t[j])
       /\ m[i + 1][j + 1]

Matching(p, t, m) ==
  m = [i \in 1 .. Len(p) + 1 |-> [j \in 1 .. Len(t) + 1 |-> Step(p, t, i, j, m)]]

Piece(p, t, cut, k) ==
  IF p[k] = Star THEN cut[k - 1] <= cut[k]
  ELSE cut[k] = cut[k - 1] + 1 /\ SameChar(p[k], t[cut[k]])

\* What the rest of a pattern means for the rest of a text.
FitsFrom(p, t, i, j) ==
  \E cut \in [i - 1 .. Len(p) -> 0 .. Len(t)] :
    /\ cut[i - 1] = j - 1 /\ cut[Len(p)] = Len(t)
    /\ \A k \in i .. Len(p) : Piece(p, t, cut, k)

\* The end of the pattern.
LEMMA FitsAtEnd ==
  ASSUME NEW R, NEW p \in Seq(R), NEW Q, NEW t \in Seq(Q), NEW j \in 1 .. Len(t) + 1
  PROVE  FitsFrom(p, t, Len(p) + 1, j) <=> j > Len(t)
<1>1. PICK m \in Nat, n \in Nat : m = Len(p) /\ n = Len(t)
  OBVIOUS
<1>2. (m + 1) - 1 = m /\ m .. m = {m} /\ (m + 1) .. m = {}
  BY <1>1
<1>3. ASSUME FitsFrom(p, t, m + 1, j) PROVE j > n
  <2>1. \E cut \in [m .. m -> 0 .. n] : cut[m] = j - 1 /\ cut[m] = n
    BY <1>1, <1>2, <1>3 DEF FitsFrom
  <2> QED BY <1>1, <2>1
<1>4. ASSUME j > n PROVE FitsFrom(p, t, m + 1, j)
  <2> DEFINE cut == [k \in m .. m |-> n]
  <2>1. cut \in [m .. m -> 0 .. n] /\ cut[m] = n /\ n = j - 1
    BY <1>1, <1>4
  <2> HIDE DEF cut
  <2> QED BY <1>1, <1>2, <2>1 DEF FitsFrom
<1> QED BY <1>1, <1>3, <1>4

\* A character that stands for one.
LEMMA FitsChar ==
  ASSUME NEW R, NEW p \in Seq(R), NEW Q, NEW t \in Seq(Q),
         NEW i \in 1 .. Len(p), NEW j \in 1 .. Len(t) + 1, p[i] # Star
  PROVE  FitsFrom(p, t, i, j) <=>
           j <= Len(t) /\ SameChar(p[i], t[j]) /\ FitsFrom(p, t, i + 1, j + 1)
<1>1. PICK m \in Nat, n \in Nat : m = Len(p) /\ n = Len(t)
  OBVIOUS
<1>2. i \in Nat /\ j \in Nat /\ i \in 1 .. m /\ (i + 1) - 1 = i /\ (j + 1) - 1 = j
  BY <1>1
<1>3. ASSUME FitsFrom(p, t, i, j)
      PROVE  j <= n /\ SameChar(p[i], t[j]) /\ FitsFrom(p, t, i + 1, j + 1)
  <2>1. PICK cut \in [i - 1 .. m -> 0 .. n] :
          /\ cut[i - 1] = j - 1 /\ cut[m] = n
          /\ \A k \in i .. m : Piece(p, t, cut, k)
    BY <1>1, <1>3 DEF FitsFrom
  <2>2. i \in i .. m /\ i \in i - 1 .. m
    BY <1>1, <1>2
  <2>3. cut[i] = cut[i - 1] + 1 /\ SameChar(p[i], t[cut[i]]) /\ cut[i] \in 0 .. n
    BY <2>1, <2>2 DEF Piece
  <2>4. cut[i] = j
    BY <1>2, <2>1, <2>3
  <2> DEFINE rest == [k \in i .. m |-> cut[k]]
  <2>5. rest \in [i .. m -> 0 .. n] /\ \A k \in i .. m : rest[k] = cut[k]
    BY <1>2, <2>1
  <2> HIDE DEF rest
  <2>6. m \in i .. m
    BY <1>1, <1>2
  <2>7. ASSUME NEW k \in i + 1 .. m PROVE Piece(p, t, rest, k)
    <3>1. k \in i .. m /\ k - 1 \in i .. m
      BY <1>2
    <3> QED BY <2>1, <2>5, <3>1 DEF Piece
  <2>8. FitsFrom(p, t, i + 1, j + 1)
    BY <1>1, <1>2, <2>1, <2>2, <2>4, <2>5, <2>6, <2>7 DEF FitsFrom
  <2>9. j <= n
    BY <1>1, <1>2, <2>3, <2>4
  <2> QED BY <2>3, <2>4, <2>8, <2>9
<1>4. ASSUME j <= n, SameChar(p[i], t[j]), FitsFrom(p, t, i + 1, j + 1)
      PROVE  FitsFrom(p, t, i, j)
  <2>1. PICK cut \in [i .. m -> 0 .. n] :
          /\ cut[i] = j /\ cut[m] = n
          /\ \A k \in i + 1 .. m : Piece(p, t, cut, k)
    BY <1>1, <1>2, <1>4 DEF FitsFrom
  <2> DEFINE all == [k \in i - 1 .. m |-> IF k = i - 1 THEN j - 1 ELSE cut[k]]
  <2>2. /\ all \in [i - 1 .. m -> 0 .. n] /\ all[i - 1] = j - 1
        /\ \A k \in i .. m : all[k] = cut[k]
    BY <1>1, <1>2, <1>4, <2>1
  <2> HIDE DEF all
  <2>3. i \in i .. m /\ m \in i .. m
    BY <1>1, <1>2
  <2>4. ASSUME NEW k \in i .. m PROVE Piece(p, t, all, k)
    <3>1. CASE k = i
      <4>1. all[i] = j /\ all[i - 1] + 1 = j
        BY <1>2, <2>1, <2>2, <2>3
      <4> QED BY <1>4, <3>1, <4>1 DEF Piece
    <3>2. CASE k # i
      <4>1. k \in i + 1 .. m /\ k - 1 \in i .. m
        BY <1>2, <3>2
      <4> QED BY <2>1, <2>2, <4>1 DEF Piece
    <3> QED BY <3>1, <3>2
  <2> QED BY <1>1, <2>1, <2>2, <2>3, <2>4 DEF FitsFrom
<1> QED BY <1>1, <1>3, <1>4

\* The places where the pieces begin do not go back.
LEMMA CutGrows ==
  ASSUME NEW m \in Nat, NEW n \in Nat, NEW i \in 1 .. m + 1, NEW p, NEW t,
         NEW cut \in [i - 1 .. m -> 0 .. n], \A k \in i .. m : Piece(p, t, cut, k),
         NEW k \in i - 1 .. m
  PROVE  cut[i - 1] <= cut[k]
<1>1. PICK a \in Nat : a = i - 1
  OBVIOUS
<1>2. PICK N \in Nat : N = m - a
  BY <1>1
<1> DEFINE T == {d \in 0 .. N : cut[a] <= cut[a + d]}
<1>3. 0 \in T
  <2>1. a + 0 = a /\ cut[a] \in 0 .. n /\ 0 \in 0 .. N
    BY <1>1, <1>2
  <2>2. cut[a] <= cut[a + 0]
    BY <2>1
  <2> QED BY <2>1, <2>2
<1>4. ASSUME NEW d \in T, d < N PROVE d + 1 \in T
  <2>1. PICK b \in Nat : b = a + d + 1
    BY <1>1
  <2>2. d \in Nat /\ b \in i .. m /\ b - 1 = a + d /\ a + (d + 1) = b /\ d + 1 \in 0 .. N
    BY <1>1, <1>2, <1>4, <2>1
  <2>3. cut[b] \in 0 .. n /\ cut[b - 1] \in 0 .. n /\ cut[a] \in 0 .. n
    BY <1>1, <1>2, <2>2
  <2>4. cut[b - 1] <= cut[b]
    <3>1. Piece(p, t, cut, b)
      BY <2>2
    <3> QED BY <2>3, <3>1 DEF Piece
  <2>5. cut[a] <= cut[b - 1]
    BY <2>2
  <2>6. cut[a] <= cut[b]
    BY <2>3, <2>4, <2>5
  <2> QED BY <2>2, <2>6
<1> HIDE DEF T
<1>5. 0 .. N \subseteq T
  BY <1>3, <1>4, UpTo
<1>6. k - a \in 0 .. N /\ a + (k - a) = k
  BY <1>1, <1>2
<1>7. k - a \in T
  BY <1>5, <1>6
<1>8. cut[a] <= cut[a + (k - a)]
  BY <1>7 DEF T
<1> QED BY <1>1, <1>6, <1>8

\* A star, with those in a row behind it.
LEMMA FitsStar ==
  ASSUME NEW R, NEW p \in Seq(R), NEW Q, NEW t \in Seq(Q),
         NEW i \in 1 .. Len(p), NEW j \in 1 .. Len(t) + 1, p[i] = Star
  PROVE  FitsFrom(p, t, i, j) <=>
           Rest(p, i) = {} \/ \E k \in j .. Len(t) : FitsFrom(p, t, Min(Rest(p, i)), k)
<1>1. PICK m \in Nat, n \in Nat : m = Len(p) /\ n = Len(t)
  OBVIOUS
<1>2. i \in Nat /\ j \in Nat /\ i - 1 \in Nat /\ j - 1 \in 0 .. n /\ i <= m
  BY <1>1
<1>3. ASSUME Rest(p, i) = {} PROVE FitsFrom(p, t, i, j)
  <2> DEFINE cut == [k \in i - 1 .. m |-> IF k = m THEN n ELSE j - 1]
  <2>1. cut \in [i - 1 .. m -> 0 .. n]
    BY <1>1, <1>2
  <2>2. cut[i - 1] = j - 1 /\ cut[m] = n
    BY <1>1, <1>2
  <2>3. ASSUME NEW k \in i .. m PROVE Piece(p, t, cut, k)
    <3>1. p[k] = Star
      BY <1>1, <1>3 DEF Rest
    <3>2. cut[k - 1] = j - 1 /\ cut[k] \in {j - 1, n}
      BY <1>1, <1>2
    <3> QED BY <1>1, <1>2, <3>1, <3>2 DEF Piece
  <2> HIDE DEF cut
  <2> QED BY <1>1, <2>1, <2>2, <2>3 DEF FitsFrom
<1>4. ASSUME Rest(p, i) # {}
      PROVE  FitsFrom(p, t, i, j) <=> \E k \in j .. n : FitsFrom(p, t, Min(Rest(p, i)), k)
  <2>1. PICK r : r = Min(Rest(p, i))
    OBVIOUS
  <2>2. r \in Rest(p, i) /\ \A x \in Rest(p, i) : r <= x
    <3>1. Rest(p, i) \in SUBSET Nat
      BY <1>1, <1>2 DEF Rest
    <3> QED BY <1>4, <2>1, <3>1, MinFacts
  <2>3. /\ r \in Nat /\ r \in i .. m /\ p[r] # Star /\ i < r
        /\ \A k \in i .. r - 1 : p[k] = Star
    <3>1. r \in i .. m /\ p[r] # Star
      BY <1>1, <2>2 DEF Rest
    <3>2. r \in Nat /\ i < r
      BY <1>2, <3>1
    <3>3. ASSUME NEW k \in i .. r - 1 PROVE p[k] = Star
      <4>1. k \in i .. m /\ ~(r <= k)
        BY <1>1, <1>2, <3>1, <3>2
      <4> QED BY <1>1, <2>2, <4>1 DEF Rest
    <3> QED BY <3>1, <3>2, <3>3
  <2>4. ASSUME FitsFrom(p, t, i, j)
        PROVE  \E k \in j .. n : FitsFrom(p, t, r, k)
    <3>1. PICK cut \in [i - 1 .. m -> 0 .. n] :
            /\ cut[i - 1] = j - 1 /\ cut[m] = n
            /\ \A k \in i .. m : Piece(p, t, cut, k)
      BY <1>1, <2>4 DEF FitsFrom
    <3>2. r - 1 \in i - 1 .. m /\ r \in i - 1 .. m /\ i \in 1 .. m + 1
      BY <1>1, <1>2, <2>3
    <3>3. cut[r - 1] \in 0 .. n /\ cut[r] \in 0 .. n
      BY <3>1, <3>2
    <3>4. j - 1 <= cut[r - 1]
      BY <1>1, <3>1, <3>2, CutGrows
    <3>5. cut[r] = cut[r - 1] + 1
      BY <2>3, <3>1 DEF Piece
    <3>6. PICK k \in Nat : k = cut[r - 1] + 1
      BY <3>3
    <3>7. k \in j .. n /\ k - 1 = cut[r - 1]
      BY <1>1, <1>2, <3>3, <3>4, <3>5, <3>6
    <3> DEFINE rest == [x \in r - 1 .. m |-> cut[x]]
    <3>8. rest \in [r - 1 .. m -> 0 .. n] /\ \A x \in r - 1 .. m : rest[x] = cut[x]
      BY <1>2, <2>3, <3>1
    <3> HIDE DEF rest
    <3>9. m \in r - 1 .. m /\ r - 1 \in r - 1 .. m
      BY <1>1, <2>3
    <3>10. ASSUME NEW x \in r .. m PROVE Piece(p, t, rest, x)
      <4>1. x \in i .. m /\ x \in r - 1 .. m /\ x - 1 \in r - 1 .. m
        BY <1>2, <2>3
      <4> QED BY <3>1, <3>8, <4>1 DEF Piece
    <3>11. rest[r - 1] = k - 1 /\ rest[m] = n
      BY <3>1, <3>7, <3>8, <3>9
    <3>12. FitsFrom(p, t, r, k)
      BY <1>1, <3>8, <3>10, <3>11 DEF FitsFrom
    <3> QED BY <3>7, <3>12
  <2>5. ASSUME NEW k \in j .. n, FitsFrom(p, t, r, k)
        PROVE  FitsFrom(p, t, i, j)
    <3>1. PICK cut \in [r - 1 .. m -> 0 .. n] :
            /\ cut[r - 1] = k - 1 /\ cut[m] = n
            /\ \A x \in r .. m : Piece(p, t, cut, x)
      BY <1>1, <2>5 DEF FitsFrom
    <3> DEFINE all == [x \in i - 1 .. m |-> IF x < r - 1 THEN j - 1 ELSE cut[x]]
    <3>2. ASSUME NEW x \in i - 1 .. m PROVE x < r - 1 \/ x \in r - 1 .. m
      BY <1>2, <2>3
    <3>3. all \in [i - 1 .. m -> 0 .. n]
      BY <1>2, <3>1, <3>2
    <3>4. /\ \A x \in r - 1 .. m : all[x] = cut[x]
          /\ \A x \in i - 1 .. r - 2 : all[x] = j - 1
      BY <1>1, <1>2, <2>3
    <3> HIDE DEF all
    <3>5. all[i - 1] = j - 1 /\ all[m] = n
      <4>1. m \in r - 1 .. m
        BY <1>1, <2>3
      <4>2. i - 1 \in i - 1 .. r - 2
        BY <1>2, <2>3
      <4> QED BY <3>1, <3>4, <4>1, <4>2
    <3>6. ASSUME NEW x \in i .. m PROVE Piece(p, t, all, x)
      <4>1. CASE x \in r .. m
        <5>1. x \in r - 1 .. m /\ x - 1 \in r - 1 .. m
          BY <2>3, <4>1
        <5> QED BY <3>1, <3>4, <4>1, <5>1 DEF Piece
      <4>2. CASE x = r - 1
        <5>1. x \in r - 1 .. m /\ x - 1 \in i - 1 .. r - 2 /\ p[x] = Star
          BY <1>2, <2>3, <4>2
        <5>2. all[x] = k - 1 /\ all[x - 1] = j - 1
          BY <3>1, <3>4, <4>2, <5>1
        <5>3. j - 1 <= k - 1
          BY <1>1, <1>2
        <5> QED BY <5>1, <5>2, <5>3 DEF Piece
      <4>3. CASE x < r - 1
        <5>1. x \in i - 1 .. r - 2 /\ x - 1 \in i - 1 .. r - 2 /\ p[x] = Star
          BY <1>2, <2>3, <4>3
        <5>2. all[x] = j - 1 /\ all[x - 1] = j - 1
          BY <3>4, <5>1
        <5>3. j - 1 <= j - 1
          BY <1>2
        <5> QED BY <5>1, <5>2, <5>3 DEF Piece
      <4>4. x \in r .. m \/ x = r - 1 \/ x < r - 1
        BY <1>2, <2>3
      <4> QED BY <4>1, <4>2, <4>3, <4>4
    <3> QED BY <1>1, <3>3, <3>5, <3>6 DEF FitsFrom
  <2> QED BY <2>1, <2>4, <2>5
<1> QED BY <1>1, <1>3, <1>4

\* What the pattern means, as a table of the rests of pattern and text.
Meaning(p, t) == [i \in 1 .. Len(p) + 1 |-> [j \in 1 .. Len(t) + 1 |-> FitsFrom(p, t, i, j)]]

\* The table solves the recursion, ...
LEMMA MeaningStep ==
  ASSUME NEW R, NEW p \in Seq(R), NEW Q, NEW t \in Seq(Q),
         NEW i \in 1 .. Len(p) + 1, NEW j \in 1 .. Len(t) + 1
  PROVE  FitsFrom(p, t, i, j) <=> Step(p, t, i, j, Meaning(p, t))
<1>1. PICK m \in Nat, n \in Nat : m = Len(p) /\ n = Len(t)
  OBVIOUS
<1>2. \A x \in 1 .. m + 1, y \in 1 .. n + 1 : Meaning(p, t)[x][y] = FitsFrom(p, t, x, y)
  BY <1>1 DEF Meaning
<1>3. CASE i = m + 1
  <2>1. FitsFrom(p, t, i, j) <=> j > n
    BY <1>1, <1>3, FitsAtEnd
  <2> QED BY <1>1, <1>3, <2>1 DEF Step
<1>4. CASE i \in 1 .. m /\ p[i] = Star
  <2>1. FitsFrom(p, t, i, j) <=>
           Rest(p, i) = {} \/ \E k \in j .. n : FitsFrom(p, t, Min(Rest(p, i)), k)
    BY <1>1, <1>4, FitsStar
  <2>2. ASSUME Rest(p, i) # {}, NEW k \in j .. n
        PROVE  Meaning(p, t)[Min(Rest(p, i))][k] = FitsFrom(p, t, Min(Rest(p, i)), k)
    <3>1. Rest(p, i) \in SUBSET Nat /\ Rest(p, i) \in SUBSET (1 .. m + 1)
      BY <1>1, <1>4 DEF Rest
    <3>2. Min(Rest(p, i)) \in 1 .. m + 1
      BY <2>2, <3>1, MinFacts
    <3>3. k \in 1 .. n + 1
      BY <1>1
    <3> QED BY <1>2, <3>2, <3>3
  <2>3. ~(i > m)
    BY <1>1, <1>4
  <2>4. Step(p, t, i, j, Meaning(p, t)) <=>
           Rest(p, i) = {} \/ \E k \in j .. n : Meaning(p, t)[Min(Rest(p, i))][k]
    BY <1>1, <1>4, <2>3 DEF Step
  <2> QED BY <2>1, <2>2, <2>4
<1>5. CASE i \in 1 .. m /\ p[i] # Star
  <2>1. FitsFrom(p, t, i, j) <=> j <= n /\ SameChar(p[i], t[j]) /\ FitsFrom(p, t, i + 1, j + 1)
    BY <1>1, <1>5, FitsChar
  <2>2. ASSUME j <= n PROVE Meaning(p, t)[i + 1][j + 1] = FitsFrom(p, t, i + 1, j + 1)
    <3>1. i + 1 \in 1 .. m + 1 /\ j + 1 \in 1 .. n + 1
      BY <1>1, <1>5, <2>2
    <3> QED BY <1>2, <3>1
  <2>3. ~(i > m)
    BY <1>1, <1>5
  <2>4. Step(p, t, i, j, Meaning(p, t)) <=>
           j <= n /\ SameChar(p[i], t[j]) /\ Meaning(p, t)[i + 1][j + 1]
    BY <1>1, <1>5, <2>3 DEF Step
  <2> QED BY <2>1, <2>2, <2>4
<1>6. i \in 1 .. m \/ i = m + 1
  BY <1>1
<1> QED BY <1>3, <1>4, <1>5, <1>6

\* A step asks the table only about later places of the pattern.
LEMMA StepAgrees ==
  ASSUME NEW R, NEW p \in Seq(R), NEW Q, NEW t \in Seq(Q),
         NEW i \in 1 .. Len(p) + 1, NEW j \in 1 .. Len(t) + 1, NEW f, NEW g,
         \A x \in i + 1 .. Len(p) + 1 : f[x] = g[x]
  PROVE  Step(p, t, i, j, f) = Step(p, t, i, j, g)
<1>1. PICK m \in Nat : m = Len(p)
  OBVIOUS
<1>2. CASE i \in 1 .. m /\ p[i] = Star /\ Rest(p, i) # {}
  <2>1. Rest(p, i) \in SUBSET Nat /\ Rest(p, i) \in SUBSET (i + 1 .. m + 1)
    BY <1>1, <1>2 DEF Rest
  <2>2. Min(Rest(p, i)) \in i + 1 .. m + 1
    BY <1>2, <2>1, MinFacts
  <2>3. PICK r : r = Min(Rest(p, i))
    OBVIOUS
  <2>4. f[r] = g[r] /\ ~(i > Len(p))
    BY <1>1, <1>2, <2>2, <2>3
  <2>5. /\ Step(p, t, i, j, f) = (Rest(p, i) = {} \/ \E k \in j .. Len(t) : f[r][k])
        /\ Step(p, t, i, j, g) = (Rest(p, i) = {} \/ \E k \in j .. Len(t) : g[r][k])
    BY <1>2, <2>3, <2>4 DEF Step
  <2> QED BY <2>4, <2>5
<1>3. CASE i \in 1 .. m /\ p[i] = Star /\ Rest(p, i) = {}
  BY <1>1, <1>3 DEF Step
<1>4. CASE i \in 1 .. m /\ p[i] # Star
  <2>1. i + 1 \in i + 1 .. m + 1
    BY <1>1, <1>4
  <2>2. f[i + 1] = g[i + 1]
    BY <1>1, <2>1
  <2> QED BY <1>4, <2>2 DEF Step
<1>5. CASE i > m
  BY <1>1, <1>5 DEF Step
<1>6. i \in 1 .. m \/ i > m
  BY <1>1
<1> QED BY <1>2, <1>3, <1>4, <1>5, <1>6

\* ... and is its only solution.
LEMMA MatchingUnique ==
  ASSUME NEW R, NEW p \in Seq(R), NEW Q, NEW t \in Seq(Q), NEW f, Matching(p, t, f),
         NEW g, Matching(p, t, g)
  PROVE  f[1] = g[1]
<1>1. PICK m \in Nat : m = Len(p)
  OBVIOUS
<1> DEFINE T == {d \in 0 .. m : \A e \in 0 .. d : f[m + 1 - e] = g[m + 1 - e]}
<1>2. ASSUME NEW i \in 1 .. m + 1, \A x \in i + 1 .. m + 1 : f[x] = g[x]
      PROVE  f[i] = g[i]
  <2>1. \A j \in 1 .. Len(t) + 1 : Step(p, t, i, j, f) = Step(p, t, i, j, g)
    BY <1>1, <1>2, StepAgrees
  <2>2. /\ f[i] = [j \in 1 .. Len(t) + 1 |-> Step(p, t, i, j, f)]
        /\ g[i] = [j \in 1 .. Len(t) + 1 |-> Step(p, t, i, j, g)]
    BY <1>1 DEF Matching
  <2> QED BY <2>1, <2>2
<1>3. 0 \in T
  <2>1. m + 1 \in 1 .. m + 1 /\ (m + 1) + 1 .. m + 1 = {} /\ m + 1 - 0 = m + 1
    BY <1>1
  <2>2. f[m + 1] = g[m + 1]
    BY <1>2, <2>1
  <2> QED BY <1>1, <2>1, <2>2
<1>4. ASSUME NEW d \in T, d < m PROVE d + 1 \in T
  <2>1. d \in Nat /\ d + 1 \in 0 .. m /\ \A e \in 0 .. d : f[m + 1 - e] = g[m + 1 - e]
    BY <1>1, <1>4
  <2>2. PICK i \in 1 .. m + 1 : i = m + 1 - (d + 1)
    BY <1>1, <2>1
  <2>3. ASSUME NEW x \in i + 1 .. m + 1 PROVE f[x] = g[x]
    <3>1. PICK e \in 0 .. d : e = m + 1 - x
      BY <1>1, <2>1, <2>2
    <3>2. m + 1 - e = x
      BY <1>1, <2>2, <3>1
    <3> QED BY <2>1, <3>2
  <2>4. f[i] = g[i]
    BY <1>2, <2>3
  <2>5. ASSUME NEW e \in 0 .. d + 1 PROVE f[m + 1 - e] = g[m + 1 - e]
    <3>1. e \in 0 .. d \/ e = d + 1
      BY <2>1
    <3> QED BY <2>1, <2>2, <2>4, <3>1
  <2> QED BY <2>1, <2>5
<1> HIDE DEF T
<1>5. m \in T
  <2>1. 0 .. m \subseteq T
    BY <1>3, <1>4, UpTo
  <2> QED BY <2>1
<1>6. m \in 0 .. m /\ m + 1 - m = 1
  BY <1>1
<1>7. f[m + 1 - m] = g[m + 1 - m]
  BY <1>5, <1>6 DEF T
<1> QED BY <1>6, <1>7

\* wildcard_match accepts what the pattern means, for every pattern and every text.
LEMMA MatchIsFit ==
  ASSUME NEW R, NEW p \in Seq(R), NEW Q, NEW t \in Seq(Q)
  PROVE  wildcard_match(p, t) = Fits(p, t)
<1>1. PICK m \in Nat, n \in Nat : m = Len(p) /\ n = Len(t)
  OBVIOUS
<1>2. Matching(p, t, Meaning(p, t))
  <2>1. \A i \in 1 .. m + 1, j \in 1 .. n + 1 :
          FitsFrom(p, t, i, j) = Step(p, t, i, j, Meaning(p, t))
    <3> TAKE i \in 1 .. m + 1, j \in 1 .. n + 1
    <3>1. FitsFrom(p, t, i, j) <=> Step(p, t, i, j, Meaning(p, t))
      BY <1>1, MeaningStep
    <3>2. FitsFrom(p, t, i, j) \in BOOLEAN
      BY DEF FitsFrom
    <3>3. Step(p, t, i, j, Meaning(p, t)) \in BOOLEAN
      <4>1. PICK f : f = Meaning(p, t)
        OBVIOUS
      <4>2. (j > Len(t)) \in BOOLEAN
        OBVIOUS
      <4>3. (Rest(p, i) = {} \/ \E k \in j .. Len(t) : f[Min(Rest(p, i))][k]) \in BOOLEAN
        OBVIOUS
      <4>4. (/\ j <= Len(t)
             /\ SameChar(p[i], t[j])
             /\ f[i + 1][j + 1]) \in BOOLEAN
        OBVIOUS
      <4> QED BY <4>1, <4>2, <4>3, <4>4, Zenon DEF Step
    <3> QED BY <3>1, <3>2, <3>3
  <2> QED BY <1>1, <2>1 DEF Matching, Meaning
<1>3. PICK f : f = CHOOSE g : Matching(p, t, g)
  OBVIOUS
<1>4. Matching(p, t, f)
  BY <1>2, <1>3
<1>5. wildcard_match(p, t) = f[1][1]
  BY <1>3 DEF wildcard_match, Matching, Step, Rest
<1>6. f[1] = Meaning(p, t)[1]
  BY <1>2, <1>4, MatchingUnique
<1>7. Meaning(p, t)[1][1] = FitsFrom(p, t, 1, 1)
  BY <1>1 DEF Meaning
<1>8. FitsFrom(p, t, 1, 1) = Fits(p, t)
  <2>1. 1 - 1 = 0
    OBVIOUS
  <2> QED BY <2>1 DEF FitsFrom, Fits, Piece
<1> QED BY <1>5, <1>6, <1>7, <1>8

\* wildcard_match against the meaning of a pattern, of any length.
THEOREM PatternsMeanWhatTheySay == Spec => []PatternsFit
<1>1. PatternsFit
  <2>1. ASSUME NEW S, NEW s \in BoundedSeq(S, MaxLength) PROVE s \in Seq(S)
    <3>1. PICK n \in 0 .. MaxLength : s \in [1 .. n -> S]
      BY <2>1 DEF BoundedSeq, SeqOf
    <3>2. n \in Nat
      BY FindFilesAssumption
    <3> QED BY <3>1, <3>2
  <2> QED BY <2>1, MatchIsFit DEF PatternsFit
<1> QED BY <1>1, PTL

-----------------------------------------------------------------------------
(* Searches. *)

\* out holds the entries of a listing at the places of W up to n, in order.
Placed(out, all, W, n) ==
  \E place \in [DOMAIN out -> 1 .. n] :
    /\ \A i, j \in DOMAIN place : i < j => place[i] < place[j]
    /\ \A i \in DOMAIN place : out[i] = all[place[i]]
    /\ Range(place) = W \cap 1 .. n

\* Places that are not wanted may be passed over, ...
LEMMA PlacedSkip ==
  ASSUME NEW out, NEW all, NEW W, NEW n \in Nat, NEW k \in Nat, n <= k,
         W \cap n + 1 .. k = {}, Placed(out, all, W, n)
  PROVE  Placed(out, all, W, k)
<1>1. PICK place \in [DOMAIN out -> 1 .. n] :
        /\ \A i, j \in DOMAIN place : i < j => place[i] < place[j]
        /\ \A i \in DOMAIN place : out[i] = all[place[i]]
        /\ Range(place) = W \cap 1 .. n
  BY DEF Placed
<1>2. W \cap 1 .. k = W \cap 1 .. n
  <2>1. ASSUME NEW x \in 1 .. k PROVE x \in 1 .. n \/ x \in n + 1 .. k
    OBVIOUS
  <2>2. 1 .. n \subseteq 1 .. k
    OBVIOUS
  <2> QED BY <2>1, <2>2
<1>3. place \in [DOMAIN out -> 1 .. k]
  BY <1>1
<1> QED BY <1>1, <1>2, <1>3 DEF Placed

\* ... and the next one that is wanted comes behind the others.
LEMMA PlacedFound ==
  ASSUME NEW E, NEW out \in Seq(E), NEW all, NEW W, NEW n \in Nat, NEW k \in Nat,
         n < k, k \in W, all[k] \in E, W \cap n + 1 .. k - 1 = {}, Placed(out, all, W, n)
  PROVE  Placed(Append(out, all[k]), all, W, k)
<1>1. PICK place \in [DOMAIN out -> 1 .. n] :
        /\ \A i, j \in DOMAIN place : i < j => place[i] < place[j]
        /\ \A i \in DOMAIN place : out[i] = all[place[i]]
        /\ Range(place) = W \cap 1 .. n
  BY DEF Placed
<1>2. PICK m \in Nat : m = Len(out) /\ DOMAIN out = 1 .. m
  OBVIOUS
<1>3. PICK more : more = Append(out, all[k])
  OBVIOUS
<1>4. /\ DOMAIN more = 1 .. m + 1 /\ more[m + 1] = all[k]
      /\ \A x \in 1 .. m : more[x] = out[x]
  BY <1>2, <1>3
<1> DEFINE next == [x \in 1 .. m + 1 |-> IF x = m + 1 THEN k ELSE place[x]]
<1>5. /\ DOMAIN next = 1 .. m + 1 /\ next[m + 1] = k
      /\ \A x \in 1 .. m : next[x] = place[x] /\ place[x] \in 1 .. n
  BY <1>1, <1>2
<1>6. \A x \in 1 .. m + 1 : x \in 1 .. m \/ x = m + 1
  BY <1>2
<1>7. next \in [1 .. m + 1 -> 1 .. k]
  BY <1>1, <1>2, <1>6
<1> HIDE DEF next
<1>8. ASSUME NEW i \in 1 .. m + 1, NEW j \in 1 .. m + 1, i < j PROVE next[i] < next[j]
  <2>1. i \in 1 .. m
    BY <1>2, <1>8
  <2>2. CASE j = m + 1
    <3>1. next[i] \in 1 .. n /\ next[j] = k
      BY <1>5, <2>1, <2>2
    <3> QED BY <3>1
  <2>3. CASE j \in 1 .. m
    BY <1>1, <1>2, <1>5, <1>8, <2>1, <2>3
  <2> QED BY <1>6, <2>2, <2>3
<1>9. ASSUME NEW i \in 1 .. m + 1 PROVE more[i] = all[next[i]]
  BY <1>1, <1>2, <1>4, <1>5, <1>6
<1>10. Range(next) = Range(place) \cup {k}
  <2>1. Range(place) = {place[x] : x \in 1 .. m} /\ Range(next) = {next[x] : x \in 1 .. m + 1}
    BY <1>1, <1>2, <1>5 DEF Range
  <2>2. m + 1 \in 1 .. m + 1 /\ 1 .. m \subseteq 1 .. m + 1
    BY <1>2
  <2>3. ASSUME NEW y \in Range(next) PROVE y \in Range(place) \cup {k}
    BY <1>5, <1>6, <2>1
  <2>4. ASSUME NEW y \in Range(place) \cup {k} PROVE y \in Range(next)
    BY <1>5, <2>1, <2>2
  <2> QED BY <2>3, <2>4
<1>11. W \cap 1 .. k = (W \cap 1 .. n) \cup {k}
  <2>1. ASSUME NEW x \in 1 .. k PROVE x \in 1 .. n \/ x \in n + 1 .. k - 1 \/ x = k
    OBVIOUS
  <2>2. 1 .. n \subseteq 1 .. k /\ k \in 1 .. k
    OBVIOUS
  <2> QED BY <2>1, <2>2
<1>12. Range(next) = W \cap 1 .. k
  BY <1>1, <1>10, <1>11
<1> QED BY <1>3, <1>4, <1>5, <1>7, <1>8, <1>9, <1>12 DEF Placed

\* What a directory lists.
Entry == [name : Component, attrib : {AM_DIR, AM_ARC}]

\* A search of the firmware's.
Search == [iterator : Seq(Entry), pattern : DOMAIN Spelling, attrib_mask : Masks,
           sfn : Addresses \cup {NULL}, lfn : Addresses \cup {NULL}]

\* The test of an entry is the one that was asked for.
LEMMA MatchesWanted ==
  ASSUME NEW c \in Search, NEW e \in Entry
  PROVE  Matches(c, e) <=> Wanted(c, e)
<1>1. c.pattern \in DOMAIN Spelling /\ e.name \in DOMAIN Spelling
  BY FindFilesAssumption DEF Search, Entry, Component
<1>2. /\ Spelling[c.pattern] \in Seq(Chars \cup {Star, AnyOne})
      /\ Spelling[e.name] \in Seq(Chars \cup {Star, AnyOne})
  BY <1>1, FindFilesAssumption
<1>3. wildcard_match(Spelling[c.pattern], Spelling[e.name])
      = Fits(Spelling[c.pattern], Spelling[e.name])
  BY <1>2, MatchIsFit
<1> QED BY <1>3 DEF Matches, Wanted

\* The entry at which find_next_internal stops, 0 for none.
StopsAt(c, i) ==
  /\ i \in 0 .. Len(c.iterator)
  /\ i = 0 => \A x \in 1 .. Len(c.iterator) : ~Matches(c, c.iterator[x])
  /\ i # 0 => /\ Matches(c, c.iterator[i])
              /\ \A x \in 1 .. i - 1 : ~Matches(c, c.iterator[x])

LEMMA FirstMatch ==
  ASSUME NEW c \in Search
  PROVE  StopsAt(c, SelectInSeq(c.iterator, LAMBDA e : Matches(c, e)))
<1>0. PICK i : i = SelectInSeq(c.iterator, LAMBDA e : Matches(c, e))
  OBVIOUS
<1>1. PICK n, s : s = c.iterator /\ n = Len(s) /\ n \in Nat
  BY DEF Search
<1>2. PICK I : I = {x \in 1 .. n : Matches(c, s[x])}
  OBVIOUS
<1>3. i = IF I # {} THEN Min(I) ELSE 0
  BY <1>0, <1>1, <1>2 DEF SelectInSeq
<1>4. CASE I # {}
  <2>1. I \in SUBSET Nat
    BY <1>1, <1>2
  <2>2. i \in I /\ \A x \in I : i <= x
    BY <1>3, <1>4, <2>1, MinFacts
  <2>3. i \in 1 .. n /\ Matches(c, s[i])
    BY <1>2, <2>2
  <2>4. ASSUME NEW x \in 1 .. i - 1 PROVE ~Matches(c, s[x])
    <3>1. x \in 1 .. n /\ ~(i <= x)
      BY <1>1, <2>3
    <3> QED BY <1>2, <2>2, <3>1
  <2>5. i # 0 /\ i \in 0 .. n
    BY <1>1, <2>3
  <2>6. StopsAt(c, i)
    BY <1>1, <2>3, <2>4, <2>5 DEF StopsAt
  <2> QED BY <1>0, <2>6
<1>5. CASE I = {}
  <2>1. i = 0 /\ 0 \in 0 .. n
    BY <1>1, <1>3, <1>5
  <2>2. \A x \in 1 .. n : ~Matches(c, s[x])
    BY <1>2, <1>5
  <2>3. StopsAt(c, i)
    BY <1>1, <2>1, <2>2 DEF StopsAt
  <2> QED BY <1>0, <2>3
<1> QED BY <1>4, <1>5

\* The rest of a sequence, ...
LEMMA RestFacts ==
  ASSUME NEW S, NEW s \in Seq(S), NEW n \in Nat, n = Len(s), NEW a \in 0 .. n
  PROVE  /\ SubSeq(s, a + 1, n) \in Seq(S) /\ Len(SubSeq(s, a + 1, n)) = n - a
         /\ \A x \in 1 .. n - a : SubSeq(s, a + 1, n)[x] = s[a + x]
<1>1. \A x \in a + 1 .. n : s[x] \in S
  OBVIOUS
<1>2. a + 1 \in Int /\ n \in Int
  OBVIOUS
<1>3. /\ SubSeq(s, a + 1, n) \in Seq(S)
      /\ Len(SubSeq(s, a + 1, n)) = IF a + 1 <= n THEN n - (a + 1) + 1 ELSE 0
      /\ \A x \in 1 .. n - (a + 1) + 1 : SubSeq(s, a + 1, n)[x] = s[(a + 1) + x - 1]
  BY <1>1, <1>2, SubSeqProperties
<1>4. n - (a + 1) + 1 = n - a /\ (~(a + 1 <= n) => n - a = 0)
  OBVIOUS
<1>5. \A x \in 1 .. n - a : (a + 1) + x - 1 = a + x
  OBVIOUS
<1> QED BY <1>3, <1>4, <1>5

\* ... and the rest of the rest.
LEMMA RestOfRest ==
  ASSUME NEW S, NEW s \in Seq(S), NEW n \in Nat, n = Len(s), NEW a \in 0 .. n, NEW b \in 0 .. n - a
  PROVE  SubSeq(SubSeq(s, a + 1, n), b + 1, n - a) = SubSeq(s, (a + b) + 1, n)
<1>1. PICK t : t = SubSeq(s, a + 1, n)
  OBVIOUS
<1>2. t \in Seq(S) /\ Len(t) = n - a /\ \A x \in 1 .. n - a : t[x] = s[a + x]
  BY <1>1, RestFacts
<1>3. PICK k \in Nat : k = n - a
  <2>1. n - a \in Nat
    OBVIOUS
  <2> QED BY <2>1
<1>4. PICK u, v : u = SubSeq(t, b + 1, k) /\ v = SubSeq(s, (a + b) + 1, n)
  OBVIOUS
<1>5. u \in Seq(S) /\ Len(u) = k - b /\ \A x \in 1 .. k - b : u[x] = t[b + x]
  BY <1>2, <1>3, <1>4, RestFacts
<1>6. PICK c \in 0 .. n : c = a + b /\ n - c = k - b
  BY <1>3
<1>7. v \in Seq(S) /\ Len(v) = k - b /\ \A x \in 1 .. k - b : v[x] = s[c + x]
  <2>1. v = SubSeq(s, c + 1, n)
    BY <1>4, <1>6
  <2>2. /\ SubSeq(s, c + 1, n) \in Seq(S) /\ Len(SubSeq(s, c + 1, n)) = n - c
        /\ \A x \in 1 .. n - c : SubSeq(s, c + 1, n)[x] = s[c + x]
    BY RestFacts
  <2>3. n - c = k - b
    BY <1>6
  <2> QED BY <2>1, <2>2, <2>3
<1>8. \A x \in 1 .. k - b : u[x] = v[x]
  <2>1. \A x \in 1 .. k - b : b + x \in 1 .. n - a /\ a + (b + x) = c + x
    BY <1>3, <1>6
  <2> QED BY <1>2, <1>5, <1>7, <2>1
<1>9. u = v
  BY <1>5, <1>7, <1>8, SeqEqual
<1> QED BY <1>1, <1>3, <1>4, <1>9

\* The iterator stands behind what has been looked at, and the entries returned are
\* the wanted ones before it.
SearchOK(c, all, out) ==
  /\ c \in Search /\ all \in Seq(Entry) /\ out \in Seq(Entry)
  /\ Len(c.iterator) <= Len(all)
  /\ c.iterator = SubSeq(all, Len(all) - Len(c.iterator) + 1, Len(all))
  /\ Placed(out, all, {i \in 1 .. Len(all) : Wanted(c, all[i])}, Len(all) - Len(c.iterator))

\* What find_next_internal does to the search alone: nothing found ...
LEMMA SearchEnds ==
  ASSUME NEW c, NEW all, NEW out, SearchOK(c, all, out), StopsAt(c, 0)
  PROVE  SearchOK([WithoutNames(c) EXCEPT !.iterator = <<>>], all, out)
<1>0. PICK s : s = c.iterator
  OBVIOUS
<1>1. PICK n \in Nat, m \in Nat : s = c.iterator /\ n = Len(all) /\ m = Len(s) /\ m <= n
  BY <1>0 DEF SearchOK, Search
<1>2. PICK d : d = [WithoutNames(c) EXCEPT !.iterator = <<>>]
  OBVIOUS
<1>3. /\ d \in Search /\ d.iterator = <<>>
      /\ d.pattern = c.pattern /\ d.attrib_mask = c.attrib_mask
  <2>1. PICK e : e = WithoutNames(c)
    OBVIOUS
  <2>2. e \in Search /\ e.pattern = c.pattern /\ e.attrib_mask = c.attrib_mask
    BY <2>1 DEF SearchOK, Search, WithoutNames
  <2>3. <<>> \in Seq(Entry)
    OBVIOUS
  <2> QED BY <1>2, <2>1, <2>2, <2>3 DEF Search
<1>4. PICK W : W = {i \in 1 .. n : Wanted(c, all[i])}
  OBVIOUS
<1>5. W = {i \in 1 .. n : Wanted(d, all[i])}
  BY <1>3, <1>4 DEF Wanted
<1>6. Placed(out, all, W, n - m)
  BY <1>1, <1>4 DEF SearchOK
<1>7. \A x \in 1 .. m : ~Wanted(c, s[x])
  <2>1. \A x \in 1 .. m : ~Matches(c, s[x])
    BY <1>1 DEF StopsAt
  <2>2. \A x \in 1 .. m : s[x] \in Entry
    BY <1>1 DEF SearchOK, Search
  <2> QED BY <2>1, <2>2, MatchesWanted DEF SearchOK
<1>8. PICK done \in 0 .. n : done = n - m /\ n - done = m
  <2>1. n - m \in 0 .. n /\ n - (n - m) = m
    BY <1>1
  <2> QED BY <2>1
<1>9. Placed(out, all, W, n)
  <2>1. \A x \in 1 .. m : s[x] = all[done + x]
    <3>1. all \in Seq(Entry) /\ s = SubSeq(all, done + 1, n)
      BY <1>1, <1>8 DEF SearchOK
    <3>2. \A x \in 1 .. n - done : SubSeq(all, done + 1, n)[x] = all[done + x]
      <4>1. n = Len(all)
        BY <1>1
      <4> QED BY <3>1, <4>1, RestFacts
    <3> QED BY <1>8, <3>1, <3>2
  <2>2. ASSUME NEW y \in done + 1 .. n PROVE y \notin W
    <3>1. y - done \in 1 .. m /\ done + (y - done) = y
      BY <1>8
    <3> QED BY <1>4, <1>7, <2>1, <3>1
  <2>3. W \cap done + 1 .. n = {}
    BY <2>2
  <2> QED BY <1>6, <1>8, <2>3, PlacedSkip
<1>10. SubSeq(all, n + 1, n) = <<>>
  BY <1>1 DEF SearchOK
<1>11. Len(<<>>) = 0 /\ n - 0 = n /\ 0 <= n
  BY <1>1
<1> QED BY <1>1, <1>2, <1>3, <1>5, <1>9, <1>10, <1>11 DEF SearchOK

\* ... or the first entry that matches.
LEMMA SearchFinds ==
  ASSUME NEW c, NEW all, NEW out, SearchOK(c, all, out),
         NEW i \in Nat, i # 0, StopsAt(c, i),
         NEW sfn \in Addresses, NEW lfn \in Addresses
  PROVE  SearchOK([c EXCEPT !.iterator = RestAfter(@, i), !.sfn = sfn, !.lfn = lfn],
                  all, Append(out, c.iterator[i]))
<1>0. PICK s : s = c.iterator
  OBVIOUS
<1>1. PICK n \in Nat, m \in Nat : s = c.iterator /\ n = Len(all) /\ m = Len(s) /\ m <= n
  BY <1>0 DEF SearchOK, Search
<1>2. i \in 1 .. m /\ Matches(c, s[i]) /\ \A x \in 1 .. i - 1 : ~Matches(c, s[x])
  <2>1. /\ i \in 0 .. m /\ Matches(c, s[i])
        /\ \A x \in 1 .. i - 1 : ~Matches(c, s[x])
    BY <1>1 DEF StopsAt
  <2> QED BY <1>1, <2>1
<1>3. PICK r : r = SubSeq(s, i + 1, m)
  OBVIOUS
<1>4. s \in Seq(Entry) /\ s = SubSeq(all, n - m + 1, n) /\ all \in Seq(Entry)
  BY <1>1 DEF SearchOK, Search
<1>5. PICK done \in 0 .. n, k \in 0 .. n :
        done = n - m /\ n - done = m /\ k = done + i /\ n - k = m - i
  <2>1. n - m \in 0 .. n /\ n - (n - m) = m
    BY <1>1
  <2>2. (n - m) + i \in 0 .. n /\ n - ((n - m) + i) = m - i
    BY <1>1, <1>2
  <2> QED BY <2>1, <2>2
<1>6. /\ \A x \in 1 .. m : s[x] = all[done + x] /\ s[x] \in Entry
      /\ r \in Seq(Entry) /\ Len(r) = m - i /\ r = SubSeq(all, k + 1, n)
  <2>0. s = SubSeq(all, done + 1, n) /\ i \in 0 .. m
    BY <1>1, <1>2, <1>4, <1>5
  <2>4. all \in Seq(Entry)
    BY <1>4
  <2>5. n = Len(all)
    BY <1>1
  <2>1. \A x \in 1 .. m : s[x] = all[done + x] /\ s[x] \in Entry
    <3>1. \A x \in 1 .. m : s[x] = all[done + x]
      <4>1. \A x \in 1 .. n - done : SubSeq(all, done + 1, n)[x] = all[done + x]
        BY <2>4, <2>5, RestFacts
      <4> QED BY <1>5, <2>0, <4>1
    <3>2. \A x \in 1 .. m : s[x] \in Entry
      <4>1. s \in Seq(Entry) /\ m = Len(s)
        BY <1>1, <1>4
      <4> QED BY <4>1
    <3> QED BY <3>1, <3>2
  <2>2. r = SubSeq(all, k + 1, n)
    <3>1. SubSeq(SubSeq(all, done + 1, n), i + 1, n - done) = SubSeq(all, (done + i) + 1, n)
      <4>1. i \in 0 .. n - done
        BY <1>5, <2>0
      <4> QED BY <2>4, <2>5, <4>1, RestOfRest
    <3> QED BY <1>3, <1>5, <2>0, <3>1
  <2>3. r \in Seq(Entry) /\ Len(r) = n - k
    BY <1>1, <1>4, <2>2, RestFacts
  <2> QED BY <1>5, <2>1, <2>2, <2>3
<1>7. PICK d : d = [c EXCEPT !.iterator = RestAfter(@, i), !.sfn = sfn, !.lfn = lfn]
  OBVIOUS
<1>8. /\ d \in Search /\ d.iterator = r
      /\ d.pattern = c.pattern /\ d.attrib_mask = c.attrib_mask
  BY <1>1, <1>3, <1>6, <1>7 DEF SearchOK, Search, RestAfter
<1>9. PICK W : W = {x \in 1 .. n : Wanted(c, all[x])}
  OBVIOUS
<1>10. W = {x \in 1 .. n : Wanted(d, all[x])}
  BY <1>8, <1>9 DEF Wanted
<1>11. Placed(out, all, W, done)
  BY <1>1, <1>5, <1>9 DEF SearchOK
<1>12. ASSUME NEW x \in 1 .. m PROVE Matches(c, s[x]) <=> done + x \in W
  <2>1. Matches(c, s[x]) <=> Wanted(c, all[done + x])
    BY <1>6, MatchesWanted DEF SearchOK
  <2>2. done + x \in 1 .. n
    BY <1>1, <1>5
  <2> QED BY <1>9, <2>1, <2>2
<1>13. k \in W
  BY <1>2, <1>5, <1>12
<1>14. W \cap done + 1 .. k - 1 = {}
  <2>1. ASSUME NEW y \in done + 1 .. k - 1 PROVE y \notin W
    <3>1. done \in Nat /\ y \in done + 1 .. done + i - 1
      BY <1>5
    <3>2. y - done \in 1 .. i - 1 /\ done + (y - done) = y
      BY <3>1
    <3>3. 1 .. i - 1 \subseteq 1 .. m
      BY <1>2
    <3> QED BY <1>2, <1>12, <3>2, <3>3
  <2> QED BY <2>1
<1>15. all[k] = s[i] /\ all[k] \in Entry
  BY <1>2, <1>5, <1>6
<1>16. Placed(Append(out, all[k]), all, W, k)
  <2>1. done \in Nat /\ k \in Nat /\ done < k
    <3>1. i \in Nat /\ i > 0 /\ done \in Nat
      BY <1>2, <1>5
    <3> QED BY <1>5, <3>1
  <2> QED BY <1>11, <1>13, <1>14, <1>15, <2>1, PlacedFound DEF SearchOK
<1>17. n - (m - i) = k /\ m - i <= n
  BY <1>1, <1>2, <1>5
<1>18. Append(out, all[k]) \in Seq(Entry)
  BY <1>15 DEF SearchOK
<1> QED BY <1>1, <1>4, <1>6, <1>7, <1>8, <1>10, <1>15, <1>16, <1>17, <1>18 DEF SearchOK

\* Adding to a table and taking from it.
LEMMA PutFacts ==
  ASSUME NEW f, NEW k, NEW v
  PROVE  /\ DOMAIN Put(f, k, v) = DOMAIN f \cup {k} /\ Put(f, k, v)[k] = v
         /\ \A x \in DOMAIN f : x # k => Put(f, k, v)[x] = f[x]
         /\ DOMAIN Drop(f, k) = DOMAIN f \ {k}
         /\ \A x \in DOMAIN f : x # k => Drop(f, k)[x] = f[x]
BY DEF Put, Drop

\* The blocks are those that the searches of G point to, each from one place.
BlocksOK(G, B) ==
  /\ NULL \notin B
  /\ \A h \in DOMAIN G : G[h].sfn \in B \cup {NULL} /\ G[h].lfn \in B \cup {NULL}
  /\ \A b \in B : \E h \in DOMAIN G : b \in {G[h].sfn, G[h].lfn}
  /\ \A h \in DOMAIN G : G[h].sfn = G[h].lfn => G[h].sfn = NULL
  /\ \A h, k \in DOMAIN G :
       h # k => \A b \in {G[h].sfn, G[h].lfn} : b \in {G[k].sfn, G[k].lfn} => b = NULL

\* A search that has no names: a new one, ...
LEMMA BlocksNew ==
  ASSUME NEW G, NEW B, BlocksOK(G, B), NEW h, h \notin DOMAIN G,
         NEW c, c.sfn = NULL, c.lfn = NULL
  PROVE  BlocksOK(Put(G, h, c), B)
<1>1. PICK H : H = Put(G, h, c)
  OBVIOUS
<1>2. DOMAIN H = DOMAIN G \cup {h} /\ H[h] = c /\ \A x \in DOMAIN G : H[x] = G[x]
  BY <1>1 DEF Put
<1>3. \A b \in B : \E x \in DOMAIN H : b \in {H[x].sfn, H[x].lfn}
  BY <1>2 DEF BlocksOK
<1>4. ASSUME NEW x \in DOMAIN H, NEW y \in DOMAIN H, x # y,
             NEW b \in {H[x].sfn, H[x].lfn}, b \in {H[y].sfn, H[y].lfn}
      PROVE  b = NULL
  BY <1>2, <1>4 DEF BlocksOK
<1>5. \A x \in DOMAIN H : /\ H[x].sfn \in B \cup {NULL} /\ H[x].lfn \in B \cup {NULL}
                          /\ H[x].sfn = H[x].lfn => H[x].sfn = NULL
  BY <1>2 DEF BlocksOK
<1>6. NULL \notin B
  BY DEF BlocksOK
<1>7. BlocksOK(H, B)
  BY <1>3, <1>4, <1>5, <1>6 DEF BlocksOK
<1> QED BY <1>1, <1>7

\* ... and one whose names are freed.
LEMMA BlocksFreed ==
  ASSUME NEW G, NEW B, BlocksOK(G, B), NEW h \in DOMAIN G,
         NEW c, c.sfn = NULL, c.lfn = NULL
  PROVE  /\ BlocksOK(Put(G, h, c), B \ {G[h].sfn, G[h].lfn})
         /\ BlocksOK(Drop(G, h), B \ {G[h].sfn, G[h].lfn})
<1>1. PICK H, D, L : H = Put(G, h, c) /\ D = Drop(G, h) /\ L = B \ {G[h].sfn, G[h].lfn}
  OBVIOUS
<1>2. DOMAIN H = DOMAIN G /\ H[h] = c /\ \A x \in DOMAIN G : x # h => H[x] = G[x]
  BY <1>1 DEF Put
<1>3. DOMAIN D = DOMAIN G \ {h} /\ \A x \in DOMAIN D : D[x] = G[x]
  BY <1>1 DEF Drop
<1>4. ASSUME NEW x \in DOMAIN G, x # h PROVE G[x].sfn \in L \cup {NULL} /\ G[x].lfn \in L \cup {NULL}
  BY <1>1, <1>4 DEF BlocksOK
<1>5. ASSUME NEW b \in L PROVE \E x \in DOMAIN G : x # h /\ b \in {G[x].sfn, G[x].lfn}
  BY <1>1, <1>5 DEF BlocksOK
<1>6. NULL \notin L
  BY <1>1 DEF BlocksOK
<1>7. BlocksOK(D, L)
  <2>1. \A x \in DOMAIN D : D[x].sfn \in L \cup {NULL} /\ D[x].lfn \in L \cup {NULL}
    BY <1>3, <1>4
  <2>2. \A b \in L : \E x \in DOMAIN D : b \in {D[x].sfn, D[x].lfn}
    BY <1>3, <1>5
  <2>3. \A x \in DOMAIN D : D[x].sfn = D[x].lfn => D[x].sfn = NULL
    BY <1>3 DEF BlocksOK
  <2>4. ASSUME NEW x \in DOMAIN D, NEW y \in DOMAIN D, x # y,
               NEW b \in {D[x].sfn, D[x].lfn}, b \in {D[y].sfn, D[y].lfn}
        PROVE  b = NULL
    BY <1>3, <2>4 DEF BlocksOK
  <2> QED BY <1>6, <2>1, <2>2, <2>3, <2>4 DEF BlocksOK
<1>8. Put(G, h, c) = Put(D, h, c)
  <2>1. DOMAIN G \cup {h} = DOMAIN D \cup {h}
    BY <1>3
  <2>2. \A x \in DOMAIN G : x # h => G[x] = D[x]
    BY <1>3
  <2> QED BY <2>1, <2>2 DEF Put
<1>9. BlocksOK(Put(D, h, c), L)
  BY <1>3, <1>7, BlocksNew
<1> QED BY <1>1, <1>7, <1>8, <1>9

\* A search gets two blocks that are not in use.
LEMMA BlocksTaken ==
  ASSUME NEW G, NEW B, BlocksOK(G, B), NEW h \in DOMAIN G, G[h].sfn = NULL, G[h].lfn = NULL,
         NEW s \in Addresses, s \notin B, NEW l \in Addresses, l \notin B, l # s,
         NEW c, c.sfn = s, c.lfn = l
  PROVE  BlocksOK(Put(G, h, c), B \cup {s, l})
<1>1. PICK H, M : H = Put(G, h, c) /\ M = B \cup {s, l}
  OBVIOUS
<1>2. DOMAIN H = DOMAIN G /\ H[h] = c /\ \A x \in DOMAIN G : x # h => H[x] = G[x]
  BY <1>1 DEF Put
<1>3. s # NULL /\ l # NULL
  BY FindFilesAssumption
<1>4. NULL \notin M
  BY <1>1, <1>3 DEF BlocksOK
<1>5. \A x \in DOMAIN H : /\ H[x].sfn \in M \cup {NULL} /\ H[x].lfn \in M \cup {NULL}
                          /\ H[x].sfn = H[x].lfn => H[x].sfn = NULL
  BY <1>1, <1>2 DEF BlocksOK
<1>6. ASSUME NEW b \in M PROVE \E x \in DOMAIN H : b \in {H[x].sfn, H[x].lfn}
  <2>1. CASE b \in {s, l}
    BY <1>2, <2>1
  <2>2. CASE b \in B
    <3>1. PICK x \in DOMAIN G : b \in {G[x].sfn, G[x].lfn}
      BY <2>2 DEF BlocksOK
    <3>2. x # h
      BY <2>2, <3>1 DEF BlocksOK
    <3> QED BY <1>2, <3>1, <3>2
  <2> QED BY <1>1, <2>1, <2>2
<1>7. ASSUME NEW x \in DOMAIN H, NEW y \in DOMAIN H, x # y,
             NEW b \in {H[x].sfn, H[x].lfn}, b \in {H[y].sfn, H[y].lfn}
      PROVE  b = NULL
  <2>1. ASSUME NEW z \in DOMAIN G, z # h, b \in {G[z].sfn, G[z].lfn} PROVE b \notin {s, l}
    BY <1>3, <2>1 DEF BlocksOK
  <2>2. CASE x = h \/ y = h
    BY <1>2, <1>7, <2>1, <2>2
  <2>3. CASE x # h /\ y # h
    BY <1>2, <1>7, <2>3 DEF BlocksOK
  <2> QED BY <2>2, <2>3
<1>8. BlocksOK(H, M)
  BY <1>4, <1>5, <1>6, <1>7 DEF BlocksOK
<1> QED BY <1>1, <1>8

Holder == [unk0 : Nat, filename : Addresses \cup {NULL}, filename_lfn : Addresses \cup {NULL}]

\* The structures X hold handles below n, no two the same one, and the names of a
\* search of G that stands on an entry.
HoldersOK(X, G, n) ==
  /\ X \in [Ctxs -> Holder]
  /\ \A x \in Ctxs : X[x].unk0 < n
  /\ \A x, y \in Ctxs : x # y /\ X[x].unk0 = X[y].unk0 => X[x].unk0 = 0
  /\ \A x \in Ctxs : X[x].unk0 \in DOMAIN G /\ G[X[x].unk0].sfn # NULL =>
       /\ X[x].filename = G[X[x].unk0].sfn
       /\ X[x].filename_lfn = G[X[x].unk0].lfn

\* The table of searches and what the auxiliary variables keep of each.
SearchesOK ==
  /\ DOMAIN listing = DOMAIN g_find_contexts /\ DOMAIN seen = DOMAIN g_find_contexts
  /\ \A h \in DOMAIN g_find_contexts : SearchOK(g_find_contexts[h], listing[h], seen[h])

FindInv ==
  /\ g_next_find_handle \in Nat /\ g_next_find_handle > 0
  /\ \A h \in DOMAIN g_find_contexts : h \in Nat /\ h > 0 /\ h < g_next_find_handle
  /\ SearchesOK
  /\ BlocksOK(g_find_contexts, blocks)
  /\ HoldersOK(guest_ctx, g_find_contexts, g_next_find_handle)

\* The invariant says what NamesOwned and EachEntryOnce ask.
LEMMA FindInvOwned ==
  ASSUME FindInv
  PROVE  NamesOwned
<1>1. \A x \in Held : x[3] \in {g_find_contexts[x[1]].sfn, g_find_contexts[x[1]].lfn}
                      /\ x[1] \in DOMAIN g_find_contexts
  BY DEF Held
<1>2. blocks = {x[3] : x \in Held} \ {NULL}
  <2>1. ASSUME NEW b \in blocks PROVE b \in {x[3] : x \in Held} /\ b # NULL
    <3>1. PICK h \in DOMAIN g_find_contexts : b \in {g_find_contexts[h].sfn, g_find_contexts[h].lfn}
      BY <2>1 DEF FindInv, BlocksOK
    <3>2. \E x \in Held : x[3] = b
      <4>1. /\ <<h, "sfn", g_find_contexts[h].sfn>> \in Held
            /\ <<h, "lfn", g_find_contexts[h].lfn>> \in Held
        BY DEF Held
      <4> QED BY <3>1, <4>1
    <3> QED BY <2>1, <3>2 DEF FindInv, BlocksOK
  <2>2. ASSUME NEW x \in Held, x[3] # NULL PROVE x[3] \in blocks
    BY <1>1, <2>2 DEF FindInv, BlocksOK
  <2> QED BY <2>1, <2>2
<1>3. ASSUME NEW x \in Held, NEW y \in Held, x # y, x[3] = y[3] PROVE x[3] = NULL
  <2>1. PICK h \in DOMAIN g_find_contexts :
          x = <<h, "sfn", g_find_contexts[h].sfn>> \/ x = <<h, "lfn", g_find_contexts[h].lfn>>
    BY DEF Held
  <2>2. PICK k \in DOMAIN g_find_contexts :
          y = <<k, "sfn", g_find_contexts[k].sfn>> \/ y = <<k, "lfn", g_find_contexts[k].lfn>>
    BY DEF Held
  <2>3. CASE h = k
    <3>1. g_find_contexts[h].sfn = g_find_contexts[h].lfn
      BY <1>3, <2>1, <2>2, <2>3
    <3> QED BY <2>1, <3>1 DEF FindInv, BlocksOK
  <2>4. CASE h # k
    <3>1. /\ x[3] \in {g_find_contexts[h].sfn, g_find_contexts[h].lfn}
          /\ x[3] \in {g_find_contexts[k].sfn, g_find_contexts[k].lfn}
      BY <1>3, <2>1, <2>2
    <3> QED BY <2>4, <3>1 DEF FindInv, BlocksOK
  <2> QED BY <2>3, <2>4
<1>4. ASSUME NEW ctx \in Ctxs, guest_ctx[ctx].unk0 \in DOMAIN g_find_contexts,
             g_find_contexts[guest_ctx[ctx].unk0].sfn # NULL
      PROVE  /\ guest_ctx[ctx].filename = g_find_contexts[guest_ctx[ctx].unk0].sfn
             /\ guest_ctx[ctx].filename_lfn = g_find_contexts[guest_ctx[ctx].unk0].lfn
  BY <1>4 DEF FindInv, HoldersOK
<1> QED BY <1>2, <1>3, <1>4 DEF NamesOwned

LEMMA FindInvOnce ==
  ASSUME FindInv
  PROVE  EachEntryOnce
<1> SUFFICES ASSUME NEW h \in DOMAIN g_find_contexts
             PROVE  LET c    == g_find_contexts[h]
                        all  == listing[h]
                        done == Len(all) - Len(c.iterator)
                    IN  /\ c.iterator = SubSeq(all, done + 1, Len(all))
                        /\ \E place \in [DOMAIN seen[h] -> 1 .. done] :
                             /\ \A i, j \in DOMAIN place : i < j => place[i] < place[j]
                             /\ \A i \in DOMAIN place : seen[h][i] = all[place[i]]
                             /\ Range(place) = {i \in 1 .. done : Wanted(c, all[i])}
  BY DEF EachEntryOnce
<1>1. PICK c, all, out : c = g_find_contexts[h] /\ all = listing[h] /\ out = seen[h]
  OBVIOUS
<1>2. SearchOK(c, all, out)
  BY <1>1 DEF FindInv, SearchesOK
<1>3. PICK n \in Nat, m \in Nat : n = Len(all) /\ m = Len(c.iterator) /\ m <= n
  BY <1>2 DEF SearchOK, Search
<1>4. PICK done \in Nat : done = n - m /\ done <= n
  <2>1. n - m \in Nat /\ n - m <= n
    BY <1>3
  <2> QED BY <2>1
<1>5. PICK W : W = {i \in 1 .. n : Wanted(c, all[i])}
  OBVIOUS
<1>6. Placed(out, all, W, done)
  BY <1>2, <1>3, <1>4, <1>5 DEF SearchOK
<1>7. W \cap 1 .. done = {i \in 1 .. done : Wanted(c, all[i])}
  <2>1. 1 .. done \subseteq 1 .. n
    BY <1>4
  <2> QED BY <1>5, <2>1
<1>8. c.iterator = SubSeq(all, done + 1, n)
  BY <1>2, <1>3, <1>4 DEF SearchOK
<1>9. \E place \in [DOMAIN out -> 1 .. done] :
        /\ \A i, j \in DOMAIN place : i < j => place[i] < place[j]
        /\ \A i \in DOMAIN place : out[i] = all[place[i]]
        /\ Range(place) = {i \in 1 .. done : Wanted(c, all[i])}
  BY <1>6, <1>7 DEF Placed
<1> QED BY <1>1, <1>3, <1>4, <1>8, <1>9, Zenon

\* find_next_internal, once the search c is known under its handle h.
LEMMA FindNextKeeps ==
  ASSUME NEW ctx \in Ctxs, NEW h \in Nat, h > 0, NEW c, FindNextMatch(ctx, h, c),
         NEW n \in Nat, n = g_next_find_handle', h < n,
         \A k \in DOMAIN g_find_contexts : k \in Nat /\ k > 0 /\ k < n,
         NEW G, G = Put(g_find_contexts, h, c), BlocksOK(G, blocks),
         NEW N, N = Put(seen, h, IF h \in DOMAIN seen THEN seen[h] ELSE <<>>),
         DOMAIN listing' = DOMAIN G, DOMAIN seen \cup {h} = DOMAIN G,
         \A k \in DOMAIN G : SearchOK(G[k], listing'[k], N[k]),
         HoldersOK(guest_ctx, g_find_contexts, n),
         \A x \in Ctxs : guest_ctx[x].unk0 = h => x = ctx
  PROVE  FindInv'
<1>1. PICK i : i = SelectInSeq(c.iterator, LAMBDA e : Matches(c, e))
  OBVIOUS
<1>2. PICK out : out = IF h \in DOMAIN seen THEN seen[h] ELSE <<>>
  OBVIOUS
<1>3. /\ DOMAIN G = DOMAIN g_find_contexts \cup {h} /\ G[h] = c
      /\ \A k \in DOMAIN g_find_contexts : k # h => G[k] = g_find_contexts[k]
      /\ N[h] = out
      /\ \A k \in DOMAIN seen : k # h => N[k] = seen[k]
  BY <1>2 DEF Put
<1>4. PICK left : left = blocks \ {c.sfn, c.lfn}
  OBVIOUS
<1>5. PICK all : all = listing'[h]
  OBVIOUS
<1>6. SearchOK(c, all, out)
  BY <1>3, <1>5
<1>7. StopsAt(c, i) /\ i \in Nat
  <2>1. StopsAt(c, i)
    BY <1>1, <1>6, FirstMatch DEF SearchOK
  <2>2. Len(c.iterator) \in Nat
    BY <1>6 DEF SearchOK, Search
  <2> QED BY <2>1, <2>2 DEF StopsAt
<1>8. PICK d, X, L, more :
        /\ g_find_contexts' = Put(g_find_contexts, h, d) /\ guest_ctx' = X
        /\ blocks' = L /\ seen' = Put(seen, h, more)
        /\ SearchOK(d, all, more)
        /\ BlocksOK(Put(G, h, d), L)
        /\ X \in [Ctxs -> Holder]
        /\ X[ctx].unk0 = h /\ \A x \in Ctxs : x # ctx => X[x] = guest_ctx[x]
        /\ d.sfn # NULL => X[ctx].filename = d.sfn /\ X[ctx].filename_lfn = d.lfn
  <2>1. CASE i = 0
    <3>1. PICK d : d = [WithoutNames(c) EXCEPT !.iterator = <<>>]
      OBVIOUS
    <3>2. PICK X : X = [guest_ctx EXCEPT ![ctx].unk0 = h]
      OBVIOUS
    <3>3. /\ g_find_contexts' = Put(g_find_contexts, h, d) /\ guest_ctx' = X
          /\ blocks' = left /\ seen' = Put(seen, h, out)
      BY <1>1, <1>2, <1>4, <2>1, <3>1, <3>2, Zenon DEF FindNextMatch
    <3>4. SearchOK(d, all, out)
      BY <1>6, <1>7, <2>1, <3>1, SearchEnds
    <3>5. d.sfn = NULL /\ d.lfn = NULL
      BY <1>6, <3>1 DEF SearchOK, Search, WithoutNames
    <3>6. BlocksOK(Put(G, h, d), left)
      <4>1. h \in DOMAIN G /\ left = blocks \ {G[h].sfn, G[h].lfn}
        BY <1>3, <1>4
      <4> QED BY <3>5, <4>1, BlocksFreed
    <3>7. /\ X \in [Ctxs -> Holder] /\ X[ctx].unk0 = h
          /\ \A x \in Ctxs : x # ctx => X[x] = guest_ctx[x]
      BY <3>2 DEF HoldersOK, Holder
    <3> QED BY <3>3, <3>4, <3>5, <3>6, <3>7
  <2>2. CASE i # 0
    <3>1. PICK s \in Addresses, l \in Addresses :
            /\ s \notin left /\ l \notin left /\ l # s
            /\ g_find_contexts' = Put(g_find_contexts, h,
                 [c EXCEPT !.iterator = RestAfter(@, i), !.sfn = s, !.lfn = l])
            /\ guest_ctx' = [guest_ctx EXCEPT ![ctx] =
                 [unk0 |-> h, filename |-> s, filename_lfn |-> l]]
            /\ blocks' = left \cup {s, l}
            /\ seen' = Put(seen, h, Append(out, c.iterator[i]))
      BY <1>1, <1>2, <1>4, <2>2, Zenon DEF FindNextMatch, Free
    <3>2. PICK d : d = [c EXCEPT !.iterator = RestAfter(@, i), !.sfn = s, !.lfn = l]
      OBVIOUS
    <3>3. PICK X : X = [guest_ctx EXCEPT ![ctx] = [unk0 |-> h, filename |-> s, filename_lfn |-> l]]
      OBVIOUS
    <3>4. SearchOK(d, all, Append(out, c.iterator[i]))
      BY <1>6, <1>7, <2>2, <3>2, SearchFinds
    <3>5. d.sfn = s /\ d.lfn = l
      BY <1>6, <3>2 DEF SearchOK, Search
    <3>6. BlocksOK(Put(G, h, d), left \cup {s, l})
      <4>1. PICK e : e = WithoutNames(c)
        OBVIOUS
      <4>2. e.sfn = NULL /\ e.lfn = NULL
        BY <1>6, <4>1 DEF SearchOK, Search, WithoutNames
      <4>3. PICK H : H = Put(G, h, e)
        OBVIOUS
      <4>4. BlocksOK(H, left) /\ h \in DOMAIN H /\ H[h] = e
        <5>1. BlocksOK(H, left)
          <6>1. h \in DOMAIN G /\ left = blocks \ {G[h].sfn, G[h].lfn}
            BY <1>3, <1>4
          <6> QED BY <4>2, <4>3, <6>1, BlocksFreed
        <5> QED BY <4>3, <5>1 DEF Put
      <4>5. BlocksOK(Put(H, h, d), left \cup {s, l})
        BY <3>1, <3>5, <4>2, <4>4, BlocksTaken
      <4>6. Put(H, h, d) = Put(G, h, d)
        BY <4>3 DEF Put
      <4> QED BY <4>5, <4>6
    <3>7. /\ X \in [Ctxs -> Holder] /\ X[ctx].unk0 = h /\ X[ctx].filename = s
          /\ X[ctx].filename_lfn = l /\ \A x \in Ctxs : x # ctx => X[x] = guest_ctx[x]
      BY <3>3 DEF HoldersOK, Holder
    <3> QED BY <3>1, <3>2, <3>3, <3>4, <3>5, <3>6, <3>7
  <2> QED BY <2>1, <2>2
<1>9. PICK F, M : F = g_find_contexts' /\ M = seen'
  OBVIOUS
<1>10. /\ DOMAIN F = DOMAIN G /\ F[h] = d /\ \A k \in DOMAIN G : k # h => F[k] = G[k]
       /\ DOMAIN M = DOMAIN G /\ M[h] = more /\ \A k \in DOMAIN G : k # h => M[k] = N[k]
  <2>1. DOMAIN F = DOMAIN G /\ F[h] = d /\ \A k \in DOMAIN G : k # h => F[k] = G[k]
    BY <1>3, <1>8, <1>9 DEF Put
  <2>2. DOMAIN M = DOMAIN G /\ M[h] = more /\ \A k \in DOMAIN G : k # h => M[k] = N[k]
    BY <1>3, <1>8, <1>9 DEF Put
  <2> QED BY <2>1, <2>2
<1>11. SearchesOK'
  <2>1. ASSUME NEW k \in DOMAIN F PROVE SearchOK(F[k], listing'[k], M[k])
    <3>1. CASE k = h
      BY <1>5, <1>8, <1>10, <3>1
    <3>2. CASE k # h
      BY <1>10, <3>2
    <3> QED BY <3>1, <3>2
  <2> QED BY <1>9, <1>10, <2>1 DEF SearchesOK
<1>12. BlocksOK(F, L)
  <2>1. F = Put(G, h, d)
    BY <1>3, <1>8, <1>9 DEF Put
  <2> QED BY <1>8, <2>1
<1>13. HoldersOK(X, F, n)
  <2>1. \A x \in Ctxs : X[x].unk0 < n
    BY <1>8 DEF HoldersOK
  <2>2. ASSUME NEW x \in Ctxs, NEW y \in Ctxs, x # y, X[x].unk0 = X[y].unk0 PROVE X[x].unk0 = 0
    BY <1>8, <2>2 DEF HoldersOK
  <2>3. ASSUME NEW x \in Ctxs, X[x].unk0 \in DOMAIN F, F[X[x].unk0].sfn # NULL
        PROVE  X[x].filename = F[X[x].unk0].sfn /\ X[x].filename_lfn = F[X[x].unk0].lfn
    <3>1. CASE x = ctx
      BY <1>8, <1>10, <2>3, <3>1
    <3>2. CASE x # ctx
      <4>1. X[x] = guest_ctx[x] /\ X[x].unk0 # h
        BY <1>8, <3>2
      <4>2. X[x].unk0 \in DOMAIN g_find_contexts /\ F[X[x].unk0] = g_find_contexts[X[x].unk0]
        BY <1>3, <1>10, <2>3, <4>1
      <4> QED BY <2>3, <4>1, <4>2 DEF HoldersOK
    <3> QED BY <3>1, <3>2
  <2> QED BY <1>8, <2>1, <2>2, <2>3 DEF HoldersOK
<1>14. \A k \in DOMAIN F : k \in Nat /\ k > 0 /\ k < n
  BY <1>3, <1>10
<1>15. n > 0
  OBVIOUS
<1>16. /\ g_find_contexts' = F /\ guest_ctx' = X /\ blocks' = L
  BY <1>8, <1>9
<1> QED BY <1>11, <1>12, <1>13, <1>14, <1>15, <1>16 DEF FindInv

\* The image of a finite set.
LEMMA FiniteImage ==
  ASSUME NEW S, IsFiniteSet(S), NEW f, DOMAIN f = S
  PROVE  IsFiniteSet({f[x] : x \in S})
<1>1. PICK g, T : g = [x \in S |-> f[x]] /\ T = {f[x] : x \in S}
  OBVIOUS
<1>2. g \in Surjection(S, T)
  BY <1>1 DEF Surjection
<1> QED BY <1>1, <1>2, FS_Surjection

\* The disk holds finitely many paths, so that a directory can be listed.
DiskFinite == IsFiniteSet(dirs) /\ IsFiniteSet(files)

LEMMA FinitePrefixes ==
  ASSUME NEW path \in HostPath
  PROVE  IsFiniteSet(Prefixes(path))
<1>1. PICK n \in Nat : n = Len(path)
  BY DEF HostPath
<1>2. PICK f : f = [l \in 0 .. n |-> SubSeq(path, 1, l)]
  OBVIOUS
<1>3. IsFiniteSet(0 .. n)
  BY FS_Interval
<1>4. IsFiniteSet({f[l] : l \in 0 .. n})
  <2>1. DOMAIN f = 0 .. n
    BY <1>2
  <2> QED BY <1>3, <2>1, FiniteImage
<1>5. Prefixes(path) = {f[l] : l \in 0 .. n}
  BY <1>1, <1>2 DEF Prefixes
<1> QED BY <1>4, <1>5

\* A step adds the way to one path at most.
LEMMA DiskStaysFinite ==
  ASSUME DiskFinite, NEW path \in HostPath,
         dirs' \in SUBSET (dirs \cup Prefixes(path) \cup Prefixes(Parent(path))),
         files' \in SUBSET (files \cup {path})
  PROVE  DiskFinite'
<1>1. Parent(path) \in HostPath
  BY PrefixPaths
<1>2. IsFiniteSet(Prefixes(path)) /\ IsFiniteSet(Prefixes(Parent(path)))
  BY <1>1, FinitePrefixes
<1>3. IsFiniteSet(dirs \cup Prefixes(path))
  BY <1>2, FS_Union DEF DiskFinite
<1>4. IsFiniteSet(dirs \cup Prefixes(path) \cup Prefixes(Parent(path)))
  BY <1>2, <1>3, FS_Union
<1>5. IsFiniteSet(files \cup {path})
  BY FS_AddElement DEF DiskFinite
<1>6. IsFiniteSet(dirs')
  BY <1>4, FS_Subset
<1>7. IsFiniteSet(files')
  BY <1>5, FS_Subset
<1> QED BY <1>6, <1>7 DEF DiskFinite

LEMMA DiskUnchanged ==
  ASSUME DiskFinite, UNCHANGED <<dirs, files>>
  PROVE  DiskFinite'
BY DEF DiskFinite

LEMMA FileStepFinite ==
  ASSUME DiskFinite, FsInv, FileStep
  PROVE  DiskFinite'
<1>1. ASSUME NEW p \in VMPaths, NEW mode, _OpenFile(p, mode) \/ __wfopen(p, mode)
      PROVE  DiskFinite'
  <2>1. PICK path \in HostPath : path = MapVMPathToHost(p)
    BY MappedPath DEF FsInv
  <2>2. dirs' = (IF Writing(mode) THEN WithParents(path) ELSE dirs)
        /\ (files' = files \cup {path} \/ files' = files)
    BY <1>1, <2>1 DEF _OpenFile, __wfopen
  <2>3. dirs' \in SUBSET (dirs \cup Prefixes(path) \cup Prefixes(Parent(path)))
    BY <2>2 DEF WithParents
  <2>4. files' \in SUBSET (files \cup {path})
    BY <2>2
  <2> QED BY <2>3, <2>4, DiskStaysFinite
<1>2. ASSUME NEW p \in VMPaths, _amkdir(p) \/ _achdir(p) PROVE DiskFinite'
  <2>1. PICK path \in HostPath : path = MapVMPathToHost(p)
    BY MappedPath DEF FsInv
  <2>2. files' = files /\ (dirs' = dirs \/ dirs' = dirs \cup Prefixes(path))
    BY <1>2, <2>1 DEF _amkdir, _achdir, SelectDrive, ChangeDirectory, MakeDirs
  <2> QED BY <2>2, DiskStaysFinite
<1>3. ASSUME NEW p \in VMPaths, _aremove(p) PROVE DiskFinite'
  <2>1. PICK path \in HostPath : path = MapVMPathToHost(p)
    BY MappedPath DEF FsInv
  <2>2. files' \in SUBSET files /\ dirs' \in SUBSET dirs
    BY <1>3 DEF _aremove
  <2> QED BY <2>2, DiskStaysFinite
<1>4. ASSUME NEW h \in DOMAIN g_vfile_table, _fclose(h) \/ _fwrite(h) PROVE DiskFinite'
  <2>1. UNCHANGED <<dirs, files>>
    BY <1>4 DEF _fclose, _fwrite, diskVars
  <2> QED BY <2>1, DiskUnchanged
<1> QED BY <1>1, <1>2, <1>3, <1>4 DEF FileStep

\* What a directory lists, in whatever order.
LEMMA ListingFacts ==
  ASSUME PathsOK, DiskFinite, NEW dir, NEW order \in SetToSeqs(Entries(dir))
  PROVE  order \in Seq(Entry)
<1>1. PICK Q : Q = {q \in dirs \cup files : q # <<>> /\ Parent(q) = dir}
  OBVIOUS
<1>2. PICK f : f = [q \in Q |-> [name |-> Last(q), attrib |-> IF q \in dirs THEN AM_DIR ELSE AM_ARC]]
  OBVIOUS
<1>3. PICK E : E = Entries(dir)
  OBVIOUS
<1>4. E = {f[q] : q \in Q}
  BY <1>1, <1>2, <1>3 DEF Entries
<1>5. IsFiniteSet(Q)
  <2>1. IsFiniteSet(dirs \cup files)
    BY FS_Union DEF DiskFinite
  <2>2. Q \in SUBSET (dirs \cup files)
    BY <1>1
  <2> QED BY <2>1, <2>2, FS_Subset
<1>6. IsFiniteSet(E)
  BY <1>2, <1>4, <1>5, FiniteImage
<1>7. PICK n \in Nat : n = Cardinality(E)
  BY <1>6, FS_CardinalityType
<1>8. order \in [1 .. n -> E]
  BY <1>3, <1>7 DEF SetToSeqs
<1>9. E \in SUBSET Entry
  <2>1. ASSUME NEW q \in Q PROVE f[q] \in Entry
    <3>1. q \in Seq(Component) /\ q # <<>>
      BY <1>1 DEF PathsOK, HostPath
    <3>2. Last(q) \in Component
      BY <3>1 DEF Last
    <3> QED BY <1>2, <3>2 DEF Entry
  <2> QED BY <1>4, <2>1
<1> QED BY <1>7, <1>8, <1>9

\* What _findfirst is called with.
LEMMA FindPathFacts ==
  ASSUME PathsOK, NEW p \in FindPaths
  PROVE  MapVMPathToHost(p) \in Seq(DOMAIN Spelling)
<1>1. Component \in SUBSET (DOMAIN Spelling \cup {Up})
  BY FindFilesAssumption DEF Component
<1>2. p.comps \in Seq(DOMAIN Spelling \cup {Up}) /\ p.drive \in Component
  BY FindFilesAssumption DEF Component
<1>3. <<p.drive>> \in Seq(DOMAIN Spelling \cup {Up})
  BY <1>1, <1>2
<1>4. Cwd \in Seq(DOMAIN Spelling \cup {Up})
  <2>1. Cwd \in Seq(Component)
    BY DEF PathsOK, Cwd, HostPath
  <2> QED BY <1>1, <2>1, SeqMonotonic
<1>5. Joined(p) \in Seq(DOMAIN Spelling \cup {Up})
  BY <1>2, <1>3, <1>4, ConcatProperties DEF Joined
<1> QED BY <1>5, NormalType DEF MapVMPathToHost

\* A search that begins has looked at nothing.
LEMMA SearchBegins ==
  ASSUME NEW order \in Seq(Entry), NEW pattern \in DOMAIN Spelling, NEW mask \in Masks, NEW c,
         c = [iterator |-> order, pattern |-> pattern, attrib_mask |-> mask,
              sfn |-> NULL, lfn |-> NULL]
  PROVE  SearchOK(c, order, <<>>) /\ c.sfn = NULL /\ c.lfn = NULL
<1>1. c \in Search /\ c.iterator = order /\ c.sfn = NULL /\ c.lfn = NULL
  BY DEF Search
<1>2. PICK n \in Nat : n = Len(order)
  OBVIOUS
<1>3. n - n = 0 /\ 0 + 1 = 1 /\ n <= n
  OBVIOUS
<1>4. SubSeq(order, 1, n) = order
  BY <1>2
<1>5. ASSUME NEW W PROVE Placed(<<>>, order, W, 0)
  <2>1. DOMAIN <<>> = {} /\ 1 .. 0 = {}
    OBVIOUS
  <2>2. PICK place : place = [x \in {} |-> 0]
    OBVIOUS
  <2>3. place \in [{} -> 1 .. 0] /\ DOMAIN place = {}
    BY <2>2
  <2>4. Range(place) = W \cap 1 .. 0
    BY <2>1, <2>3 DEF Range
  <2> QED BY <2>1, <2>3, <2>4 DEF Placed
<1>6. <<>> \in Seq(Entry)
  OBVIOUS
<1> QED BY <1>1, <1>2, <1>3, <1>4, <1>5, <1>6 DEF SearchOK

\* _findfirst: the handle is new, so no structure holds it.
LEMMA FindFirstKeeps ==
  ASSUME PathsOK, DiskFinite, FindInv,
         NEW p \in FindPaths, NEW ctx \in Ctxs, NEW mask \in Masks, _afindfirst(p, ctx, mask)
  PROVE  FindInv'
<1>0. PICK path \in Seq(DOMAIN Spelling) : path = MapVMPathToHost(p)
  BY FindPathFacts
<1>1. PICK dir : path = MapVMPathToHost(p) /\ dir = DirToScan(path)
  BY <1>0
<1>2. CASE UNCHANGED findVars
  BY <1>2 DEF findVars, FindInv, SearchesOK
<1>3. CASE ~UNCHANGED findVars
  <2>1. PICK h \in Nat : h = g_next_find_handle /\ h > 0
    BY DEF FindInv
  <2>2. IsDirectory(dir) /\ g_next_find_handle' = h + 1
    BY <1>1, <1>3, <2>1 DEF _afindfirst
  <2>3. PICK order \in SetToSeqs(Entries(dir)) :
          \E c : /\ listing' = Put(listing, h, order)
                 /\ c = [iterator |-> order, pattern |-> Pattern(path), attrib_mask |-> mask,
                         sfn |-> NULL, lfn |-> NULL]
                 /\ FindNextMatch(ctx, h, c)
    BY <1>1, <1>3, <2>1 DEF _afindfirst
  <2>4. PICK c : /\ listing' = Put(listing, h, order)
                 /\ c = [iterator |-> order, pattern |-> Pattern(path), attrib_mask |-> mask,
                         sfn |-> NULL, lfn |-> NULL]
                 /\ FindNextMatch(ctx, h, c)
    BY <2>3
  <2>5. Pattern(path) \in DOMAIN Spelling
    <3>1. CASE IsDirectory(path)
      BY <3>1, FindFilesAssumption DEF Pattern
    <3>2. CASE ~IsDirectory(path)
      <4>1. path # <<>>
        <5>1. ASSUME path = <<>> PROVE FALSE
          <6>1. Front(path) = <<>>
            BY <5>1 DEF Front
          <6> QED BY <1>1, <2>2, <3>2, <5>1, <6>1 DEF DirToScan, Parent
        <5> QED BY <5>1
      <4> QED BY <3>2, <4>1 DEF Pattern, Last
    <3> QED BY <3>1, <3>2
  <2>6. order \in Seq(Entry)
    BY ListingFacts
  <2>7. SearchOK(c, order, <<>>) /\ c.sfn = NULL /\ c.lfn = NULL
    BY <2>4, <2>5, <2>6, SearchBegins
  <2>8. h \notin DOMAIN g_find_contexts
    BY <2>1 DEF FindInv
  <2>9. PICK G, N : /\ G = Put(g_find_contexts, h, c)
                    /\ N = Put(seen, h, IF h \in DOMAIN seen THEN seen[h] ELSE <<>>)
    OBVIOUS
  <2>10. BlocksOK(G, blocks)
    BY <2>7, <2>8, <2>9, BlocksNew DEF FindInv
  <2>11. DOMAIN seen = DOMAIN g_find_contexts /\ DOMAIN listing = DOMAIN g_find_contexts
    BY DEF FindInv, SearchesOK
  <2>12. PICK L : L = listing'
    OBVIOUS
  <2>13. /\ DOMAIN G = DOMAIN g_find_contexts \cup {h} /\ G[h] = c
         /\ \A k \in DOMAIN g_find_contexts : G[k] = g_find_contexts[k]
    BY <2>8, <2>9 DEF Put
  <2>14. /\ DOMAIN L = DOMAIN g_find_contexts \cup {h} /\ L[h] = order
         /\ \A k \in DOMAIN g_find_contexts : L[k] = listing[k]
    BY <2>4, <2>8, <2>11, <2>12 DEF Put
  <2>15. N[h] = <<>> /\ \A k \in DOMAIN g_find_contexts : N[k] = seen[k]
    BY <2>8, <2>9, <2>11 DEF Put
  <2>16. ASSUME NEW k \in DOMAIN G PROVE SearchOK(G[k], L[k], N[k])
    <3>1. CASE k = h
      BY <2>7, <2>13, <2>14, <2>15, <3>1
    <3>2. CASE k \in DOMAIN g_find_contexts
      BY <2>13, <2>14, <2>15, <3>2 DEF FindInv, SearchesOK
    <3> QED BY <2>13, <3>1, <3>2
  <2>17. PICK n \in Nat : n = h + 1
    OBVIOUS
  <2>18. h < n /\ \A k \in DOMAIN g_find_contexts : k \in Nat /\ k > 0 /\ k < n
    BY <2>1, <2>17 DEF FindInv
  <2>19. HoldersOK(guest_ctx, g_find_contexts, n)
    <3>1. \A x \in Ctxs : guest_ctx[x].unk0 \in Nat /\ guest_ctx[x].unk0 < h
      BY <2>1 DEF FindInv, HoldersOK, Holder
    <3>2. \A x \in Ctxs : guest_ctx[x].unk0 < n
      BY <2>17, <3>1
    <3> QED BY <3>2 DEF FindInv, HoldersOK
  <2>20. \A x \in Ctxs : guest_ctx[x].unk0 # h
    <3>1. \A x \in Ctxs : guest_ctx[x].unk0 \in Nat /\ guest_ctx[x].unk0 < h
      BY <2>1 DEF FindInv, HoldersOK, Holder
    <3> QED BY <3>1
  <2>21. DOMAIN listing' = DOMAIN G /\ DOMAIN seen \cup {h} = DOMAIN G
    BY <2>11, <2>12, <2>13, <2>14
  <2>22. \A k \in DOMAIN G : SearchOK(G[k], listing'[k], N[k])
    BY <2>12, <2>16
  <2>23. n = g_next_find_handle' /\ h > 0
    BY <2>1, <2>2, <2>17
  <2>24. FindNextMatch(ctx, h, c)
    BY <2>4
  <2>25. \A x \in Ctxs : guest_ctx[x].unk0 = h => x = ctx
    BY <2>20
  <2> QED BY <2>9, <2>10, <2>18, <2>19, <2>21, <2>22, <2>23, <2>24, <2>25, FindNextKeeps
<1> QED BY <1>2, <1>3

\* _findnext: the structure is the only one that holds the handle.
LEMMA FindAgainKeeps ==
  ASSUME FindInv, NEW ctx \in Ctxs, _afindnext(ctx)
  PROVE  FindInv'
<1>1. PICK h \in Nat : h = guest_ctx[ctx].unk0
  BY DEF FindInv, HoldersOK, Holder
<1>2. g_next_find_handle' = g_next_find_handle /\ listing' = listing
  BY DEF _afindnext
<1>3. CASE h \notin DOMAIN g_find_contexts
  BY <1>1, <1>2, <1>3 DEF _afindnext, FindInv, SearchesOK
<1>4. CASE h \in DOMAIN g_find_contexts
  <2>1. PICK c : c = g_find_contexts[h] /\ FindNextMatch(ctx, h, c)
    BY <1>1, <1>4 DEF _afindnext
  <2>2. PICK G, N : /\ G = Put(g_find_contexts, h, c)
                    /\ N = Put(seen, h, IF h \in DOMAIN seen THEN seen[h] ELSE <<>>)
    OBVIOUS
  <2>3. DOMAIN seen = DOMAIN g_find_contexts /\ DOMAIN listing = DOMAIN g_find_contexts
    BY DEF FindInv, SearchesOK
  <2>4. /\ DOMAIN G = DOMAIN g_find_contexts
        /\ \A k \in DOMAIN g_find_contexts : G[k] = g_find_contexts[k] /\ N[k] = seen[k]
    BY <1>4, <2>1, <2>2, <2>3 DEF Put
  <2>5. BlocksOK(G, blocks)
    BY <2>4 DEF FindInv, BlocksOK
  <2>6. \A k \in DOMAIN G : SearchOK(G[k], listing'[k], N[k])
    BY <1>2, <2>4 DEF FindInv, SearchesOK
  <2>7. PICK n \in Nat : n = g_next_find_handle
    BY DEF FindInv
  <2>8. h > 0 /\ h < n /\ \A k \in DOMAIN g_find_contexts : k \in Nat /\ k > 0 /\ k < n
    BY <1>4, <2>7 DEF FindInv
  <2>9. \A x \in Ctxs : guest_ctx[x].unk0 = h => x = ctx
    BY <1>1, <2>8 DEF FindInv, HoldersOK
  <2>10. HoldersOK(guest_ctx, g_find_contexts, n)
    BY <2>7 DEF FindInv
  <2>11. DOMAIN listing' = DOMAIN G /\ DOMAIN seen \cup {h} = DOMAIN G
    BY <1>2, <1>4, <2>3, <2>4
  <2> QED BY <1>2, <2>1, <2>2, <2>5, <2>6, <2>7, <2>8, <2>9, <2>10, <2>11, FindNextKeeps
<1> QED BY <1>3, <1>4

\* _findclose.
LEMMA FindCloseKeeps ==
  ASSUME FindInv, NEW ctx \in Ctxs, _findclose(ctx)
  PROVE  FindInv'
<1>1. PICK h : h = guest_ctx[ctx].unk0 /\ h \in DOMAIN g_find_contexts
  BY DEF _findclose
<1>2. PICK F, L, N, X : /\ F = Drop(g_find_contexts, h) /\ L = Drop(listing, h) /\ N = Drop(seen, h)
                        /\ X = [guest_ctx EXCEPT ![ctx] =
                                 [unk0 |-> 0, filename |-> NULL, filename_lfn |-> NULL]]
  OBVIOUS
<1>3. /\ g_find_contexts' = F /\ listing' = L /\ seen' = N /\ guest_ctx' = X
      /\ blocks' = blocks \ {g_find_contexts[h].sfn, g_find_contexts[h].lfn}
      /\ g_next_find_handle' = g_next_find_handle
  BY <1>1, <1>2 DEF _findclose
<1>4. /\ DOMAIN F = DOMAIN g_find_contexts \ {h} /\ DOMAIN L = DOMAIN F /\ DOMAIN N = DOMAIN F
      /\ \A k \in DOMAIN F : F[k] = g_find_contexts[k] /\ L[k] = listing[k] /\ N[k] = seen[k]
  BY <1>2 DEF Drop, FindInv, SearchesOK
<1>5. SearchesOK'
  BY <1>3, <1>4 DEF FindInv, SearchesOK
<1>6. BlocksOK(F, blocks \ {g_find_contexts[h].sfn, g_find_contexts[h].lfn})
  <2>1. PICK c : c = [sfn |-> NULL, lfn |-> NULL]
    OBVIOUS
  <2> QED BY <1>1, <1>2, <2>1, BlocksFreed DEF FindInv
<1>7. HoldersOK(X, F, g_next_find_handle)
  <2>1. /\ X \in [Ctxs -> Holder] /\ X[ctx].unk0 = 0
        /\ \A x \in Ctxs : x # ctx => X[x] = guest_ctx[x]
    BY <1>2 DEF FindInv, HoldersOK, Holder
  <2>2. 0 \notin DOMAIN F
    BY <1>4 DEF FindInv
  <2>3. \A x \in Ctxs : X[x].unk0 < g_next_find_handle
    BY <2>1 DEF FindInv, HoldersOK
  <2>4. ASSUME NEW x \in Ctxs, NEW y \in Ctxs, x # y, X[x].unk0 = X[y].unk0 PROVE X[x].unk0 = 0
    BY <2>1, <2>4 DEF FindInv, HoldersOK
  <2>5. ASSUME NEW x \in Ctxs, X[x].unk0 \in DOMAIN F, F[X[x].unk0].sfn # NULL
        PROVE  X[x].filename = F[X[x].unk0].sfn /\ X[x].filename_lfn = F[X[x].unk0].lfn
    <3>1. x # ctx /\ X[x] = guest_ctx[x]
      BY <2>1, <2>2, <2>5
    <3> QED BY <1>4, <2>5, <3>1 DEF FindInv, HoldersOK
  <2> QED BY <2>1, <2>3, <2>4, <2>5 DEF HoldersOK
<1>8. \A k \in DOMAIN F : k \in Nat /\ k > 0 /\ k < g_next_find_handle
  BY <1>4 DEF FindInv
<1>9. g_next_find_handle \in Nat /\ g_next_find_handle > 0
  BY DEF FindInv
<1> QED BY <1>3, <1>5, <1>6, <1>7, <1>8, <1>9 DEF FindInv

\* Both invariants, in every behaviour.
LEMMA FindInvariance == Spec => [](DiskFinite /\ FindInv)
<1>1. FindInit => DiskFinite /\ FindInv
  <2> SUFFICES ASSUME FindInit PROVE DiskFinite /\ FindInv
    OBVIOUS
  <2>1. IsFiniteSet(dirs)
    <3>1. PICK f : f = [d \in Drives |-> <<d>>]
      OBVIOUS
    <3>2. IsFiniteSet({f[d] : d \in Drives})
      BY <3>1, FileSystemAssumption, FiniteImage
    <3>3. dirs = {f[d] : d \in Drives} \cup {<<>>}
      BY <3>1 DEF FindInit, Init
    <3> QED BY <3>2, <3>3, FS_AddElement
  <2>2. IsFiniteSet(files)
    <3>1. PICK f : f = [n \in Names |-> <<"A", n>>]
      OBVIOUS
    <3>2. IsFiniteSet({f[n] : n \in Names})
      BY <3>1, FileSystemAssumption, FiniteImage
    <3>3. files \in SUBSET {f[n] : n \in Names}
      BY <3>1 DEF FindInit, Init
    <3> QED BY <3>2, <3>3, FS_Subset
  <2>3. DOMAIN <<>> = {}
    OBVIOUS
  <2>4. /\ g_find_contexts = <<>> /\ listing = <<>> /\ seen = <<>> /\ blocks = {}
        /\ g_next_find_handle = 1
        /\ guest_ctx = [x \in Ctxs |-> [unk0 |-> 0, filename |-> NULL, filename_lfn |-> NULL]]
    BY DEF FindInit
  <2>5. SearchesOK /\ BlocksOK(g_find_contexts, blocks)
    BY <2>3, <2>4 DEF SearchesOK, BlocksOK
  <2>6. HoldersOK(guest_ctx, g_find_contexts, g_next_find_handle)
    BY <2>3, <2>4 DEF HoldersOK, Holder
  <2> QED BY <2>1, <2>2, <2>3, <2>4, <2>5, <2>6 DEF DiskFinite, FindInv
<1>2. DiskFinite /\ FindInv /\ FsInv /\ [Next]_vars => (DiskFinite /\ FindInv)'
  <2> SUFFICES ASSUME DiskFinite, FindInv, FsInv, [Next]_vars PROVE DiskFinite' /\ FindInv'
    OBVIOUS
  <2>1. CASE FileStep /\ UNCHANGED findVars
    <3>1. DiskFinite'
      BY <2>1, FileStepFinite
    <3>2. FindInv'
      BY <2>1 DEF findVars, FindInv, SearchesOK
    <3> QED BY <3>1, <3>2
  <2>2. CASE FindStep
    <3>1. DiskFinite'
      <4>1. UNCHANGED <<dirs, files>>
        BY <2>2 DEF FindStep, _afindfirst, _afindnext, _findclose, diskVars
      <4> QED BY <4>1, DiskUnchanged
    <3>2. FindInv'
      BY <2>2, FindFirstKeeps, FindAgainKeeps, FindCloseKeeps DEF FindStep, FsInv
    <3> QED BY <3>1, <3>2
  <2>3. CASE UNCHANGED vars
    <3>1. UNCHANGED <<dirs, files>>
      BY <2>3 DEF vars, fsVars, diskVars
    <3>2. FindInv'
      BY <2>3 DEF vars, findVars, FindInv, SearchesOK
    <3> QED BY <3>1, <3>2, DiskUnchanged
  <2> QED BY <2>1, <2>2, <2>3 DEF Next
<1> QED BY <1>1, <1>2, FileSystemInvariance, PTL DEF Spec

\* No block of a name is leaked, shared or freed twice, and the pointers the firmware
\* holds are those of its search: find_next_internal frees both names before it asks
\* for new ones, and the handle of a structure is its own.
THEOREM NamesAreOwned == Spec => []NamesOwned
<1>1. FindInv => NamesOwned
  BY FindInvOwned
<1> QED BY <1>1, FindInvariance, PTL

\* A search returns the entries that were asked for, each once and in the order of
\* the directory, whatever the directory, the pattern and the searches beside it.
THEOREM SearchesReturnEachEntryOnce == Spec => []EachEntryOnce
<1>1. FindInv => EachEntryOnce
  BY FindInvOnce
<1> QED BY <1>1, FindInvariance, PTL
=============================================================================

------------------------------ MODULE FindFiles ------------------------------
(***************************************************************************)
(* Searches for files (system.cpp): _findfirst, _findnext and _findclose.  *)
(* A search lives in g_find_contexts; the firmware holds its handle in a   *)
(* structure of its own, which also points to the names of the entry found *)
(* last.  The names are blocks of the guest's heap that belong to the      *)
(* search: the next call on it frees them.                                 *)
(***************************************************************************)
EXTENDS FileSystem, Wildcard

CONSTANTS
  FindPaths,    \* what _findfirst is called with
  Masks,        \* attribute masks it is called with
  Ctxs,         \* the firmware's find_context_t structures
  Addresses,    \* addresses of heap blocks for names
  Spelling,     \* the characters of a name or a pattern
  MaxLength,    \* bound: characters of the patterns and names compared
  MaxSearches   \* bound: searches ever started

AnyName == "*"
NULL    == 0

AM_ANY == "any"   \* no mask
AM_DIR == "dir"
AM_ARC == "file"

ASSUME FindFilesAssumption ==
  /\ Masks \subseteq {AM_ANY, AM_DIR, AM_ARC}
  /\ NULL \notin Addresses
  /\ Spelling \in [DOMAIN Spelling -> Seq(Chars \cup {Star, AnyOne})]
  /\ AnyName \in DOMAIN Spelling \ Names /\ Spelling[AnyName] = <<Star>>
  /\ Names \cup Drives \subseteq DOMAIN Spelling
  /\ \A n \in Names \cup Drives : Spelling[n] \in Seq(Chars)
  /\ \A p \in FindPaths : p.comps \in Seq(DOMAIN Spelling \cup {Up}) /\ p.drive \in Drives
  /\ MaxSearches \in Nat /\ MaxLength \in Nat

VARIABLES
  g_find_contexts,     \* handle -> InternalFindContext
  g_next_find_handle,
  guest_ctx,           \* structure -> its handle and pointers
  blocks,              \* heap blocks that hold names
  listing, seen        \* auxiliary: per search, the directory, the entries returned

findVars == <<g_find_contexts, g_next_find_handle, guest_ctx, blocks, listing, seen>>
vars     == <<fsVars, findVars>>

FindInit ==
  /\ Init
  /\ g_find_contexts = <<>>
  /\ g_next_find_handle = 1
  /\ guest_ctx = [x \in Ctxs |-> [unk0 |-> 0, filename |-> NULL, filename_lfn |-> NULL]]
  /\ blocks = {}
  /\ listing = <<>>
  /\ seen = <<>>

Put(f, k, v) == [x \in DOMAIN f \cup {k} |-> IF x = k THEN v ELSE f[x]]
Drop(f, k)   == [x \in DOMAIN f \ {k} |-> f[x]]

-----------------------------------------------------------------------------
\* The entries of a directory, with the attribute the iterator reads.
Entries(dir) ==
  {[name |-> Last(q), attrib |-> IF q \in dirs THEN AM_DIR ELSE AM_ARC] :
     q \in {q \in dirs \cup files : q # <<>> /\ Parent(q) = dir}}

\* wildcard_match and the test of attrib_mask
Matches(c, entry) ==
  /\ wildcard_match(Spelling[c.pattern], Spelling[entry.name])
  /\ c.attrib_mask \in {AM_ANY, entry.attrib}

\* Faulty: the pointers to the freed names are kept at the end of the directory.
NamesKept(c) == c

\* The search once its names are freed.
WithoutNames(c) == [c EXCEPT !.sfn = NULL, !.lfn = NULL]

\* Faulty: the iterator stays on the entry returned.
RestFrom(entries, i) == SubSeq(entries, i, Len(entries))

\* The entries behind the i-th.
RestAfter(entries, i) == SubSeq(entries, i + 1, Len(entries))

\* What DyanmicAlloc may return: gaps and the lengths of names are left out, and a
\* block just freed may be used again.  Where no gap is large enough the program
\* ends there, and so does the behaviour.
Free(inUse) == Addresses \ inUse

\* find_next_internal, on search c, which is or becomes g_find_contexts[h].
FindNextMatch(ctx, h, c) ==
  LET left == blocks \ {c.sfn, c.lfn}
      i    == SelectInSeq(c.iterator, LAMBDA e : Matches(c, e))
  IN  IF i = 0
      THEN /\ g_find_contexts' = Put(g_find_contexts, h, [WithoutNames(c) EXCEPT !.iterator = <<>>])
           /\ guest_ctx' = [guest_ctx EXCEPT ![ctx].unk0 = h]
           /\ blocks' = left
           /\ seen' = Put(seen, h, IF h \in DOMAIN seen THEN seen[h] ELSE <<>>)
      ELSE \E s \in Free(left) : \E l \in Free(left \cup {s}) :
           /\ g_find_contexts' = Put(g_find_contexts, h,
                [c EXCEPT !.iterator = RestAfter(@, i), !.sfn = s, !.lfn = l])
           /\ guest_ctx' = [guest_ctx EXCEPT ![ctx] =
                [unk0 |-> h, filename |-> s, filename_lfn |-> l]]
           /\ blocks' = left \cup {s, l}
           /\ seen' = Put(seen, h, Append(IF h \in DOMAIN seen THEN seen[h] ELSE <<>>,
                                          c.iterator[i]))

\* A directory, or the directory of the name and the name as the pattern.
DirToScan(path) == IF IsDirectory(path) THEN path ELSE Parent(path)
Pattern(path)   == IF IsDirectory(path) THEN AnyName ELSE Last(path)

\* The host lists the directory in an order of its own.  A search that the
\* structure still holds is forgotten there, not closed.
_afindfirst(p, ctx, mask) ==
  LET path == MapVMPathToHost(p)
      dir  == DirToScan(path)
  IN  /\ Call
      /\ IF IsDirectory(dir)
         THEN /\ g_next_find_handle <= MaxSearches
              /\ \E order \in SetToSeqs(Entries(dir)) :
                   /\ listing' = Put(listing, g_next_find_handle, order)
                   /\ FindNextMatch(ctx, g_next_find_handle,
                        [iterator |-> order, pattern |-> Pattern(path),
                         attrib_mask |-> mask, sfn |-> NULL, lfn |-> NULL])
              /\ g_next_find_handle' = g_next_find_handle + 1
         ELSE UNCHANGED findVars
      /\ UNCHANGED <<driveVars, diskVars, tableVars, crashed>>

_afindnext(ctx) ==
  LET h == guest_ctx[ctx].unk0 IN
  /\ Call
  /\ IF h \in DOMAIN g_find_contexts
       THEN FindNextMatch(ctx, h, g_find_contexts[h])
       ELSE UNCHANGED <<g_find_contexts, guest_ctx, blocks, seen>>
  /\ UNCHANGED <<driveVars, diskVars, tableVars, crashed, g_next_find_handle, listing>>

_findclose(ctx) ==
  LET h == guest_ctx[ctx].unk0 IN
  /\ Call
  /\ h \in DOMAIN g_find_contexts
  /\ blocks' = blocks \ {g_find_contexts[h].sfn, g_find_contexts[h].lfn}
  /\ g_find_contexts' = Drop(g_find_contexts, h)
  /\ listing' = Drop(listing, h) /\ seen' = Drop(seen, h)
  /\ guest_ctx' = [guest_ctx EXCEPT ![ctx] = [unk0 |-> 0, filename |-> NULL, filename_lfn |-> NULL]]
  /\ UNCHANGED <<driveVars, diskVars, tableVars, crashed, g_next_find_handle>>

-----------------------------------------------------------------------------
FileStep ==
  \/ \E p \in VMPaths : InBounds(Joined(p)) /\
       \/ \E mode \in {"r", "w"} : _OpenFile(p, mode) \/ __wfopen(p, mode)
       \/ _amkdir(p)
       \/ _achdir(p)
       \/ _aremove(p)
  \/ \E h \in DOMAIN g_vfile_table : _fclose(h) \/ _fwrite(h)

FindStep ==
  \/ \E p \in FindPaths, ctx \in Ctxs, mask \in Masks :
       InBounds(Joined(p)) /\ _afindfirst(p, ctx, mask)
  \/ \E ctx \in Ctxs : _afindnext(ctx) \/ _findclose(ctx)

Next == \/ FileStep /\ UNCHANGED findVars
        \/ FindStep

Spec == FindInit /\ [][Next]_vars

-----------------------------------------------------------------------------
(* Properties. *)

\* A handle reaches the file it was opened for and no other: its FILE is open on
\* that file, which is still there, no two handles share a FILE, and a file holds
\* nothing written through a handle of another one, although the host reuses FILE
\* objects and the table never forgets a handle.
OwnStream ==
  /\ \A h \in DOMAIN g_vfile_table :
       LET v == g_vfile_table[h] IN
       v.fp # NoFile =>
         /\ v.fp \in DOMAIN streams
         /\ streams[v.fp] = v.hostPath
         /\ v.hostPath \in files
  /\ \A h, k \in DOMAIN g_vfile_table :
       h # k /\ g_vfile_table[h].fp = g_vfile_table[k].fp => g_vfile_table[h].fp = NoFile
  /\ \A w \in written : g_vfile_table[w[2]].hostPath = w[1]

\* After a successful change to directory p, a plain name means what p\name
\* meant before, whichever way p was written and whichever drive was current.
ChdirTakesEffect ==
  [][UNCHANGED <<files, written, tableVars, findVars>> =>
       \A p \in VMPaths :
         p.form # "drive" /\ _achdir(p) /\ InBounds(Joined(p)) /\ CanMakeDirs(MapVMPathToHost(p))
         => \A n \in Names :
              MapVMPathToHost([p EXCEPT !.form = "relative", !.comps = <<n>>])'
              = MapVMPathToHost([p EXCEPT !.comps = Append(@, n)])]_vars

Held == {<<h, "sfn", g_find_contexts[h].sfn>> : h \in DOMAIN g_find_contexts} \cup
        {<<h, "lfn", g_find_contexts[h].lfn>> : h \in DOMAIN g_find_contexts}

\* Every block that holds a name belongs to one search that is still known, so
\* that none is leaked and none is freed twice, and the pointers in a structure
\* are those of its search as long as the search stands on an entry.
NamesOwned ==
  /\ blocks = {x[3] : x \in Held} \ {NULL}
  /\ \A x, y \in Held : x # y /\ x[3] = y[3] => x[3] = NULL
  /\ \A ctx \in Ctxs :
       LET h == guest_ctx[ctx].unk0 IN
       h \in DOMAIN g_find_contexts /\ g_find_contexts[h].sfn # NULL =>
         /\ guest_ctx[ctx].filename = g_find_contexts[h].sfn
         /\ guest_ctx[ctx].filename_lfn = g_find_contexts[h].lfn

\* What the firmware asked for, by what the pattern means.
Wanted(c, entry) ==
  /\ Fits(Spelling[c.pattern], Spelling[entry.name])
  /\ c.attrib_mask \in {AM_ANY, entry.attrib}

\* What a search has returned are the entries of the directory that match, each
\* once and in the directory's order, up to the place where the iterator stands,
\* and what it has still to look at is the rest of the directory, however searches
\* are interleaved.
EachEntryOnce ==
  \A h \in DOMAIN g_find_contexts :
    LET c    == g_find_contexts[h]
        all  == listing[h]
        done == Len(all) - Len(c.iterator)
    IN  /\ c.iterator = SubSeq(all, done + 1, Len(all))
        /\ \E place \in [DOMAIN seen[h] -> 1 .. done] :
             /\ \A i, j \in DOMAIN place : i < j => place[i] < place[j]
             /\ \A i \in DOMAIN place : seen[h][i] = all[place[i]]
             /\ Range(place) = {i \in 1 .. done : Wanted(c, all[i])}

\* wildcard_match, which skips stars and tries the rest of the pattern at one place
\* after the other, accepts exactly the names that the pattern stands for: with
\* stars at either end and in a row, with names that are too short or too long,
\* and in capitals or not.  (A fact about all inputs, so it is enough to ask it
\* before the first call.)
PatternsFit ==
  calls = 0 =>
    \A pattern \in BoundedSeq(Chars \cup {Star, AnyOne}, MaxLength),
       text \in BoundedSeq(Chars, MaxLength) :
      wildcard_match(pattern, text) = Fits(pattern, text)
=============================================================================

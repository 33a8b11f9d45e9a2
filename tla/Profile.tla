------------------------------- MODULE Profile -------------------------------
(***************************************************************************)
(* The settings files of the firmware (system.cpp):                        *)
(* _GetPrivateProfileString and _SetPrivateProfileString on one file.      *)
(*                                                                         *)
(* A file is a sequence of lines.  The two handlers read it differently:   *)
(* Get trims lines, names and values and takes the first line that fits,   *)
(* Set compares names as they are written and takes the last one.  Texts   *)
(* are values of a small set, with Trim giving the text without the blanks *)
(* around it; paths, encodings and the length of the caller's buffer are   *)
(* left out.                                                               *)
(***************************************************************************)
EXTENDS Naturals, FiniteSets, SequencesExt, FiniteSetsExt

CONSTANTS
  Texts,      \* names and values
  Trim,       \* a text -> the text without blanks around it
  Empty,      \* the text without characters
  Sections,   \* section names the firmware uses
  Keys,       \* key names it uses
  Values,     \* values it sets
  Defaults,   \* defaults it asks with
  Shipped,    \* the files that may be there when the program is first started
  MaxLines    \* bound: lines of the file

Nothing == "buffer untouched"

Line == [kind : {"header", "pair", "blank", "comment"}, name : Texts, value : Texts,
         indented : BOOLEAN]

ASSUME ProfileAssumption ==
  /\ Trim \in [Texts -> Texts]
  /\ Empty \in Texts /\ Trim[Empty] = Empty
  /\ \A t \in Texts : Trim[Trim[t]] = Trim[t]
  /\ Sections \cup Keys \subseteq {t \in Texts \ {Empty} : Trim[t] = t}
  /\ Values \cup Defaults \subseteq Texts
  /\ Nothing \notin Texts
  /\ Shipped \subseteq Seq(Line)

\* An indented header has blanks before its [ or after its ].
Header(name, indented) ==
  [kind |-> "header", name |-> name, value |-> Empty, indented |-> indented]
Pair(name, value) ==
  [kind |-> "pair", name |-> name, value |-> value, indented |-> FALSE]
Blank   == [kind |-> "blank", name |-> Empty, value |-> Empty, indented |-> FALSE]
Comment == [kind |-> "comment", name |-> Empty, value |-> Empty, indented |-> FALSE]

VARIABLES
  exists,   \* whether the file is there
  lines,    \* its lines
  ret,      \* what the last _SetPrivateProfileString returned
  answer,   \* what the last _GetPrivateProfileString wrote
  crashed,  \* a handler ended the program
  tidy,     \* auxiliary: both handlers read the file it started out as alike
  named     \* auxiliary: the last question answered named a section

vars == <<exists, lines, ret, answer, crashed, tidy, named>>

-----------------------------------------------------------------------------
(* How _GetPrivateProfileString reads a file. *)

\* The section line i belongs to.  Lines above the first header belong to the
\* section without a name, the one a NULL appName asks for.
SectionOf(f, i) ==
  LET above == {j \in 1 .. (i - 1) : f[j].kind = "header"} IN
  IF above = {} THEN Empty ELSE Trim[f[Max(above)].name]

Fits(f, s, k) ==
  {i \in DOMAIN f : f[i].kind = "pair" /\ Trim[f[i].name] = k /\ SectionOf(f, i) = s}

Lookup(f, s, k) ==
  IF Fits(f, s, k) = {} THEN Empty ELSE Trim[f[Min(Fits(f, s, k))].value]

-----------------------------------------------------------------------------
(* How _SetPrivateProfileString reads it.  Nothing is trimmed: an indented   *)
(* header is no header, and a name with blanks is another name.              *)

PlainHeaders(f) == {i \in DOMAIN f : f[i].kind = "header" /\ ~f[i].indented}

HeadersOf(f, s) == {i \in PlainHeaders(f) : f[i].name = s}

\* The last section of that name counts.
SectionStart(f, s) == Max(HeadersOf(f, s))

\* Faulty: sections are taken to reach to the end of the file.
SectionEndOfFile(f, s) == Len(f) + 1

\* The line behind the section.
SectionEnd(f, s) ==
  Min({i \in PlainHeaders(f) : i > SectionStart(f, s)} \cup {Len(f) + 1})

\* The lines of the key, in all sections of the name; the last one is taken.
KeyLines(f, s, k) ==
  {i \in DOMAIN f :
     /\ f[i].kind = "pair" /\ f[i].name = k
     /\ \E h \in HeadersOf(f, s) : h < i /\ \A j \in PlainHeaders(f) : j <= h \/ i < j}

\* The file with a new section at its end, set off by a blank line.
WithSection(f, s, pair) ==
  f \o (IF f # <<>> /\ Last(f) # Blank THEN <<Blank>> ELSE <<>>)
    \o <<Header(s, FALSE), pair>>

\* The file after a key is set, ...
WithPair(f, s, k, v) ==
  IF KeyLines(f, s, k) # {} THEN [f EXCEPT ![Max(KeyLines(f, s, k))] = Pair(k, v)]
  ELSE IF HeadersOf(f, s) # {} THEN InsertAt(f, SectionEnd(f, s), Pair(k, v))
  ELSE WithSection(f, s, Pair(k, v))

\* ... after a key is deleted, ...
WithoutKey(f, s, k) ==
  IF KeyLines(f, s, k) = {} THEN f ELSE RemoveAt(f, Max(KeyLines(f, s, k)))

\* ... and after a section is deleted.
WithoutSection(f, s) ==
  IF HeadersOf(f, s) = {} THEN f
  ELSE SubSeq(f, 1, SectionStart(f, s) - 1) \o SubSeq(f, SectionEnd(f, s), Len(f))

\* A file both handlers read alike: no blanks around names, no indented header,
\* no section and no key of a section twice.
Tidy(f) ==
  /\ \A i \in DOMAIN f : Trim[f[i].name] = f[i].name /\ ~f[i].indented
  /\ \A i, j \in PlainHeaders(f) : f[i].name = f[j].name => i = j
  /\ \A i, j \in DOMAIN f :
       /\ f[i].kind = "pair" /\ f[j].kind = "pair"
       /\ f[i].name = f[j].name /\ SectionOf(f, i) = SectionOf(f, j)
       => i = j

-----------------------------------------------------------------------------
(* The handlers. *)

Init ==
  /\ exists \in BOOLEAN
  /\ lines \in IF exists THEN Shipped ELSE {<<>>}
  /\ tidy = Tidy(lines)
  /\ ret = 0
  /\ answer = Nothing
  /\ crashed = FALSE
  /\ named = FALSE

\* The file is written anew, and made where there was none, or it cannot be
\* opened and stays as it is.
Write(new) ==
  /\ ~crashed
  /\ Len(new) <= MaxLines
  /\ \/ lines' = new /\ exists' = TRUE /\ ret' = 1
     \/ ret' = 0 /\ UNCHANGED <<exists, lines>>
  /\ UNCHANGED <<answer, crashed, tidy, named>>

\* Faulty: a value is kept as it was when the key is there already.
SetKeyKeeping(s, k, v) ==
  Write(IF KeyLines(lines, s, k) # {} THEN lines ELSE WithPair(lines, s, k, v))

SetKey(s, k, v)  == Write(WithPair(lines, s, k, v))
DeleteKey(s, k)  == Write(WithoutKey(lines, s, k))
DeleteSection(s) == Write(WithoutSection(lines, s))

\* appName is NULL, or keyName is NULL and the value is not.
SetRefused ==
  /\ ~crashed
  /\ ret' = 0
  /\ UNCHANGED <<exists, lines, answer, crashed, tidy, named>>

\* Without a file the buffer is left alone.  A file of no bytes leaves the buffer it is read into empty, and writing the
\* terminator behind its last element ends the program.  A key without a value
\* is answered like one that is not there.
Get(s, k, def) ==
  /\ ~crashed
  /\ answer' = IF ~exists THEN Nothing
               ELSE IF lines = <<>> THEN answer
               ELSE IF Lookup(lines, s, k) = Empty THEN def
               ELSE Lookup(lines, s, k)
  /\ crashed' = (exists /\ lines = <<>>)
  /\ named' = IF crashed' THEN named ELSE s # Empty
  /\ UNCHANGED <<exists, lines, ret, tidy>>

\* The program is started again; the file is what it keeps.
Restart ==
  /\ crashed
  /\ crashed' = FALSE
  /\ UNCHANGED <<exists, lines, ret, answer, tidy, named>>

Next ==
  \/ \E s \in Sections :
       \/ DeleteSection(s)
       \/ \E k \in Keys :
            \/ DeleteKey(s, k)
            \/ \E v \in Values : SetKey(s, k, v)
  \/ \E s \in Sections \cup {Empty}, k \in Keys, def \in Defaults : Get(s, k, def)
  \/ SetRefused
  \/ Restart

Spec == Init /\ [][Next]_vars

-----------------------------------------------------------------------------
(* Properties. *)

\* A file the program made itself, or a tidy one it was given, is the table of
\* settings; of any other nothing is said here, nor of questions without a section
\* or without a file.
Store == INSTANCE ProfileStore WITH
  store  <- [x \in Sections \X Keys |-> IF tidy THEN Lookup(lines, x[1], x[2]) ELSE Empty],
  ret    <- IF tidy THEN ret ELSE 0,
  answer <- IF tidy /\ named THEN answer ELSE Nothing

\* Each call that returns does what the abstract specification says of it.
CallsMatch ==
  /\ \A s \in Sections :
       /\ DeleteSection(s) => Store!DeleteSection(s)
       /\ \A k \in Keys :
            /\ DeleteKey(s, k) => Store!Delete(s, k)
            /\ \A v \in Values : SetKey(s, k, v) => Store!Put(s, k, v)
            /\ \A def \in Defaults :
                 exists /\ Get(s, k, def) /\ ~crashed' => Store!Ask(s, k, def)
  /\ SetRefused => Store!Reject

\* As long as the file starts out missing or tidy, every question about a section
\* of a file that is there is answered with the value set last, or else with the
\* default, whatever was set and deleted in between, in this and in other sections,
\* and wherever in the file the lines ended up.
ImplementsStore == Store!Spec /\ [][tidy => CallsMatch]_vars

Settings(f, s) == [k \in Keys |-> Lookup(f, s, k)]

\* With Get's reading, a call changes settings of one section at most, though
\* Set works on line numbers: also in files with several sections of one name,
\* with blanks around names, or with keys above the first header.  (An indented
\* header hides its section from Set, so files with one are left out.)
OneSectionChanges ==
  [][(lines' # lines /\ \A i \in DOMAIN lines : ~lines[i].indented) =>
       Cardinality({s \in Sections \cup {Empty} :
                      Settings(lines, s)' # Settings(lines, s)}) <= 1]_vars

\* A question about a file that is there is answered with the value found or the
\* default: "write foundValue or default into destination buffer".
GetAnswers == ~crashed
=============================================================================

----------------------------- MODULE FileSystem -----------------------------
(***************************************************************************)
(* The firmware's drives on the host's disk (system.cpp): a current drive  *)
(* and a current directory for each drive, the mapping of the firmware's   *)
(* path names to host paths under prime_data, and the table of open files. *)
(*                                                                         *)
(* A host path is the sequence of its components below prime_data, the     *)
(* drive first.  Of what a file contains only the handles through which it *)
(* was written are kept.  FILE objects are kept, since the host gives one  *)
(* out again once it has been closed.                                      *)
(***************************************************************************)
EXTENDS Naturals, Sequences, FiniteSets, SequencesExt

CONSTANTS
  Drives,      \* the drive letters in use
  Names,       \* names of files and directories
  VMPaths,     \* the path names that the firmware passes
  MaxFiles,    \* bound: FILE objects, and handles ever given out
  MaxDepth,    \* bound: components of a host path
  MaxCalls     \* bound: calls the firmware makes

Up == ".."

\* "X:", "X:\c", "\c" and "c"
VMPath == [form : {"drive", "absolute", "rooted", "relative"},
           drive : Drives, comps : Seq(Names \cup {Up})]

ASSUME FileSystemAssumption ==
  /\ VMPaths \subseteq VMPath
  /\ \A p \in VMPaths : (p.comps = <<>>) <=> (p.form = "drive")
  /\ "A" \in Drives
  /\ Up \notin Names \cup Drives
  /\ IsFiniteSet(Drives) /\ IsFiniteSet(Names)
  /\ MaxFiles \in Nat /\ MaxDepth \in Nat /\ MaxCalls \in Nat

VARIABLES
  g_currentDrive,
  g_cwds,          \* drive -> host path
  dirs, files,     \* the host's disk
  written,         \* <<path, handle>>: the file holds data written through it
  streams,         \* FILE objects in use: id -> the host path it is open on
  g_vfile_table,   \* handle -> [fp, hostPath]; entries are never erased
  crashed,         \* fclose(NULL) has ended the process
  calls            \* calls made so far

driveVars == <<g_currentDrive, g_cwds>>
diskVars  == <<dirs, files, written>>
tableVars == <<streams, g_vfile_table>>
fsVars    == <<driveVars, diskVars, tableVars, crashed, calls>>

NoFile == 0
FileIds == 1 .. MaxFiles

\* The drive roots are created before the first call; the disk may hold files of
\* an earlier run.
Init ==
  /\ g_currentDrive = "A"
  /\ g_cwds = [d \in Drives |-> <<d>>]
  /\ dirs = {<<>>} \cup {<<d>> : d \in Drives}
  /\ files \in SUBSET {<<"A", n>> : n \in Names}
  /\ written = {}
  /\ streams = <<>>
  /\ g_vfile_table = <<>>
  /\ crashed = FALSE
  /\ calls = 0

Call == ~crashed /\ calls < MaxCalls /\ calls' = calls + 1

-----------------------------------------------------------------------------
(* Path names. *)

\* fs::path::lexically_normal
Normal(path) ==
  LET upTo[k \in 0 .. Len(path)] ==
        IF k = 0 THEN <<>>
        ELSE IF path[k] = Up THEN Front(upTo[k - 1]) ELSE Append(upTo[k - 1], path[k])
  IN  upTo[Len(path)]

\* Bound: the components lead neither out of the drive nor too deep.
InBounds(path) ==
  /\ Len(Normal(path)) <= MaxDepth
  /\ \A k \in 1 .. Len(path) :
       Cardinality({i \in 1 .. k : path[i] = Up}) * 2 < k

Cwd == g_cwds[g_currentDrive]

\* A leading backslash is stripped: the name is still taken from the current
\* directory.  "X:name" is taken from the root of X, not from its directory.
Joined(p) ==
  IF p.form \in {"drive", "absolute"} THEN <<p.drive>> \o p.comps
                                      ELSE Cwd \o p.comps

MapVMPathToHost(p) == Normal(Joined(p))

-----------------------------------------------------------------------------
(* The host's disk. *)

Parent(path) == Front(path)

IsDirectory(path) == path \in dirs
Exists(path)      == path \in dirs \cup files

\* fs::create_directories throws where a component of the path is a file.
CanMakeDirs(path) == Prefixes(path) \cap files = {}

\* What fopen needs: a file to read, or a place to create it.
Readable(path) == path \in files
Writable(D, path) == path \notin D /\ Parent(path) \in D

-----------------------------------------------------------------------------
(* The table of open files. *)

Writing(mode) == mode = "w"

\* The directories once ensure_parent_dirs_for_hostpath has returned.
WithParents(path) ==
  IF CanMakeDirs(Parent(path)) THEN dirs \cup Prefixes(Parent(path)) ELSE dirs

\* A new FILE on the path, any that is not in use, and a new handle for it.
GiveHandle(path) ==
  /\ Len(g_vfile_table) < MaxFiles
  /\ \E f \in FileIds \ DOMAIN streams :
       /\ streams' = [x \in DOMAIN streams \cup {f} |-> IF x = f THEN path ELSE streams[x]]
       /\ g_vfile_table' = Append(g_vfile_table, [fp |-> f, hostPath |-> path])

\* The data of a path are gone when it is truncated or removed.
Erased(path) == {w \in written : w[1] # path}

\* A second fopen with "b" added to the mode fails like the first.
_OpenFile(p, mode) ==
  LET path == MapVMPathToHost(p)
      D    == IF Writing(mode) THEN WithParents(path) ELSE dirs
      opens == IF Writing(mode) THEN Writable(D, path) ELSE Readable(path)
  IN  /\ Call
      /\ dirs' = D
      /\ IF opens
           THEN /\ GiveHandle(path)
                /\ files' = files \cup {path}
                /\ written' = IF Writing(mode) THEN Erased(path) ELSE written
           ELSE UNCHANGED <<files, written, tableVars>>
      /\ UNCHANGED <<driveVars, crashed>>

\* A missing file is created first, whatever the mode: where that fails, the
\* process ends in fclose(NULL).
__wfopen(p, mode) ==
  LET path == MapVMPathToHost(p)
      D    == IF Writing(mode) THEN WithParents(path) ELSE dirs
  IN  /\ Call
      /\ dirs' = D
      /\ crashed' = (~Exists(path) /\ ~Writable(D, path))
      /\ IF path \notin D /\ ~crashed'
           THEN /\ GiveHandle(path)
                /\ files' = files \cup {path}
                /\ written' = IF Writing(mode) THEN Erased(path) ELSE written
           ELSE UNCHANGED <<files, written, tableVars>>
      /\ UNCHANGED driveVars

Without(f) == [x \in DOMAIN streams \ {f} |-> streams[x]]

\* Faulty: the table keeps the pointer to the closed FILE, as _CloseFile would.
_fcloseKeepsPointer(h) ==
  /\ Call
  /\ streams' = Without(g_vfile_table[h].fp)
  /\ UNCHANGED <<driveVars, diskVars, g_vfile_table, crashed>>

\* A handle that is closed already is closed again without effect.
_fclose(h) ==
  /\ Call
  /\ streams' = Without(g_vfile_table[h].fp)
  /\ g_vfile_table' = [g_vfile_table EXCEPT ![h].fp = NoFile]
  /\ UNCHANGED <<driveVars, diskVars, crashed>>

\* The data go to the file that the FILE is open on and are flushed.
_fwrite(h) ==
  /\ g_vfile_table[h].fp # NoFile
  /\ Call
  /\ written' = written \cup {<<streams[g_vfile_table[h].fp], h>>}
  /\ UNCHANGED <<driveVars, dirs, files, tableVars, crashed>>

-----------------------------------------------------------------------------
(* Directories.  The handlers for wide names do the same. *)

MakeDirs(path) ==
  dirs' = IF CanMakeDirs(path) THEN dirs \cup Prefixes(path) ELSE dirs

\* An existing path, a file too, counts as made.
_amkdir(p) ==
  /\ Call
  /\ MakeDirs(MapVMPathToHost(p))
  /\ UNCHANGED <<driveVars, files, written, tableVars, crashed>>

\* "X:" alone goes back to the directory of that drive.
SelectDrive(p) ==
  /\ p.form = "drive"
  /\ g_currentDrive' = p.drive
  /\ UNCHANGED <<g_cwds, dirs>>

DriveOf(p) == IF p.form = "absolute" THEN p.drive ELSE g_currentDrive

\* Faulty: the directory of the other drive is set, the drive is not selected.
ChangeDirectoryDriveKept(p) ==
  LET path == MapVMPathToHost(p) IN
  /\ p.form # "drive"
  /\ MakeDirs(path)
  /\ g_cwds' = IF CanMakeDirs(path) THEN [g_cwds EXCEPT ![DriveOf(p)] = path] ELSE g_cwds
  /\ UNCHANGED g_currentDrive

\* The directory is created if it is missing; where it cannot be, nothing changes.
ChangeDirectory(p) ==
  LET path == MapVMPathToHost(p) IN
  /\ p.form # "drive"
  /\ MakeDirs(path)
  /\ IF CanMakeDirs(path)
       THEN /\ g_cwds' = [g_cwds EXCEPT ![DriveOf(p)] = path]
            /\ g_currentDrive' = DriveOf(p)
       ELSE UNCHANGED driveVars

_achdir(p) ==
  /\ Call
  /\ SelectDrive(p) \/ ChangeDirectory(p)
  /\ UNCHANGED <<files, written, tableVars, crashed>>

\* fs::remove takes a file that is not open or an empty directory.
Removable(path) ==
  IF path \in files THEN path \notin Range(streams)
                    ELSE \A q \in dirs \cup files : ~IsStrictPrefix(path, q)

_aremove(p) ==
  LET path == MapVMPathToHost(p)
      gone == IF Removable(path) THEN {path} ELSE {}
  IN  /\ Call
      /\ files' = files \ gone
      /\ written' = {w \in written : w[1] \notin gone}
      /\ dirs' = dirs \ gone
      /\ UNCHANGED <<driveVars, tableVars, crashed>>
=============================================================================

----------------------------- MODULE MCFindFiles -----------------------------
(* An instance of FindFiles, and so of FileSystem, for TLC. *)
EXTENDS FindFiles

Path(form, drive, comps) == [form |-> form, drive |-> drive, comps |-> comps]

\* B:  A:\a  \aB  ..
MCVMPaths == {Path("drive", "B", <<>>), Path("absolute", "A", <<"a">>),
              Path("rooted", "A", <<"aB">>), Path("relative", "A", <<Up>>)}

\* A:\*  and  A?
MCFindPaths == {Path("absolute", "A", <<AnyName>>), Path("relative", "A", <<"A?">>)}

MCChars    == {"a", "A", "B"}
MCtolower  == [c \in MCChars |-> IF c = "A" THEN "a" ELSE c]
MCSpelling == [n \in {"A", "B", "a", "aB", AnyName, "A?"} |->
                CASE n = "aB" -> <<"a", "B">> [] n = "A?" -> <<"A", AnyOne>>
                  [] n = AnyName -> <<Star>> [] OTHER -> <<n>>]

\* No handler tells one structure, or one block, from another.
MCSymmetry == Permutations(Ctxs) \cup Permutations(Addresses)
=============================================================================

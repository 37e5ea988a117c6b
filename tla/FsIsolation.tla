------------------------------- MODULE FsIsolation ------------------------------
(***************************************************************************)
(* The isolation of the file system around a test case (pynguin/utils/     *)
(* fs_isolation.py, class FilesystemIsolation): the functions with which   *)
(* code changes the file system are replaced by wrappers that record what  *)
(* they create, refuse to remove or move what is not recorded, and at the  *)
(* end all that is recorded is deleted.                                    *)
(*                                                                         *)
(* The wrappers and what the wrapped functions do to a small tree; how the *)
(* replacement itself nests between threads is part of TestExecutor.       *)
(***************************************************************************)
EXTENDS Naturals, SequencesExt

CONSTANTS
    Names,          \* the names of files and directories
    Depth           \* bound: the length of a path

ASSUME IsolationAssumption == Depth \in Nat \ {0}

Paths == UNION {[1..n -> Names] : n \in 1..Depth}

\* What stood there before the test case, unmodified, and what the test case made.
Real == {"realFile", "realDir"}
Made == {"file", "dir"}
Directories == {"realDir", "dir"}

VARIABLES
    fs,             \* the file system
    created,        \* _created
    context,          \* inside the context, or after it
    overwrites,     \* the test case has written to, recreated or copied to what stood there
    forgets         \* it has renamed a path to itself, or removed a tree in vain

ghosts == <<overwrites, forgets>>
filesVars == <<fs, created, context, ghosts>>

Under(p, q) == IsPrefix(q, p)
Below(p, q) == Under(p, q) /\ p # q
IsDir(p) == fs[p] \in Directories
IsFile(p) == fs[p] \in {"realFile", "file"}
Absent(p) == fs[p] = "absent"
HasParent(p) == Len(p) > 1 => IsDir(Front(p))
IsEmpty(p) == \A q \in Paths : Below(q, p) => Absent(q)

WellFormed(tree) ==
    \A p \in Paths :
        tree[p] # "absent" /\ Len(p) > 1 => tree[Front(p)] \in Directories

--------------------------------------------------------------------------------
FilesInit ==
    /\ fs \in [Paths -> {"absent"} \cup Real] /\ WellFormed(fs)
    /\ created = {}
    /\ context = "inside"
    /\ overwrites = FALSE /\ forgets = FALSE

Inside == context = "inside" /\ UNCHANGED context

\* The bookkeeping of the ghosts: over what the call goes, and what it forgets.
Over(things) == overwrites' = (overwrites \/ things \intersect Real # {})

\* _create_tracked_method: only recorded paths may be removed or moved.
Guarded(p) == Inside /\ p \in created

\* open for writing, write_text, write_bytes, touch, os.open, copy to a file
Write(p) ==
    /\ Inside /\ HasParent(p) /\ ~ IsDir(p)
    /\ Over({fs[p]}) /\ UNCHANGED forgets
    /\ fs' = [fs EXCEPT ![p] = "file"]
    /\ created' = created \cup {p}

\* mkdir; makedirs and mkdir with parents are calls of these wrappers, too.
MakeDir(p) ==
    /\ Inside /\ HasParent(p) /\ Absent(p)
    /\ fs' = [fs EXCEPT ![p] = "dir"]
    /\ created' = created \cup {p}
    /\ UNCHANGED ghosts

\* makedirs or mkdir with exist_ok: nothing is made, and recorded as created.
MakeDirAgain(p) ==
    /\ Inside /\ IsDir(p)
    /\ Over({fs[p]})
    /\ created' = created \cup {p}
    /\ UNCHANGED <<fs, forgets>>

\* copy and copy2 to a directory: the file is recorded by the copyfile they call,
\* the directory because it is the argument.
CopyInto(src, d) ==
    LET dst == Append(d, Last(src)) IN
    /\ Inside /\ IsFile(src) /\ IsDir(d)
    /\ dst \in Paths /\ dst # src /\ ~ IsDir(dst)
    /\ Over({fs[d], fs[dst]}) /\ UNCHANGED forgets
    /\ fs' = [fs EXCEPT ![dst] = "file"]
    /\ created' = created \cup {d, dst}

\* What os.rename makes of the tree: what lay under src lies under dst.
Moved(src, dst) ==
    LET origin(p) == src \o SubSeq(p, Len(dst) + 1, Len(p))
    IN [p \in Paths |->
            IF Under(p, dst) THEN IF origin(p) \in Paths THEN fs[origin(p)] ELSE "absent"
            ELSE IF Under(p, src) THEN "absent" ELSE fs[p]]

Movable(src, dst) ==
    /\ ~ Absent(src) /\ HasParent(dst) /\ ~ Below(dst, src)
    /\ IsFile(src) => ~ IsDir(dst)
    /\ IsDir(src) => ~ IsFile(dst)
    /\ IsDir(dst) /\ src # dst => IsEmpty(dst)
    /\ \A p \in Paths : Under(p, src) /\ ~ Absent(p) => Len(p) - Len(src) + Len(dst) <= Depth

\* The ghosts of a move: it may go over what stood there, or forget what it moves.
Moves(src, dst) ==
    /\ Over(IF src = dst THEN {} ELSE {fs[dst]})
    /\ forgets' = (forgets \/ src = dst)

\* Mutant: the check is left to the end.
RenameUnguarded(src, dst) ==
    /\ Inside /\ Movable(src, dst) /\ Moves(src, dst)
    /\ fs' = Moved(src, dst)
    /\ created' = (created \cup {dst}) \ {src}

\* os.rename, os.replace, and move to a new name: dst is recorded, then src forgotten.
Rename(src, dst) ==
    /\ Guarded(src) /\ Movable(src, dst) /\ Moves(src, dst)
    /\ fs' = Moved(src, dst)
    /\ created' = (created \cup {dst}) \ {src}

\* Path.rename and Path.replace: src is forgotten, then dst recorded.
RenamePath(src, dst) ==
    /\ Guarded(src) /\ Movable(src, dst) /\ Moves(src, dst)
    /\ fs' = Moved(src, dst)
    /\ created' = (created \ {src}) \cup {dst}

\* Mutant: the name of src is appended to the new path once more.
MoveIntoTwice(src, d) ==
    LET dst == Append(d, Last(src)) IN
    /\ Guarded(src) /\ IsDir(d) /\ ~ Under(d, src)
    /\ dst \in Paths /\ Absent(dst) /\ Movable(src, dst)
    /\ Over({fs[d]}) /\ UNCHANGED forgets
    /\ fs' = Moved(src, dst)
    /\ created' = (created \cup {d, Append(dst, Last(src))}) \ {src}

\* move to a directory: the os.rename it calls records the new path, too.
MoveInto(src, d) ==
    LET dst == Append(d, Last(src)) IN
    /\ Guarded(src) /\ IsDir(d) /\ ~ Under(d, src)
    /\ dst \in Paths /\ Absent(dst) /\ Movable(src, dst)
    /\ Over({fs[d]}) /\ UNCHANGED forgets
    /\ fs' = Moved(src, dst)
    /\ created' = (created \cup {d, dst}) \ {src}

\* os.remove, os.unlink, os.rmdir, Path.unlink, Path.rmdir, rmtree of an empty directory
Delete(p) ==
    /\ Guarded(p) /\ ~ Absent(p) /\ IsEmpty(p)
    /\ fs' = [fs EXCEPT ![p] = "absent"]
    /\ created' = created \ {p}
    /\ UNCHANGED ghosts

\* rmtree with ignore_errors of a directory that is not empty: it unlinks the entries
\* by names relative to the directory, which the wrappers take for paths that are not
\* recorded.  The errors are ignored, and the directory is forgotten.
RemoveTree(p) ==
    /\ Guarded(p) /\ IsDir(p) /\ ~ IsEmpty(p)
    /\ created' = created \ {p}
    /\ forgets' = TRUE
    /\ UNCHANGED <<fs, overwrites>>

\* Mutant: recorded paths are deleted with unlink and rmdir only, all at once.
ExitShallow ==
    /\ context = "inside" /\ context' = "left"
    /\ fs' = [p \in Paths |-> IF p \in created /\ IsEmpty(p) THEN "absent" ELSE fs[p]]
    /\ created' = {}
    /\ UNCHANGED ghosts

\* __exit__: every recorded path is deleted, with what is below it.
Cleaned == [p \in Paths |-> IF \E c \in created : Under(p, c) THEN "absent" ELSE fs[p]]

Exit ==
    /\ context = "inside" /\ context' = "left"
    /\ fs' = Cleaned
    /\ created' = {}
    /\ UNCHANGED ghosts

FilesTerminated == context = "left" /\ UNCHANGED filesVars

FilesNext ==
    \/ \E p \in Paths :
        Write(p) \/ MakeDir(p) \/ MakeDirAgain(p) \/ Delete(p) \/ RemoveTree(p)
    \/ \E p, q \in Paths :
        CopyInto(p, q) \/ Rename(p, q) \/ RenamePath(p, q) \/ MoveInto(p, q)
    \/ Exit
    \/ FilesTerminated

FilesSpec == FilesInit /\ [][FilesNext]_filesVars

--------------------------------------------------------------------------------
FilesTypeOK ==
    /\ fs \in [Paths -> {"absent"} \cup Real \cup Made]
    /\ WellFormed(fs)
    /\ created \subseteq Paths
    /\ context \in {"inside", "left"}
    /\ overwrites \in BOOLEAN /\ forgets \in BOOLEAN

\* Whatever the test case calls, and however it moves things around: what stood
\* there before is changed only if it, or a directory above it, was recorded as
\* created by the test case.
UnrecordedRealKept ==
    \A p \in Paths :
        fs[p] \in Real /\ ~ (\E c \in created \cup created' : Under(p, c)) => fs'[p] = fs[p]

\* The docstring, "Automatically cleans up all created files and directories on exit",
\* for code that neither renames a path to itself nor has errors of rmtree ignored.
CleanedUp ==
    context = "left" /\ ~ forgets => \A p \in Paths : fs[p] \notin Made

\* Code that does not write to what exists, recreate it or move something over it, and
\* copies nothing into it, leaves the tree that stood there as it was, and the clean-up
\* does too.
KeptUnlessOverwritten ==
    ~ overwrites' => \A p \in Paths : fs[p] \in Real => fs'[p] = fs[p]

\* Whatever a test case does to the file system: what it has created is gone behind
\* it; what was there is touched only below a path recorded as created, and not at
\* all if the test case did not overwrite it itself (fs_isolation.py).
FilesAreCleanedUp ==
    /\ [](FilesTypeOK /\ CleanedUp)
    /\ [][UnrecordedRealKept /\ KeptUnlessOverwritten]_filesVars

\* The docstring: "Prevents modifications to non-isolated (real) filesystem paths."
RealUntouched == [][\A p \in Paths : fs[p] \in Real => fs'[p] = fs[p]]_filesVars
================================================================================

--------------------------- MODULE MCVirtualFiles ---------------------------
(***************************************************************************)
(* The instance of PosixCompat: two files, of which one has two paths      *)
(* (p1b is p1 without its device), two directories and two threads.        *)
(***************************************************************************)
EXTENDS PosixCompat, TLC

CONSTANTS f1, f2, p1, p1b, p2, x, y, t1, t2

MCFiles == {f1, f2}
MCPaths == {p1, p1b, p2}
MCFileOf == (p1 :> f1) @@ (p1b :> f1) @@ (p2 :> f2)
MCNames == {x, y}
MCThreads == {t1, t2}
MCSymmetry == Permutations(MCNames) \cup Permutations(MCThreads)
=============================================================================

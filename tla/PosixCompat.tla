----------------------------- MODULE PosixCompat -----------------------------
(***************************************************************************)
(* The two tables of posix_compat_horizon.cpp: files and directories.      *)
(* close, dup and fstat tell the handles of the one from those of the      *)
(* other by their numbers, and each table has its own mutex.               *)
(***************************************************************************)
EXTENDS VirtualFiles, DirHandles

CompatInit == Init /\ DirInit

\* Bound: the tables share nothing, so one of them is used at a time.
CompatNext ==
  \/ DirInit /\ Next /\ UNCHANGED dirVars
  \/ Init /\ ~shared /\ DirNext /\ UNCHANGED vars

CompatSpec == CompatInit /\ [][CompatNext]_<<vars, dirVars>>
=============================================================================

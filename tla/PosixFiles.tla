----------------------------- MODULE PosixFiles -----------------------------
(***************************************************************************)
(* What open() and its companions promise to sqlite, Hive and dart:io      *)
(* (the comment on virtual file handles in posix_compat_horizon.cpp,       *)
(* :201-215): a file may be open any number of times, each handle has an   *)
(* offset of its own, and all of them see the file as it is now.           *)
(*                                                                         *)
(* A file holds one value per byte.  Every call is one step.  got is what  *)
(* the last call gave: a byte, if it was a read or pread.                  *)
(***************************************************************************)
EXTENDS Integers, Sequences

CONSTANTS Files, Handles, Values, MaxSize, None

VARIABLES data, fds, got

Contents == UNION {[1 .. n -> Values] : n \in 0 .. MaxSize}
Descriptors == [file : Files, offset : 0 .. MaxSize, append : BOOLEAN]

Init == /\ data \in [Files -> Contents \cup {None}]
        /\ fds = [h \in Handles |-> None]
        /\ got = None

ByteAt(f, n) == IF n < Len(data[f]) THEN data[f][n + 1] ELSE None

\* A file that grows is filled up.
Fill == CHOOSE z \in Values : TRUE

Overwrite(c, n, v) ==
  [i \in 1 .. (IF n < Len(c) THEN Len(c) ELSE n + 1) |->
     IF i = n + 1 THEN v ELSE IF i <= Len(c) THEN c[i] ELSE Fill]

Resized(c, n) == [i \in 1 .. n |-> IF i <= Len(c) THEN c[i] ELSE Fill]

\* A successful open creates or empties the file and starts at its head.
Open(h, f) ==
  /\ fds[h] = None
  /\ data' \in {[data EXCEPT ![f] = c] : c \in {data[f], <<>>}}
  /\ data'[f] # None
  /\ \E a \in BOOLEAN :
       fds' = [fds EXCEPT ![h] = [file |-> f, offset |-> 0, append |-> a]]
  /\ got' = None

\* An open that fails may have created or emptied the file.
OpenFails(f) ==
  /\ data' \in {[data EXCEPT ![f] = c] : c \in {data[f], <<>>}}
  /\ got' = None /\ UNCHANGED fds

Read(h) ==
  /\ fds[h] # None
  /\ LET d == fds[h]
     IN  /\ got' = ByteAt(d.file, d.offset)
         /\ fds' = [fds EXCEPT ![h].offset = IF got' = None THEN @ ELSE @ + 1]
  /\ UNCHANGED data

\* A pread leaves the offset alone, and is independent of it.
Pread(h, n) ==
  /\ fds[h] # None
  /\ got' = ByteAt(fds[h].file, n)
  /\ UNCHANGED <<data, fds>>

Write(h, v) ==
  /\ fds[h] # None
  /\ LET d == fds[h]
         n == IF d.append THEN Len(data[d.file]) ELSE d.offset
     IN  /\ n < MaxSize
         /\ data' = [data EXCEPT ![d.file] = Overwrite(@, n, v)]
         /\ fds' = [fds EXCEPT ![h].offset = n + 1]
  /\ got' = None

Seek(h) ==
  /\ fds[h] # None
  /\ \E n \in 0 .. MaxSize : fds' = [fds EXCEPT ![h].offset = n]
  /\ got' = None /\ UNCHANGED data

Truncate(h) ==
  /\ fds[h] # None
  /\ \E n \in 0 .. MaxSize :
       data' = [data EXCEPT ![fds[h].file] = Resized(@, n)]
  /\ got' = None /\ UNCHANGED fds

\* Unlike POSIX, a duplicate has an offset of its own.
Dup(h, g) ==
  /\ fds[h] # None /\ fds[g] = None
  /\ fds' = [fds EXCEPT ![g] = fds[h]]
  /\ got' = None /\ UNCHANGED data

Close(h) ==
  /\ fds[h] # None
  /\ fds' = [fds EXCEPT ![h] = None]
  /\ got' = None /\ UNCHANGED data

\* A file goes, or takes the place of another, only while it is closed.
Closed(f) == \A h \in Handles : fds[h] = None \/ fds[h].file # f

Unlink(f) ==
  /\ Closed(f) /\ data[f] # None
  /\ data' = [data EXCEPT ![f] = None]
  /\ got' = None /\ UNCHANGED fds

Rename(f, g) ==
  /\ f # g /\ Closed(f) /\ Closed(g) /\ data[f] # None
  /\ data' = [data EXCEPT ![g] = data[f], ![f] = None]
  /\ got' = None /\ UNCHANGED fds

Next ==
  \/ \E f \in Files : OpenFails(f) \/ Unlink(f)
  \/ \E f, g \in Files : Rename(f, g)
  \/ \E h, g \in Handles : Dup(h, g)
  \/ \E h \in Handles :
       \/ \E f \in Files : Open(h, f)
       \/ \E n \in 0 .. MaxSize : Pread(h, n)
       \/ \E v \in Values : Write(h, v)
       \/ Read(h) \/ Seek(h) \/ Truncate(h) \/ Close(h)

Spec == Init /\ [][Next]_<<data, fds, got>>
=============================================================================

---------------------------- MODULE VirtualFiles ----------------------------
(***************************************************************************)
(* The virtual file handles of embedder/src/platform/                      *)
(* posix_compat_horizon.cpp.  Horizon's file service keeps an open file    *)
(* exclusively, so a path has one real descriptor, counted by its          *)
(* references, and every open() a virtual handle with an offset of its     *)
(* own; each access sets the real position first, all under one mutex.     *)
(*                                                                         *)
(* pread and stat are made of several such calls.  Several paths may name  *)
(* one file (with and without the device, relative), but the tables        *)
(* compare the text of the path.                                           *)
(***************************************************************************)
EXTENDS Integers, Sequences, FiniteSets

CONSTANTS
  Files, Paths, Values, None,
  FileOf,        (* path |-> the file it names                              *)
  MaxBases,      (* kMaxBaseFiles                                           *)
  MaxHandles,    (* kMaxVirtualFiles                                        *)
  MaxSize        (* bound: bytes of a file, offsets                         *)

Bases == 1 .. MaxBases
Handles == 1 .. MaxHandles
\* The flags dart:io, Hive and sqlite open with.
Modes == {{}, {"creat"}, {"creat", "excl"}, {"creat", "trunc"},
          {"creat", "append"}}
Contents == UNION {[1 .. n -> Values] : n \in 0 .. MaxSize}
Offsets == 0 .. MaxSize

BaseFile == [path : Paths, pos : Offsets, refs : Nat \ {0}]
VirtualFile == [base : Bases, offset : Offsets, append : BOOLEAN]
PreadJob == [phase : {"seek", "read", "restore"}, handle : Handles,
             target : Offsets, previous : Offsets]
StatProbe == [path : Paths, handle : Handles \cup {None},
              answer : BOOLEAN \cup {None}]

ASSUME VirtualFilesAssumption ==
  /\ FileOf \in [Paths -> Files] /\ Values # {}
  /\ MaxBases \in Nat /\ MaxHandles \in Nat /\ MaxSize \in Nat
  /\ None \notin Files \cup Paths \cup Values \cup Contents
  /\ None \notin Handles /\ None \notin BOOLEAN
  /\ None \notin BaseFile /\ None \notin VirtualFile
  /\ None \notin PreadJob /\ None \notin StatProbe
  /\ None \notin [file : Files, offset : Offsets, append : BOOLEAN]

VARIABLES
  data,    (* the file system: file |-> its bytes, or None                  *)
  held,    (* files the service holds open for a real descriptor            *)
  bases,   (* FileState::bases: path, refs, position of the real descriptor *)
  files,   (* FileState::files: base, offset, append                        *)
  got,     (* what the last read or pread gave                              *)
  job,     (* the pread that runs (they exclude each other)                 *)
  probe,   (* the stat of an open file that runs, its handle, its answer;   *)
           (* bound: one, and not beside a pread                            *)
  shared   (* whether the threads of this program use a handle while a      *)
           (* pread of another runs on it                                   *)

vars == <<data, held, bases, files, got, job, probe, shared>>

Init ==
  /\ data \in [Files -> Contents \cup {None}] /\ held = {}
  /\ bases = [b \in Bases |-> None] /\ files = [h \in Handles |-> None]
  /\ got = None /\ job = None /\ probe = None /\ shared \in BOOLEAN

-----------------------------------------------------------------------------
(***************************************************************************)
(* __wrap_open                                                             *)
(***************************************************************************)
BaseOf(p) == {b \in Bases : bases[b] # None /\ bases[b].path = p}
FreeBases == {b \in Bases : bases[b] = None}
FreeHandles == {h \in Handles : files[h] = None}
IsFirst(n, S) == n \in S /\ \A m \in S : n <= m

\* O_EXCL on a path that is open; or the service refuses: the file is held
\* already, is not there, or is there against O_EXCL.
Refused(p, flags) ==
  \/ BaseOf(p) # {} /\ {"creat", "excl"} \subseteq flags
  \/ /\ BaseOf(p) = {}
     /\ \/ FileOf[p] \in held
        \/ data[FileOf[p]] = None /\ "creat" \notin flags
        \/ data[FileOf[p]] # None /\ {"creat", "excl"} \subseteq flags

\* The file after the real open(), or after ftruncate on its descriptor.
Opened(p, flags) ==
  [data EXCEPT ![FileOf[p]] =
     IF @ = None \/ "trunc" \in flags THEN <<>> ELSE @]

Handle(b, flags) == [base |-> b, offset |-> 0, append |-> "append" \in flags]

\* A path with a base: the new handle shares its real descriptor.
OpenShared(h, p, flags) ==
  /\ ~Refused(p, flags) /\ IsFirst(h, FreeHandles)
  /\ \E b \in BaseOf(p) :
       /\ files' = [files EXCEPT ![h] = Handle(b, flags)]
       /\ bases' = [bases EXCEPT ![b].refs = @ + 1]
  /\ data' = Opened(p, flags)
  /\ UNCHANGED held

OpenNew(h, p, flags) ==
  /\ ~Refused(p, flags) /\ BaseOf(p) = {}
  /\ IsFirst(h, FreeHandles)
  /\ \E b \in Bases :
       /\ IsFirst(b, FreeBases)
       /\ bases' = [bases EXCEPT ![b] = [path |-> p, pos |-> 0, refs |-> 1]]
       /\ files' = [files EXCEPT ![h] = Handle(b, flags)]
  /\ data' = Opened(p, flags)
  /\ held' = held \cup {FileOf[p]}

Open(p, flags) ==
  /\ \E h \in Handles : OpenShared(h, p, flags) \/ OpenNew(h, p, flags)
  /\ got' = None /\ UNCHANGED <<job, probe>>

\* Fault: the real descriptor is not closed when there is no handle for it.
RolledBackNot(p) == held' = held \cup {FileOf[p]}

RolledBack(p) == UNCHANGED held

Exhausted(p) == FreeHandles = {} \/ (BaseOf(p) = {} /\ FreeBases = {})

\* EMFILE: what the real open() or the truncation has done stays.
OpenExhausted(p, flags) ==
  /\ ~Refused(p, flags) /\ Exhausted(p)
  /\ data' = Opened(p, flags)
  /\ RolledBack(p)
  /\ got' = None /\ UNCHANGED <<bases, files, job, probe>>

-----------------------------------------------------------------------------
(***************************************************************************)
(* The calls on a handle.                                                  *)
(***************************************************************************)
InUse(h) == files[h] # None

StatHandles == IF probe = None THEN {} ELSE {probe.handle}
PreadHandles == IF job = None THEN {} ELSE {job.handle}

\* Other threads leave alone what a pread works on, unless they share handles,
\* and do not know the handle of a stat.
Usable(h) ==
  /\ InUse(h)
  /\ h \notin StatHandles
  /\ shared \/ h \notin PreadHandles

FileOfHandle(h) == FileOf[bases[files[h].base].path]

ByteAt(f, n) == IF n < Len(data[f]) THEN data[f][n + 1] ELSE None

\* Fault: the real position is used as the last access has left it.
PositionLeft(h) == bases[files[h].base].pos

\* lseek on the real descriptor, to the handle's own offset.
Position(h) == files[h].offset

\* __wrap_read with ReadWithEofFix: nothing at the end of the file.
ReadStep(h) ==
  LET n == Position(h)
  IN  /\ got' = ByteAt(FileOfHandle(h), n)
      /\ IF got' = None
         THEN /\ UNCHANGED files
              /\ bases' = [bases EXCEPT ![files[h].base].pos = n]
         ELSE /\ files' = [files EXCEPT ![h].offset = @ + 1]
              /\ bases' = [bases EXCEPT ![files[h].base].pos = n + 1]

Read(h) ==
  /\ Usable(h) /\ ReadStep(h)
  /\ UNCHANGED <<data, held, job, probe>>

Fill == CHOOSE v \in Values : TRUE

Overwrite(c, n, v) ==
  [i \in 1 .. (IF n < Len(c) THEN Len(c) ELSE n + 1) |->
     IF i = n + 1 THEN v ELSE IF i <= Len(c) THEN c[i] ELSE Fill]

WritePosition(h) ==
  IF files[h].append THEN Len(data[FileOfHandle(h)]) ELSE Position(h)

Write(h, v) ==
  /\ Usable(h) /\ WritePosition(h) < MaxSize
  /\ LET n == WritePosition(h)
     IN  /\ data' = [data EXCEPT ![FileOfHandle(h)] = Overwrite(@, n, v)]
         /\ files' = [files EXCEPT ![h].offset = n + 1]
         /\ bases' = [bases EXCEPT ![files[h].base].pos = n + 1]
  /\ got' = None /\ UNCHANGED <<held, job, probe>>

\* The service takes nothing: an appending handle stands at the end all the
\* same.
WriteFails(h) ==
  /\ Usable(h) /\ files[h].append
  /\ LET n == WritePosition(h)
     IN  /\ files' = [files EXCEPT ![h].offset = n]
         /\ bases' = [bases EXCEPT ![files[h].base].pos = n]
  /\ got' = None /\ UNCHANGED <<data, held, job, probe>>

\* __wrap_lseek only notes the offset (from the head, from itself, or from
\* the size of the file).
Lseek(h) ==
  /\ Usable(h)
  /\ \E n \in Offsets : files' = [files EXCEPT ![h].offset = n]
  /\ got' = None /\ UNCHANGED <<data, held, bases, job, probe>>

Resized(c, n) == [i \in 1 .. n |-> IF i <= Len(c) THEN c[i] ELSE Fill]

\* Any length: the call is passed on.
Ftruncate(h) ==
  /\ Usable(h)
  /\ \E n \in Offsets :
       data' = [data EXCEPT ![FileOfHandle(h)] = Resized(@, n)]
  /\ got' = None /\ UNCHANGED <<held, bases, files, job, probe>>

Counted(b) == [bases EXCEPT ![b].refs = @ + 1]

\* __wrap_dup copies the offset; the duplicate has its own from then on.
Dup(h) ==
  /\ Usable(h)
  /\ \E g \in Handles :
       IsFirst(g, FreeHandles) /\ files' = [files EXCEPT ![g] = files[h]]
  /\ bases' = Counted(files[h].base)
  /\ got' = None /\ UNCHANGED <<data, held, job, probe>>

LastHandle(b) == bases[b].refs = 1

CloseStep(h) ==
  LET b == files[h].base
  IN  /\ files' = [files EXCEPT ![h] = None]
      /\ IF LastHandle(b)
         THEN /\ bases' = [bases EXCEPT ![b] = None]
              /\ held' = held \ {FileOf[bases[b].path]}
         ELSE bases' = [bases EXCEPT ![b].refs = @ - 1] /\ UNCHANGED held

Close(h) ==
  /\ Usable(h) /\ CloseStep(h)
  /\ got' = None /\ UNCHANGED <<data, job, probe>>

-----------------------------------------------------------------------------
(***************************************************************************)
(* pread: three calls of lseek and one of read, under a mutex that only    *)
(* other preads take.                                                      *)
(***************************************************************************)
PreadBegin(h, n) ==
  /\ Usable(h) /\ job = None /\ probe = None
  /\ job' = [phase |-> "seek", handle |-> h, target |-> n,
             previous |-> files[h].offset]
  /\ UNCHANGED <<data, held, bases, files, got, probe>>

PreadSeek ==
  /\ job # None /\ job.phase = "seek" /\ InUse(job.handle)
  /\ files' = [files EXCEPT ![job.handle].offset = job.target]
  /\ job' = [job EXCEPT !.phase = "read"]
  /\ UNCHANGED <<data, held, bases, got, probe>>

PreadRead ==
  /\ job # None /\ job.phase = "read" /\ InUse(job.handle)
  /\ ReadStep(job.handle)
  /\ job' = [job EXCEPT !.phase = "restore"]
  /\ UNCHANGED <<data, held, probe>>

PreadRestore ==
  /\ job # None /\ job.phase = "restore" /\ InUse(job.handle)
  /\ files' = [files EXCEPT ![job.handle].offset = job.previous]
  /\ job' = None
  /\ UNCHANGED <<data, held, bases, got, probe>>

\* The handle was closed meanwhile: the calls fail.
PreadFails ==
  /\ job # None /\ ~InUse(job.handle)
  /\ job' = None
  /\ UNCHANGED <<data, held, bases, files, got, probe>>

-----------------------------------------------------------------------------
(***************************************************************************)
(* __wrap_stat: stat; if the service refuses because the file is open,     *)
(* open, fstat and close.  The fstat is that of newlib, which does not     *)
(* know the number of a virtual handle.                                    *)
(***************************************************************************)
StatBegin(p) ==
  /\ probe = None /\ job = None /\ FileOf[p] \in held
  /\ probe' = [path |-> p, handle |-> None, answer |-> None]
  /\ UNCHANGED <<data, held, bases, files, got, job>>

Probing == probe # None /\ probe.answer = None

StatOpen ==
  /\ Probing /\ probe.handle = None
  /\ \E h \in Handles :
       /\ OpenShared(h, probe.path, {}) \/ OpenNew(h, probe.path, {})
       /\ probe' = [probe EXCEPT !.handle = h]
  /\ UNCHANGED <<got, job>>

\* EIO here too, as another path holds the file: the answer is a regular file.
StatHeld ==
  /\ Probing /\ probe.handle = None
  /\ Refused(probe.path, {}) /\ FileOf[probe.path] \in held
  /\ probe' = [probe EXCEPT !.answer = TRUE]
  /\ UNCHANGED <<data, held, bases, files, got, job>>

\* The file is gone, or a table is full.
StatOpenFails ==
  /\ Probing /\ probe.handle = None
  /\ \/ Refused(probe.path, {}) /\ FileOf[probe.path] \notin held
     \/ ~Refused(probe.path, {}) /\ Exhausted(probe.path)
  /\ probe' = [probe EXCEPT !.answer = FALSE]
  /\ UNCHANGED <<data, held, bases, files, got, job>>

StatClose ==
  /\ Probing /\ probe.handle # None
  /\ CloseStep(probe.handle)
  /\ probe' = [probe EXCEPT !.handle = None, !.answer = FALSE]
  /\ UNCHANGED <<data, got, job>>

StatReturns ==
  /\ probe # None /\ probe.answer # None
  /\ probe' = None
  /\ UNCHANGED <<data, held, bases, files, got, job>>

-----------------------------------------------------------------------------
(***************************************************************************)
(* unlinkat and renameat pass the path on; the service refuses what is     *)
(* held, and a target that exists (external).                              *)
(***************************************************************************)
Unlink(p) ==
  /\ FileOf[p] \notin held /\ data[FileOf[p]] # None
  /\ data' = [data EXCEPT ![FileOf[p]] = None]
  /\ got' = None /\ UNCHANGED <<held, bases, files, job, probe>>

Rename(p, q) ==
  /\ FileOf[p] # FileOf[q] /\ {FileOf[p], FileOf[q]} \cap held = {}
  /\ data[FileOf[p]] # None /\ data[FileOf[q]] = None
  /\ data' = [data EXCEPT ![FileOf[q]] = data[FileOf[p]], ![FileOf[p]] = None]
  /\ got' = None /\ UNCHANGED <<held, bases, files, job, probe>>

Next ==
  /\ UNCHANGED shared
  /\ \/ \E p \in Paths, flags \in Modes :
          Open(p, flags) \/ OpenExhausted(p, flags)
     \/ \E h \in Handles :
          \/ Read(h) \/ WriteFails(h) \/ Lseek(h) \/ Ftruncate(h) \/ Dup(h)
          \/ Close(h) \/ \E v \in Values : Write(h, v)
          \/ \E n \in Offsets : PreadBegin(h, n)
     \/ PreadSeek \/ PreadRead \/ PreadRestore \/ PreadFails
     \/ \E p \in Paths : StatBegin(p) \/ Unlink(p)
     \/ StatOpen \/ StatHeld \/ StatOpenFails \/ StatClose \/ StatReturns
     \/ \E p, q \in Paths : Rename(p, q)

Spec == Init /\ [][Next]_vars

-----------------------------------------------------------------------------
TypeOK ==
  /\ data \in [Files -> Contents \cup {None}]
  /\ held \subseteq Files
  /\ bases \in [Bases -> BaseFile \cup {None}]
  /\ files \in [Handles -> VirtualFile \cup {None}]
  /\ got \in Values \cup {None}
  /\ job \in PreadJob \cup {None}
  /\ probe \in StatProbe \cup {None}
  /\ shared \in BOOLEAN

\* A base is counted as often as handles refer to it, whatever opens, dups,
\* stats and failures there were: it is closed with the last of them, and
\* never under one.
RefsCounted ==
  \A b \in Bases : bases[b] # None =>
    bases[b].refs =
      Cardinality({h \in Handles : files[h] # None /\ files[h].base = b})

\* And the service holds exactly the files that have a base, and none has two:
\* no failed open leaves a file locked until the program ends.
HeldExactly ==
  /\ RefsCounted
  /\ held = {FileOf[bases[b].path] : b \in Bases \ FreeBases}
  /\ \A b, c \in Bases \ FreeBases :
       FileOf[bases[b].path] = FileOf[bases[c].path] => b = c

\* The handles of the callers: a stat's is its own, and while a pread runs
\* its handle's offset is the one it will restore.
Offset(h) == IF h \in PreadHandles THEN job.previous ELSE files[h].offset

Offered == [h \in Handles |->
  IF files[h] = None \/ h \in StatHandles THEN None
  ELSE [file |-> FileOfHandle(h), offset |-> Offset(h),
        append |-> files[h].append]]

Promise == INSTANCE PosixFiles WITH fds <- Offered

\* Sharing a descriptor is invisible: every handle has its own offset and
\* sees the file as it is (posix_compat_horizon.cpp:201-215), in a program
\* that leaves a handle alone while a pread runs on it.
ImplementsPosixFiles ==
  Promise!Init /\ [][shared \/ Promise!Next]_<<data, Offered, got>>

\* stat answers for an open file (posix_compat_horizon.cpp:738-745).
StatAnswersOpenFiles ==
  probe # None /\ probe.answer # None /\ data[FileOf[probe.path]] # None
    => probe.answer
=============================================================================

----------------------------- MODULE DirHandles -----------------------------
(***************************************************************************)
(* The directory handles of embedder/src/platform/posix_compat_horizon.cpp *)
(* and the *at functions.  Horizon has no descriptors of directories: a    *)
(* handle is an entry in a table that keeps the path it was opened with,   *)
(* and a call relative to it is a call with the joined path.  The table's  *)
(* mutex is held for each access to it, not for the whole call, so that    *)
(* other threads come between.                                             *)
(*                                                                         *)
(* A path is absolute, or relative to the working directory; what it means *)
(* is found out by libnx, in the call that is made with it.                *)
(***************************************************************************)
EXTENDS Naturals, Sequences

CONSTANTS
  Names,
  Threads,
  MaxOpenDirectories   (* kMaxOpenDirectories *)

ASSUME DirHandlesAssumption == MaxOpenDirectories \in Nat

\* Bound: all directories lie in the root.
Directories == {<<>>} \cup {<<name>> : name \in Names}
Texts == [absolute : BOOLEAN, names : Directories]
DirHandles == 1 .. MaxOpenDirectories
NoCall == [op |-> "none"]

VARIABLES
  dirs,      (* the directories that there are *)
  cwd,       (* the working directory *)
  entries,   (* State::entries: handle in use |-> its path *)
  calls,     (* thread |-> the call it is in, with the path it has looked up *)
  opened     (* history: handle a caller has |-> the directory it was opened on, {} once
                that directory, or the working directory of a relative path, is another *)

dirVars == <<dirs, cwd, entries, calls, opened>>

DirInit ==
  /\ dirs = Directories /\ cwd = <<>>
  /\ entries = <<>> /\ opened = <<>>
  /\ calls = [t \in Threads |-> NoCall]

Meaning(text) == IF text.absolute THEN text.names ELSE cwd \o text.names

JoinPath(text, names) == [text EXCEPT !.names = @ \o names]

\* What ResolveAt gives: a path that is absolute or starts at AT_FDCWD, or one that
\* starts at a handle in use and is a copy from then on.
Resolved ==
  Texts \cap ([absolute : BOOLEAN, names : Directories]
                \cup {JoinPath(entries[h], names) : h \in DOMAIN entries, names \in Directories})

-----------------------------------------------------------------------------
InCall(t, call) == calls' = [calls EXCEPT ![t] = call]
Returns(t) == InCall(t, NoCall)

\* PathIsDirectory, of openat.  What is no directory is left to open().
Probe(t) ==
  /\ calls[t] = NoCall
  /\ \E text \in Resolved :
       /\ Meaning(text) \in dirs
       /\ InCall(t, [op |-> "alloc", text |-> text, dir |-> {Meaning(text)}])
  /\ UNCHANGED <<dirs, cwd, entries, opened>>

\* A caller leaves a handle alone while an fdopendir takes it over.
Handed == {calls[t].handle : t \in {u \in Threads : calls[u].op \in {"fdopendir", "release"}}}

\* fdopendir and dup have looked up the path of their handle.
LooksUp(t) ==
  /\ calls[t] = NoCall
  /\ \E h \in DOMAIN opened \ Handed :
       \/ InCall(t, [op |-> "fdopendir", text |-> entries[h], handle |-> h])
       \/ InCall(t, [op |-> "alloc", text |-> entries[h], dir |-> opened[h]])
  /\ UNCHANGED <<dirs, cwd, entries, opened>>

Free == DirHandles \ DOMAIN entries
With(f, h, value) == [g \in DOMAIN f \cup {h} |-> IF g = h THEN value ELSE f[g]]

\* The first free entry.
AllocHandle(t) ==
  /\ calls[t].op = "alloc"
  /\ \E first \in Free :
       /\ \A h \in Free : first <= h
       /\ entries' = With(entries, first, calls[t].text)
       /\ opened' = With(opened, first, calls[t].dir)
  /\ Returns(t)
  /\ UNCHANGED <<dirs, cwd>>

\* EMFILE
TableExhausted(t) ==
  /\ calls[t].op = "alloc" /\ Free = {}
  /\ Returns(t)
  /\ UNCHANGED <<dirs, cwd, entries, opened>>

Without(f, h) == [g \in DOMAIN f \ {h} |-> f[g]]

CloseDir(h) ==
  /\ h \in DOMAIN opened \ Handed
  /\ entries' = Without(entries, h) /\ opened' = Without(opened, h)
  /\ UNCHANGED <<dirs, cwd, calls>>

\* fdopendir: without the directory the handle stays the caller's.
Opendir(t) ==
  /\ calls[t].op = "fdopendir"
  /\ IF Meaning(calls[t].text) \in dirs
     THEN calls' = [calls EXCEPT ![t].op = "release"]
     ELSE Returns(t)
  /\ UNCHANGED <<dirs, cwd, entries, opened>>

\* Fault: the handle that the DIR takes over is not given back.
ReleaseHandleNot(t) ==
  /\ calls[t].op = "release"
  /\ opened' = Without(opened, calls[t].handle)
  /\ Returns(t)
  /\ UNCHANGED <<dirs, cwd, entries>>

ReleaseHandle(t) ==
  /\ calls[t].op = "release"
  /\ entries' = Without(entries, calls[t].handle)
  /\ opened' = Without(opened, calls[t].handle)
  /\ Returns(t)
  /\ UNCHANGED <<dirs, cwd>>

-----------------------------------------------------------------------------
(* The calls to libnx.  One that fails changes nothing.                    *)
Mkdir(text) ==
  /\ Meaning(text) \in Directories \ dirs
  /\ dirs' = dirs \cup {Meaning(text)}
  /\ UNCHANGED <<cwd, entries, calls, opened>>

\* What was opened on these directories or paths no longer stands for a directory.
Lost(gone, texts) ==
  LET left(of, text) == IF text \in texts THEN {} ELSE of \ gone
  IN  /\ opened' = [h \in DOMAIN opened |-> left(opened[h], entries[h])]
      /\ calls' = [t \in Threads |->
                     IF calls[t].op = "alloc"
                     THEN [calls[t] EXCEPT !.dir = left(@, calls[t].text)] ELSE calls[t]]

Rmdir(text) ==
  /\ Meaning(text) \in dirs \ {<<>>}
  /\ dirs' = dirs \ {Meaning(text)}
  /\ Lost({Meaning(text)}, {})
  /\ UNCHANGED <<cwd, entries>>

RenameDir(old, new) ==
  /\ Meaning(old) \in dirs \ {<<>>} /\ Meaning(new) \in Directories \ dirs
  /\ dirs' = (dirs \ {Meaning(old)}) \cup {Meaning(new)}
  /\ Lost({Meaning(old)}, {})
  /\ UNCHANGED <<cwd, entries>>

\* chdir, with any path of Dart's or, from fchdir, with that of a handle
Chdir(text) ==
  /\ Meaning(text) \in dirs \ {cwd}
  /\ cwd' = Meaning(text)
  /\ Lost({}, {relative \in Texts : ~relative.absolute})
  /\ UNCHANGED <<dirs, entries>>

DirNext ==
  \/ \E t \in Threads :
       \/ Probe(t) \/ LooksUp(t) \/ AllocHandle(t) \/ TableExhausted(t)
       \/ Opendir(t) \/ ReleaseHandle(t)
  \/ \E h \in DirHandles : CloseDir(h)
  \/ \E text \in Resolved :
       \/ Mkdir(text) \/ Rmdir(text) \/ Chdir(text)
       \/ \E new \in Resolved : RenameDir(text, new)

-----------------------------------------------------------------------------
(* A handle stands for the directory it was opened on, whatever the        *)
(* threads do at once: the table has an entry for exactly the handles that *)
(* callers have, none is left over and none is given to two, and its path  *)
(* leads to that directory - until the directory is removed or renamed,    *)
(* which the comment at :32-38 grants, or, if the path is relative, until  *)
(* the working directory changes (posix_compat_horizon.cpp:20-25).         *)
HandleStandsForDirectory ==
  /\ DOMAIN entries = DOMAIN opened
  /\ \A h \in DOMAIN opened :
       opened[h] = {} \/ (opened[h] = {Meaning(entries[h])} /\ opened[h] \subseteq dirs)
=============================================================================

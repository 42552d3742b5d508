------------------------ MODULE PosixCompat_proofs ------------------------
(* The tables of the virtual files and of the directories, for every       *)
(* number of paths, bases, handles and threads: what is open is counted    *)
(* and held exactly, the virtual files implement PosixFiles, and a         *)
(* directory handle stands for its directory.                              *)
EXTENDS PosixCompat, SequenceTheorems, FiniteSetTheorems, TLAPS

Users(b) == {h \in Handles : files[h] # None /\ files[h].base = b}

TablesType ==
  /\ data \in [Files -> Contents \cup {None}]
  /\ held \subseteq Files
  /\ bases \in [Bases -> BaseFile \cup {None}]
  /\ files \in [Handles -> VirtualFile \cup {None}]

CallsType ==
  /\ got \in Values \cup {None}
  /\ job \in PreadJob \cup {None}
  /\ probe \in StatProbe \cup {None}
  /\ shared \in BOOLEAN

\* No handle is left without its descriptor, and no descriptor without its file.
Owned == \A h \in Handles : files[h] # None => bases[files[h].base] # None
Present == \A b \in Bases : bases[b] # None => data[FileOf[bases[b].path]] # None

TablesInv == TablesType /\ HeldExactly /\ Owned /\ Present

\* Nobody closes the handle of a pread, or moves it, unless handles are shared.
PreadInv ==
  job # None =>
    /\ probe = None
    /\ shared \/ /\ InUse(job.handle)
                 /\ job.phase = "read" => files[job.handle].offset = job.target

\* A stat closes the handle it has opened, and answers afterwards.
ProbeInv ==
  probe # None =>
    /\ job = None
    /\ probe.handle # None => InUse(probe.handle) /\ probe.answer = None

CallsInv == CallsType /\ PreadInv /\ ProbeInv

FilesInv == TablesInv /\ CallsInv

\* What a step on the handle h leaves to the others.
Elsewhere(h) ==
  \A g \in Handles \ {h} :
    /\ files'[g] = files[g]
    /\ files[g] # None => FileOfHandle(g)' = FileOfHandle(g)

\* A step that opens and closes nothing.
SameShape ==
  /\ \A h \in Handles : files'[h] = None <=> files[h] = None
  /\ \A h \in Handles : files[h] # None => files'[h].base = files[h].base
  /\ \A b \in Bases : bases'[b] = None <=> bases[b] = None
  /\ \A b \in Bases : bases[b] # None =>
       bases'[b].path = bases[b].path /\ bases'[b].refs = bases[b].refs
  /\ held' = held

-----------------------------------------------------------------------------
(* The contents of a file are a sequence no longer than the bound.         *)
LEMMA ContentsFacts ==
  ASSUME NEW c \in Contents
  PROVE  /\ c \in Seq(Values) /\ Len(c) \in Offsets /\ c # None
         /\ c \in [1 .. Len(c) -> Values]
<1>1. PICK n \in Offsets : c \in [1 .. n -> Values]
  BY DEF Contents, Offsets
<1>2. n \in Nat /\ n <= MaxSize
  BY VirtualFilesAssumption DEF Offsets
<1>3. c \in Seq(Values)
  BY <1>1, <1>2, SeqDef
<1>4. DOMAIN c = 1 .. n /\ DOMAIN c = 1 .. Len(c) /\ Len(c) \in Nat
  BY <1>1, <1>3, LenProperties
<1>5. Len(c) = n
  BY <1>2, <1>4
<1> QED
  BY <1>1, <1>3, <1>5, VirtualFilesAssumption DEF Contents

(* Empty contents, for a file that is made or emptied.                     *)
LEMMA EmptyContents == <<>> \in Contents /\ <<>> # None
<1>1. <<>> \in [1 .. 0 -> Values]
  OBVIOUS
<1>2. 0 \in 0 .. MaxSize
  BY VirtualFilesAssumption
<1>3. <<>> \in Contents
  BY <1>1, <1>2 DEF Contents
<1> QED BY <1>3, VirtualFilesAssumption

(* The file after a write of one byte.                                     *)
LEMMA OverwriteContents ==
  ASSUME NEW c \in Contents, NEW v \in Values, NEW n \in Offsets, n < MaxSize
  PROVE  Overwrite(c, n, v) \in Contents
<1> DEFINE m == IF n < Len(c) THEN Len(c) ELSE n + 1
<1>1. m \in 0 .. MaxSize
  BY ContentsFacts, VirtualFilesAssumption DEF Offsets
<1>2. Fill \in Values
  BY DEF Fill
<1>3. \A i \in 1 .. m : i <= Len(c) => c[i] \in Values
  BY ContentsFacts DEF Offsets
<1>4. Overwrite(c, n, v) \in [1 .. m -> Values]
  BY <1>2, <1>3 DEF Overwrite
<1> HIDE DEF m
<1> QED BY <1>1, <1>4 DEF Contents

(* The file after ftruncate.                                               *)
LEMMA ResizedContents ==
  ASSUME NEW c \in Contents, NEW n \in Offsets
  PROVE  Resized(c, n) \in Contents
<1>1. Fill \in Values
  BY VirtualFilesAssumption DEF Fill
<1>2. \A i \in 1 .. n : i <= Len(c) => c[i] \in Values
  BY ContentsFacts DEF Offsets
<1>3. Resized(c, n) \in [1 .. n -> Values]
  BY <1>1, <1>2 DEF Resized
<1> QED BY <1>3 DEF Contents, Offsets

(* The handles are finitely many, so that the users of a base can be       *)
(* counted.                                                                *)
LEMMA UsersFinite ==
  ASSUME NEW b
  PROVE  IsFiniteSet(Users(b)) /\ Cardinality(Users(b)) \in Nat
<1>1. IsFiniteSet(Handles)
  BY FS_Interval, VirtualFilesAssumption DEF Handles
<1> QED BY <1>1, FS_Subset, FS_CardinalityType DEF Users

-----------------------------------------------------------------------------
(* Nothing but the shape of the tables matters to what is counted and held.*)
LEMMA SameShapeKeeps ==
  ASSUME HeldExactly, Owned, TablesType, TablesType', SameShape
  PROVE  /\ HeldExactly' /\ Owned'
         /\ \A h \in Handles : files[h] # None => FileOfHandle(h)' = FileOfHandle(h)
<1>1. \A b : Users(b)' = Users(b)
  <2> SUFFICES ASSUME NEW b PROVE Users(b)' = Users(b)
    OBVIOUS
  <2> QED BY DEF SameShape, Users
<1>2. RefsCounted'
  <2> SUFFICES ASSUME NEW b \in Bases, bases'[b] # None
               PROVE  bases'[b].refs = Cardinality(Users(b)')
    BY DEF RefsCounted, Users
  <2>1. bases[b] # None /\ bases'[b].refs = bases[b].refs
    BY DEF SameShape
  <2>2. bases[b].refs = Cardinality(Users(b))
    BY <2>1 DEF HeldExactly, RefsCounted, Users
  <2> QED BY <1>1, <2>1, <2>2
<1>3. /\ (Bases \ FreeBases)' = Bases \ FreeBases
      /\ \A b \in Bases \ FreeBases : bases'[b].path = bases[b].path
  BY DEF SameShape, FreeBases
<1>4. held' = {FileOf[bases'[b].path] : b \in (Bases \ FreeBases)'}
  BY <1>3 DEF HeldExactly, SameShape
<1>5. HeldExactly'
  BY <1>2, <1>3, <1>4 DEF HeldExactly
<1>6. \A h \in Handles : files[h] # None =>
        files[h].base \in Bases /\ bases[files[h].base] # None
  BY DEF Owned, TablesType, VirtualFile
<1>7. Owned'
  BY <1>6 DEF Owned, SameShape
<1> QED BY <1>5, <1>6, <1>7 DEF SameShape, FileOfHandle

(* A handle more on a descriptor that is there: open of a path that has    *)
(* one, and dup.                                                           *)
LEMMA NewUserKeeps ==
  ASSUME TablesInv, NEW h \in Handles, NEW b \in Bases, NEW file \in VirtualFile,
         files[h] = None, bases[b] # None, file.base = b,
         files' = [files EXCEPT ![h] = file],
         bases' = [bases EXCEPT ![b].refs = @ + 1], held' = held
  PROVE  /\ bases' \in [Bases -> BaseFile \cup {None}]
         /\ files' \in [Handles -> VirtualFile \cup {None}]
         /\ HeldExactly' /\ Owned' /\ Elsewhere(h)
         /\ \A c \in Bases : bases[c] # None <=> bases'[c] # None
         /\ \A c \in Bases : bases[c] # None => bases'[c].path = bases[c].path
<1> USE DEF TablesInv
<1>1. /\ bases[b] \in BaseFile /\ file # None
      /\ bases'[b] = [bases[b] EXCEPT !.refs = @ + 1]
      /\ bases'[b] \in BaseFile /\ bases'[b] # None
      /\ bases'[b].path = bases[b].path /\ bases'[b].refs = bases[b].refs + 1
      /\ \A c \in Bases \ {b} : bases'[c] = bases[c]
  BY VirtualFilesAssumption DEF TablesType, BaseFile
<1>2. /\ files'[h] = file /\ \A g \in Handles \ {h} : files'[g] = files[g]
      /\ files' \in [Handles -> VirtualFile \cup {None}]
  BY DEF TablesType
<1>3. bases' \in [Bases -> BaseFile \cup {None}]
  BY <1>1 DEF TablesType
<1>4. Users(b)' = Users(b) \cup {h} /\ h \notin Users(b)
  BY <1>1, <1>2 DEF Users
<1>5. Cardinality(Users(b)') = Cardinality(Users(b)) + 1
  BY <1>4, UsersFinite, FS_AddElement
<1>6. \A c \in Bases \ {b} : Users(c)' = Users(c)
  <2> SUFFICES ASSUME NEW c \in Bases \ {b} PROVE Users(c)' = Users(c)
    OBVIOUS
  <2> QED BY <1>2 DEF Users
<1>7. RefsCounted'
  <2> SUFFICES ASSUME NEW c \in Bases, bases'[c] # None
               PROVE  bases'[c].refs = Cardinality(Users(c)')
    BY DEF RefsCounted, Users
  <2>1. bases[c] # None /\ bases[c].refs = Cardinality(Users(c))
    BY <1>1 DEF HeldExactly, RefsCounted, Users
  <2>2. CASE c = b
    BY <1>1, <1>5, <2>1, <2>2
  <2>3. CASE c # b
    BY <1>1, <1>6, <2>1, <2>3
  <2> QED BY <2>2, <2>3
<1>8. /\ (Bases \ FreeBases)' = Bases \ FreeBases
      /\ \A c \in Bases \ FreeBases : bases'[c].path = bases[c].path
  BY <1>1 DEF FreeBases
<1>9. HeldExactly'
  <2>1. held' = {FileOf[bases'[c].path] : c \in (Bases \ FreeBases)'}
    BY <1>8 DEF HeldExactly
  <2> QED BY <1>7, <1>8, <2>1 DEF HeldExactly
<1>10. Owned'
  BY <1>1, <1>2 DEF Owned, TablesType, VirtualFile
<1>11. Elsewhere(h)
  BY <1>1, <1>2, <1>10 DEF Elsewhere, FileOfHandle, Owned, TablesType, VirtualFile
<1> QED BY <1>1, <1>2, <1>3, <1>9, <1>10, <1>11

(* The first handle of a path whose file nobody holds.                     *)
LEMMA NewBaseKeeps ==
  ASSUME TablesInv, NEW h \in Handles, NEW b \in Bases, NEW file \in VirtualFile,
         NEW p \in Paths, files[h] = None, bases[b] = None, file.base = b,
         FileOf[p] \notin held,
         files' = [files EXCEPT ![h] = file],
         bases' = [bases EXCEPT ![b] = [path |-> p, pos |-> 0, refs |-> 1]],
         held' = held \cup {FileOf[p]}
  PROVE  /\ bases' \in [Bases -> BaseFile \cup {None}]
         /\ files' \in [Handles -> VirtualFile \cup {None}]
         /\ HeldExactly' /\ Owned' /\ Elsewhere(h)
<1> USE DEF TablesInv
<1>1. /\ bases'[b] = [path |-> p, pos |-> 0, refs |-> 1] /\ file # None
      /\ bases'[b] \in BaseFile /\ bases'[b] # None
      /\ \A c \in Bases \ {b} : bases'[c] = bases[c]
  BY VirtualFilesAssumption DEF TablesType, BaseFile, Offsets
<1>2. /\ files'[h] = file /\ \A g \in Handles \ {h} : files'[g] = files[g]
      /\ files' \in [Handles -> VirtualFile \cup {None}]
  BY DEF TablesType
<1>3. bases' \in [Bases -> BaseFile \cup {None}]
  BY <1>1 DEF TablesType
<1>4. Users(b)' = {h}
  BY <1>1, <1>2 DEF Users, Owned
<1>5. \A c \in Bases \ {b} : Users(c)' = Users(c)
  <2> SUFFICES ASSUME NEW c \in Bases \ {b} PROVE Users(c)' = Users(c)
    OBVIOUS
  <2> QED BY <1>2 DEF Users
<1>6. RefsCounted'
  <2> SUFFICES ASSUME NEW c \in Bases, bases'[c] # None
               PROVE  bases'[c].refs = Cardinality(Users(c)')
    BY DEF RefsCounted, Users
  <2>1. CASE c = b
    <3>1. Cardinality(Users(b)') = 1
      BY <1>4, FS_Singleton
    <3> QED BY <1>1, <2>1, <3>1
  <2>2. CASE c # b
    BY <1>1, <1>5, <2>2 DEF HeldExactly, RefsCounted, Users
  <2> QED BY <2>1, <2>2
<1>7. /\ (Bases \ FreeBases)' = (Bases \ FreeBases) \cup {b}
      /\ \A c \in Bases \ FreeBases : bases'[c] = bases[c]
      /\ bases'[b].path = p
  BY <1>1 DEF FreeBases
<1>8. held' = {FileOf[bases'[c].path] : c \in (Bases \ FreeBases)'}
  BY <1>7 DEF HeldExactly
<1>9. \A c \in Bases \ FreeBases : FileOf[bases[c].path] # FileOf[p]
  BY DEF HeldExactly
<1>10. HeldExactly'
  BY <1>6, <1>7, <1>8, <1>9 DEF HeldExactly
<1>11. Owned'
  BY <1>1, <1>2 DEF Owned, TablesType, VirtualFile
<1>12. Elsewhere(h)
  BY <1>1, <1>2 DEF Elsewhere, FileOfHandle, Owned, TablesType, VirtualFile
<1> QED BY <1>2, <1>3, <1>10, <1>11, <1>12

(* close: the descriptor goes with the last of its handles.                *)
LEMMA CloseKeeps ==
  ASSUME TablesInv, NEW h \in Handles, InUse(h), CloseStep(h)
  PROVE  /\ bases' \in [Bases -> BaseFile \cup {None}]
         /\ files' \in [Handles -> VirtualFile \cup {None}]
         /\ HeldExactly' /\ Owned' /\ Elsewhere(h) /\ files'[h] = None
         /\ \A c \in Bases : bases'[c] # None =>
              bases[c] # None /\ bases'[c].path = bases[c].path
<1> USE DEF TablesInv
<1>0. PICK b : b = files[h].base
  OBVIOUS
<1>1. /\ files[h] # None /\ b \in Bases /\ bases[b] # None
      /\ bases[b] \in BaseFile /\ bases[b].refs \in Nat \ {0}
  BY <1>0 DEF InUse, TablesType, Owned, VirtualFile, BaseFile
<1>2. /\ files' = [files EXCEPT ![h] = None] /\ files'[h] = None
      /\ \A g \in Handles \ {h} : files'[g] = files[g]
      /\ files' \in [Handles -> VirtualFile \cup {None}]
  BY DEF CloseStep, TablesType
<1>3. h \in Users(b) /\ Users(b)' = Users(b) \ {h}
  BY <1>0, <1>1, <1>2 DEF Users
<1>4. /\ Cardinality(Users(b)') = Cardinality(Users(b)) - 1
      /\ bases[b].refs = Cardinality(Users(b))
  <2>1. Cardinality(Users(b) \ {h}) = Cardinality(Users(b)) - 1
    BY <1>3, UsersFinite, FS_RemoveElement
  <2> QED BY <1>1, <1>3, <2>1 DEF HeldExactly, RefsCounted, Users
<1>5. \A c \in Bases \ {b} : Users(c)' = Users(c)
  <2> SUFFICES ASSUME NEW c \in Bases \ {b} PROVE Users(c)' = Users(c)
    OBVIOUS
  <2> QED BY <1>0, <1>1, <1>2 DEF Users
<1>6. CASE bases[b].refs = 1
  <2>1. /\ bases' = [bases EXCEPT ![b] = None]
        /\ held' = held \ {FileOf[bases[b].path]}
    BY <1>0, <1>6 DEF CloseStep, LastHandle
  <2>2. /\ bases'[b] = None /\ \A c \in Bases \ {b} : bases'[c] = bases[c]
        /\ bases' \in [Bases -> BaseFile \cup {None}]
    BY <2>1, <1>1 DEF TablesType
  <2>3. Users(b)' = {}
    <3>1. IsFiniteSet(Users(b)') /\ Cardinality(Users(b)') = 0
      BY <1>3, <1>4, <1>6, UsersFinite, FS_RemoveElement
    <3> QED BY <3>1, FS_EmptySet
  <2>4. RefsCounted'
    <3> SUFFICES ASSUME NEW c \in Bases, bases'[c] # None
                 PROVE  bases'[c].refs = Cardinality(Users(c)')
      BY DEF RefsCounted, Users
    <3> QED BY <1>5, <2>2 DEF HeldExactly, RefsCounted, Users
  <2>5. (Bases \ FreeBases)' = (Bases \ FreeBases) \ {b}
    BY <2>2 DEF FreeBases
  <2>6. held' = {FileOf[bases'[c].path] : c \in (Bases \ FreeBases)'}
    BY <1>1, <2>1, <2>2, <2>5 DEF HeldExactly, FreeBases
  <2>7. HeldExactly'
    BY <2>2, <2>4, <2>5, <2>6 DEF HeldExactly
  <2>8. \A g \in Handles : files'[g] # None =>
          /\ g # h /\ files'[g] = files[g] /\ files[g].base \in Bases \ {b}
    BY <1>2, <2>3 DEF Users, TablesType, VirtualFile
  <2>9. Owned'
    BY <2>2, <2>8 DEF Owned
  <2>10. Elsewhere(h)
    BY <1>2, <2>2, <2>8 DEF Elsewhere, FileOfHandle
  <2> QED BY <1>2, <2>2, <2>7, <2>9, <2>10
<1>7. CASE bases[b].refs # 1
  <2>1. bases' = [bases EXCEPT ![b].refs = @ - 1] /\ held' = held
    BY <1>0, <1>7 DEF CloseStep, LastHandle
  <2>2. /\ bases'[b] = [bases[b] EXCEPT !.refs = @ - 1]
        /\ bases'[b] \in BaseFile /\ bases'[b] # None
        /\ bases'[b].path = bases[b].path /\ bases'[b].refs = bases[b].refs - 1
        /\ \A c \in Bases \ {b} : bases'[c] = bases[c]
    BY <1>1, <1>7, <2>1, VirtualFilesAssumption DEF TablesType, BaseFile
  <2>3. bases' \in [Bases -> BaseFile \cup {None}]
    BY <2>1, <2>2 DEF TablesType
  <2>4. RefsCounted'
    <3> SUFFICES ASSUME NEW c \in Bases, bases'[c] # None
                 PROVE  bases'[c].refs = Cardinality(Users(c)')
      BY DEF RefsCounted, Users
    <3>1. CASE c = b
      BY <1>4, <2>2, <3>1
    <3>2. CASE c # b
      BY <1>5, <2>2, <3>2 DEF HeldExactly, RefsCounted, Users
    <3> QED BY <3>1, <3>2
  <2>5. /\ (Bases \ FreeBases)' = Bases \ FreeBases
        /\ \A c \in Bases \ FreeBases : bases'[c].path = bases[c].path
    BY <1>1, <2>2 DEF FreeBases
  <2>6. held' = {FileOf[bases'[c].path] : c \in (Bases \ FreeBases)'}
    BY <2>1, <2>5 DEF HeldExactly
  <2>7. HeldExactly'
    BY <2>4, <2>5, <2>6 DEF HeldExactly
  <2>8. Owned'
    BY <1>2, <2>2 DEF Owned, TablesType, VirtualFile
  <2>9. Elsewhere(h)
    BY <1>2, <2>2 DEF Elsewhere, FileOfHandle, Owned, TablesType, VirtualFile
  <2> QED BY <1>1, <1>2, <2>2, <2>3, <2>7, <2>8, <2>9
<1> QED BY <1>6, <1>7

-----------------------------------------------------------------------------
(* What a handle in use stands for.                                        *)
LEMMA HandleFacts ==
  ASSUME TablesInv, NEW h \in Handles, InUse(h)
  PROVE  /\ files[h] \in VirtualFile /\ files[h].base \in Bases
         /\ bases[files[h].base] \in BaseFile
         /\ FileOfHandle(h) \in Files /\ FileOfHandle(h) \in held
         /\ data[FileOfHandle(h)] \in Contents
<1>1. files[h] \in VirtualFile /\ files[h].base \in Bases
  BY DEF TablesInv, TablesType, InUse, VirtualFile
<1>2. bases[files[h].base] # None /\ bases[files[h].base] \in BaseFile
  BY <1>1 DEF TablesInv, Owned, TablesType, InUse
<1>3. FileOfHandle(h) \in Files
  BY <1>2, VirtualFilesAssumption DEF FileOfHandle, BaseFile
<1>4. FileOfHandle(h) \in held
  BY <1>1, <1>2 DEF TablesInv, HeldExactly, FreeBases, FileOfHandle
<1>5. data[FileOfHandle(h)] \in Contents
  BY <1>1, <1>2, <1>3 DEF TablesInv, TablesType, Present, FileOfHandle
<1> QED BY <1>1, <1>2, <1>3, <1>4, <1>5

(* A read takes a byte, or nothing from the end on.                        *)
LEMMA ByteAtFacts ==
  ASSUME NEW f, data[f] \in Contents, NEW n \in Offsets
  PROVE  /\ ByteAt(f, n) \in Values \cup {None}
         /\ ByteAt(f, n) # None => n + 1 \in Offsets
<1>1. Len(data[f]) \in Offsets /\ data[f] \in [1 .. Len(data[f]) -> Values]
  BY ContentsFacts
<1>2. MaxSize \in Nat
  BY VirtualFilesAssumption
<1> QED BY <1>1, <1>2 DEF ByteAt, Offsets

(* A step that only moves the offset of a handle, and perhaps the real     *)
(* position.                                                               *)
LEMMA OffsetStep ==
  ASSUME TablesInv, NEW h \in Handles, InUse(h), NEW n \in Offsets,
         files' = [files EXCEPT ![h].offset = n], held' = held,
         bases' = bases
           \/ \E m \in Offsets : bases' = [bases EXCEPT ![files[h].base].pos = m]
  PROVE  /\ bases' \in [Bases -> BaseFile \cup {None}]
         /\ files' \in [Handles -> VirtualFile \cup {None}]
         /\ SameShape
         /\ files'[h] = [files[h] EXCEPT !.offset = n]
         /\ files'[h] # None
         /\ \A g \in Handles \ {h} : files'[g] = files[g]
<1>1. /\ files[h] \in VirtualFile /\ files[h] # None
      /\ files[h].base \in Bases /\ bases[files[h].base] \in BaseFile
  BY HandleFacts DEF InUse
<1>2. /\ files'[h] = [files[h] EXCEPT !.offset = n]
      /\ files'[h] \in VirtualFile /\ files'[h] # None
      /\ files'[h].base = files[h].base
      /\ \A g \in Handles \ {h} : files'[g] = files[g]
      /\ files' \in [Handles -> VirtualFile \cup {None}]
  BY <1>1, VirtualFilesAssumption DEF TablesInv, TablesType, VirtualFile
<1>3. /\ bases' \in [Bases -> BaseFile \cup {None}]
      /\ \A b \in Bases : bases'[b] = None <=> bases[b] = None
      /\ \A b \in Bases : bases[b] # None =>
           bases'[b].path = bases[b].path /\ bases'[b].refs = bases[b].refs
  <2>1. CASE bases' = bases
    BY <2>1 DEF TablesInv, TablesType
  <2>2. ASSUME NEW m \in Offsets, bases' = [bases EXCEPT ![files[h].base].pos = m]
        PROVE  <1>3
    <3>1. PICK b \in Bases : b = files[h].base
      BY <1>1
    <3>2. /\ bases[b] \in BaseFile /\ bases[b] # None
          /\ bases'[b] = [bases[b] EXCEPT !.pos = m]
          /\ bases'[b] \in BaseFile /\ bases'[b] # None
          /\ bases'[b].path = bases[b].path /\ bases'[b].refs = bases[b].refs
          /\ \A c \in Bases \ {b} : bases'[c] = bases[c]
      BY <1>1, <2>2, <3>1, VirtualFilesAssumption
      DEF TablesInv, TablesType, BaseFile
    <3>3. bases' \in [Bases -> BaseFile \cup {None}]
      BY <2>2, <3>1, <3>2 DEF TablesInv, TablesType
    <3> QED BY <3>2, <3>3
  <2> QED BY <2>1, <2>2
<1>4. SameShape
  BY <1>1, <1>2, <1>3 DEF SameShape
<1> QED BY <1>2, <1>3, <1>4

(* A step that opens and closes nothing, and removes no file that is held. *)
LEMMA TablesKept ==
  ASSUME TablesInv, SameShape,
         data' \in [Files -> Contents \cup {None}],
         bases' \in [Bases -> BaseFile \cup {None}],
         files' \in [Handles -> VirtualFile \cup {None}],
         \A f \in held : data[f] # None => data'[f] # None
  PROVE  /\ TablesInv'
         /\ \A h \in Handles : files[h] # None => FileOfHandle(h)' = FileOfHandle(h)
<1>1. TablesType'
  BY DEF TablesInv, TablesType, SameShape
<1>2. /\ HeldExactly' /\ Owned'
      /\ \A h \in Handles : files[h] # None => FileOfHandle(h)' = FileOfHandle(h)
  BY <1>1, SameShapeKeeps DEF TablesInv
<1>3. Present'
  <2> SUFFICES ASSUME NEW b \in Bases, bases'[b] # None
               PROVE  data'[FileOf[bases'[b].path]] # None
    BY DEF Present
  <2>1. bases[b] # None /\ bases'[b].path = bases[b].path
    BY DEF SameShape
  <2>2. FileOf[bases[b].path] \in held /\ data[FileOf[bases[b].path]] # None
    BY <2>1 DEF TablesInv, HeldExactly, FreeBases, Present
  <2> QED BY <2>1, <2>2
<1> QED BY <1>1, <1>2, <1>3 DEF TablesInv

(* What an open does to the file itself.                                   *)
LEMMA OpenedFacts ==
  ASSUME TablesType, NEW p \in Paths, NEW flags
  PROVE  /\ Opened(p, flags) \in [Files -> Contents \cup {None}]
         /\ Opened(p, flags)[FileOf[p]] # None
         /\ \A f \in Files : data[f] # None => Opened(p, flags)[f] # None
         /\ Opened(p, flags)
              \in {[data EXCEPT ![FileOf[p]] = c] : c \in {data[FileOf[p]], <<>>}}
         /\ (data[FileOf[p]] # None /\ "trunc" \notin flags)
              => Opened(p, flags) = data
<1>1. FileOf[p] \in Files /\ data[FileOf[p]] \in Contents \cup {None}
  BY VirtualFilesAssumption DEF TablesType
<1>2. CASE data[FileOf[p]] = None \/ "trunc" \in flags
  <2>1. Opened(p, flags) = [data EXCEPT ![FileOf[p]] = <<>>]
    BY <1>2 DEF Opened
  <2> QED BY <1>1, <1>2, <2>1, EmptyContents DEF TablesType
<1>3. CASE data[FileOf[p]] # None /\ "trunc" \notin flags
  <2>1. Opened(p, flags) = [data EXCEPT ![FileOf[p]] = data[FileOf[p]]]
    BY <1>3 DEF Opened
  <2>2. Opened(p, flags) = data
    BY <2>1 DEF TablesType
  <2> QED BY <1>1, <1>3, <2>1, <2>2 DEF TablesType
<1> QED BY <1>2, <1>3

(* open: the handle is new, stands at the head of its file, and the others *)
(* are left alone; without O_CREAT and O_TRUNC so is the file.             *)
LEMMA OpenKeeps ==
  ASSUME TablesInv, NEW p \in Paths, NEW flags, NEW h \in Handles,
         OpenShared(h, p, flags) \/ OpenNew(h, p, flags)
  PROVE  /\ TablesInv' /\ Elsewhere(h)
         /\ files[h] = None /\ files'[h] # None
         /\ files'[h].offset = 0 /\ files'[h].append = ("append" \in flags)
         /\ FileOfHandle(h)' = FileOf[p]
         /\ data' = Opened(p, flags)
         /\ flags = {} => data' = data
<1>1. files[h] = None /\ ~Refused(p, flags) /\ data' = Opened(p, flags)
  BY DEF OpenShared, OpenNew, IsFirst, FreeHandles
<1>2. TablesType
  BY DEF TablesInv
<1>3. \A b \in Bases : /\ Handle(b, flags) \in VirtualFile
                       /\ Handle(b, flags).base = b
                       /\ Handle(b, flags).offset = 0
                       /\ Handle(b, flags).append = ("append" \in flags)
  BY VirtualFilesAssumption DEF Handle, VirtualFile, Offsets
<1>4. CASE OpenShared(h, p, flags)
  <2>1. PICK b \in BaseOf(p) : /\ files' = [files EXCEPT ![h] = Handle(b, flags)]
                               /\ bases' = [bases EXCEPT ![b].refs = @ + 1]
    BY <1>4 DEF OpenShared
  <2>2. /\ b \in Bases /\ bases[b] # None /\ bases[b].path = p /\ held' = held
    BY <1>4, <2>1 DEF OpenShared, BaseOf
  <2>3. /\ bases' \in [Bases -> BaseFile \cup {None}]
        /\ files' \in [Handles -> VirtualFile \cup {None}]
        /\ HeldExactly' /\ Owned' /\ Elsewhere(h)
        /\ \A c \in Bases : bases[c] # None <=> bases'[c] # None
        /\ \A c \in Bases : bases[c] # None => bases'[c].path = bases[c].path
    BY <1>1, <1>3, <2>1, <2>2, NewUserKeeps
  <2>4. TablesType'
    BY <1>1, <1>2, <2>2, <2>3, OpenedFacts DEF TablesType
  <2>5. \A f \in Files : data[f] # None => data'[f] # None
    BY <1>1, <1>2, OpenedFacts
  <2>6. \A c \in Bases : bases[c] # None => FileOf[bases[c].path] \in Files
    BY <1>2, VirtualFilesAssumption DEF TablesType, BaseFile
  <2>7. Present'
    BY <2>3, <2>5, <2>6 DEF Present, TablesInv
  <2>8. files'[h] = Handle(b, flags) /\ files'[h] # None
    BY <1>2, <1>3, <2>1, <2>2, VirtualFilesAssumption DEF TablesType
  <2>9. FileOfHandle(h)' = FileOf[p]
    BY <1>3, <2>2, <2>3, <2>8 DEF FileOfHandle
  <2>10. data[FileOf[p]] # None
    BY <2>2 DEF TablesInv, Present
  <2>11. flags = {} => data' = data
    BY <1>1, <1>2, <2>10, OpenedFacts
  <2> QED BY <1>1, <1>3, <2>2, <2>3, <2>4, <2>7, <2>8, <2>9, <2>11 DEF TablesInv
<1>5. CASE OpenNew(h, p, flags)
  <2>1. PICK b \in Bases :
          /\ bases[b] = None
          /\ bases' = [bases EXCEPT ![b] = [path |-> p, pos |-> 0, refs |-> 1]]
          /\ files' = [files EXCEPT ![h] = Handle(b, flags)]
    BY <1>5 DEF OpenNew, IsFirst, FreeBases
  <2>2. /\ BaseOf(p) = {} /\ held' = held \cup {FileOf[p]}
        /\ FileOf[p] \notin held /\ FileOf[p] \in Files
    BY <1>1, <1>5, VirtualFilesAssumption DEF OpenNew, Refused
  <2>3. /\ bases' \in [Bases -> BaseFile \cup {None}]
        /\ files' \in [Handles -> VirtualFile \cup {None}]
        /\ HeldExactly' /\ Owned' /\ Elsewhere(h)
    BY <1>1, <1>3, <2>1, <2>2, NewBaseKeeps
  <2>4. TablesType'
    BY <1>1, <1>2, <2>2, <2>3, OpenedFacts DEF TablesType
  <2>5. /\ \A f \in Files : data[f] # None => data'[f] # None
        /\ data'[FileOf[p]] # None
    BY <1>1, <1>2, OpenedFacts
  <2>6. /\ bases'[b].path = p /\ \A c \in Bases \ {b} : bases'[c] = bases[c]
    BY <1>2, <2>1 DEF TablesType
  <2>7. \A c \in Bases : bases[c] # None => FileOf[bases[c].path] \in Files
    BY <1>2, VirtualFilesAssumption DEF TablesType, BaseFile
  <2>8. Present'
    BY <2>5, <2>6, <2>7 DEF Present, TablesInv
  <2>9. files'[h] = Handle(b, flags) /\ files'[h] # None
    BY <1>2, <1>3, <2>1, VirtualFilesAssumption DEF TablesType
  <2>10. FileOfHandle(h)' = FileOf[p]
    BY <1>3, <2>6, <2>9 DEF FileOfHandle
  <2>11. flags = {} => data' = data
    BY <1>1, <1>2, <2>2, OpenedFacts DEF Refused
  <2> QED BY <1>1, <1>3, <2>1, <2>3, <2>4, <2>8, <2>9, <2>10, <2>11 DEF TablesInv
<1> QED BY <1>4, <1>5

-----------------------------------------------------------------------------
\* A step of PosixFiles, as the callers see it, or none.
PromiseStep == shared \/ Promise!Next \/ UNCHANGED <<data, Offered, got>>

Offer(h) ==
  IF files[h] = None \/ h \in StatHandles THEN None
  ELSE [file |-> FileOfHandle(h), offset |-> Offset(h), append |-> files[h].append]

(* What is offered is offered handle by handle.                            *)
LEMMA OfferedAt ==
  /\ Offered = [h \in Handles |-> Offer(h)]
  /\ Offered' = [h \in Handles |-> Offer(h)']
BY DEF Offered, Offer

(* What every handle offers stays, so what is offered does.                *)
LEMMA OfferedSame ==
  ASSUME \A h \in Handles : Offer(h)' = Offer(h)
  PROVE  Offered' = Offered
BY OfferedAt

(* One handle offers something else.                                       *)
LEMMA OfferedExcept ==
  ASSUME NEW h \in Handles, \A g \in Handles \ {h} : Offer(g)' = Offer(g)
  PROVE  Offered' = [Offered EXCEPT ![h] = Offer(h)']
<1> DEFINE F == [Offered EXCEPT ![h] = Offer(h)']
<1>1. F = [g \in Handles |-> IF g = h THEN Offer(h)' ELSE Offer(g)]
  BY OfferedAt
<1>2. F = [g \in Handles |-> Offer(g)']
  BY <1>1
<1> QED BY <1>2, OfferedAt

(* The callers' own handles, while no other thread works on them.          *)
LEMMA OfferFacts ==
  ASSUME FilesInv, NEW h \in Handles, InUse(h), h \notin StatHandles,
         h \notin PreadHandles
  PROVE  /\ Offered[h] = [file |-> FileOfHandle(h), offset |-> files[h].offset,
                          append |-> files[h].append]
         /\ Offered[h] # None /\ Offered[h].file = FileOfHandle(h)
         /\ Offered[h].offset = files[h].offset
<1>1. Offered[h] = [file |-> FileOfHandle(h), offset |-> files[h].offset,
                    append |-> files[h].append]
  BY OfferedAt DEF Offer, Offset, InUse
<1>2. files[h] \in VirtualFile /\ FileOfHandle(h) \in Files
  BY HandleFacts DEF FilesInv
<1>3. Offered[h] \in [file : Files, offset : Offsets, append : BOOLEAN]
  BY <1>1, <1>2 DEF VirtualFile
<1> QED BY <1>1, <1>3, VirtualFilesAssumption

(* A step on one handle, between the steps of a pread or stat on others.   *)
LEMMA OneHandle ==
  ASSUME FilesInv, TablesInv', NEW h \in Handles, Elsewhere(h),
         UNCHANGED <<job, probe, shared>>, got' \in Values \cup {None},
         h \notin StatHandles, shared \/ h \notin PreadHandles
  PROVE  /\ FilesInv'
         /\ Offered' = [Offered EXCEPT ![h] = Offer(h)']
         /\ ~shared => Offer(h)' = IF files'[h] = None THEN None
                                   ELSE [file |-> FileOfHandle(h)',
                                         offset |-> files'[h].offset,
                                         append |-> files'[h].append]
<1>1. \A g \in Handles \ {h} : files'[g] = files[g]
  BY DEF Elsewhere
<1>2. CallsType'
  BY DEF FilesInv, CallsInv, CallsType
<1>3. PreadInv'
  <2> SUFFICES ASSUME job # None
               PROVE  /\ probe = None
                      /\ shared \/ /\ files'[job.handle] # None
                                   /\ job.phase = "read" =>
                                        files'[job.handle].offset = job.target
    BY DEF PreadInv, InUse
  <2>1. job.handle \in Handles
    BY DEF FilesInv, CallsInv, CallsType, PreadJob
  <2>2. shared \/ job.handle # h
    BY DEF PreadHandles
  <2> QED BY <1>1, <2>1, <2>2 DEF FilesInv, CallsInv, PreadInv, InUse
<1>4. ProbeInv'
  <2> SUFFICES ASSUME probe # None
               PROVE  /\ job = None
                      /\ probe.handle # None =>
                           files'[probe.handle] # None /\ probe.answer = None
    BY DEF ProbeInv, InUse
  <2>1. probe.handle \in Handles \cup {None} /\ probe.handle # h
    BY DEF FilesInv, CallsInv, CallsType, StatProbe, StatHandles
  <2> QED BY <1>1, <2>1 DEF FilesInv, CallsInv, ProbeInv, InUse
<1>5. StatHandles' = StatHandles /\ PreadHandles' = PreadHandles
  BY DEF StatHandles, PreadHandles
<1>6. \A g \in Handles \ {h} : Offer(g)' = Offer(g)
  BY <1>1, <1>5 DEF Elsewhere, Offer, Offset
<1>7. ~shared => Offer(h)' = IF files'[h] = None THEN None
                             ELSE [file |-> FileOfHandle(h)',
                                   offset |-> files'[h].offset,
                                   append |-> files'[h].append]
  BY <1>5 DEF Offer, Offset
<1> QED BY <1>2, <1>3, <1>4, <1>6, <1>7, OfferedExcept DEF FilesInv, CallsInv

(* read, write and lseek: one handle moves.                                *)
LEMMA AccessStep ==
  ASSUME FilesInv, NEW h \in Handles, Usable(h), NEW n \in Offsets,
         files' = [files EXCEPT ![h].offset = n], held' = held,
         bases' = bases
           \/ \E m \in Offsets : bases' = [bases EXCEPT ![files[h].base].pos = m],
         data' \in [Files -> Contents \cup {None}],
         \A f \in held : data[f] # None => data'[f] # None,
         got' \in Values \cup {None}, UNCHANGED <<job, probe, shared>>
  PROVE  /\ FilesInv'
         /\ ~shared => Offered' = [Offered EXCEPT ![h].offset = n]
<1>1. /\ h \notin StatHandles /\ (shared \/ h \notin PreadHandles) /\ InUse(h)
      /\ TablesInv
  BY DEF Usable, FilesInv
<1>2. /\ bases' \in [Bases -> BaseFile \cup {None}]
      /\ files' \in [Handles -> VirtualFile \cup {None}]
      /\ SameShape
      /\ files'[h] = [files[h] EXCEPT !.offset = n] /\ files'[h] # None
      /\ \A g \in Handles \ {h} : files'[g] = files[g]
  BY <1>1, OffsetStep
<1>3. /\ TablesInv'
      /\ \A g \in Handles : files[g] # None => FileOfHandle(g)' = FileOfHandle(g)
  BY <1>1, <1>2, TablesKept
<1>4. Elsewhere(h)
  BY <1>2, <1>3 DEF Elsewhere
<1>5. /\ FilesInv' /\ Offered' = [Offered EXCEPT ![h] = Offer(h)']
      /\ ~shared => Offer(h)' = [file |-> FileOfHandle(h)',
                                 offset |-> files'[h].offset,
                                 append |-> files'[h].append]
  BY <1>1, <1>2, <1>3, <1>4, OneHandle
<1>6. ASSUME ~shared
      PROVE  Offered' = [Offered EXCEPT ![h].offset = n]
  <2>1. Offered[h] = [file |-> FileOfHandle(h), offset |-> files[h].offset,
                      append |-> files[h].append]
    BY <1>1, <1>6, OfferFacts
  <2>2. files[h] \in VirtualFile
    BY <1>1, HandleFacts
  <2>3. files'[h].offset = n /\ files'[h].append = files[h].append
    BY <1>2, <2>2 DEF VirtualFile
  <2>4. Offer(h)' = [file |-> FileOfHandle(h), offset |-> n,
                     append |-> files[h].append]
    BY <1>1, <1>3, <1>5, <1>6, <2>3 DEF InUse
  <2>5. Offer(h)' = [Offered[h] EXCEPT !.offset = n]
    BY <2>1, <2>4
  <2> QED BY <1>5, <2>5
<1> QED BY <1>5, <1>6

(* Steps that change the file system only.                                 *)
LEMMA DataStep ==
  ASSUME FilesInv, UNCHANGED <<held, bases, files, job, probe, shared>>,
         data' \in [Files -> Contents \cup {None}], got' \in Values \cup {None},
         \A f \in held : data[f] # None => data'[f] # None
  PROVE  FilesInv' /\ Offered' = Offered
<1>1. SameShape
  BY DEF SameShape
<1>2. TablesInv /\ TablesType
  BY DEF FilesInv, TablesInv
<1>3. /\ TablesInv'
      /\ \A h \in Handles : files[h] # None => FileOfHandle(h)' = FileOfHandle(h)
  BY <1>1, <1>2, TablesKept DEF TablesType
<1>4. CallsInv'
  BY DEF FilesInv, CallsInv, CallsType, PreadInv, ProbeInv, InUse
<1>5. \A h \in Handles : Offer(h)' = Offer(h)
  BY <1>3 DEF Offer, Offset, StatHandles, PreadHandles
<1> QED BY <1>3, <1>4, <1>5, OfferedSame DEF FilesInv

-----------------------------------------------------------------------------
(* The calls of one step each keep the invariant and are steps of          *)
(* PosixFiles.                                                             *)
LEMMA ReadStepFacts ==
  ASSUME FilesInv, NEW h \in Handles, InUse(h), ReadStep(h)
  PROVE  /\ got' = ByteAt(FileOfHandle(h), files[h].offset)
         /\ got' \in Values \cup {None}
         /\ \E n \in Offsets :
              /\ n = IF got' = None THEN files[h].offset ELSE files[h].offset + 1
              /\ files' = [files EXCEPT ![h].offset = n]
         /\ \E m \in Offsets : bases' = [bases EXCEPT ![files[h].base].pos = m]
<1>1. /\ files[h] \in VirtualFile /\ files[h].offset \in Offsets
      /\ data[FileOfHandle(h)] \in Contents
  BY HandleFacts DEF FilesInv, VirtualFile
<1>2. got' = ByteAt(FileOfHandle(h), files[h].offset)
  BY DEF ReadStep, Position
<1>3. /\ got' \in Values \cup {None}
      /\ got' # None => files[h].offset + 1 \in Offsets
  BY <1>1, <1>2, ByteAtFacts
<1>4. CASE got' = None
  <2>1. files' = files /\ bases' = [bases EXCEPT ![files[h].base].pos = files[h].offset]
    BY <1>4 DEF ReadStep, Position
  <2>2. files' = [files EXCEPT ![h].offset = files[h].offset]
    <3>1. files[h] = [files[h] EXCEPT !.offset = files[h].offset]
      BY <1>1 DEF VirtualFile
    <3> QED BY <2>1, <3>1 DEF FilesInv, TablesInv, TablesType
  <2> QED BY <1>1, <1>2, <1>3, <1>4, <2>1, <2>2
<1>5. CASE got' # None
  <2>1. /\ files' = [files EXCEPT ![h].offset = files[h].offset + 1]
        /\ bases' = [bases EXCEPT ![files[h].base].pos = files[h].offset + 1]
    BY <1>5 DEF ReadStep, Position
  <2> QED BY <1>1, <1>2, <1>3, <1>5, <2>1
<1> QED BY <1>4, <1>5

(* read moves its handle by what it has read.                              *)
LEMMA ReadKeeps ==
  ASSUME FilesInv, NEW h \in Handles, Read(h), UNCHANGED shared
  PROVE  FilesInv' /\ PromiseStep
<1>1. Usable(h) /\ InUse(h) /\ ReadStep(h) /\ UNCHANGED <<data, held, job, probe>>
  BY DEF Read, Usable
<1>2. PICK n \in Offsets :
        /\ n = IF got' = None THEN files[h].offset ELSE files[h].offset + 1
        /\ files' = [files EXCEPT ![h].offset = n]
  BY <1>1, ReadStepFacts
<1>3. FilesInv' /\ (~shared => Offered' = [Offered EXCEPT ![h].offset = n])
  BY <1>1, <1>2, ReadStepFacts, AccessStep DEF FilesInv, TablesInv, TablesType
<1>4. ASSUME ~shared PROVE Promise!Read(h)
  <2>1. /\ Offered[h] # None
        /\ Offered[h].file = FileOfHandle(h) /\ Offered[h].offset = files[h].offset
    BY <1>1, <1>4, OfferFacts DEF Usable
  <2>2. got' = Promise!ByteAt(Offered[h].file, Offered[h].offset)
    BY <1>1, <2>1, ReadStepFacts DEF ByteAt, Promise!ByteAt
  <2>3. Offered' = [Offered EXCEPT ![h].offset = IF got' = None THEN @ ELSE @ + 1]
    BY <1>2, <1>3, <1>4, <2>1
  <2> QED BY <1>1, <2>1, <2>2, <2>3 DEF Promise!Read
<1> QED BY <1>3, <1>4 DEF PromiseStep, Promise!Next

(* lseek moves its handle.                                                 *)
LEMMA LseekKeeps ==
  ASSUME FilesInv, NEW h \in Handles, Lseek(h), UNCHANGED shared
  PROVE  FilesInv' /\ PromiseStep
<1>1. PICK n \in Offsets : files' = [files EXCEPT ![h].offset = n]
  BY DEF Lseek
<1>2. /\ Usable(h) /\ InUse(h) /\ got' = None
      /\ UNCHANGED <<data, held, bases, job, probe>>
  BY DEF Lseek, Usable
<1>3. FilesInv' /\ (~shared => Offered' = [Offered EXCEPT ![h].offset = n])
  BY <1>1, <1>2, AccessStep DEF FilesInv, TablesInv, TablesType
<1>4. ASSUME ~shared PROVE Promise!Seek(h)
  <2>1. Offered[h] # None
    BY <1>2, <1>4, OfferFacts DEF Usable
  <2> QED BY <1>2, <1>3, <1>4, <2>1 DEF Promise!Seek, Offsets
<1> QED BY <1>3, <1>4 DEF PromiseStep, Promise!Next

(* Where a write goes: within the bounds, and as PosixFiles says.          *)
LEMMA WritePositionFacts ==
  ASSUME FilesInv, NEW h \in Handles, Usable(h)
  PROVE  /\ WritePosition(h) \in Offsets
         /\ ~shared => WritePosition(h) = IF Offered[h].append
                                          THEN Len(data[Offered[h].file])
                                          ELSE Offered[h].offset
<1>1. InUse(h) /\ h \notin StatHandles /\ (~shared => h \notin PreadHandles)
  BY DEF Usable
<1>2. files[h] \in VirtualFile /\ data[FileOfHandle(h)] \in Contents
  BY <1>1, HandleFacts DEF FilesInv
<1>3. Len(data[FileOfHandle(h)]) \in Offsets
  BY <1>2, ContentsFacts
<1>4. WritePosition(h) \in Offsets
  BY <1>2, <1>3 DEF WritePosition, Position, VirtualFile
<1>5. ~shared =>
        Offered[h] = [file |-> FileOfHandle(h), offset |-> files[h].offset,
                      append |-> files[h].append]
  BY <1>1, OfferFacts
<1> QED BY <1>4, <1>5 DEF WritePosition, Position

(* A write that fails has moved its handle to the end of the file, where   *)
(* it appends, and changed nothing in it.                                  *)
LEMMA WriteFailsKeeps ==
  ASSUME FilesInv, NEW h \in Handles, WriteFails(h), UNCHANGED shared
  PROVE  FilesInv' /\ PromiseStep
<1>1. /\ Usable(h) /\ InUse(h) /\ got' = None /\ UNCHANGED <<data, held, job, probe>>
      /\ files' = [files EXCEPT ![h].offset = WritePosition(h)]
      /\ bases' = [bases EXCEPT ![files[h].base].pos = WritePosition(h)]
  BY DEF WriteFails, Usable
<1>2. WritePosition(h) \in Offsets
  BY <1>1, WritePositionFacts
<1>3. /\ FilesInv'
      /\ ~shared => Offered' = [Offered EXCEPT ![h].offset = WritePosition(h)]
  BY <1>1, <1>2, AccessStep DEF FilesInv, TablesInv, TablesType
<1>4. ASSUME ~shared PROVE Promise!Seek(h)
  <2>1. Offered[h] # None
    BY <1>1, <1>4, OfferFacts DEF Usable
  <2> QED BY <1>1, <1>2, <1>3, <1>4, <2>1 DEF Promise!Seek, Offsets
<1> QED BY <1>3, <1>4 DEF PromiseStep, Promise!Next

(* write changes the file at the place of its handle, or at the end for    *)
(* one that appends.                                                       *)
LEMMA WriteKeeps ==
  ASSUME FilesInv, NEW h \in Handles, NEW v \in Values, Write(h, v), UNCHANGED shared
  PROVE  FilesInv' /\ PromiseStep
<1> DEFINE n == WritePosition(h)
           f == FileOfHandle(h)
<1>1. /\ Usable(h) /\ InUse(h) /\ got' = None /\ UNCHANGED <<held, job, probe>>
      /\ n < MaxSize
      /\ data' = [data EXCEPT ![f] = Overwrite(@, n, v)]
      /\ files' = [files EXCEPT ![h].offset = n + 1]
      /\ bases' = [bases EXCEPT ![files[h].base].pos = n + 1]
  BY DEF Write, Usable
<1>2. n \in Offsets /\ n + 1 \in Offsets
  BY <1>1, WritePositionFacts, VirtualFilesAssumption DEF Offsets
<1>3. f \in Files /\ data[f] \in Contents /\ Overwrite(data[f], n, v) \in Contents
  BY <1>1, <1>2, HandleFacts, OverwriteContents DEF FilesInv
<1>4. /\ data' \in [Files -> Contents \cup {None}]
      /\ \A g \in held : data[g] # None => data'[g] # None
  BY <1>1, <1>3, ContentsFacts DEF FilesInv, TablesInv, TablesType
<1>5. /\ FilesInv'
      /\ ~shared => Offered' = [Offered EXCEPT ![h].offset = n + 1]
  BY <1>1, <1>2, <1>4, AccessStep
<1>6. ASSUME ~shared PROVE Promise!Write(h, v)
  <2>1. Offered[h] # None /\ Offered[h].file = f
    BY <1>1, <1>6, OfferFacts DEF Usable
  <2>2. n = IF Offered[h].append THEN Len(data[Offered[h].file]) ELSE Offered[h].offset
    BY <1>1, <1>6, WritePositionFacts
  <2>3. data' = [data EXCEPT ![f] = Promise!Overwrite(@, n, v)]
    BY <1>1 DEF Overwrite, Fill, Promise!Overwrite, Promise!Fill
  <2> HIDE DEF n, f
  <2> QED BY <1>1, <1>5, <1>6, <2>1, <2>2, <2>3 DEF Promise!Write
<1> QED BY <1>5, <1>6 DEF PromiseStep, Promise!Next

(* ftruncate changes the file and moves nobody.                            *)
LEMMA FtruncateKeeps ==
  ASSUME FilesInv, NEW h \in Handles, Ftruncate(h), UNCHANGED shared
  PROVE  FilesInv' /\ PromiseStep
<1> DEFINE f == FileOfHandle(h)
<1>1. /\ Usable(h) /\ InUse(h) /\ got' = None
      /\ UNCHANGED <<held, bases, files, job, probe>>
  BY DEF Ftruncate, Usable
<1>2. PICK n \in Offsets : data' = [data EXCEPT ![f] = Resized(@, n)]
  BY DEF Ftruncate
<1>3. f \in Files /\ data[f] \in Contents /\ Resized(data[f], n) \in Contents
  BY <1>1, <1>2, HandleFacts, ResizedContents DEF FilesInv
<1>4. /\ data' \in [Files -> Contents \cup {None}]
      /\ \A g \in held : data[g] # None => data'[g] # None
  BY <1>2, <1>3, ContentsFacts DEF FilesInv, TablesInv, TablesType
<1>5. FilesInv' /\ Offered' = Offered
  BY <1>1, <1>4, DataStep
<1>6. ASSUME ~shared PROVE Promise!Truncate(h)
  <2>1. Offered[h] # None /\ Offered[h].file = f
    BY <1>1, <1>6, OfferFacts DEF Usable
  <2>2. data' = [data EXCEPT ![f] = Promise!Resized(@, n)]
    BY <1>2 DEF Resized, Fill, Promise!Resized, Promise!Fill
  <2>3. n \in 0 .. MaxSize
    BY DEF Offsets
  <2> HIDE DEF f
  <2> QED BY <1>1, <1>5, <2>1, <2>2, <2>3 DEF Promise!Truncate
<1> QED BY <1>5, <1>6 DEF PromiseStep, Promise!Next

(* open of a path that is open already shares its descriptor, of another   *)
(* opens it.                                                               *)
LEMMA OpenStepKeeps ==
  ASSUME FilesInv, NEW p \in Paths, NEW flags, Open(p, flags), UNCHANGED shared
  PROVE  FilesInv' /\ PromiseStep
<1>1. PICK h \in Handles : OpenShared(h, p, flags) \/ OpenNew(h, p, flags)
  BY DEF Open
<1>2. got' = None /\ UNCHANGED <<job, probe>> /\ TablesInv
  BY DEF Open, FilesInv
<1>3. /\ TablesInv' /\ Elsewhere(h)
      /\ files[h] = None /\ files'[h] # None
      /\ files'[h].offset = 0 /\ files'[h].append = ("append" \in flags)
      /\ FileOfHandle(h)' = FileOf[p]
      /\ data' = Opened(p, flags)
  BY <1>1, <1>2, OpenKeeps
<1>4. h \notin StatHandles /\ (shared \/ h \notin PreadHandles)
  BY <1>3, VirtualFilesAssumption
  DEF FilesInv, CallsInv, ProbeInv, PreadInv, StatHandles, PreadHandles, InUse
<1>5. /\ FilesInv' /\ Offered' = [Offered EXCEPT ![h] = Offer(h)']
      /\ ~shared => Offer(h)' = [file |-> FileOf[p], offset |-> 0,
                                 append |-> "append" \in flags]
  BY <1>2, <1>3, <1>4, OneHandle
<1>6. ASSUME ~shared PROVE Promise!Open(h, FileOf[p])
  <2>1. Offered[h] = None
    BY <1>3, OfferedAt DEF Offer
  <2>2. /\ data' \in {[data EXCEPT ![FileOf[p]] = c] : c \in {data[FileOf[p]], <<>>}}
        /\ data'[FileOf[p]] # None
    BY <1>2, <1>3, OpenedFacts DEF TablesInv
  <2>3. ("append" \in flags) \in BOOLEAN
    OBVIOUS
  <2> QED BY <1>2, <1>5, <1>6, <2>1, <2>2, <2>3 DEF Promise!Open
<1>7. FileOf[p] \in Files
  BY VirtualFilesAssumption
<1> QED BY <1>5, <1>6, <1>7 DEF PromiseStep, Promise!Next

(* An open that finds no free handle or descriptor leaves no file held.    *)
LEMMA OpenExhaustedKeeps ==
  ASSUME FilesInv, NEW p \in Paths, NEW flags, OpenExhausted(p, flags),
         UNCHANGED shared
  PROVE  FilesInv' /\ PromiseStep
<1>1. /\ got' = None /\ UNCHANGED <<held, bases, files, job, probe>>
      /\ data' = Opened(p, flags) /\ TablesType /\ held \subseteq Files
  BY DEF OpenExhausted, RolledBack, FilesInv, TablesInv, TablesType
<1>2. FilesInv' /\ Offered' = Offered
  BY <1>1, OpenedFacts, DataStep
<1>3. Promise!OpenFails(FileOf[p]) /\ FileOf[p] \in Files
  BY <1>1, <1>2, OpenedFacts, VirtualFilesAssumption DEF Promise!OpenFails
<1> QED BY <1>2, <1>3 DEF PromiseStep, Promise!Next

(* dup: the duplicate starts at the offset of the handle.                  *)
LEMMA DupKeeps ==
  ASSUME FilesInv, NEW h \in Handles, Dup(h), UNCHANGED shared
  PROVE  FilesInv' /\ PromiseStep
<1>1. /\ Usable(h) /\ InUse(h) /\ got' = None /\ UNCHANGED <<data, held, job, probe>>
      /\ TablesInv
      /\ bases' = [bases EXCEPT ![files[h].base].refs = @ + 1]
  BY DEF Dup, Usable, Counted, FilesInv
<1>2. PICK g \in Handles : files[g] = None /\ files' = [files EXCEPT ![g] = files[h]]
  BY DEF Dup, IsFirst, FreeHandles
<1>3. PICK b \in Bases : b = files[h].base
  BY <1>1, HandleFacts
<1>4. /\ files[h] \in VirtualFile /\ files[h] # None /\ bases[b] # None
      /\ files[h].base = b
  BY <1>1, <1>3, HandleFacts DEF TablesInv, Owned, InUse
<1>5. /\ bases' \in [Bases -> BaseFile \cup {None}]
      /\ files' \in [Handles -> VirtualFile \cup {None}]
      /\ HeldExactly' /\ Owned' /\ Elsewhere(g)
      /\ \A c \in Bases : bases[c] # None <=> bases'[c] # None
      /\ \A c \in Bases : bases[c] # None => bases'[c].path = bases[c].path
  BY <1>1, <1>2, <1>3, <1>4, NewUserKeeps
<1>6. TablesInv'
  BY <1>1, <1>5 DEF TablesInv, TablesType, Present
<1>7. g \notin StatHandles /\ (shared \/ g \notin PreadHandles)
  BY <1>2, VirtualFilesAssumption
  DEF FilesInv, CallsInv, ProbeInv, PreadInv, StatHandles, PreadHandles, InUse
<1>8. files'[g] = files[h] /\ FileOfHandle(g)' = FileOfHandle(h)
  <2>1. files'[g] = files[h]
    BY <1>2, <1>1 DEF TablesInv, TablesType
  <2> QED BY <1>3, <1>4, <1>5, <2>1 DEF FileOfHandle
<1>9. /\ FilesInv' /\ Offered' = [Offered EXCEPT ![g] = Offer(g)']
      /\ ~shared => Offer(g)' = [file |-> FileOfHandle(h), offset |-> files[h].offset,
                                 append |-> files[h].append]
  BY <1>1, <1>4, <1>5, <1>6, <1>7, <1>8, OneHandle
<1>10. ASSUME ~shared PROVE Promise!Dup(h, g)
  <2>1. /\ Offered[h] # None
        /\ Offered[h] = [file |-> FileOfHandle(h), offset |-> files[h].offset,
                         append |-> files[h].append]
    BY <1>1, <1>10, OfferFacts DEF Usable
  <2>2. Offered[g] = None
    BY <1>2, OfferedAt DEF Offer
  <2> QED BY <1>1, <1>9, <1>10, <2>1, <2>2 DEF Promise!Dup
<1> QED BY <1>9, <1>10 DEF PromiseStep, Promise!Next

(* A close leaves the tables consistent.                                   *)
LEMMA ClosedTables ==
  ASSUME TablesInv, NEW h \in Handles, InUse(h), CloseStep(h), data' = data
  PROVE  TablesInv'
<1>1. /\ bases' \in [Bases -> BaseFile \cup {None}]
      /\ files' \in [Handles -> VirtualFile \cup {None}]
      /\ HeldExactly' /\ Owned'
      /\ \A c \in Bases : bases'[c] # None =>
           bases[c] # None /\ bases'[c].path = bases[c].path
  BY CloseKeeps
<1>2. held' \subseteq Files
  BY DEF CloseStep, TablesInv, TablesType
<1>3. Present'
  BY <1>1 DEF TablesInv, Present
<1> QED BY <1>1, <1>2, <1>3 DEF TablesInv, TablesType

(* close gives back one handle, and the file with the last.                *)
LEMMA CloseStepKeeps ==
  ASSUME FilesInv, NEW h \in Handles, Close(h), UNCHANGED shared
  PROVE  FilesInv' /\ PromiseStep
<1>1. /\ Usable(h) /\ InUse(h) /\ CloseStep(h) /\ got' = None
      /\ UNCHANGED <<data, job, probe>> /\ TablesInv
  BY DEF Close, Usable, FilesInv
<1>2. TablesInv' /\ Elsewhere(h) /\ files'[h] = None
  BY <1>1, CloseKeeps, ClosedTables
<1>3. /\ FilesInv' /\ Offered' = [Offered EXCEPT ![h] = Offer(h)']
      /\ ~shared => Offer(h)' = None
  BY <1>1, <1>2, OneHandle DEF Usable
<1>4. ASSUME ~shared PROVE Promise!Close(h)
  BY <1>1, <1>3, <1>4, OfferFacts DEF Promise!Close, Usable
<1> QED BY <1>3, <1>4 DEF PromiseStep, Promise!Next

-----------------------------------------------------------------------------
(* A pread: what it does to its own handle nobody else sees, and the byte  *)
(* is that of the promised place.                                          *)
LEMMA JobFacts ==
  ASSUME FilesInv, job # None
  PROVE  /\ job \in PreadJob /\ job.handle \in Handles
         /\ job.target \in Offsets /\ job.previous \in Offsets
         /\ probe = None /\ StatHandles = {} /\ PreadHandles = {job.handle}
BY DEF FilesInv, CallsInv, CallsType, PreadInv, PreadJob, StatHandles, PreadHandles

(* A pread begins: it notes the offset of its handle.                      *)
LEMMA PreadBeginKeeps ==
  ASSUME FilesInv, NEW h \in Handles, NEW n \in Offsets, PreadBegin(h, n),
         UNCHANGED shared
  PROVE  FilesInv' /\ PromiseStep
<1>1. /\ InUse(h) /\ job = None /\ probe = None
      /\ job' = [phase |-> "seek", handle |-> h, target |-> n,
                 previous |-> files[h].offset]
      /\ UNCHANGED <<data, held, bases, files, got, probe>>
  BY DEF PreadBegin, Usable
<1>2. files[h] \in VirtualFile
  BY <1>1, HandleFacts DEF FilesInv
<1>3. TablesInv'
  <2>1. SameShape
    BY <1>1 DEF SameShape
  <2> QED BY <1>1, <2>1, TablesKept DEF FilesInv, TablesInv, TablesType
<1>4. job' \in PreadJob /\ job'.handle = h /\ job'.phase = "seek"
  BY <1>1, <1>2 DEF PreadJob, VirtualFile
<1>5. CallsInv'
  BY <1>1, <1>4 DEF FilesInv, CallsInv, CallsType, PreadInv, ProbeInv, InUse
<1>6. \A g \in Handles : Offer(g)' = Offer(g)
  BY <1>1 DEF Offer, Offset, StatHandles, PreadHandles, FileOfHandle
<1>7. Offered' = Offered
  BY <1>6, OfferedSame
<1> QED BY <1>1, <1>3, <1>5, <1>7 DEF FilesInv, PromiseStep

(* The steps of a pread that move its handle.                              *)
LEMMA PreadMoves ==
  ASSUME FilesInv, job # None, InUse(job.handle), NEW n \in Offsets,
         files' = [files EXCEPT ![job.handle].offset = n],
         bases' = bases \/
           \E m \in Offsets : bases' = [bases EXCEPT ![files[job.handle].base].pos = m],
         UNCHANGED <<data, held, probe, shared>>, got' \in Values \cup {None},
         \/ /\ job' \in PreadJob
            /\ job'.handle = job.handle /\ job'.previous = job.previous
            /\ job'.phase = "read" => job'.target = n
         \/ job' = None /\ n = job.previous
  PROVE  FilesInv' /\ Offered' = Offered
<1>1. PICK h \in Handles : h = job.handle
  BY JobFacts
<1>2. /\ TablesInv /\ probe = None /\ StatHandles = {} /\ PreadHandles = {h}
      /\ files[h] # None
  BY <1>1, JobFacts DEF FilesInv, InUse
<1>3. /\ bases' \in [Bases -> BaseFile \cup {None}]
      /\ files' \in [Handles -> VirtualFile \cup {None}]
      /\ SameShape
      /\ files'[h] = [files[h] EXCEPT !.offset = n] /\ files'[h] # None
      /\ \A g \in Handles \ {h} : files'[g] = files[g]
  BY <1>1, <1>2, OffsetStep
<1>4. /\ TablesInv'
      /\ \A g \in Handles : files[g] # None => FileOfHandle(g)' = FileOfHandle(g)
  BY <1>2, <1>3, TablesKept DEF TablesInv, TablesType
<1>5. files[h] \in VirtualFile
  BY <1>1, <1>2, HandleFacts
<1>6. files'[h].offset = n /\ files'[h].append = files[h].append
  BY <1>3, <1>5 DEF VirtualFile
<1>7. CallsInv'
  BY <1>1, <1>2, <1>3, <1>6, VirtualFilesAssumption
  DEF FilesInv, CallsInv, CallsType, PreadInv, ProbeInv, InUse
<1>8. StatHandles' = {} /\ (PreadHandles' = {h} \/ (PreadHandles' = {} /\ n = job.previous))
  BY <1>1, <1>2, VirtualFilesAssumption DEF StatHandles, PreadHandles
<1>9. Offset(h)' = Offset(h)
  <2>1. Offset(h) = job.previous
    BY <1>2 DEF Offset
  <2>2. CASE job' = None /\ n = job.previous
    BY <1>6, <2>1, <2>2 DEF Offset, PreadHandles
  <2>3. CASE job' \in PreadJob /\ job'.handle = job.handle /\ job'.previous = job.previous
    BY <1>1, <2>1, <2>3, VirtualFilesAssumption DEF Offset, PreadHandles
  <2> QED BY <2>2, <2>3
<1>10. \A g \in Handles \ {h} : Offset(g)' = Offset(g)
  <2> SUFFICES ASSUME NEW g \in Handles \ {h} PROVE Offset(g)' = Offset(g)
    OBVIOUS
  <2>1. g \notin PreadHandles /\ g \notin PreadHandles' /\ files'[g] = files[g]
    BY <1>2, <1>3, <1>8
  <2>2. Offset(g) = files[g].offset
    BY <2>1 DEF Offset
  <2>3. Offset(g)' = files'[g].offset
    BY <2>1 DEF Offset
  <2> QED BY <2>1, <2>2, <2>3
<1>11. \A g \in Handles : Offer(g)' = Offer(g)
  BY <1>2, <1>3, <1>4, <1>6, <1>8, <1>9, <1>10 DEF Offer
<1> QED BY <1>4, <1>7, <1>11, OfferedSame DEF FilesInv

(* It moves its handle to the place that is asked for.                     *)
LEMMA PreadSeekKeeps ==
  ASSUME FilesInv, PreadSeek, UNCHANGED shared
  PROVE  FilesInv' /\ PromiseStep
<1>1. /\ job # None /\ InUse(job.handle)
      /\ files' = [files EXCEPT ![job.handle].offset = job.target]
      /\ job' = [job EXCEPT !.phase = "read"]
      /\ UNCHANGED <<data, held, bases, got, probe>>
  BY DEF PreadSeek
<1>2. /\ job \in PreadJob /\ job.target \in Offsets /\ job' \in PreadJob
      /\ job'.handle = job.handle /\ job'.previous = job.previous
      /\ job'.target = job.target
  BY <1>1, JobFacts DEF PreadJob
<1>3. FilesInv' /\ Offered' = Offered
  BY <1>1, <1>2, PreadMoves DEF FilesInv, CallsInv, CallsType
<1> QED BY <1>1, <1>3 DEF PromiseStep

(* It reads there.                                                         *)
LEMMA PreadReadKeeps ==
  ASSUME FilesInv, PreadRead, UNCHANGED shared
  PROVE  FilesInv' /\ PromiseStep
<1>1. /\ job # None /\ job.phase = "read" /\ InUse(job.handle)
      /\ ReadStep(job.handle)
      /\ job' = [job EXCEPT !.phase = "restore"]
      /\ UNCHANGED <<data, held, probe>>
  BY DEF PreadRead
<1>2. /\ job.handle \in Handles /\ job.target \in Offsets /\ job' \in PreadJob
      /\ job'.handle = job.handle /\ job'.previous = job.previous
      /\ job'.phase = "restore" /\ StatHandles = {} /\ PreadHandles = {job.handle}
  BY <1>1, JobFacts DEF PreadJob
<1>3. /\ got' = ByteAt(FileOfHandle(job.handle), files[job.handle].offset)
      /\ got' \in Values \cup {None}
      /\ \E n \in Offsets : files' = [files EXCEPT ![job.handle].offset = n]
      /\ \E m \in Offsets : bases' = [bases EXCEPT ![files[job.handle].base].pos = m]
  BY <1>1, <1>2, ReadStepFacts
<1>4. FilesInv' /\ Offered' = Offered
  BY <1>1, <1>2, <1>3, PreadMoves
<1>5. ASSUME ~shared PROVE Promise!Pread(job.handle, job.target)
  <2>1. files[job.handle].offset = job.target
    BY <1>1, <1>5 DEF FilesInv, CallsInv, PreadInv
  <2>2. Offered[job.handle] = [file |-> FileOfHandle(job.handle),
                               offset |-> Offset(job.handle),
                               append |-> files[job.handle].append]
    BY <1>1, <1>2, OfferedAt DEF Offer, InUse
  <2>3. files[job.handle] \in VirtualFile /\ FileOfHandle(job.handle) \in Files
    BY <1>1, <1>2, HandleFacts DEF FilesInv
  <2>4. Offset(job.handle) \in Offsets
    BY <1>1, <1>2, JobFacts DEF Offset
  <2>5. Offered[job.handle] \in [file : Files, offset : Offsets, append : BOOLEAN]
    BY <2>2, <2>3, <2>4 DEF VirtualFile
  <2>6. /\ Offered[job.handle] # None
        /\ Offered[job.handle].file = FileOfHandle(job.handle)
    BY <2>2, <2>5, VirtualFilesAssumption
  <2>7. got' = Promise!ByteAt(Offered[job.handle].file, job.target)
    BY <1>3, <2>1, <2>6 DEF ByteAt, Promise!ByteAt
  <2> QED BY <1>1, <1>4, <2>6, <2>7 DEF Promise!Pread
<1> QED BY <1>2, <1>4, <1>5 DEF PromiseStep, Promise!Next, Offsets

(* It moves its handle back, so that for the callers it never moved.       *)
LEMMA PreadRestoreKeeps ==
  ASSUME FilesInv, PreadRestore, UNCHANGED shared
  PROVE  FilesInv' /\ PromiseStep
<1>1. /\ job # None /\ InUse(job.handle)
      /\ files' = [files EXCEPT ![job.handle].offset = job.previous]
      /\ job' = None /\ UNCHANGED <<data, held, bases, got, probe>>
  BY DEF PreadRestore
<1>2. FilesInv' /\ Offered' = Offered
  BY <1>1, JobFacts, PreadMoves DEF FilesInv, CallsInv, CallsType
<1> QED BY <1>1, <1>2 DEF PromiseStep

(* Its handle was closed in between, and the rest of its calls fail.       *)
LEMMA PreadFailsKeeps ==
  ASSUME FilesInv, PreadFails, UNCHANGED shared
  PROVE  FilesInv' /\ PromiseStep
<1>1. /\ job # None /\ ~InUse(job.handle) /\ job' = None
      /\ UNCHANGED <<data, held, bases, files, got, probe>>
  BY DEF PreadFails
<1>2. shared /\ probe = None
  BY <1>1 DEF FilesInv, CallsInv, PreadInv
<1>3. TablesInv'
  <2>1. SameShape
    BY <1>1 DEF SameShape
  <2> QED BY <1>1, <2>1, TablesKept DEF FilesInv, TablesInv, TablesType
<1>4. CallsInv'
  BY <1>1, <1>2 DEF FilesInv, CallsInv, CallsType, PreadInv, ProbeInv
<1> QED BY <1>2, <1>3, <1>4 DEF FilesInv, PromiseStep

-----------------------------------------------------------------------------
(* A stat: its handle is nobody's, and the file stays as it is.            *)
LEMMA ProbeFacts ==
  ASSUME FilesInv, probe # None
  PROVE  /\ probe \in StatProbe /\ probe.path \in Paths
         /\ probe.handle \in Handles \cup {None} /\ job = None
         /\ PreadHandles = {} /\ StatHandles = {probe.handle}
BY DEF FilesInv, CallsInv, CallsType, ProbeInv, StatProbe, StatHandles, PreadHandles

(* The steps of a stat that leave the tables alone.                        *)
LEMMA ProbeStep ==
  ASSUME FilesInv, UNCHANGED <<data, held, bases, files, got, job, shared>>,
         job = None, StatHandles \cap Handles = {},
         \/ probe' = None
         \/ probe' \in StatProbe /\ probe'.handle = None
  PROVE  FilesInv' /\ PromiseStep
<1>1. TablesInv'
  <2>1. SameShape
    BY DEF SameShape
  <2> QED BY <2>1, TablesKept DEF FilesInv, TablesInv, TablesType
<1>2. CallsInv'
  BY DEF FilesInv, CallsInv, CallsType, PreadInv, ProbeInv
<1>3. StatHandles' \cap Handles = {}
  BY VirtualFilesAssumption DEF StatHandles
<1>4. \A h \in Handles : Offer(h)' = Offer(h)
  BY <1>3 DEF Offer, Offset, PreadHandles, FileOfHandle
<1> QED BY <1>1, <1>2, <1>4, OfferedSame DEF FilesInv, PromiseStep

(* The service refuses a stat of a file that is open; the calls that       *)
(* follow begin.                                                           *)
LEMMA StatBeginKeeps ==
  ASSUME FilesInv, NEW p \in Paths, StatBegin(p), UNCHANGED shared
  PROVE  FilesInv' /\ PromiseStep
<1>1. /\ probe = None /\ job = None
      /\ probe' = [path |-> p, handle |-> None, answer |-> None]
      /\ UNCHANGED <<data, held, bases, files, got, job>>
  BY DEF StatBegin
<1>2. probe' \in StatProbe /\ probe'.handle = None /\ StatHandles = {}
  BY <1>1 DEF StatProbe, StatHandles
<1> QED BY <1>1, <1>2, ProbeStep

(* Its open fails, since another path holds the file, the file is gone or  *)
(* the tables are full, and the answer needs no handle.                    *)
LEMMA StatAnswerKeeps ==
  ASSUME FilesInv, StatHeld \/ StatOpenFails, UNCHANGED shared
  PROVE  FilesInv' /\ PromiseStep
<1>1. /\ probe # None /\ probe.handle = None
      /\ \E a \in BOOLEAN : probe' = [probe EXCEPT !.answer = a]
      /\ UNCHANGED <<data, held, bases, files, got, job>>
  BY DEF StatHeld, StatOpenFails, Probing
<1>2. probe' \in StatProbe /\ probe'.handle = None
  BY <1>1, ProbeFacts DEF StatProbe
<1>3. job = None /\ StatHandles = {None}
  BY <1>1, ProbeFacts
<1> QED BY <1>1, <1>2, <1>3, ProbeStep, VirtualFilesAssumption

(* It returns its answer.                                                  *)
LEMMA StatReturnsKeeps ==
  ASSUME FilesInv, StatReturns, UNCHANGED shared
  PROVE  FilesInv' /\ PromiseStep
<1>1. /\ probe # None /\ probe' = None
      /\ UNCHANGED <<data, held, bases, files, got, job>>
  BY DEF StatReturns
<1>2. probe.handle = None
  BY DEF StatReturns, FilesInv, CallsInv, ProbeInv
<1>3. job = None /\ StatHandles = {None}
  BY <1>1, <1>2, ProbeFacts
<1> QED BY <1>1, <1>3, ProbeStep, VirtualFilesAssumption

(* It opens a file that nobody holds, with a handle no caller has.         *)
LEMMA StatOpenKeeps ==
  ASSUME FilesInv, StatOpen, UNCHANGED shared
  PROVE  FilesInv' /\ PromiseStep
<1>1. /\ probe # None /\ probe.answer = None /\ probe.handle = None
      /\ UNCHANGED <<got, job>> /\ TablesInv
  BY DEF StatOpen, Probing, FilesInv
<1>2. PICK h \in Handles :
        /\ OpenShared(h, probe.path, {}) \/ OpenNew(h, probe.path, {})
        /\ probe' = [probe EXCEPT !.handle = h]
  BY DEF StatOpen
<1>3. /\ probe \in StatProbe /\ probe.path \in Paths /\ job = None
      /\ PreadHandles = {} /\ StatHandles = {None}
  BY <1>1, ProbeFacts
<1>4. /\ TablesInv' /\ Elsewhere(h) /\ files[h] = None /\ files'[h] # None
      /\ data' = data
  BY <1>1, <1>2, <1>3, OpenKeeps
<1>5. /\ probe' \in StatProbe /\ probe'.handle = h /\ probe'.answer = None
      /\ StatHandles' = {h} /\ PreadHandles' = {}
  BY <1>1, <1>2, <1>3, VirtualFilesAssumption DEF StatProbe, StatHandles, PreadHandles
<1>6. CallsInv'
  BY <1>1, <1>3, <1>4, <1>5 DEF FilesInv, CallsInv, CallsType, PreadInv, ProbeInv, InUse
<1>7. Offer(h) = None /\ Offer(h)' = None
  BY <1>4, <1>5 DEF Offer
<1>8. \A g \in Handles \ {h} : Offer(g)' = Offer(g)
  <2> SUFFICES ASSUME NEW g \in Handles \ {h} PROVE Offer(g)' = Offer(g)
    OBVIOUS
  <2>1. /\ g \notin StatHandles /\ g \notin StatHandles'
        /\ g \notin PreadHandles /\ g \notin PreadHandles'
    BY <1>3, <1>5, VirtualFilesAssumption
  <2> QED BY <1>4, <2>1 DEF Offer, Offset, Elsewhere
<1>9. Offered' = Offered
  BY <1>7, <1>8, OfferedSame
<1> QED BY <1>1, <1>4, <1>6, <1>9 DEF FilesInv, PromiseStep

(* It closes that handle again.                                            *)
LEMMA StatCloseKeeps ==
  ASSUME FilesInv, StatClose, UNCHANGED shared
  PROVE  FilesInv' /\ PromiseStep
<1>1. /\ probe # None /\ probe.handle # None /\ CloseStep(probe.handle)
      /\ probe' = [probe EXCEPT !.handle = None, !.answer = FALSE]
      /\ UNCHANGED <<data, got, job>> /\ TablesInv
  BY DEF StatClose, Probing, FilesInv
<1>2. PICK h \in Handles : h = probe.handle
  BY <1>1, ProbeFacts
<1>3. /\ probe \in StatProbe /\ job = None /\ PreadHandles = {} /\ StatHandles = {h}
      /\ InUse(h)
  BY <1>1, <1>2, ProbeFacts DEF FilesInv, CallsInv, ProbeInv
<1>4. TablesInv' /\ Elsewhere(h) /\ files'[h] = None
  BY <1>1, <1>2, <1>3, CloseKeeps, ClosedTables
<1>5. /\ probe' \in StatProbe /\ probe'.handle = None
      /\ StatHandles' = {None} /\ PreadHandles' = {}
  BY <1>1, <1>3, VirtualFilesAssumption DEF StatProbe, StatHandles, PreadHandles
<1>6. CallsInv'
  BY <1>1, <1>3, <1>5 DEF FilesInv, CallsInv, CallsType, PreadInv, ProbeInv
<1>7. Offer(h) = None /\ Offer(h)' = None
  BY <1>3, <1>4 DEF Offer
<1>8. \A g \in Handles \ {h} : Offer(g)' = Offer(g)
  <2> SUFFICES ASSUME NEW g \in Handles \ {h} PROVE Offer(g)' = Offer(g)
    OBVIOUS
  <2>1. /\ g \notin StatHandles /\ g \notin StatHandles'
        /\ g \notin PreadHandles /\ g \notin PreadHandles'
    BY <1>3, <1>5, VirtualFilesAssumption
  <2> QED BY <1>4, <2>1 DEF Offer, Offset, Elsewhere
<1>9. Offered' = Offered
  BY <1>7, <1>8, OfferedSame
<1> QED BY <1>1, <1>4, <1>6, <1>9 DEF FilesInv, PromiseStep

-----------------------------------------------------------------------------
(* A file that nobody holds is open for no caller.                         *)
LEMMA NotHeldClosed ==
  ASSUME FilesInv, NEW f \in Files, f \notin held
  PROVE  Promise!Closed(f)
<1> SUFFICES ASSUME NEW h \in Handles, Offered[h] # None
             PROVE  Offered[h].file # f
  BY DEF Promise!Closed
<1>1. InUse(h) /\ Offered[h].file = FileOfHandle(h)
  BY OfferedAt DEF Offer, InUse
<1> QED BY <1>1, HandleFacts DEF FilesInv

(* unlink removes a file that is not open, and fails for one that is.      *)
LEMMA UnlinkKeeps ==
  ASSUME FilesInv, NEW p \in Paths, Unlink(p), UNCHANGED shared
  PROVE  FilesInv' /\ PromiseStep
<1>1. /\ FileOf[p] \notin held /\ data[FileOf[p]] # None /\ FileOf[p] \in Files
      /\ data' = [data EXCEPT ![FileOf[p]] = None]
      /\ got' = None /\ UNCHANGED <<held, bases, files, job, probe>>
  BY VirtualFilesAssumption DEF Unlink
<1>2. FilesInv' /\ Offered' = Offered
  BY <1>1, DataStep DEF FilesInv, TablesInv, TablesType
<1>3. Promise!Unlink(FileOf[p])
  BY <1>1, <1>2, NotHeldClosed DEF Promise!Unlink
<1> QED BY <1>1, <1>2, <1>3 DEF PromiseStep, Promise!Next

(* rename moves a file that is not open over one that is not.              *)
LEMMA RenameKeeps ==
  ASSUME FilesInv, NEW p \in Paths, NEW q \in Paths, Rename(p, q), UNCHANGED shared
  PROVE  FilesInv' /\ PromiseStep
<1> DEFINE f == FileOf[p]
           g == FileOf[q]
<1>1. /\ f # g /\ f \notin held /\ g \notin held /\ data[f] # None
      /\ f \in Files /\ g \in Files
      /\ data' = [data EXCEPT ![g] = data[f], ![f] = None]
      /\ got' = None /\ UNCHANGED <<held, bases, files, job, probe>>
  BY VirtualFilesAssumption DEF Rename
<1>2. FilesInv' /\ Offered' = Offered
  BY <1>1, DataStep DEF FilesInv, TablesInv, TablesType
<1>3. Promise!Rename(f, g)
  BY <1>1, <1>2, NotHeldClosed DEF Promise!Rename
<1> QED BY <1>1, <1>2, <1>3 DEF PromiseStep, Promise!Next

-----------------------------------------------------------------------------
(* The empty tables.                                                       *)
LEMMA FilesInit == Init => FilesInv /\ Promise!Init
<1> SUFFICES ASSUME Init PROVE FilesInv /\ Promise!Init
  OBVIOUS
<1>1. /\ \A b \in Bases : bases[b] = None
      /\ \A h \in Handles : files[h] = None
      /\ bases \in [Bases -> BaseFile \cup {None}]
      /\ files \in [Handles -> VirtualFile \cup {None}]
      /\ data \in [Files -> Contents \cup {None}]
      /\ held = {} /\ got = None /\ job = None /\ probe = None /\ shared \in BOOLEAN
  BY DEF Init
<1>2. HeldExactly
  <2>1. Bases \ FreeBases = {}
    BY <1>1 DEF FreeBases
  <2> QED BY <1>1, <2>1 DEF HeldExactly, RefsCounted
<1>3. FilesInv
  BY <1>1, <1>2 DEF FilesInv, TablesInv, TablesType, Owned, Present, CallsInv,
                    CallsType, PreadInv, ProbeInv
<1>4. \A h \in Handles : Offered[h] = None
  BY <1>1, OfferedAt DEF Offer
<1>5. Offered = [h \in Handles |-> None]
  BY <1>4, OfferedAt
<1>6. Promise!Contents = Contents
  BY DEF Promise!Contents, Contents
<1> QED BY <1>1, <1>3, <1>5, <1>6 DEF Promise!Init

(* Every step keeps the invariant and is one of PosixFiles for the callers.*)
LEMMA FilesNext == FilesInv /\ [Next]_vars => FilesInv' /\ PromiseStep
<1> SUFFICES ASSUME FilesInv, [Next]_vars PROVE FilesInv' /\ PromiseStep
  OBVIOUS
<1>1. CASE UNCHANGED vars
  <2>1. /\ UNCHANGED <<data, held, bases, files, got, job, probe, shared>>
    BY <1>1 DEF vars
  <2>2. FilesInv' /\ Offered' = Offered
    BY <2>1, DataStep DEF FilesInv, TablesInv, TablesType, CallsInv, CallsType
  <2> QED BY <2>1, <2>2 DEF PromiseStep
<1>2. CASE Next
  <2>1. UNCHANGED shared
    BY <1>2 DEF Next
  <2>2. ASSUME NEW p \in Paths, NEW flags \in Modes,
               Open(p, flags) \/ OpenExhausted(p, flags)
        PROVE  FilesInv' /\ PromiseStep
    BY <2>1, <2>2, OpenStepKeeps, OpenExhaustedKeeps
  <2>3. ASSUME NEW h \in Handles,
               \/ Read(h) \/ WriteFails(h) \/ Lseek(h) \/ Ftruncate(h) \/ Dup(h)
               \/ Close(h)
        PROVE  FilesInv' /\ PromiseStep
    BY <2>1, <2>3, ReadKeeps, WriteFailsKeeps, LseekKeeps, FtruncateKeeps, DupKeeps,
       CloseStepKeeps
  <2>4. ASSUME NEW h \in Handles, NEW v \in Values, Write(h, v)
        PROVE  FilesInv' /\ PromiseStep
    BY <2>1, <2>4, WriteKeeps
  <2>5. ASSUME NEW h \in Handles, NEW n \in Offsets, PreadBegin(h, n)
        PROVE  FilesInv' /\ PromiseStep
    BY <2>1, <2>5, PreadBeginKeeps
  <2>6. CASE PreadSeek \/ PreadRead \/ PreadRestore \/ PreadFails
    BY <2>1, <2>6, PreadSeekKeeps, PreadReadKeeps, PreadRestoreKeeps, PreadFailsKeeps
  <2>7. ASSUME NEW p \in Paths, StatBegin(p) \/ Unlink(p)
        PROVE  FilesInv' /\ PromiseStep
    BY <2>1, <2>7, StatBeginKeeps, UnlinkKeeps
  <2>8. CASE StatOpen \/ StatHeld \/ StatOpenFails \/ StatClose \/ StatReturns
    BY <2>1, <2>8, StatOpenKeeps, StatAnswerKeeps, StatCloseKeeps, StatReturnsKeeps
  <2>9. ASSUME NEW p \in Paths, NEW q \in Paths, Rename(p, q)
        PROVE  FilesInv' /\ PromiseStep
    BY <2>1, <2>9, RenameKeeps
  <2> QED BY <1>2, <2>2, <2>3, <2>4, <2>5, <2>6, <2>7, <2>8, <2>9 DEF Next
<1> QED BY <1>1, <1>2

(* The files of both tables' specification behave as Spec says.            *)
LEMMA CompatStep == [CompatNext]_<<vars, dirVars>> => [Next]_vars
BY DEF CompatNext, vars

(* The tables are well typed, and everything they rest on holds.           *)
THEOREM FilesTypeCorrect == CompatSpec => []TypeOK
<1>1. CompatInit => FilesInv
  BY FilesInit DEF CompatInit
<1>2. FilesInv /\ [CompatNext]_<<vars, dirVars>> => FilesInv'
  BY FilesNext, CompatStep
<1>3. FilesInv => TypeOK
  BY DEF FilesInv, TablesInv, TablesType, CallsInv, CallsType, TypeOK
<1> QED BY <1>1, <1>2, <1>3, PTL DEF CompatSpec

(* A real descriptor is counted as often as handles refer to it and the    *)
(* service holds exactly the files that are open, after whatever opens,    *)
(* dups, stats, preads and failures: __wrap_close closes with the last     *)
(* handle, and no failed open locks a file.                                *)
THEOREM OpenFilesExact == CompatSpec => []HeldExactly
<1>1. CompatInit => FilesInv
  BY FilesInit DEF CompatInit
<1>2. FilesInv /\ [CompatNext]_<<vars, dirVars>> => FilesInv'
  BY FilesNext, CompatStep
<1>3. FilesInv => HeldExactly
  BY DEF FilesInv, TablesInv
<1> QED BY <1>1, <1>2, <1>3, PTL DEF CompatSpec

(* Sharing one real descriptor per path is invisible: the calls implement  *)
(* files that may be open any number of times, each handle with an offset  *)
(* of its own, while nobody else uses the handle of a pread.               *)
THEOREM VirtualFilesImplementPosix == CompatSpec => ImplementsPosixFiles
<1>1. CompatInit => FilesInv /\ Promise!Init
  BY FilesInit DEF CompatInit
<1>2. FilesInv /\ [CompatNext]_<<vars, dirVars>> => FilesInv'
  BY FilesNext, CompatStep
<1>3. FilesInv /\ [CompatNext]_<<vars, dirVars>>
        => [shared \/ Promise!Next]_<<data, Offered, got>>
  BY FilesNext, CompatStep DEF PromiseStep
<1> QED BY <1>1, <1>2, <1>3, PTL DEF CompatSpec, ImplementsPosixFiles

-----------------------------------------------------------------------------
DirCalls == [op : {"alloc"}, text : Texts, dir : SUBSET Directories]
              \cup [op : {"fdopendir", "release"}, text : Texts, handle : DirHandles]

\* What was opened on a path is the directory it leads to now, or has been lost.
Stands(text, ds) == ds = {} \/ (ds = {Meaning(text)} /\ ds \subseteq dirs)

DirType ==
  /\ dirs \subseteq Directories /\ cwd \in Directories
  /\ \A h \in DOMAIN entries : h \in DirHandles /\ entries[h] \in Texts
  /\ calls \in [Threads -> {NoCall} \cup DirCalls]

\* So it is for the entries, and for the calls that are about to make one.
DirInv ==
  /\ DirType
  /\ DOMAIN entries = DOMAIN opened
  /\ \A h \in DOMAIN opened : Stands(entries[h], opened[h])
  /\ \A t \in Threads : calls[t].op = "alloc" => Stands(calls[t].text, calls[t].dir)

(* What a call in progress has at hand.                                    *)
LEMMA CallFacts ==
  ASSUME DirInv, NEW t \in Threads
  PROVE  /\ calls[t].op = "alloc" =>
              /\ calls[t].text \in Texts /\ Stands(calls[t].text, calls[t].dir)
         /\ calls[t].op = "fdopendir" => [calls[t] EXCEPT !.op = "release"] \in DirCalls
         /\ calls[t].op = "release" => calls[t].handle \in DirHandles
         /\ [calls[t] EXCEPT !.op = "release"].op # "alloc"
<1>1. calls[t] \in {NoCall} \cup DirCalls
  BY DEF DirInv, DirType
<1> QED BY <1>1 DEF DirInv, DirCalls, NoCall

(* A resolved path is one of the paths.                                    *)
LEMMA ResolvedTexts == \A text \in Resolved : text \in Texts
BY DEF Resolved

(* Steps of a thread that only change its own call.                        *)
LEMMA CallStep ==
  ASSUME DirInv, NEW t \in Threads, NEW call \in {NoCall} \cup DirCalls,
         calls' = [calls EXCEPT ![t] = call],
         UNCHANGED <<dirs, cwd, entries, opened>>,
         call.op = "alloc" => Stands(call.text, call.dir)
  PROVE  DirInv'
<1>1. DirType'
  BY DEF DirInv, DirType
<1>2. \A u \in Threads : calls'[u] = IF u = t THEN call ELSE calls[u]
  BY DEF DirInv, DirType
<1>3. \A text, ds : Stands(text, ds)' <=> Stands(text, ds)
  BY DEF Stands, Meaning
<1>4. \A u \in Threads : calls'[u].op = "alloc" =>
        Stands(calls'[u].text, calls'[u].dir)
  BY <1>2 DEF DirInv
<1>5. \A u \in Threads : calls'[u].op = "alloc" =>
        Stands(calls[u].text, calls[u].dir)'
  BY <1>4 DEF Stands, Meaning
<1>6. \A h \in DOMAIN opened' : Stands(entries[h], opened[h])'
  BY DEF DirInv, Stands, Meaning
<1> QED BY <1>1, <1>5, <1>6 DEF DirInv

(* A thread that returns takes an entry away, or has added one.            *)
LEMMA EntryStep ==
  ASSUME DirInv, UNCHANGED <<dirs, cwd>>, DOMAIN entries' = DOMAIN opened',
         \A h \in DOMAIN entries' :
           h \in DirHandles /\ entries'[h] \in Texts /\ Stands(entries'[h], opened'[h]),
         calls' = calls \/ \E t \in Threads : calls' = [calls EXCEPT ![t] = NoCall]
  PROVE  DirInv'
<1>1. DirType'
  BY DEF DirInv, DirType
<1>2. \A u \in Threads : calls'[u] = calls[u] \/ calls'[u] = NoCall
  BY DEF DirInv, DirType
<1>3. \A u \in Threads : calls'[u].op = "alloc" =>
        calls[u] = calls'[u] /\ Stands(calls[u].text, calls[u].dir)
  BY <1>2 DEF DirInv, NoCall
<1>4. \A u \in Threads : calls'[u].op = "alloc" => Stands(calls[u].text, calls[u].dir)'
  BY <1>3 DEF Stands, Meaning
<1>5. \A h \in DOMAIN opened' : Stands(entries[h], opened[h])'
  BY DEF Stands, Meaning
<1> QED BY <1>1, <1>4, <1>5 DEF DirInv

(* The threads' own steps.                                                 *)
LEMMA ProbeKeeps ==
  ASSUME DirInv, NEW t \in Threads, Probe(t)
  PROVE  DirInv'
<1>1. PICK text \in Resolved :
        /\ Meaning(text) \in dirs
        /\ calls' = [calls EXCEPT ![t] = [op |-> "alloc", text |-> text,
                                          dir |-> {Meaning(text)}]]
  BY DEF Probe, InCall
<1> DEFINE call == [op |-> "alloc", text |-> text, dir |-> {Meaning(text)}]
<1>2. call \in DirCalls /\ Stands(call.text, call.dir)
  BY <1>1, ResolvedTexts DEF DirCalls, Stands, DirInv, DirType
<1>3. UNCHANGED <<dirs, cwd, entries, opened>>
  BY DEF Probe
<1> HIDE DEF call
<1>4. calls' = [calls EXCEPT ![t] = call]
  BY <1>1 DEF call
<1> QED BY <1>2, <1>3, <1>4, CallStep

(* The first critical section of a call, which looks its handle up.        *)
LEMMA LooksUpKeeps ==
  ASSUME DirInv, NEW t \in Threads, LooksUp(t)
  PROVE  DirInv'
<1>1. UNCHANGED <<dirs, cwd, entries, opened>>
  BY DEF LooksUp
<1>2. PICK h \in DOMAIN opened :
        \/ InCall(t, [op |-> "fdopendir", text |-> entries[h], handle |-> h])
        \/ InCall(t, [op |-> "alloc", text |-> entries[h], dir |-> opened[h]])
  BY DEF LooksUp
<1>3. /\ h \in DirHandles /\ entries[h] \in Texts /\ Stands(entries[h], opened[h])
      /\ opened[h] \subseteq Directories
  BY DEF DirInv, DirType, Stands
<1>4. CASE InCall(t, [op |-> "fdopendir", text |-> entries[h], handle |-> h])
  <2> DEFINE call == [op |-> "fdopendir", text |-> entries[h], handle |-> h]
  <2>1. call \in DirCalls /\ call.op # "alloc"
    BY <1>3 DEF DirCalls
  <2>2. calls' = [calls EXCEPT ![t] = call]
    BY <1>4 DEF InCall
  <2> HIDE DEF call
  <2> QED BY <1>1, <2>1, <2>2, CallStep
<1>5. CASE InCall(t, [op |-> "alloc", text |-> entries[h], dir |-> opened[h]])
  <2> DEFINE call == [op |-> "alloc", text |-> entries[h], dir |-> opened[h]]
  <2>1. call \in DirCalls /\ Stands(call.text, call.dir)
    BY <1>3 DEF DirCalls
  <2>2. calls' = [calls EXCEPT ![t] = call]
    BY <1>5 DEF InCall
  <2> HIDE DEF call
  <2> QED BY <1>1, <2>1, <2>2, CallStep
<1> QED BY <1>2, <1>4, <1>5

(* A call that ends without a new handle.                                  *)
LEMMA ReturnKeeps ==
  ASSUME DirInv, NEW t \in Threads, TableExhausted(t) \/ Opendir(t)
  PROVE  DirInv'
<1>1. UNCHANGED <<dirs, cwd, entries, opened>>
  BY DEF TableExhausted, Opendir
<1>2. CASE Returns(t)
  BY <1>1, <1>2, CallStep DEF Returns, InCall, NoCall
<1>3. CASE calls[t].op = "fdopendir" /\ calls' = [calls EXCEPT ![t].op = "release"]
  <2> DEFINE call == [calls[t] EXCEPT !.op = "release"]
  <2>1. call \in DirCalls /\ call.op # "alloc"
    BY <1>3, CallFacts
  <2>2. calls' = [calls EXCEPT ![t] = call]
    BY <1>3
  <2> HIDE DEF call
  <2> QED BY <1>1, <2>1, <2>2, CallStep
<1> QED BY <1>2, <1>3 DEF TableExhausted, Opendir

(* The second critical section of a call, which takes the first free       *)
(* handle for what the call has found.                                     *)
LEMMA AllocHandleKeeps ==
  ASSUME DirInv, NEW t \in Threads, AllocHandle(t)
  PROVE  DirInv'
<1>1. PICK first \in Free : /\ entries' = With(entries, first, calls[t].text)
                            /\ opened' = With(opened, first, calls[t].dir)
  BY DEF AllocHandle
<1>2. /\ calls[t].text \in Texts /\ Stands(calls[t].text, calls[t].dir)
      /\ first \in DirHandles
      /\ UNCHANGED <<dirs, cwd>> /\ calls' = [calls EXCEPT ![t] = NoCall]
  BY CallFacts DEF AllocHandle, Free, Returns, InCall
<1>3. DOMAIN entries' = DOMAIN opened'
  BY <1>1 DEF With, DirInv
<1>4. \A h \in DOMAIN entries' :
        \/ h = first /\ entries'[h] = calls[t].text /\ opened'[h] = calls[t].dir
        \/ h \in DOMAIN entries /\ entries'[h] = entries[h] /\ opened'[h] = opened[h]
  BY <1>1 DEF With, DirInv
<1>5. \A h \in DOMAIN entries' :
        h \in DirHandles /\ entries'[h] \in Texts /\ Stands(entries'[h], opened'[h])
  BY <1>2, <1>4 DEF DirInv, DirType
<1> QED BY <1>2, <1>3, <1>5, EntryStep

(* A handle is given back, by close or with the stream over it.            *)
LEMMA GiveBackKeeps ==
  ASSUME DirInv, NEW h,
         entries' = Without(entries, h), opened' = Without(opened, h),
         UNCHANGED <<dirs, cwd>>,
         calls' = calls \/ \E t \in Threads : calls' = [calls EXCEPT ![t] = NoCall]
  PROVE  DirInv'
<1>1. DOMAIN entries' = DOMAIN opened'
  BY DEF Without, DirInv
<1>2. \A g \in DOMAIN entries' :
        g \in DOMAIN entries /\ entries'[g] = entries[g] /\ opened'[g] = opened[g]
  BY DEF Without, DirInv
<1>3. \A g \in DOMAIN entries' :
        g \in DirHandles /\ entries'[g] \in Texts /\ Stands(entries'[g], opened'[g])
  BY <1>2 DEF DirInv, DirType
<1> QED BY <1>1, <1>3, EntryStep

(* The calls to libnx.  What no longer leads to its directory is given up, *)
(* and nothing else changes its meaning.                                   *)
LEMMA LostKeeps ==
  ASSUME DirInv, NEW gone, NEW texts, Lost(gone, texts), entries' = entries,
         dirs' \subseteq Directories, cwd' \in Directories,
         dirs \ gone \subseteq dirs',
         \A text \in Texts \ texts : Meaning(text)' = Meaning(text)
  PROVE  DirInv'
<1> DEFINE left(of, text) == IF text \in texts THEN {} ELSE of \ gone
<1>1. /\ opened' = [h \in DOMAIN opened |-> left(opened[h], entries[h])]
      /\ calls' = [t \in Threads |->
                     IF calls[t].op = "alloc"
                     THEN [calls[t] EXCEPT !.dir = left(@, calls[t].text)] ELSE calls[t]]
  BY DEF Lost
<1>2. \A text \in Texts : \A ds : Stands(text, ds) =>
        \/ left(ds, text) = {}
        \/ left(ds, text) = {Meaning(text)'} /\ left(ds, text) \subseteq dirs'
  <2> SUFFICES ASSUME NEW text \in Texts, NEW ds, Stands(text, ds), left(ds, text) # {}
               PROVE  left(ds, text) = {Meaning(text)'} /\ left(ds, text) \subseteq dirs'
    OBVIOUS
  <2>1. text \notin texts /\ left(ds, text) = ds \ gone
    OBVIOUS
  <2>2. ds = {Meaning(text)} /\ ds \subseteq dirs
    BY <2>1 DEF Stands
  <2>3. ds \ gone = ds
    BY <2>1, <2>2
  <2> QED BY <2>1, <2>2, <2>3
<1>3. \A h \in DOMAIN opened : left(opened[h], entries[h]) \subseteq opened[h]
  OBVIOUS
<1>4. \A t \in Threads : calls[t].op = "alloc" =>
        /\ calls[t] \in [op : {"alloc"}, text : Texts, dir : SUBSET Directories]
        /\ left(calls[t].dir, calls[t].text) \in SUBSET Directories
  <2> SUFFICES ASSUME NEW t \in Threads, calls[t].op = "alloc"
               PROVE  /\ calls[t] \in [op : {"alloc"}, text : Texts,
                                       dir : SUBSET Directories]
                      /\ left(calls[t].dir, calls[t].text) \in SUBSET Directories
    OBVIOUS
  <2>1. calls[t] \in {NoCall} \cup DirCalls
    BY DEF DirInv, DirType
  <2>2. calls[t] \in [op : {"alloc"}, text : Texts, dir : SUBSET Directories]
    BY <2>1 DEF DirCalls, NoCall
  <2> QED BY <2>2
<1> HIDE DEF left
<1>5. \A t \in Threads : calls[t].op = "alloc" =>
        /\ calls'[t] = [calls[t] EXCEPT !.dir = left(calls[t].dir, calls[t].text)]
        /\ calls'[t].op = "alloc" /\ calls'[t].text = calls[t].text
        /\ calls'[t].dir = left(calls[t].dir, calls[t].text)
        /\ calls'[t] \in DirCalls /\ calls[t].text \in Texts
  BY <1>1, <1>4 DEF DirCalls
<1>6. \A t \in Threads : calls[t].op # "alloc" => calls'[t] = calls[t]
  BY <1>1
<1>7. DirType'
  <2>1. \A t \in Threads : calls'[t] \in {NoCall} \cup DirCalls
    BY <1>5, <1>6 DEF DirInv, DirType
  <2>2. calls' \in [Threads -> {NoCall} \cup DirCalls]
    BY <1>1, <2>1
  <2> QED BY <2>2 DEF DirInv, DirType
<1>8. \A t \in Threads : calls'[t].op = "alloc" => Stands(calls[t].text, calls[t].dir)'
  <2> SUFFICES ASSUME NEW t \in Threads, calls'[t].op = "alloc"
               PROVE  Stands(calls[t].text, calls[t].dir)'
    OBVIOUS
  <2>1. calls[t].op = "alloc" /\ Stands(calls[t].text, calls[t].dir)
    BY <1>6 DEF DirInv
  <2>2. /\ calls'[t].text = calls[t].text /\ calls[t].text \in Texts
        /\ calls'[t].dir = left(calls[t].dir, calls[t].text)
    BY <1>5, <2>1
  <2>3. Meaning(calls[t].text)' = IF calls'[t].text.absolute THEN calls'[t].text.names
                                  ELSE cwd' \o calls'[t].text.names
    BY DEF Meaning
  <2> QED BY <1>2, <2>1, <2>2, <2>3 DEF Stands, Meaning
<1>9. \A h \in DOMAIN opened' : Stands(entries[h], opened[h])'
  <2> SUFFICES ASSUME NEW h \in DOMAIN opened' PROVE Stands(entries[h], opened[h])'
    OBVIOUS
  <2>1. /\ h \in DOMAIN opened /\ opened'[h] = left(opened[h], entries[h])
        /\ entries[h] \in Texts /\ entries'[h] = entries[h]
        /\ Stands(entries[h], opened[h])
    BY <1>1 DEF DirInv, DirType
  <2> QED BY <1>2, <2>1 DEF Stands, Meaning
<1>10. DOMAIN entries' = DOMAIN opened'
  BY <1>1 DEF DirInv
<1> QED BY <1>7, <1>8, <1>9, <1>10 DEF DirInv

(* A directory is made.                                                    *)
LEMMA MkdirKeeps ==
  ASSUME DirInv, NEW text \in Resolved, Mkdir(text)
  PROVE  DirInv'
<1>1. /\ dirs \subseteq dirs' /\ dirs' \subseteq Directories
      /\ UNCHANGED <<cwd, entries, calls, opened>>
  BY DEF Mkdir, DirInv, DirType
<1>2. \A path, ds : Stands(path, ds) =>
        \/ ds = {}
        \/ ds = {IF path.absolute THEN path.names ELSE cwd' \o path.names}
           /\ ds \subseteq dirs'
  BY <1>1 DEF Stands, Meaning
<1>3. DirType'
  BY <1>1 DEF DirInv, DirType
<1>4. \A h \in DOMAIN opened' : Stands(entries[h], opened[h])'
  BY <1>1, <1>2 DEF DirInv, Stands, Meaning
<1>5. \A t \in Threads : calls'[t].op = "alloc" => Stands(calls[t].text, calls[t].dir)'
  BY <1>1, <1>2 DEF DirInv, Stands, Meaning
<1> QED BY <1>1, <1>3, <1>4, <1>5 DEF DirInv

(* A directory is removed; its handles stand for nothing from then on.     *)
LEMMA RmdirKeeps ==
  ASSUME DirInv, NEW text \in Resolved, Rmdir(text)
  PROVE  DirInv'
<1>1. /\ dirs' = dirs \ {Meaning(text)} /\ Lost({Meaning(text)}, {})
      /\ UNCHANGED <<cwd, entries>>
  BY DEF Rmdir
<1>2. /\ dirs' \subseteq Directories /\ cwd' \in Directories
      /\ dirs \ {Meaning(text)} \subseteq dirs'
  BY <1>1 DEF DirInv, DirType
<1>3. \A path \in Texts \ {} : Meaning(path)' = Meaning(path)
  BY <1>1 DEF Meaning
<1> QED BY <1>1, <1>2, <1>3, LostKeeps

(* A directory is renamed, with all that is below it.                      *)
LEMMA RenameDirKeeps ==
  ASSUME DirInv, NEW old \in Resolved, NEW new \in Resolved, RenameDir(old, new)
  PROVE  DirInv'
<1>1. /\ Meaning(new) \in Directories
      /\ dirs' = (dirs \ {Meaning(old)}) \cup {Meaning(new)}
      /\ Lost({Meaning(old)}, {}) /\ UNCHANGED <<cwd, entries>>
  BY DEF RenameDir
<1>2. /\ dirs' \subseteq Directories /\ cwd' \in Directories
      /\ dirs \ {Meaning(old)} \subseteq dirs'
  BY <1>1 DEF DirInv, DirType
<1>3. \A path \in Texts \ {} : Meaning(path)' = Meaning(path)
  BY <1>1 DEF Meaning
<1> QED BY <1>1, <1>2, <1>3, LostKeeps

(* The working directory changes, and relative paths lead elsewhere.       *)
LEMMA ChdirKeeps ==
  ASSUME DirInv, NEW text \in Resolved, Chdir(text)
  PROVE  DirInv'
<1> DEFINE relative == {path \in Texts : ~path.absolute}
<1>1. /\ Meaning(text) \in dirs /\ cwd' = Meaning(text)
      /\ Lost({}, relative) /\ UNCHANGED <<dirs, entries>>
  BY DEF Chdir
<1>2. dirs' \subseteq Directories /\ cwd' \in Directories /\ dirs \ {} \subseteq dirs'
  BY <1>1 DEF DirInv, DirType
<1>3. \A path \in Texts \ relative : Meaning(path)' = Meaning(path)
  BY DEF Meaning
<1> HIDE DEF relative
<1> QED BY <1>1, <1>2, <1>3, LostKeeps

(* Every step of a thread or of the file system leaves every handle with   *)
(* its directory.                                                          *)
LEMMA DirNextKeeps == DirInv /\ [DirNext]_dirVars => DirInv'
<1> SUFFICES ASSUME DirInv, [DirNext]_dirVars PROVE DirInv'
  OBVIOUS
<1>1. CASE UNCHANGED dirVars
  BY <1>1 DEF dirVars, DirInv, DirType, Stands, Meaning
<1>2. ASSUME NEW t \in Threads, Probe(t) \/ LooksUp(t) \/ AllocHandle(t)
      PROVE  DirInv'
  BY <1>2, ProbeKeeps, LooksUpKeeps, AllocHandleKeeps
<1>3. ASSUME NEW t \in Threads, TableExhausted(t) \/ Opendir(t)
      PROVE  DirInv'
  BY <1>3, ReturnKeeps
<1>4. ASSUME NEW t \in Threads, ReleaseHandle(t)
      PROVE  DirInv'
  <2>1. /\ entries' = Without(entries, calls[t].handle)
        /\ opened' = Without(opened, calls[t].handle)
        /\ UNCHANGED <<dirs, cwd>> /\ calls' = [calls EXCEPT ![t] = NoCall]
    BY <1>4 DEF ReleaseHandle, Returns, InCall
  <2> QED BY <2>1, GiveBackKeeps
<1>5. ASSUME NEW h \in DirHandles, CloseDir(h)
      PROVE  DirInv'
  <2>1. /\ entries' = Without(entries, h) /\ opened' = Without(opened, h)
        /\ UNCHANGED <<dirs, cwd>> /\ calls' = calls
    BY <1>5 DEF CloseDir
  <2> QED BY <2>1, GiveBackKeeps
<1>6. ASSUME NEW text \in Resolved, Mkdir(text) \/ Rmdir(text) \/ Chdir(text)
      PROVE  DirInv'
  BY <1>6, MkdirKeeps, RmdirKeeps, ChdirKeeps
<1>7. ASSUME NEW text \in Resolved, NEW new \in Resolved, RenameDir(text, new)
      PROVE  DirInv'
  BY <1>7, RenameDirKeeps
<1> QED BY <1>1, <1>2, <1>3, <1>4, <1>5, <1>6, <1>7 DEF DirNext

(* A directory handle stands for the directory it was opened on, however   *)
(* many threads open, close, duplicate, list, make, remove and rename      *)
(* directories or change the working directory between the two times a     *)
(* call takes the mutex of the table.                                      *)
THEOREM DirHandlesStand == CompatSpec => []HandleStandsForDirectory
<1>1. CompatInit => DirInv
  <2> SUFFICES ASSUME DirInit PROVE DirInv
    BY DEF CompatInit
  <2>1. DOMAIN entries = {} /\ DOMAIN opened = {}
    BY DEF DirInit
  <2>2. <<>> \in Directories
    BY DEF Directories
  <2>3. DirType
    BY <2>1, <2>2 DEF DirInit, DirType
  <2>4. \A t \in Threads : calls[t].op # "alloc"
    BY DEF DirInit, NoCall
  <2> QED BY <2>1, <2>3, <2>4 DEF DirInv
<1>2. DirInv /\ [CompatNext]_<<vars, dirVars>> => DirInv'
  <2>1. [CompatNext]_<<vars, dirVars>> => [DirNext]_dirVars
    BY DEF CompatNext, dirVars
  <2> QED BY <2>1, DirNextKeeps
<1>3. DirInv => HandleStandsForDirectory
  BY DEF DirInv, Stands, HandleStandsForDirectory
<1> QED BY <1>1, <1>2, <1>3, PTL DEF CompatSpec
=============================================================================

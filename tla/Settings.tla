------------------------------ MODULE Settings ------------------------------
(***************************************************************************)
(* shared_preferences and flutter_secure_storage                           *)
(* (embedder/src/engine/plugins_horizon.cpp): a map in memory, written     *)
(* whole to a file after every change, on a FAT card without an atomic     *)
(* replace: a side file is written, the old file removed, the side file    *)
(* renamed.  Power may be lost between any two steps and any call to the   *)
(* card may fail.                                                          *)
(*                                                                         *)
(* All handlers run on the platform thread, one call at a time; each loads *)
(* the file on the first call after the start.  The two stores have the    *)
(* same code up to what they clear and what they answer.                   *)
(***************************************************************************)
EXTENDS Integers, Sequences

CONSTANTS
  Keys, Values,
  Prefixed,     (* the keys that begin with "flutter." *)
  None,         (* no value; no map *)
  NoFile,
  Encode(_),    (* the bytes of a map *)
  Decode(_),    (* the map in a file's bytes, anything else if there is none *)
  Faults        (* the calls to the card that may fail *)

Maps  == [Keys -> Values \cup {None}]
Empty == [k \in Keys |-> None]

\* The beginnings of a map's bytes: what an interrupted write leaves.
Begun == UNION {{SubSeq(Encode(m), 1, n) : n \in 0 .. Len(Encode(m))} : m \in Maps}

ASSUME SettingsAssumption ==
  /\ Prefixed \subseteq Keys
  /\ Faults \subseteq {"load", "open", "write", "close", "remove", "rename"}
  /\ None \notin Maps
  /\ NoFile \notin Begun

ASSUME CodecRoundTrip ==
  \A m \in Maps :
    /\ Encode(m) \in Seq(Nat)
    /\ Decode(Encode(m)) = m
    /\ \A n \in 0 .. Len(Encode(m)) - 1 :
         Decode(SubSeq(Encode(m), 1, n)) \notin Maps

VARIABLES
  store,    (* which of the two stores *)
  memory,   (* g_prefs, g_secure *)
  loaded,
  main,     (* the file *)
  side,     (* the file with ".neu" *)
  pc,       (* the next step of the save in progress *)
  answer,   (* the last answer to a change: "none" while it is under way *)
  kept      (* history: the newest map that the card is meant to hold *)

card == <<main, side, kept>>
vars == <<store, memory, loaded, main, side, pc, answer, kept>>

Init ==
  /\ store \in {"prefs", "secure"}
  /\ memory = Empty /\ loaded = FALSE
  /\ main = NoFile /\ side = NoFile
  /\ pc = "idle" /\ answer = "none"
  /\ kept = None

\* What the first call after a start finds.  An fopen that fails is taken for the
\* first use, and the part that a short fread leaves cannot be read: both begin
\* with an empty map.
Found ==
  {IF main # NoFile /\ Decode(main) \in Maps THEN Decode(main) ELSE Empty}
    \cup (IF "load" \in Faults THEN {Empty} ELSE {})

Loaded == IF loaded THEN {memory} ELSE Found

\* Calls that change nothing: getAll, commit; read, containsKey, readAll.
Read ==
  /\ pc = "idle"
  /\ memory' \in Loaded /\ loaded' = TRUE
  /\ UNCHANGED <<store, card, pc, answer>>

\* Every change to the map is followed by a save.
Change(m) ==
  /\ pc = "idle"
  /\ memory' = m /\ loaded' = TRUE
  /\ pc' = "open" /\ answer' = "none"
  /\ UNCHANGED <<store, card>>

Set(k, v) == \E m \in Loaded : Change([m EXCEPT ![k] = v])

\* Saves even when there is no such key.
RemoveKey(k) == \E m \in Loaded : Change([m EXCEPT ![k] = None])

Clear ==
  /\ store = "prefs"
  /\ \E m \in Loaded : Change([k \in Keys |-> IF k \in Prefixed THEN None ELSE m[k]])

DeleteAll == store = "secure" /\ Change(Empty)

-----------------------------------------------------------------------------
\* The end of a save; secure storage answers null whatever came of it.
Answer(saved) ==
  /\ pc' = "idle"
  /\ answer' = IF store = "secure" THEN "null" ELSE saved

Part(n) == SubSeq(Encode(memory), 1, n)

\* Fault: the old file is removed before the new one is written.
OpenRemoves ==
  /\ pc = "open"
  /\ side' = Part(0) /\ main' = NoFile /\ pc' = "write"
  /\ UNCHANGED <<store, memory, loaded, answer, kept>>

\* EnsureDir, and fopen(tmp, "wb"), which empties the side file; without the main
\* file, that was the only copy.
Open ==
  /\ pc = "open"
  /\ \/ /\ side' = Part(0)
        /\ kept' = IF main = NoFile THEN None ELSE kept
        /\ pc' = "write"
        /\ UNCHANGED answer
     \/ "open" \in Faults /\ Answer("false") /\ UNCHANGED <<side, kept>>
  /\ UNCHANGED <<store, memory, loaded, main>>

\* Fault: nobody looks at the result of fwrite.
WriteUnchecked ==
  /\ pc = "write"
  /\ \E n \in 0 .. Len(Encode(memory)) : side' = Part(n)
  /\ \/ pc' = "close"
     \/ "write" \in Faults /\ pc' = "remove"
  /\ UNCHANGED <<store, memory, loaded, main, answer, kept>>

\* fwrite fills a buffer: any part of the data may already be on the card.
Write ==
  /\ pc = "write"
  /\ \E n \in 0 .. Len(Encode(memory)) : side' = Part(n)
  /\ \/ pc' = "close"
     \/ "write" \in Faults /\ pc' = "discard"
  /\ UNCHANGED <<store, memory, loaded, main, answer, kept>>

\* fclose writes what is left of the buffer; nobody looks at its result.
Closed == {Encode(memory)} \cup (IF "close" \in Faults THEN {side} ELSE {})

Close ==
  /\ pc = "close"
  /\ side' \in Closed
  /\ pc' = "remove"
  /\ UNCHANGED <<store, memory, loaded, main, answer, kept>>

Discard ==
  /\ pc = "discard"
  /\ side' \in {NoFile} \cup (IF "remove" \in Faults THEN {side} ELSE {})
  /\ Answer("false")
  /\ UNCHANGED <<store, memory, loaded, main, kept>>

\* From here on the card is to hold the new map.
RemoveMain ==
  /\ pc = "remove"
  /\ \/ main' = NoFile /\ kept' = memory
     \/ "remove" \in Faults /\ main # NoFile /\ UNCHANGED <<main, kept>>
  /\ pc' = "rename"
  /\ UNCHANGED <<store, memory, loaded, side, answer>>

\* Fault: nobody looks at the result of rename.
RenameUnchecked ==
  /\ pc = "rename"
  /\ \/ main = NoFile /\ main' = side /\ side' = NoFile
     \/ "rename" \in Faults /\ UNCHANGED <<main, side>>
  /\ Answer("true")
  /\ UNCHANGED <<store, memory, loaded, kept>>

\* FAT does not rename onto a file that exists.
Rename ==
  /\ pc = "rename"
  /\ \/ /\ main = NoFile
        /\ main' = side /\ side' = NoFile
        /\ Answer("true")
     \/ /\ "rename" \in Faults \/ main # NoFile
        /\ Answer("false")
        /\ UNCHANGED <<main, side>>
  /\ UNCHANGED <<store, memory, loaded, kept>>

\* Power is lost, or the program ends; the next start has the card only.
Crash ==
  /\ pc' = "idle" /\ memory' = Empty /\ loaded' = FALSE
  /\ UNCHANGED <<store, card, answer>>

Call ==
  \/ Read \/ Clear \/ DeleteAll
  \/ \E k \in Keys : RemoveKey(k) \/ \E v \in Values : Set(k, v)
  \/ Open \/ Write \/ Close \/ Discard \/ RemoveMain \/ Rename

Next == Call \/ Crash

Spec == Init /\ [][Next]_vars

-----------------------------------------------------------------------------
(* Every variable has its type: memory holds a map after every load, the   *)
(* files hold what a save of some map wrote.                               *)
TypeOK ==
  /\ store \in {"prefs", "secure"}
  /\ memory \in Maps /\ loaded \in BOOLEAN
  /\ main \in Begun \cup {NoFile} /\ side \in Begun \cup {NoFile}
  /\ pc \in {"idle", "open", "write", "close", "discard", "remove", "rename"}
  /\ answer \in {"none", "true", "false", "null"}
  /\ kept \in Maps \cup {None}

(* Wherever the power is lost and whatever fails, the file is readable     *)
(* when there is one: it never holds a part of a map (plugins_horizon.cpp  *)
(* :18-19, "atomar ueber Nebendatei + rename").                            *)
NeverTorn == main # NoFile => Decode(main) \in Maps

(* The worst case that the comment at :181-183 grants: the newest map is   *)
(* whole on the card at every moment, in the file or, without a file, in   *)
(* the side file - until a later save opens that side file again.          *)
WorstCase ==
  kept # None =>
    IF main = NoFile THEN side # NoFile /\ Decode(side) = kept
                     ELSE Decode(main) = kept

(* A change that was answered true is whole in the file until the next      *)
(* change, however often the power is lost; a later start finds it, or, if  *)
(* its load fails, nothing at all (:138-157): never a part of it, never the *)
(* map before it.  (What a start takes for the first use, its first change  *)
(* then replaces.)                                                          *)
AnsweredIsStored ==
  answer = "true" =>
    /\ main # NoFile /\ Decode(main) = kept
    /\ loaded => memory = kept \/ ("load" \in Faults /\ memory = Empty)

=============================================================================

--------------------------- MODULE Settings_proofs ---------------------------
(***************************************************************************)
(* For any keys, values and codec that reads back what it wrote: as long   *)
(* as closing the side file does not lose data, the file is never torn,    *)
(* the newest map stays whole on the card, and what was answered true is   *)
(* in the file: a start finds it, or nothing if its load fails.            *)
(***************************************************************************)
EXTENDS Settings, TLAPS

(* During a save the map is in memory; from the closing of the side file   *)
(* on, it is whole in there.                                               *)
SaveInv ==
  /\ pc # "idle" => loaded /\ answer = "none"
  /\ pc \in {"remove", "rename"} => side = Encode(memory)

(* The file holds the map that the card is meant to hold; a save that has  *)
(* opened the side file without a main file has given up the old map.      *)
CardInv ==
  /\ main # NoFile => kept \in Maps /\ main = Encode(kept)
  /\ main = NoFile /\ kept # None => side = Encode(kept)
  /\ main = NoFile /\ pc \in {"write", "close", "discard", "remove"} => kept = None
  /\ main = NoFile /\ pc = "rename" => kept = memory
  /\ answer = "true" =>
       /\ main # NoFile
       /\ loaded => memory = kept \/ ("load" \in Faults /\ memory = Empty)

IInv == TypeOK /\ SaveInv /\ CardInv

-----------------------------------------------------------------------------
(* A map's bytes and their beginnings are what a file may hold, and only   *)
(* the whole of them is read as a map.                                     *)
LEMMA Codec ==
  ASSUME NEW m \in Maps
  PROVE  /\ Encode(m) \in Begun /\ Encode(m) # NoFile
         /\ Decode(Encode(m)) = m
         /\ Len(Encode(m)) \in Nat
         /\ \A n \in 0 .. Len(Encode(m)) : SubSeq(Encode(m), 1, n) \in Begun
         /\ m # None
<1>1. Encode(m) \in Seq(Nat) /\ Decode(Encode(m)) = m
  BY CodecRoundTrip
<1>2. \A n \in 0 .. Len(Encode(m)) : SubSeq(Encode(m), 1, n) \in Begun
  BY DEF Begun
<1>3. Len(Encode(m)) \in Nat /\ SubSeq(Encode(m), 1, Len(Encode(m))) = Encode(m)
  BY <1>1
<1>4. Encode(m) \in Begun
  <2>1. Len(Encode(m)) \in 0 .. Len(Encode(m))
    BY <1>3
  <2>2. QED BY <1>2, <1>3, <2>1
<1>5. QED BY <1>1, <1>2, <1>3, <1>4, SettingsAssumption

(* What is loaded is a map, whatever the card holds.                       *)
LEMMA LoadedIsMap == TypeOK => Loaded \subseteq Maps
<1>1. Empty \in Maps
  BY DEF Empty, Maps
<1>2. QED BY <1>1 DEF TypeOK, Loaded, Found

(* The first call after a start finds what the card is meant to hold, or,  *)
(* if it cannot be loaded, nothing.                                        *)
LEMMA LoadedIsKept ==
  ASSUME IInv, main # NoFile, ~loaded, NEW m \in Loaded
  PROVE  m = kept \/ ("load" \in Faults /\ m = Empty)
BY Codec DEF IInv, CardInv, Loaded, Found

(* The invariant holds at the first start, on an empty card.               *)
LEMMA InitInv == Init => IInv
BY DEF Init, IInv, TypeOK, SaveInv, CardInv, Maps, Empty

(* Holds also when closing the side file may fail.                         *)
LEMMA StepType == TypeOK /\ [Next]_vars => TypeOK'
<1> SUFFICES ASSUME TypeOK, [Next]_vars PROVE TypeOK'
  OBVIOUS
<1>1. Empty \in Maps /\ Loaded \subseteq Maps
  BY LoadedIsMap DEF Empty, Maps
<1>2. CASE Read \/ Crash
  BY <1>1, <1>2 DEF Read, Crash, card, TypeOK
<1>3. ASSUME NEW m \in Maps, Change(m) PROVE TypeOK'
  BY <1>3 DEF Change, card, TypeOK
<1>4. CASE Clear \/ DeleteAll
  <2>1. \A m \in Loaded : [k \in Keys |-> IF k \in Prefixed THEN None ELSE m[k]] \in Maps
    BY <1>1 DEF Maps
  <2>2. QED BY <1>1, <1>3, <1>4, <2>1 DEF Clear, DeleteAll
<1>5. ASSUME NEW k \in Keys, RemoveKey(k) \/ \E v \in Values : Set(k, v)
      PROVE  TypeOK'
  <2>1. \A m \in Loaded, v \in Values \cup {None} : [m EXCEPT ![k] = v] \in Maps
    BY <1>1 DEF Maps
  <2>2. QED BY <1>3, <1>5, <2>1 DEF RemoveKey, Set
<1>6. \A n \in 0 .. Len(Encode(memory)) : Part(n) \in Begun
  BY Codec DEF TypeOK, Part
<1>7. Part(0) \in Begun /\ Encode(memory) \in Begun
  BY Codec, <1>6 DEF TypeOK
<1>8. CASE Open
  BY <1>7, <1>8 DEF TypeOK, Open, Answer
<1>9. CASE Write \/ Close
  BY <1>6, <1>7, <1>9 DEF TypeOK, Write, Close, Closed
<1>10. CASE Discard \/ RemoveMain \/ Rename
  BY <1>10 DEF TypeOK, Discard, RemoveMain, Rename, Answer
<1>11. CASE UNCHANGED vars
  BY <1>11 DEF vars, TypeOK
<1>12. QED
  BY <1>2, <1>4, <1>5, <1>8, <1>9, <1>10, <1>11 DEF Next, Call

(* Closing must not lose what is in the buffer: without that assumption    *)
(* the file may be torn.                                                   *)
LEMMA StepInv ==
  ASSUME "close" \notin Faults
  PROVE  IInv /\ [Next]_vars => IInv'
<1> SUFFICES ASSUME IInv, [Next]_vars PROVE SaveInv' /\ CardInv'
  BY StepType DEF IInv
<1> USE DEF IInv, SaveInv, CardInv
<1>1. CASE Read
  <2>1. loaded => memory' = memory
    BY <1>1 DEF Read, Loaded
  <2>2. main # NoFile /\ ~loaded =>
          memory' = kept \/ ("load" \in Faults /\ memory' = Empty)
    BY <1>1, LoadedIsKept DEF Read
  <2>3. QED BY <1>1, <2>1, <2>2 DEF Read, card
<1>2. ASSUME NEW m, Change(m) PROVE SaveInv' /\ CardInv'
  BY <1>2 DEF Change, card
<1>3. CASE Clear \/ DeleteAll
  BY <1>2, <1>3 DEF Clear, DeleteAll
<1>4. ASSUME NEW k \in Keys, RemoveKey(k) \/ \E v \in Values : Set(k, v)
      PROVE  SaveInv' /\ CardInv'
  BY <1>2, <1>4 DEF RemoveKey, Set
<1>5. CASE Open
  BY <1>5 DEF Open, Answer
<1>6. CASE Write
  BY <1>6 DEF Write
<1>7. CASE Close
  BY <1>7, "close" \notin Faults DEF Close, Closed
<1>8. CASE Discard
  BY <1>8 DEF Discard, Answer
<1>9. CASE RemoveMain
  BY <1>9 DEF RemoveMain, TypeOK
<1>10. CASE Rename
  <2>1. Encode(memory) # NoFile
    BY Codec DEF TypeOK
  <2>2. QED BY <1>10, <2>1 DEF Rename, Answer, TypeOK
<1>11. CASE Crash
  BY <1>11 DEF Crash, card
<1>12. CASE UNCHANGED vars
  BY <1>12 DEF vars
<1>13. QED
  BY <1>1, <1>3, <1>4, <1>5, <1>6, <1>7, <1>8, <1>9, <1>10, <1>11, <1>12 DEF Next, Call

(* It implies the safety properties.                                       *)
LEMMA InvImplies == IInv => NeverTorn /\ WorstCase /\ AnsweredIsStored
<1> SUFFICES ASSUME IInv PROVE NeverTorn /\ WorstCase /\ AnsweredIsStored
  OBVIOUS
<1>1. main # NoFile => kept \in Maps /\ Decode(main) = kept
  BY Codec DEF IInv, CardInv
<1>2. main = NoFile /\ kept # None => side # NoFile /\ Decode(side) = kept
  BY Codec DEF IInv, TypeOK, CardInv
<1>3. QED BY <1>1, <1>2 DEF IInv, CardInv, NeverTorn, WorstCase, AnsweredIsStored

-----------------------------------------------------------------------------
(* Whatever fails, the closing of the side file included, memory holds a   *)
(* map and the files hold beginnings of maps.                              *)
THEOREM SettingsTypeCorrect == Spec => []TypeOK
<1>1. Init => TypeOK
  BY InitInv DEF IInv
<1>2. QED BY <1>1, StepType, PTL DEF Spec

(* The settings survive a loss of power at any step and any failing call   *)
(* but that of closing the side file.                                      *)
THEOREM SettingsSafe ==
  ASSUME "close" \notin Faults
  PROVE  Spec => [](NeverTorn /\ WorstCase /\ AnsweredIsStored)
<1>1. Init => IInv
  BY InitInv
<1>2. IInv /\ [Next]_vars => IInv'
  BY StepInv
<1>3. IInv => NeverTorn /\ WorstCase /\ AnsweredIsStored
  BY InvImplies
<1>4. QED BY <1>1, <1>2, <1>3, PTL DEF Spec

(* The file is read back as a map or is not there, at every step of a save *)
(* and after every loss of power.                                          *)
THEOREM SettingsNeverTorn ==
  ASSUME "close" \notin Faults
  PROVE  Spec => []NeverTorn
BY SettingsSafe, PTL

(* What was answered true is whole in the file until the next change, and  *)
(* a start has it in memory, or nothing at all if its load failed.         *)
THEOREM AnsweredTrueIsStored ==
  ASSUME "close" \notin Faults
  PROVE  Spec => []AnsweredIsStored
BY SettingsSafe, PTL

(* If neither a close nor a load fails, every later start has it in memory. *)
THEOREM AnsweredTrueIsFound ==
  ASSUME "close" \notin Faults, "load" \notin Faults
  PROVE  Spec => [](answer = "true" /\ loaded => memory = kept)
<1>1. AnsweredIsStored => (answer = "true" /\ loaded => memory = kept)
  BY DEF AnsweredIsStored
<1>2. QED BY <1>1, AnsweredTrueIsStored, PTL
=============================================================================

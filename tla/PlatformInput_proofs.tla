------------------------ MODULE PlatformInput_proofs ------------------------
(***************************************************************************)
(* For any number of fingers that leaves slots for those of two rounds,    *)
(* Flutter's contacts are the fingers on the screen, each touch one down,  *)
(* moves and an up; and for any buttons, the pointer is down only while a  *)
(* click button is held; no key stays down whose buttons are released, and *)
(* no click is a key press besides.                                        *)
(***************************************************************************)
EXTENDS PlatformInput, FiniteSetTheorems, TLAPS

Sent == {"cursor", "keys", "poll", "ended"}

(* Between a poll and its touch events, the slots are those of the round   *)
(* before; after them, each finger on the screen has one.                  *)
TouchInv ==
  /\ pc \in Sent \cup {"touch"}
  /\ touches \in Screens /\ previous \in Screens
  /\ contacts = previous
  /\ pc \in Sent => previous = touches

(* The click button that is held, as of the round the cursor was moved in. *)
Known == IF pc \in {"touch", "cursor"} THEN before ELSE held

PointerInv ==
  /\ cursor.pressed \in BOOLEAN
  /\ dragging = cursor.pressed
  /\ cursor.pressed => Known \cap ClickButtons # {} /\ cursor.sentX = cursor.x

-----------------------------------------------------------------------------
(* With free slots for all, every new finger takes one.                    *)
LEMMA AllTaken ==
  ASSUME 2 * MaxFingers <= MaxTouchPoints, touches \in Screens, previous \in Screens,
         NEW taken \in SUBSET New,
         Cardinality(taken) = IF Cardinality(New) < FreeSlots
                              THEN Cardinality(New) ELSE FreeSlots
  PROVE  taken = New
<1>1. IsFiniteSet(touches) /\ IsFiniteSet(previous)
  BY FS_Subset, InputAssumption DEF Screens
<1>2. IsFiniteSet(New) /\ Cardinality(New) <= Cardinality(touches)
  BY <1>1, FS_Subset DEF New
<1>3. /\ Cardinality(touches) \in Nat /\ Cardinality(previous) \in Nat
      /\ Cardinality(New) \in Nat
  BY <1>1, <1>2, FS_CardinalityType
<1>4. Cardinality(New) <= FreeSlots
  BY <1>2, <1>3, InputAssumption DEF Screens, FreeSlots
<1>5. FreeSlots \in Int
  BY <1>3, InputAssumption DEF FreeSlots
<1>6. Cardinality(taken) = Cardinality(New)
  BY <1>3, <1>4, <1>5
<1>7. QED BY <1>2, <1>6, FS_Subset

(* SendTouchEvents brings slots and contacts up to the screen, and sends a *)
(* down only for what was not there, a move or an up only for what was.    *)
LEMMA TouchStep ==
  ASSUME 2 * MaxFingers <= MaxTouchPoints, TouchInv, SendTouchEvents
  PROVE  /\ previous' = touches /\ contacts' = touches
         /\ New \cap contacts = {}
         /\ (touches \cap previous) \cup Ended \subseteq contacts
<1>1. PICK taken \in SUBSET New :
        /\ Cardinality(taken) = (IF Cardinality(New) < FreeSlots
                                 THEN Cardinality(New) ELSE FreeSlots)
        /\ previous' = SlotsAfter(taken)
  BY DEF SendTouchEvents
<1>2. taken = New
  BY <1>1, AllTaken DEF TouchInv
<1>3. contacts' = (contacts \cup New) \ Ended
  BY DEF SendTouchEvents
<1>4. QED BY <1>1, <1>2, <1>3 DEF TouchInv, SlotsAfter, New, Ended

(* Every part of a round keeps the slots and the contacts together.        *)
LEMMA TouchInductive ==
  ASSUME 2 * MaxFingers <= MaxTouchPoints
  PROVE  TouchInv /\ [Next]_vars => TouchInv'
<1> SUFFICES ASSUME TouchInv, [Next]_vars PROVE TouchInv'
  OBVIOUS
<1>1. CASE PollEvents
  BY <1>1 DEF PollEvents, TouchInv, Sent, engine, Screens
<1>2. CASE Quit
  BY <1>2 DEF Quit, TouchInv, Sent, engine, Screens
<1>3. CASE SendTouchEvents
  <2>1. pc' = "cursor" /\ touches' = touches
    BY <1>3 DEF SendTouchEvents
  <2>2. QED BY <1>3, <2>1, TouchStep DEF TouchInv, Sent, Screens
<1>4. CASE UpdateVirtualCursor
  BY <1>4 DEF UpdateVirtualCursor, TouchInv, Sent, Screens
<1>5. CASE SendKeyEvents
  BY <1>5 DEF SendKeyEvents, TouchInv, Sent, Screens
<1>6. CASE UNCHANGED vars
  BY <1>6 DEF vars, engine, TouchInv, Sent, Screens
<1>7. QED BY <1>1, <1>2, <1>3, <1>4, <1>5, <1>6 DEF Next

(* Nothing touches the screen at the start.                                *)
LEMMA TouchInit == Init => TouchInv
<1>1. {} \in Screens
  BY FS_EmptySet, InputAssumption DEF Screens
<1>2. QED BY <1>1 DEF Init, TouchInv, Sent

(* The cursor lets go of a click when its button is up, and takes a new    *)
(* one only then.                                                          *)
LEMMA CursorStep ==
  ASSUME PointerInv, UpdateVirtualCursor
  PROVE  PointerInv'
<1>1. /\ pc = "cursor" /\ pc' = "keys" /\ held' = held
      /\ cursor'.pressed = PressedAfter
      /\ cursor'.x = Clamp(cursor.x + stick)
      /\ cursor'.sentX = IF Phase = "none" THEN cursor.sentX ELSE cursor'.x
      /\ dragging' = (Phase = "down" \/ (dragging /\ Phase # "up"))
  BY DEF UpdateVirtualCursor, pad
<1>2. PressedAfter \in BOOLEAN /\ dragging' = PressedAfter
  BY <1>1 DEF PressedAfter, PointerInv
<1>3. ASSUME PressedAfter PROVE held \cap ClickButtons # {}
  <2>1. CASE Phase = "down"
    <3>1. Clicked
      BY <2>1 DEF Phase
    <3>2. QED BY <3>1 DEF Clicked, Down
  <2>2. CASE Phase # "down"
    <3>1. cursor.pressed /\ Phase # "up"
      BY <1>3, <2>2 DEF PressedAfter
    <3>2. ~Released
      BY <3>1 DEF Phase
    <3>3. before \cap ClickButtons # {}
      BY <1>1, <3>1 DEF PointerInv, Known
    <3>4. QED BY <3>2, <3>3 DEF Released, Up
  <2>3. QED BY <2>1, <2>2
<1>4. ASSUME PressedAfter PROVE cursor'.sentX = cursor'.x
  <2>1. CASE Phase = "none"
    <3>1. cursor.pressed
      BY <1>4, <2>1 DEF PressedAfter
    <3>2. Clamp(cursor.x + stick) = cursor.sentX
      BY <2>1, <3>1 DEF Phase
    <3>3. QED BY <1>1, <2>1, <3>2
  <2>2. QED BY <1>1, <2>1
<1>5. Known' = held
  BY <1>1 DEF Known
<1>6. QED BY <1>1, <1>2, <1>3, <1>4, <1>5 DEF PointerInv

(* Every part of a round keeps the pointer with its button.                *)
LEMMA PointerInductive == PointerInv /\ [Next]_vars => PointerInv'
<1> SUFFICES ASSUME PointerInv, [Next]_vars PROVE PointerInv'
  OBVIOUS
<1>1. CASE PollEvents
  BY <1>1 DEF PollEvents, PointerInv, Known, engine
<1>2. CASE Quit
  BY <1>2 DEF Quit, PointerInv, Known, engine, pad
<1>3. CASE SendTouchEvents
  BY <1>3 DEF SendTouchEvents, PointerInv, Known, pad
<1>4. CASE UpdateVirtualCursor
  BY <1>4, CursorStep
<1>5. CASE SendKeyEvents
  BY <1>5 DEF SendKeyEvents, PointerInv, Known, pad
<1>6. CASE UNCHANGED vars
  BY <1>6 DEF vars, PointerInv, Known, engine, pad
<1>7. QED BY <1>1, <1>2, <1>3, <1>4, <1>5, <1>6 DEF Next

-----------------------------------------------------------------------------
(* With slots for the fingers of two rounds, Flutter's contacts are what   *)
(* touches the screen.                                                     *)
THEOREM ContactsMatch ==
  ASSUME 2 * MaxFingers <= MaxTouchPoints
  PROVE  Spec => []ContactsMatchScreen
<1>1. TouchInv => ContactsMatchScreen
  BY DEF TouchInv, Sent, ContactsMatchScreen
<1>2. QED BY <1>1, TouchInit, TouchInductive, PTL DEF Spec

(* ... and each touch is one kDown, some kMove, one kUp.                   *)
THEOREM TouchesInOrder ==
  ASSUME 2 * MaxFingers <= MaxTouchPoints
  PROVE  Spec => TouchProtocol
<1>1. TouchInv /\ [Next]_vars =>
        [pc = "touch" =>
           /\ sent'.touch.down \cap contacts = {}
           /\ sent'.touch.move \cup sent'.touch.up \subseteq contacts]_vars
  <2> SUFFICES ASSUME TouchInv, Next, pc = "touch"
               PROVE  /\ sent'.touch.down \cap contacts = {}
                      /\ sent'.touch.move \cup sent'.touch.up \subseteq contacts
    OBVIOUS
  <2>1. SendTouchEvents
    BY DEF Next, PollEvents, Quit, UpdateVirtualCursor, SendKeyEvents
  <2>2. sent'.touch = [down |-> New, move |-> touches \cap previous, up |-> Ended]
    BY <2>1 DEF SendTouchEvents, NoEvents
  <2>3. QED BY <2>1, <2>2, TouchStep
<1>2. QED BY <1>1, TouchInit, TouchInductive, PTL DEF Spec, TouchProtocol

(* A click is held as long as Flutter takes it for held, whatever buttons  *)
(* are pressed and released together.                                      *)
THEOREM PointerIsHeld == Spec => []PointerFollows
<1>1. Init => PointerInv
  <2>1. Init => cursor.pressed = FALSE /\ dragging = FALSE
    BY DEF Init
  <2>2. QED BY <2>1 DEF PointerInv
<1>2. PointerInv => PointerFollows
  BY DEF PointerInv, PointerFollows, Known
<1>3. QED BY <1>1, <1>2, PointerInductive, PTL DEF Spec

-----------------------------------------------------------------------------
(***************************************************************************)
(* The keys.                                                               *)
(***************************************************************************)

(* The cursor claims A only, and has it when it begins a click.            *)
ClaimInv ==
  /\ claimed \subseteq {"A"}
  /\ pc = "keys" /\ sent.pointer = "down" => "A" \in claimed

(* A key that is down for Flutter has a button that was held in the round  *)
(* whose key events were the last.                                         *)
KeysInv ==
  /\ before \subseteq Buttons /\ held \subseteq Buttons
  /\ \A key \in keysDown \ {"Enter"} :
       ButtonsOf(key) \cap (IF pc \in {"touch", "cursor", "keys"} THEN before ELSE held) # {}

(* Enter is the key of A and of no other button.                           *)
LEMMA EnterIsA ==
  \A i \in DOMAIN ButtonKeys : ButtonKeys[i][1] = "A" <=> ButtonKeys[i][2] = "Enter"
<1>1. DOMAIN ButtonKeys = 1 .. 10
  BY DEF ButtonKeys
<1> QED BY <1>1 DEF ButtonKeys

(* Every part of a round keeps the claim of the cursor.                    *)
LEMMA ClaimInductive == ClaimInv /\ [Next]_vars => ClaimInv'
<1> SUFFICES ASSUME ClaimInv, [Next]_vars PROVE ClaimInv'
  OBVIOUS
<1>1. CASE UpdateVirtualCursor
  <2>1. /\ sent' = [NoEvents EXCEPT !.pointer = Phase] /\ claimed' = Claim
        /\ cursor'.pressed = PressedAfter
    BY <1>1 DEF UpdateVirtualCursor
  <2>2. sent'.pointer = Phase
    BY <2>1 DEF NoEvents
  <2>3. Phase = "down" => claimed' = {"A"}
    BY <2>1 DEF PressedAfter, Claim
  <2>4. claimed' \subseteq {"A"}
    BY <2>1 DEF Claim
  <2> QED BY <2>2, <2>3, <2>4 DEF ClaimInv
<1>2. CASE PollEvents \/ Quit \/ SendTouchEvents \/ SendKeyEvents
  <2>1. claimed' = claimed /\ pc' # "keys"
    BY <1>2 DEF PollEvents, Quit, SendTouchEvents, SendKeyEvents
  <2> QED BY <2>1 DEF ClaimInv
<1>3. CASE UNCHANGED vars
  BY <1>3 DEF vars, ClaimInv
<1> QED BY <1>1, <1>2, <1>3 DEF Next

(* A key event stands at the place of its button in the table, is not      *)
(* claimed by the cursor, and says whether the button is down.             *)
LEMMA KeyEventFacts ==
  \A e \in KeyEvents : \E i \in DOMAIN ButtonKeys :
    /\ ButtonKeys[i][1] \in Unclaimed
    /\ e.place = i /\ e.key = ButtonKeys[i][2]
    /\ e.type = IF ButtonKeys[i][1] \in Down THEN "down" ELSE "up"
BY DEF KeyEvents

(* The last event of a key goes by the state of its button, and where      *)
(* there is none its buttons are as they were.                             *)
LEMMA KeysStep ==
  ASSUME KeysInv, ClaimInv, SendKeyEvents
  PROVE  KeysInv'
<1>1. /\ pc = "keys" /\ pc' = "poll" /\ held' = held /\ before' = before
      /\ keysDown' = {key \in Keys : HeldAfter(KeyEvents, key)}
  BY DEF SendKeyEvents, pad
<1>2. SUFFICES ASSUME NEW key \in Keys, key # "Enter", HeldAfter(KeyEvents, key)
               PROVE  ButtonsOf(key) \cap held # {}
  BY <1>1 DEF KeysInv
<1>3. before \subseteq Buttons /\ held \subseteq Buttons
  BY DEF KeysInv
<1>4. CASE key \in keysDown /\ \A e \in KeyEvents : e.key # key
  <2>1. PICK b \in ButtonsOf(key) : b \in before
    BY <1>1, <1>2, <1>4 DEF KeysInv
  <2>2. PICK i \in DOMAIN ButtonKeys : ButtonKeys[i] = <<b, key>>
    BY <2>1 DEF ButtonsOf
  <2>3. ButtonKeys[i][1] = b /\ ButtonKeys[i][2] = key
    BY <2>2
  <2>4. b # "A"
    BY <1>2, <2>3, EnterIsA
  <2>5. b \notin Unclaimed
    <3> SUFFICES ASSUME b \in Unclaimed PROVE FALSE
      OBVIOUS
    <3>1. [place |-> i, key |-> ButtonKeys[i][2],
           type |-> IF ButtonKeys[i][1] \in Down THEN "down" ELSE "up"] \in KeyEvents
      BY <2>3 DEF KeyEvents
    <3> QED BY <1>4, <2>3, <3>1
  <2>6. b \notin Up
    BY <2>4, <2>5 DEF Unclaimed, ClaimInv
  <2> QED BY <1>3, <2>1, <2>6 DEF Up
<1>5. ASSUME NEW e \in KeyEvents, e.key = key, e.type = "down"
      PROVE  ButtonsOf(key) \cap held # {}
  <2>1. PICK i \in DOMAIN ButtonKeys : ButtonKeys[i][1] \in Down /\ ButtonKeys[i][2] = key
    BY <1>5, KeyEventFacts
  <2>2. ButtonKeys[i] = <<ButtonKeys[i][1], ButtonKeys[i][2]>>
    <3>1. DOMAIN ButtonKeys = 1 .. 10
      BY DEF ButtonKeys
    <3> QED BY <3>1 DEF ButtonKeys
  <2> QED BY <1>3, <2>1, <2>2 DEF ButtonsOf, Down
<1> QED BY <1>2, <1>4, <1>5 DEF HeldAfter

(* Every part of a round keeps the keys with their buttons.                *)
LEMMA KeysInductive == KeysInv /\ ClaimInv /\ [Next]_vars => KeysInv'
<1> SUFFICES ASSUME KeysInv, ClaimInv, [Next]_vars PROVE KeysInv'
  OBVIOUS
<1>1. CASE PollEvents
  BY <1>1 DEF PollEvents, KeysInv, engine
<1>2. CASE Quit
  BY <1>2 DEF Quit, KeysInv, engine, pad
<1>3. CASE SendTouchEvents \/ UpdateVirtualCursor
  BY <1>3 DEF SendTouchEvents, UpdateVirtualCursor, KeysInv, pad
<1>4. CASE SendKeyEvents
  BY <1>4, KeysStep
<1>5. CASE UNCHANGED vars
  BY <1>5 DEF vars, KeysInv, engine, pad
<1> QED BY <1>1, <1>2, <1>3, <1>4, <1>5 DEF Next

(* The claim of the cursor holds throughout.                               *)
LEMMA ClaimAlways == Spec => []ClaimInv
<1>1. Init => ClaimInv
  BY DEF Init, ClaimInv
<1> QED BY <1>1, ClaimInductive, PTL DEF Spec

(* No key but Enter is down for Flutter when all its buttons are released, *)
(* although two buttons share a key and are released in any order.         *)
THEOREM ReleasedKeysAreUp == Spec => []ReleasedIsUp
<1>1. Init => KeysInv
  BY DEF Init, KeysInv
<1>2. KeysInv => ReleasedIsUp
  BY DEF KeysInv, ReleasedIsUp
<1>3. QED BY <1>1, <1>2, KeysInductive, ClaimAlways, PTL DEF Spec

(* A press that begins a click of the cursor is not sent as Enter as well. *)
THEOREM ClickIsNoKey == Spec => NoDoubleActivation
<1>1. ClaimInv /\ [Next]_vars =>
        [pc = "keys" /\ sent.pointer = "down" =>
           \A e \in sent'.keys : e.key = "Enter" => e.type # "down"]_vars
  <2> SUFFICES ASSUME ClaimInv, Next, pc = "keys", sent.pointer = "down",
                      NEW e \in sent'.keys, e.key = "Enter"
               PROVE  e.type # "down"
    OBVIOUS
  <2>1. SendKeyEvents
    BY DEF Next, PollEvents, Quit, SendTouchEvents, UpdateVirtualCursor
  <2>2. sent'.keys = KeyEvents
    BY <2>1 DEF SendKeyEvents, NoEvents
  <2>3. PICK i \in DOMAIN ButtonKeys : ButtonKeys[i][1] \in Unclaimed /\ e.key = ButtonKeys[i][2]
    BY <2>2, KeyEventFacts
  <2>4. ButtonKeys[i][1] = "A" /\ "A" \in claimed
    BY <2>3, EnterIsA DEF ClaimInv
  <2>5. FALSE
    BY <2>3, <2>4 DEF Unclaimed
  <2> QED BY <2>5
<1>2. QED BY <1>1, ClaimAlways, PTL DEF Spec, NoDoubleActivation
=============================================================================

---------------------------- MODULE PlatformInput ----------------------------
(***************************************************************************)
(* The input of the main loop (examples/ui_app/source/main.cpp, the input  *)
(* half of embedder/src/platform/switch_platform.cpp): one round polls the *)
(* screen and the controller and turns what changed since the round before *)
(* into touch events, events of the virtual cursor and key events.         *)
(*                                                                         *)
(* contacts, dragging and keysDown are what Flutter makes of the events.   *)
(***************************************************************************)
EXTENDS Integers, FiniteSets, Sequences

CONSTANTS
  Fingers,      (* what the screen names its touches *)
  MaxFingers,   (* how many touch it at a time *)
  MaxTouchPoints,
  Buttons,
  Width         (* positions of the cursor, on a line *)

ASSUME InputAssumption ==
  /\ IsFiniteSet(Fingers)
  /\ MaxFingers \in Nat /\ MaxTouchPoints \in Nat /\ Width \in Nat \ {0}

VARIABLES
  pc,        (* the next call of the round *)
  touches,   (* platform.touches(): the fingers that the last poll saw *)
  held,      (* the buttons that the last poll saw, *)
  before,    (* and the poll before that *)
  stick,     (* where the right stick pushes the cursor *)
  previous,  (* g_previous: the fingers that have a slot *)
  cursor,    (* g_vcursor *)
  claimed,   (* the buttons that the cursor keeps from the keyboard *)
  sent,      (* the events of the last call that sends some *)
  contacts, dragging, keysDown

pad    == <<held, before, stick>>
engine == <<contacts, dragging, keysDown>>
vars   == <<pc, touches, pad, previous, cursor, claimed, sent, engine>>

ClickButtons == {"A", "ZR"}

\* kButtonKeys, in its order: a button and its key.
ButtonKeys ==
  << <<"Up", "ArrowUp">>, <<"Down", "ArrowDown">>,
     <<"Left", "ArrowLeft">>, <<"Right", "ArrowRight">>,
     <<"A", "Enter">>, <<"B", "Escape">>,
     <<"StickLUp", "ArrowUp">>, <<"StickLDown", "ArrowDown">>,
     <<"StickLLeft", "ArrowLeft">>, <<"StickLRight", "ArrowRight">> >>

ButtonsOf(key) == {b \in Buttons : \E i \in DOMAIN ButtonKeys : ButtonKeys[i] = <<b, key>>}
Keys == {ButtonKeys[i][2] : i \in DOMAIN ButtonKeys}

NoTouch  == [down |-> {}, move |-> {}, up |-> {}]
NoEvents == [touch |-> NoTouch, pointer |-> "none", keys |-> {}]

\* Initialize reads the buttons that are held at the start.
Init ==
  /\ pc = "poll"
  /\ touches = {} /\ previous = {}
  /\ held \in SUBSET Buttons /\ before = held
  /\ stick = 0
  /\ cursor = [x |-> Width \div 2, sentX |-> -1, active |-> FALSE, pressed |-> FALSE]
  /\ claimed = {}
  /\ sent = NoEvents
  /\ contacts = {} /\ dragging = FALSE /\ keysDown = {}

Down == held \ before
Up   == before \ held

Screens ==
  {s \in SUBSET Fingers : Cardinality(s) <= MaxFingers /\ Cardinality(s) <= MaxTouchPoints}

\* The newest state of each device; what came and went in between is not seen.
PollEvents ==
  /\ pc = "poll"
  /\ touches' \in Screens
  /\ held' \in SUBSET Buttons /\ before' = held
  /\ stick' \in {-1, 0, 1}
  /\ pc' = "touch"
  /\ sent' = NoEvents
  /\ UNCHANGED <<previous, cursor, claimed, engine>>

\* Horizon asks for the end, or Plus was pressed: the rest of the round is
\* left out.
Quit ==
  /\ pc = "poll"
  /\ pc' = "ended"
  /\ UNCHANGED <<touches, pad, previous, cursor, claimed, sent, engine>>

-----------------------------------------------------------------------------
\* Fault: every finger on the screen goes on as a new one.
NewUnfiltered == touches

\* Fault: lifted fingers are not looked for.
EndedNever == {}

New   == touches \ previous
Ended == previous \ touches

\* New fingers take their slots before those of the lifted ones are free.
SlotsAfter(taken) == (previous \cup taken) \ Ended

FreeSlots == MaxTouchPoints - Cardinality(previous)

\* The screen lists the fingers in any order: any of the new ones may be
\* left without a slot, and are sent all the same.
SendTouchEvents ==
  /\ pc = "touch"
  /\ \E taken \in SUBSET New :
       /\ Cardinality(taken) = (IF Cardinality(New) < FreeSlots
                                THEN Cardinality(New) ELSE FreeSlots)
       /\ previous' = SlotsAfter(taken)
  /\ sent' = [NoEvents EXCEPT !.touch =
                [down |-> New, move |-> touches \cap previous, up |-> Ended]]
  /\ contacts' = (contacts \cup New) \ Ended
  /\ pc' = "cursor"
  /\ UNCHANGED <<touches, pad, cursor, claimed, dragging, keysDown>>

-----------------------------------------------------------------------------
\* Fault: only the release of A ends a click.
ReleasedA == "A" \in Up

Clicked  == Down \cap ClickButtons # {}
Released == Up \cap ClickButtons # {}

Clamp(x) == IF x < 0 THEN 0 ELSE IF x > Width - 1 THEN Width - 1 ELSE x

\* The stick and ZR wake the cursor.
Awake == cursor.active \/ stick # 0 \/ "ZR" \in Down

\* A press of a click button begins a click, the release of either ends it.
Phase ==
  IF Awake /\ ~cursor.pressed /\ Clicked THEN "down"
  ELSE IF cursor.pressed /\ Released THEN "up"
  ELSE IF cursor.pressed /\ Clamp(cursor.x + stick) # cursor.sentX THEN "move"
  ELSE "none"

PressedAfter == Phase = "down" \/ (cursor.pressed /\ Phase # "up")

\* Five seconds may have gone since the last input, unless it is new.
MayHide ==
  Awake /\ ~PressedAfter /\ stick = 0 /\ "ZR" \notin Down /\ Phase = "none"

\* Fault: a click does not claim A.
ClaimNothing == {}

\* A visible or pressed cursor has A for itself.
Claim == IF cursor'.active \/ cursor'.pressed THEN {"A"} ELSE {}

UpdateVirtualCursor ==
  /\ pc = "cursor"
  /\ \E hides \in BOOLEAN :
       /\ hides => MayHide
       /\ LET x == Clamp(cursor.x + stick)
          IN  cursor' = [x |-> x,
                         sentX |-> IF Phase = "none" THEN cursor.sentX ELSE x,
                         active |-> Awake /\ ~hides,
                         pressed |-> PressedAfter]
  /\ claimed' = Claim
  /\ sent' = [NoEvents EXCEPT !.pointer = Phase]
  /\ dragging' = (Phase = "down" \/ (dragging /\ Phase # "up"))
  /\ pc' = "keys"
  /\ UNCHANGED <<touches, pad, previous, contacts, keysDown>>

-----------------------------------------------------------------------------
\* Fault: an active cursor keeps the whole controller from the keyboard.
UnclaimedNone == IF claimed = {} THEN Down \cup Up ELSE {}

Unclaimed == (Down \cup Up) \ claimed

\* Through the table: what went down or up, unless it is claimed; "place" is the
\* place of the event among them.
KeyEvents ==
  {[place |-> i, key |-> ButtonKeys[i][2],
    type |-> IF ButtonKeys[i][1] \in Down THEN "down" ELSE "up"]
   : i \in {i \in DOMAIN ButtonKeys : ButtonKeys[i][1] \in Unclaimed}}

\* Of a key that is held or not, the last event says which.
HeldAfter(events, key) ==
  \/ key \in keysDown /\ \A e \in events : e.key # key
  \/ \E e \in events :
       /\ e.key = key /\ e.type = "down"
       /\ \A other \in events : other.key = key => other.place <= e.place

SendKeyEvents ==
  /\ pc = "keys"
  /\ sent' = [NoEvents EXCEPT !.keys = KeyEvents]
  /\ keysDown' = {key \in Keys : HeldAfter(KeyEvents, key)}
  /\ pc' = "poll"
  /\ UNCHANGED <<touches, pad, previous, cursor, claimed, contacts, dragging>>

Next == PollEvents \/ Quit \/ SendTouchEvents \/ UpdateVirtualCursor \/ SendKeyEvents

Spec == Init /\ [][Next]_vars

-----------------------------------------------------------------------------
(* What Flutter takes for touching is what touches the screen: no contact  *)
(* is left behind or forgotten, over any number of rounds (main.cpp        *)
(* :188-193), as long as the slots suffice for the fingers of two rounds.  *)
ContactsMatchScreen ==
  pc \in {"cursor", "keys", "poll"} => contacts = touches

(* Each touch is one kDown, some kMove, one kUp.                           *)
TouchProtocol ==
  [][pc = "touch" =>
       /\ sent'.touch.down \cap contacts = {}
       /\ sent'.touch.move \cup sent'.touch.up \subseteq contacts]_vars

(* The pointer is down for Flutter when the cursor is pressed, and only    *)
(* while a click button is held; during a drag Flutter knows where it is.  *)
PointerFollows ==
  pc \in {"keys", "poll"} =>
    /\ dragging = cursor.pressed
    /\ cursor.pressed => held \cap ClickButtons # {} /\ cursor.sentX = cursor.x

(* A press that clicks does not activate the focused widget as well        *)
(* (main.cpp:288-289, "sonst doppelte Aktivierung").                       *)
NoDoubleActivation ==
  [][pc = "keys" /\ sent.pointer = "down" =>
       \A e \in sent'.keys : e.key = "Enter" => e.type # "down"]_vars

(* No key but Enter stays down when all its buttons are released, although *)
(* two buttons share a key and their edges come in the table's order.      *)
ReleasedIsUp ==
  pc = "poll" =>
    \A key \in keysDown \ {"Enter"} : ButtonsOf(key) \cap held # {}
=============================================================================

----------------------------- MODULE TextInput -----------------------------
(***************************************************************************)
(* The channel flutter/textinput (embedder/src/engine/                     *)
(* textinput_horizon.cpp) and the system's keyboard, which holds up the    *)
(* thread of the platform until the user closes it.                        *)
(***************************************************************************)
EXTENDS Integers, Sequences, JsonText

CONSTANTS
  Clients,   (* the framework's text input clients *)
  Texts,     (* what the framework and the user write, as code points *)
  Action     (* the input action each client asks for *)

ASSUME TextInputAssumption ==
  /\ Clients \subseteq Nat
  /\ \A text \in Texts : \A i \in DOMAIN text : text[i] \in Nat

VARIABLES
  g_client_id, g_text, g_input_action,
  keyboard   (* swkbdShow is waiting for the user *)

textInputVars == <<g_client_id, g_text, g_input_action, keyboard>>

NoClient == -1

TextInputInit ==
  g_client_id = NoClient /\ g_text = <<>> /\ g_input_action = "done" /\ keyboard = FALSE

SetClient(m) ==
  /\ m.method = "setClient"
  /\ g_client_id' = m.client /\ g_input_action' = Action[m.client]
  /\ UNCHANGED <<g_text, keyboard>>

\* What is read of each text; of one that does not end its beginning is.
Read == [text \in Texts |-> ExtractJsonString(Written(text)).out]

SetEditingState(m) ==
  /\ m.method = "setEditingState"
  /\ g_text' = Read[m.text]
  /\ UNCHANGED <<g_client_id, g_input_action, keyboard>>

\* Fault: the text of the last client stays.
ClearClientOnly(m) ==
  /\ m.method = "clearClient"
  /\ g_client_id' = NoClient
  /\ UNCHANGED <<g_text, g_input_action, keyboard>>

ClearClient(m) ==
  /\ m.method = "clearClient"
  /\ g_client_id' = NoClient /\ g_text' = <<>>
  /\ UNCHANGED <<g_input_action, keyboard>>

\* The keyboard may fail to come up.
Show(m) ==
  /\ m.method = "show"
  /\ keyboard' \in BOOLEAN
  /\ UNCHANGED <<g_client_id, g_text, g_input_action>>

\* hide, setCaretRect and the like
Acknowledge(m) ==
  /\ m.method = "hide"
  /\ UNCHANGED textInputVars

HandleTextInput(m) ==
  SetClient(m) \/ SetEditingState(m) \/ ClearClient(m) \/ Show(m) \/ Acknowledge(m)

-----------------------------------------------------------------------------
\* The user's text, in memory and as the framework reads it: what stands between the
\* quotes, and the selection behind it.
Typed == [text \in Texts |->
  [utf8 |-> Utf8(text),
   read |-> ExtractJsonString(JsonEscape(Utf8(text)) \o <<Quote>>).out,
   selection |-> Utf16Length(Utf8(text))]]

\* The conversions lose nothing of the texts that are written here.
ASSUME TextsReadBack ==
  \A text \in Texts :
    /\ Read[text] = Utf8(text) /\ Typed[text].read = Utf8(text) /\ Typed[text].utf8 = Utf8(text)
    /\ Typed[text].selection = Utf16Units(text)

UpdateEditingState(client, typed) ==
  [kind |-> "update", client |-> client,
   text |-> Typed[typed].read, selection |-> Typed[typed].selection]

PerformAction(client, action) == [kind |-> "action", client |-> client, action |-> action]

\* The user confirms a text: two messages to the client, if there is one.
Confirm(typed) ==
  /\ keyboard /\ keyboard' = FALSE
  /\ g_text' = IF g_client_id = NoClient THEN g_text ELSE Typed[typed].utf8
  /\ UNCHANGED <<g_client_id, g_input_action>>

Messages(typed) ==
  IF g_client_id = NoClient THEN <<>>
  ELSE <<UpdateEditingState(g_client_id, typed), PerformAction(g_client_id, g_input_action)>>

Cancel ==
  /\ keyboard /\ keyboard' = FALSE
  /\ UNCHANGED <<g_client_id, g_text, g_input_action>>
=============================================================================

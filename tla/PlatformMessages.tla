-------------------------- MODULE PlatformMessages --------------------------
(***************************************************************************)
(* The two threads on which the application's platform messages travel,    *)
(* from the start of the program to its end: main's loop on the platform's *)
(* thread, which runs the engine's tasks (TaskRunner), answers messages    *)
(* (PluginChannels, TextInput) and waits in the system's applets; and the  *)
(* UI thread, on which Dart runs in tasks of fml's loop (MessageLoop).     *)
(*                                                                         *)
(* Dart sends messages and changes its own state while a task of the UI    *)
(* thread runs.  Posting is FlutterEngineSendPlatformMessage on the way to *)
(* the platform and SendPlatformMessageResponse on the way back.           *)
(***************************************************************************)
EXTENDS TaskRunner, MessageLoop, PluginChannels, TextInput, Lifecycle

CONSTANTS
  MaxMessages,   (* bound: messages Dart sends *)
  OtherMessages, (* what Dart sends on other channels than flutter/textinput *)
  Directory      (* the files to pick from *)

ASSUME PlatformMessagesAssumption == MaxMessages \in Nat

VARIABLES
  posts,      (* what the message being handled still posts to the UI thread *)
  web,        (* the browser is open *)
  handles,    (* how far each message with a response handle has come *)
  focus_sent, g_first_frame_presented,
  uiTask,     (* the task that runs on the UI thread *)
  dart,       (* the framework's client, text, selection; whether runApp has built *)
  agreed      (* Dart's last editing state was set with no keyboard in between *)

messageVars == <<posts, web, handles>>
frameVars   == <<focus_sent, g_first_frame_presented>>
dartVars    == <<dart, agreed>>
uiVars      == <<tasks, loop, flushed, until, lock, registered, uiTask>>
vars == <<runnerVars, loopVars, textInputVars, lifecycleVars, messageVars, frameVars,
          uiTask, dartVars>>

Ids == 0 .. MaxMessages - 1
Ui(kind) == [kind |-> kind]
AnswerTo(id) == [kind |-> "answer", id |-> id]

TextMessage(method, client, text) ==
  [channel |-> "textinput", method |-> method, client |-> client, text |-> text]
OtherMessage == [channel |-> "other"]

\* The tasks of the two threads: the messages to the platform, and what is posted to Dart.
Sendable ==
  {TextMessage("setClient", client, <<>>) : client \in Clients}
    \cup {TextMessage("setEditingState", NoClient, text) : text \in Texts}
    \cup {TextMessage(method, NoClient, <<>>) : method \in {"clearClient", "show", "hide"}}
    \cup {OtherMessage}

Replies ==
  {AnswerTo(id) : id \in Ids}
    \cup {UpdateEditingState(client, text) : client \in Clients, text \in Texts}
    \cup {PerformAction(client, Action[client]) : client \in Clients}

UiTasks == {Ui(kind) : kind \in {"start", "build", "timer", "focus", "stop"}} \cup Replies

ASSUME TasksAssumption == Sendable \subseteq PlatformTasks /\ UiTasks \subseteq LoopTasks

Outcomes == UNION {PlatformMessageCallback(m, Directory) : m \in OtherMessages}

Init ==
  /\ RunnerInit /\ LoopInit /\ TextInputInit /\ LifecycleInit
  /\ \A time \in Times : now <= time
  /\ posts = <<>> /\ web = FALSE /\ handles = [id \in Ids |-> "none"]
  /\ focus_sent = FALSE /\ g_first_frame_presented = FALSE
  /\ uiTask = Ui("none")
  /\ dart = [client |-> NoClient, text |-> <<>>, selection |-> 0, built |-> FALSE] /\ agreed = TRUE

-----------------------------------------------------------------------------
(* The platform's thread.                                                  *)

Starts ==
  /\ StartUp \/ EngineInitialize
  /\ UNCHANGED <<runnerVars, loopVars, textInputVars, messageVars, frameVars, uiTask, dartVars>>

\* FlutterEngineRunInitialized posts the start of the isolate.
Runs ==
  /\ RunInitialized
  /\ IF engine' = "runs" THEN Register(Ui("start"), now) ELSE UNCHANGED loopVars
  /\ UNCHANGED <<runnerVars, textInputVars, messageVars, frameVars, uiTask, dartVars>>

Handling == posts # <<>> \/ keyboard \/ web

\* A round of the loop reaches RunExpiredTasks; without an engine it does nothing.
Round ==
  /\ stage = "loop" /\ engine # "none"
  /\ ReadClock \/ TakeExpired
  /\ UNCHANGED <<uiVars, textInputVars, lifecycleVars, messageVars, frameVars, dartVars>>

\* n calls of respond, which does nothing for a message without a handle.
Answered(e, n) ==
  IF handles[e.id] = "none" THEN <<>> ELSE [i \in 1 .. n |-> AnswerTo(e.id)]

HandleMessage(e) ==
  /\ ~Handling
  /\ RunTask(e)
  /\ IF e.task.channel = "textinput"
     THEN HandleTextInput(e.task) /\ posts' = Answered(e, 1) /\ UNCHANGED web
     ELSE \E r \in Outcomes :
            /\ posts' = Answered(e, Len(r.answers))
            /\ web' = (r.opens = "web")
            /\ UNCHANGED textInputVars
  /\ UNCHANGED <<uiVars, handles, lifecycleVars, frameVars, dartVars>>

Posted(task) ==
  IF task.kind = "answer"
  THEN handles' = [handles EXCEPT ![task.id] = IF @ = "open" THEN "answered" ELSE "again"]
  ELSE UNCHANGED handles

PostToUi ==
  /\ posts # <<>>
  /\ Register(Head(posts), now)
  /\ Posted(Head(posts)) /\ posts' = Tail(posts)
  /\ UNCHANGED <<runnerState, textInputVars, lifecycleVars, web, frameVars, uiTask, dartVars>>

\* The user ends the keyboard or the browser, which opened after the answer was posted.
CloseApplet ==
  /\ posts = <<>>
  /\ \/ \E typed \in Texts : Confirm(typed) /\ posts' = Messages(typed) /\ UNCHANGED web
     \/ Cancel /\ UNCHANGED <<posts, web>>
     \/ web /\ web' = FALSE /\ UNCHANGED <<posts, textInputVars>>
  /\ UNCHANGED <<runnerVars, uiVars, handles, lifecycleVars, frameVars, dartVars>>

\* Fault: the focus is announced in the first round.
RoundEndsEarly ==
  /\ ~Handling
  /\ Finish
  /\ IF ~focus_sent
     THEN Register(Ui("focus"), now) /\ focus_sent' = TRUE
     ELSE UNCHANGED <<loopVars, focus_sent>>
  /\ UNCHANGED <<textInputVars, lifecycleVars, messageVars, g_first_frame_presented, uiTask, dartVars>>

\* After the tasks the loop announces the focus, once, when a frame has been shown.
RoundEnds ==
  /\ ~Handling
  /\ Finish
  /\ IF ~focus_sent /\ g_first_frame_presented
     THEN Register(Ui("focus"), now) /\ focus_sent' = TRUE
     ELSE UNCHANGED <<loopVars, focus_sent>>
  /\ UNCHANGED <<textInputVars, lifecycleVars, messageVars, g_first_frame_presented, uiTask, dartVars>>

\* The engine's shutdown posts the end of the loop to the UI thread and waits for it.
QuitLoop ==
  /\ runner = "idle" /\ Quit
  /\ IF engine # "none" THEN Register(Ui("stop"), now) ELSE UNCHANGED loopVars
  /\ UNCHANGED <<runnerVars, textInputVars, messageVars, frameVars, uiTask, dartVars>>

ShutsDown ==
  /\ \/ loop = "left" /\ EngineShutdown
     \/ CloseDown
  /\ UNCHANGED <<runnerVars, loopVars, textInputVars, messageVars, frameVars, uiTask, dartVars>>

-----------------------------------------------------------------------------
(* The UI thread.                                                          *)

UiWaits ==
  /\ engine # "none"
  /\ Start \/ Leave \/ Wait \/ WaitFor \/ WaitEnds \/ RunTasks \/ NoneDue
  /\ UNCHANGED <<runnerState, uiTask, textInputVars, lifecycleVars, messageVars, frameVars, dartVars>>

UiWakes ==
  /\ Spurious
  /\ UNCHANGED <<runnerState, uiTask, textInputVars, lifecycleVars, messageVars, frameVars, dartVars>>

UiNotify ==
  /\ Notify
  /\ UNCHANGED <<runnerState, uiTask, textInputVars, lifecycleVars, messageVars, frameVars, dartVars>>

\* What the framework does with what it is told: an answer completes its await, and a
\* new text is that of the field if it is for its client.
Receives(task) ==
  /\ handles' = IF task.kind = "answer" THEN [handles EXCEPT ![task.id] = "returned"] ELSE handles
  /\ dart' = IF task.kind = "update" /\ task.client = dart.client
             THEN [dart EXCEPT !.text = task.text, !.selection = task.selection]
             ELSE [dart EXCEPT !.built = @ \/ task.kind = "build"]

UiTask(e) ==
  /\ NextTask(e)
  /\ uiTask' = e.task /\ Receives(e.task)
  /\ IF e.task.kind = "build" THEN UseFonts ELSE UNCHANGED lifecycleVars
  /\ UNCHANGED <<runnerState, textInputVars, posts, web, frameVars, agreed>>

\* The isolate's start asks for entropy; runApp builds in a task of its own, which
\* asks for the fonts.
UiStarts ==
  /\ loop = "task" /\ uiTask.kind = "start"
  /\ Register(Ui("build"), now)
  /\ uiTask' = Ui("started") /\ UseRandom
  /\ UNCHANGED <<runnerState, textInputVars, messageVars, frameVars, dartVars>>

UiStops ==
  /\ loop = "task" /\ uiTask.kind = "stop" /\ running
  /\ Terminate
  /\ UNCHANGED <<runnerState, uiTask, textInputVars, lifecycleVars, messageVars, frameVars, dartVars>>

UiTaskDone ==
  /\ uiTask.kind # "start" /\ (uiTask.kind = "stop" => ~running)
  /\ TaskDone
  /\ uiTask' = Ui("none")
  /\ UNCHANGED <<runnerState, textInputVars, lifecycleVars, messageVars, frameVars, dartVars>>

\* On the raster thread.
Present ==
  /\ engine = "runs" /\ dart.built /\ ~g_first_frame_presented
  /\ g_first_frame_presented' = TRUE
  /\ UNCHANGED <<runnerVars, loopVars, uiTask, textInputVars, lifecycleVars, messageVars,
                 focus_sent, dartVars>>

\* Bound: time passes when a task waits for it.
Tick ==
  /\ \E e \in tasks : e.time > now
  /\ RunnerTick /\ LoopTick
  /\ UNCHANGED <<uiTask, textInputVars, lifecycleVars, messageVars, frameVars, dartVars>>

-----------------------------------------------------------------------------
(* Dart, while one of its tasks runs.                                      *)

RunsDart == loop = "task" /\ dart.built /\ uiTask.kind \in {"build", "timer", "answer", "update", "action"}

TimerSet == \E time \in Times : time < now \/ \E e \in tasks : e.time > time

\* Bound: fewer in a program with a timer or without the GPU, which no handler looks at.
Budget == IF TimerSet \/ ~use_gpu THEN MaxMessages \div 2 ELSE MaxMessages

Send(m, reply) ==
  /\ RunsDart /\ enqueued < Budget
  /\ Enqueue(m, now)
  /\ handles' = [handles EXCEPT ![enqueued] = IF reply THEN "open" ELSE "none"]
  /\ UNCHANGED <<uiVars, textInputVars, lifecycleVars, posts, web, frameVars>>

\* A keyboard has been asked for, or what was typed is on its way to Dart.
KeyboardComes ==
  \/ keyboard
  \/ \E e \in queue \cup due : e.task.channel = "textinput" /\ e.task.method = "show"
  \/ \E i \in DOMAIN posts : posts[i].kind = "update"
  \/ \E e \in tasks : e.task.kind = "update"

Attach(client) ==
  /\ dart.client # client
  /\ Send(TextMessage("setClient", client, <<>>), TRUE)
  /\ dart' = [dart EXCEPT !.client = client] /\ agreed' = FALSE

Units == [text \in Texts |-> Utf16Units(text)]

SetsText(text) ==
  /\ dart.client # NoClient
  /\ Send(TextMessage("setEditingState", NoClient, text), TRUE)
  /\ dart' = [dart EXCEPT !.text = Typed[text].utf8, !.selection = Units[text]]
  /\ agreed' = ~KeyboardComes

Detach ==
  /\ dart.client # NoClient
  /\ Send(TextMessage("clearClient", NoClient, <<>>), TRUE)
  /\ dart' = [dart EXCEPT !.client = NoClient] /\ agreed' = FALSE

ShowsOrHides ==
  /\ dart.client # NoClient
  /\ \E method \in {"show", "hide"} : Send(TextMessage(method, NoClient, <<>>), TRUE)
  /\ UNCHANGED dartVars

Asks ==
  /\ \E reply \in BOOLEAN : Send(OtherMessage, reply)
  /\ UNCHANGED dartVars

\* Bound: one timer at a time, and before most messages.
SetsTimer(time) ==
  /\ RunsDart /\ enqueued <= MaxMessages \div 2
  /\ time > now /\ \A e \in tasks : e.time <= now
  /\ Register(Ui("timer"), time)
  /\ UNCHANGED <<runnerState, uiTask, textInputVars, lifecycleVars, messageVars, frameVars, dartVars>>

-----------------------------------------------------------------------------
Platform ==
  \/ Starts \/ Runs \/ Round \/ PostToUi \/ RoundEnds \/ ShutsDown
  \/ \E e \in due : HandleMessage(e)

UiThread ==
  \/ UiWaits \/ UiStarts \/ UiStops \/ UiTaskDone
  \/ \E e \in tasks : UiTask(e)

Dart ==
  \/ \E client \in Clients : Attach(client)
  \/ \E text \in Texts : SetsText(text)
  \/ Detach \/ ShowsOrHides \/ Asks
  \/ \E time \in Times : SetsTimer(time)

Next ==
  \/ Platform \/ CloseApplet \/ QuitLoop
  \/ UiThread \/ UiWakes \/ UiNotify \/ Dart
  \/ Present \/ Tick

(* Each of the two threads goes on as long as it can, the user closes what *)
(* covers the screen, and a notification arrives.  Frames and time need    *)
(* not come.                                                               *)
Fairness == WF_vars(Platform \/ CloseApplet) /\ WF_vars(UiThread \/ UiNotify)

Spec == Init /\ [][Next]_vars /\ Fairness

-----------------------------------------------------------------------------
(* Every message that waits for an answer gets one, and no message two:    *)
(* while it is unanswered it is in the queue or being handled, whichever   *)
(* of the handlers took it and whatever failed in it.                      *)
AnsweredOnce ==
  \A id \in Ids :
    /\ handles[id] # "again"
    /\ handles[id] = "open" =>
         \/ \E e \in queue \cup due : e.id = id
         \/ \E i \in DOMAIN posts : posts[i] = AnswerTo(id)

(* The channel's client and text are the framework's once nothing about    *)
(* them is under way, no text outlives its client, and the selection is    *)
(* behind the text in units of UTF-16, unless Dart set a text while a      *)
(* keyboard was up: Dart runs on its own thread, and then the last of the  *)
(* two to write wins, not the same on both sides.                          *)
TextInStep ==
  LET settled == /\ posts = <<>> /\ ~keyboard
                 /\ \A e \in queue \cup due : e.task.channel # "textinput"
                 /\ \A e \in tasks : e.task.kind # "update"
  IN  settled =>
        /\ g_client_id = dart.client
        /\ (dart.client = NoClient => g_text = <<>>)
        /\ dart.client # NoClient /\ agreed =>
             /\ g_text = dart.text
             /\ \E text \in Texts : dart.text = Utf8(text) /\ dart.selection = Units[text]

(* The focus event reaches a tree: it is not posted before runApp has      *)
(* built, which RunInitialized does not wait for (main.cpp:962-979).       *)
FocusFindsTree == uiTask.kind = "focus" => dart.built

(* After a regular end nothing is left open in the process of the host,    *)
(* neither what main opened nor what the engine's threads opened while it  *)
(* ran (main.cpp:1037-1043); and until then the log and with it the socket *)
(* service outlive everything that writes to them.                         *)
NothingLeft ==
  exitCode = 0 =>
    /\ stage = "ended" => sessions = {} /\ egl = {}
    /\ engine # "none" \/ egl # {} \/ sessions \ {"framebuffer"} # {} => "log" \in sessions

(* No await of Dart hangs for ever while the program runs, whoever holds   *)
(* up the platform's thread in between: again and again no message waits,  *)
(* which for the bounded number that Dart sends is the same.               *)
AwaitReturns ==
  []<>(stage = "loop" => \A id \in Ids : handles[id] \in {"none", "returned"})

(* The end of the main loop is the end of the program: the UI thread       *)
(* leaves its loop, asleep or not, and the engine's shutdown returns.      *)
ShutdownEnds == stage = "shutdown" ~> stage = "ended"
=============================================================================

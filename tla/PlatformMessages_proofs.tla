----------------------- MODULE PlatformMessages_proofs -----------------------
(***************************************************************************)
(* For any messages, clients, texts, points of time and failures of the    *)
(* start: the composition runs its task runner and its message loop as     *)
(* their specifications say, no message is answered twice or forgotten,    *)
(* the text of the channel is the framework's, the focus finds a tree, and *)
(* a regular end leaves nothing open.                                      *)
(***************************************************************************)
EXTENDS PlatformMessages, EngineThreads_proofs, SequenceTheorems

Pending == queue \cup due

(* What is queued is what Dart sends, and what is posted what its thread   *)
(* takes; the input action is the client's.                                *)
TaskInv ==
  /\ \A e \in Pending : e.task \in Sendable
  /\ \A u \in tasks : u.task \in UiTasks
  /\ posts \in Seq(Replies)
  /\ g_client_id \in Clients \cup {NoClient}
  /\ g_client_id # NoClient => g_input_action = Action[g_client_id]
  /\ dart = [client |-> dart.client, text |-> dart.text, selection |-> dart.selection,
             built |-> dart.built]
  /\ dart.client \in Clients \cup {NoClient} /\ dart.built \in BOOLEAN
  /\ enqueued <= MaxMessages

(* The messages keep their order from Dart to their handlers, although a   *)
(* queue may sort by time: each is due at once.                            *)
OrderInv ==
  /\ \A e \in Pending : e.time <= now
  /\ \A e, f \in Pending : /\ e.id = f.id => e = f
                           /\ e.id < f.id => e.time <= f.time
  /\ \A d \in due, q \in queue : d.id < q.id

(* An answer that is owed is with the message or its handler; one that is  *)
(* on its way was owed, and is owed no more.                               *)
AnswerInv ==
  /\ handles \in [Ids -> {"none", "open", "answered", "returned"}]
  /\ \A id \in Ids : id >= enqueued => handles[id] = "none"
  /\ \A e \in Pending : handles[e.id] \in {"none", "open"}
  /\ \A i \in DOMAIN posts : posts[i].kind = "answer" =>
       /\ handles[posts[i].id] = "open"
       /\ \A e \in Pending : e.id # posts[i].id
       /\ \A j \in DOMAIN posts : posts[j] = posts[i] => i = j
  /\ \A u \in tasks : u.task.kind = "answer" => handles[u.task.id] \in {"answered", "returned"}
  /\ \A id \in Ids : handles[id] = "open" =>
       \/ \E e \in Pending : e.id = id
       \/ \E i \in DOMAIN posts : posts[i] = AnswerTo(id)

(* What has been drawn was built, and so nobody is given the focus before. *)
FocusInv ==
  /\ g_first_frame_presented => dart.built
  /\ \A u \in tasks : u.task.kind = "focus" => dart.built
  /\ uiTask.kind = "focus" => dart.built

(* What main has opened by now and has not closed yet, and that the UI     *)
(* thread runs tasks, which open more, only while there is an engine.      *)
Early  == {"romfs", "egl", "platform", "psm", "initialize"}
Middle == {"run", "loop", "shutdown"}
Late   == {"video", "eglShutdown", "services"}

LifeInv ==
  /\ exitCode \in {0, 1}
  /\ exitCode = 0 =>
       /\ stage \in {"log"} \cup Early \cup Middle \cup Late \cup {"logShutdown", "return", "ended"}
       /\ stage \notin Middle => engine = "none"
       /\ engine = "none" => loop \in {"new", "left"}
       /\ stage \in {"log", "romfs", "egl", "services", "logShutdown", "return", "ended"} => egl = {}
       /\ stage \in Early \cup Middle \cup Late =>
            /\ "log" \in sessions
            /\ sessions \subseteq
                 {"log", "romfs", "framebuffer", "boost", "psm", "fonts", "csrng"}
       /\ stage = "logShutdown" => "log" \in sessions /\ sessions \subseteq {"log", "framebuffer"}
       /\ stage = "return" => sessions \subseteq {"framebuffer"}
       /\ stage \in {"log", "ended"} => sessions = {}

(* A step that touches neither the messages nor what Dart knows of them    *)
(* leaves the UI thread its tasks or posts it one of the system's.         *)
SystemKinds == {"start", "build", "timer", "focus", "stop"}

SystemPosts == \E kind \in SystemKinds, time \in Times : Register(Ui(kind), time)

Aside ==
  /\ UNCHANGED <<queue, due, enqueued, posts, handles, textInputVars, dartVars>>
  /\ UNCHANGED <<tasks, registered>> \/ SystemPosts

Talks ==
  \/ \E client \in Clients : Attach(client)
  \/ \E text \in Texts : SetsText(text)
  \/ Detach \/ ShowsOrHides \/ Asks

-----------------------------------------------------------------------------
(* Whatever Dart says is a message.                                        *)
LEMMA TalksSend ==
  ASSUME Talks
  PROVE  \E m \in Sendable, reply \in BOOLEAN : Send(m, reply)
<1>1. CASE \E client \in Clients : Attach(client)
  BY <1>1 DEF Attach, Sendable
<1>2. CASE \E text \in Texts : SetsText(text)
  BY <1>2 DEF SetsText, Sendable
<1>3. CASE Detach \/ ShowsOrHides \/ Asks
  BY <1>3 DEF Detach, ShowsOrHides, Asks, Sendable
<1> QED BY <1>1, <1>2, <1>3 DEF Talks

(* The parts of the composition take steps of their own specifications.    *)
LEMMA PartsStep ==
  ASSUME now \in Times, TaskInv, [Next]_vars
  PROVE  [RunnerNext]_runnerVars /\ [LoopNext]_loopVars
<1>1. CASE Starts \/ ShutsDown \/ Present
  BY <1>1 DEF Starts, ShutsDown, Present
<1>2. ASSUME NEW task \in UiTasks, NEW time \in Times, Register(task, time)
      PROVE  LoopNext
  BY <1>2, TasksAssumption DEF LoopNext
<1>3. \A kind \in SystemKinds : Ui(kind) \in UiTasks
  BY DEF SystemKinds, UiTasks
<1>4. CASE Runs \/ QuitLoop
  BY <1>2, <1>3, <1>4 DEF Runs, QuitLoop, SystemKinds
<1>5. CASE Round
  BY <1>5 DEF Round, RunnerNext, uiVars, loopVars, ReadClock, TakeExpired, lock
<1>6. CASE \E e \in due : HandleMessage(e)
  BY <1>6 DEF HandleMessage, RunnerNext, uiVars, loopVars, RunTask, lock
<1>7. CASE PostToUi
  <2>1. Head(posts) \in UiTasks
    BY <1>7, HeadTailProperties DEF TaskInv, PostToUi, UiTasks
  <2>2. Register(Head(posts), now) /\ UNCHANGED runnerState
    BY <1>7 DEF PostToUi
  <2> QED BY <1>2, <2>1, <2>2 DEF Register, runnerVars
<1>8. CASE CloseApplet
  BY <1>8 DEF CloseApplet, uiVars, loopVars, runnerVars, lock
<1>9. CASE RoundEnds
  <2>1. RunnerNext /\ now' = now
    BY <1>9 DEF RoundEnds, RunnerNext, Finish
  <2>2. Register(Ui("focus"), now) \/ UNCHANGED loopVars
    BY <1>9 DEF RoundEnds
  <2> QED BY <1>2, <1>3, <2>1, <2>2 DEF SystemKinds
<1>10. CASE UiWaits \/ UiWakes \/ UiNotify
  BY <1>10 DEF UiWaits, UiWakes, UiNotify, LoopNext, runnerVars, Start, Leave, Wait, WaitFor,
     WaitEnds, RunTasks, NoneDue, Spurious, Notify
<1>11. CASE \E e \in tasks : UiTask(e)
  BY <1>11 DEF UiTask, LoopNext, runnerVars, NextTask
<1>12. CASE UiStarts
  BY <1>2, <1>3, <1>12 DEF UiStarts, SystemKinds, runnerVars, Register
<1>13. CASE UiStops \/ UiTaskDone
  BY <1>13 DEF UiStops, UiTaskDone, LoopNext, runnerVars, Terminate, TaskDone
<1>14. CASE Tick
  BY <1>14 DEF Tick, RunnerNext, LoopNext
<1>15. ASSUME NEW m \in Sendable, NEW reply \in BOOLEAN, Send(m, reply)
       PROVE  RunnerNext /\ UNCHANGED loopVars
  BY <1>15, TasksAssumption DEF Send, RunnerNext, uiVars, loopVars, Enqueue, lock
<1>16. CASE \E time \in Times : SetsTimer(time)
  BY <1>2, <1>3, <1>16 DEF SetsTimer, SystemKinds, runnerVars, Register
<1>17. CASE Talks
  BY <1>15, <1>17, TalksSend
<1>18. CASE UNCHANGED vars
  BY <1>18 DEF vars
<1> QED
  BY <1>1, <1>4, <1>5, <1>6, <1>7, <1>8, <1>9, <1>10, <1>11, <1>12, <1>13, <1>14, <1>16,
     <1>17, <1>18 DEF Next, Platform, UiThread, Dart, Talks

(* Every step is one of seven kinds, of which each touches the messages in *)
(* its own way.                                                            *)
LEMMA StepKinds ==
  ASSUME now \in Times, TaskInv, [Next]_vars
  PROVE  \/ Aside \/ Round \/ PostToUi \/ CloseApplet \/ Talks
         \/ \E e \in due : HandleMessage(e)
         \/ \E e \in tasks : UiTask(e)
<1> USE DEF Aside, uiVars, messageVars, runnerVars, runnerState, loopVars
<1>1. CASE Starts \/ ShutsDown \/ Present \/ Tick
  BY <1>1 DEF Starts, ShutsDown, Present, Tick, RunnerTick, LoopTick
<1>2. CASE Runs \/ QuitLoop
  <2>1. SystemPosts \/ UNCHANGED loopVars
    BY <1>2 DEF Runs, QuitLoop, SystemPosts, SystemKinds
  <2> QED BY <1>2, <2>1 DEF Runs, QuitLoop
<1>3. CASE RoundEnds
  <2>1. SystemPosts \/ UNCHANGED loopVars
    BY <1>3 DEF RoundEnds, SystemPosts, SystemKinds
  <2> QED BY <1>3, <2>1 DEF RoundEnds, Finish
<1>4. CASE UiWaits \/ UiWakes \/ UiNotify
  BY <1>4 DEF UiWaits, UiWakes, UiNotify, Start, Leave, Wait, WaitFor, WaitEnds, RunTasks,
     NoneDue, Spurious, Notify
<1>5. CASE UiStops \/ UiTaskDone
  BY <1>5 DEF UiStops, UiTaskDone, Terminate, TaskDone
<1>6. CASE UiStarts \/ \E time \in Times : SetsTimer(time)
  <2>1. SystemPosts
    BY <1>6 DEF UiStarts, SetsTimer, SystemPosts, SystemKinds
  <2> QED BY <1>6, <2>1 DEF UiStarts, SetsTimer
<1>7. CASE UNCHANGED vars
  BY <1>7 DEF vars
<1> QED
  BY <1>1, <1>2, <1>3, <1>4, <1>5, <1>6, <1>7 DEF Next, Platform, UiThread, Dart, Talks

(* A posting of the system adds one of its tasks.                          *)
LEMMA SystemPostsAdd ==
  ASSUME SystemPosts
  PROVE  \E kind \in SystemKinds, time \in Times :
           /\ tasks' = tasks \cup {[id |-> registered, time |-> time, task |-> Ui(kind)]}
           /\ registered' = registered + 1
BY DEF SystemPosts, Register

-----------------------------------------------------------------------------
(* Every handler answers once, whatever the message, the directory and the *)
(* outcomes of the calls to the system.                                    *)
LEMMA EachAnswersOnce ==
  \A m, directory : \A r \in PlatformMessageCallback(m, directory) : Len(r.answers) = 1
<1> SUFFICES ASSUME NEW m, NEW directory, NEW r \in PlatformMessageCallback(m, directory)
             PROVE  Len(r.answers) = 1
  OBVIOUS
<1> DEFINE Once(rs) == \A q \in rs : q.taken => Len(q.answers) = 1
           TakesAll(rs) == \A q \in rs : q.taken
<1>1. \A answer : /\ Handled(answer).taken /\ Len(Handled(answer).answers) = 1
                  /\ \A applet : /\ [Handled(answer) EXCEPT !.opens = applet].taken
                                 /\ Len([Handled(answer) EXCEPT !.opens = applet].answers) = 1
  BY DEF Handled
<1>2. ~Left.taken
  BY DEF Left
<1>3. Once(HandleSystem(m)) /\ TakesAll(HandleSystem(m))
  BY <1>1 DEF HandleSystem
<1>4. Once(HandleMediaKitVideo(m))
  BY <1>1, <1>2 DEF HandleMediaKitVideo
<1>5. Once(HandlePluginMessage(m, directory))
  <2>1. Once(HandlePathProvider(m))
    BY <1>1, <1>2 DEF HandlePathProvider
  <2>2. Once(HandleSharedPreferences(m))
    BY <1>1, <1>2 DEF HandleSharedPreferences, BothWays
  <2>3. Once(HandleSecureStorage(m))
    BY <1>1, <1>2 DEF HandleSecureStorage
  <2>4. Once(HandleUrlLauncher(m))
    <3> SUFFICES ASSUME NEW q \in HandleUrlLauncher(m), q.taken PROVE Len(q.answers) = 1
      OBVIOUS
    <3>1. CASE \E applet \in {"none", "web"} : q = [Handled(Bool(TRUE)) EXCEPT !.opens = applet]
      <4>1. PICK applet : q = [Handled(Bool(TRUE)) EXCEPT !.opens = applet]
        BY <3>1
      <4> QED BY <4>1 DEF Handled
    <3>2. CASE q \in {Handled(Bool(IsWebUrl(m))), Handled(Error), Handled(Bool(TRUE)), Left}
      BY <1>1, <1>2, <3>2
    <3> QED BY <3>1, <3>2 DEF HandleUrlLauncher
  <2>5. Once(HandleFilePicker(m, directory))
    BY <1>1 DEF HandleFilePicker
  <2>6. Once({Left})
    BY <1>2
  <2> HIDE DEF Once
  <2> QED BY <2>1, <2>2, <2>3, <2>4, <2>5, <2>6 DEF HandlePluginMessage
<1>6. \A rs, fallback : /\ Once(rs) /\ Once(fallback) => Once(Otherwise(rs, fallback))
                        /\ TakesAll(fallback) => TakesAll(Otherwise(rs, fallback))
  BY DEF Otherwise
<1>7. Once({Handled(Empty)}) /\ TakesAll({Handled(Empty)})
  BY <1>1
<1>8. Once(PlatformMessageCallback(m, directory)) /\ TakesAll(PlatformMessageCallback(m, directory))
  <2> HIDE DEF Once, TakesAll
  <2> QED BY <1>3, <1>4, <1>5, <1>6, <1>7 DEF PlatformMessageCallback
<1> QED BY <1>8

(* A message that is sent is the newest of those that wait, and within the *)
(* bound.                                                                  *)
LEMMA SendEffect ==
  ASSUME enqueued \in Nat, NEW m, NEW reply, Send(m, reply)
  PROVE  /\ Pending' = Pending \cup {[id |-> enqueued, time |-> now, task |-> m]}
         /\ queue' = queue \cup {[id |-> enqueued, time |-> now, task |-> m]}
         /\ enqueued' = enqueued + 1 /\ enqueued < MaxMessages
         /\ handles' = [handles EXCEPT ![enqueued] = IF reply THEN "open" ELSE "none"]
         /\ UNCHANGED <<due, now, tasks, registered, posts, textInputVars>>
<1>1. Budget \in Int /\ Budget <= MaxMessages
  BY PlatformMessagesAssumption DEF Budget
<1>2. enqueued < MaxMessages
  BY <1>1, PlatformMessagesAssumption DEF Send
<1> QED BY <1>2 DEF Send, Enqueue, Pending, uiVars

(* A handler takes its message out, runs only when nothing is left to      *)
(* post, and posts the answer if one is wanted; only flutter/textinput     *)
(* touches the text.                                                       *)
LEMMA HandleEffect ==
  ASSUME TaskInv, NEW e \in due, HandleMessage(e)
  PROVE  /\ posts = <<>> /\ ~keyboard
         /\ posts' = IF handles[e.id] = "none" THEN <<>> ELSE <<AnswerTo(e.id)>>
         /\ queue' = queue /\ due' = due \ {e}
         /\ \A f \in due : e.id <= f.id
         /\ IF e.task.channel = "textinput" THEN HandleTextInput(e.task)
            ELSE UNCHANGED textInputVars
         /\ UNCHANGED <<enqueued, now, tasks, registered, handles, dartVars>>
<1>1. Answered(e, 1) = IF handles[e.id] = "none" THEN <<>> ELSE <<AnswerTo(e.id)>>
  BY DEF Answered
<1>2. posts' = Answered(e, 1)
  BY EachAnswersOnce DEF HandleMessage, Outcomes
<1> QED BY <1>1, <1>2 DEF HandleMessage, Handling, RunTask, uiVars

(* Every step keeps the kinds of what is queued and posted.                *)
LEMMA TaskInvKept ==
  ASSUME RunnerTypeOK, TaskInv, [Next]_vars
  PROVE  TaskInv'
<1> USE DEF TaskInv, Pending
<1>1. \A kind \in SystemKinds : Ui(kind) \in UiTasks
  BY DEF SystemKinds, UiTasks
<1>2. CASE Aside
  <2>1. \A u \in tasks' : u.task \in UiTasks
    BY <1>1, <1>2, SystemPostsAdd DEF Aside
  <2> QED BY <1>2, <2>1 DEF Aside, textInputVars, dartVars
<1>3. CASE Round
  BY <1>3 DEF Round, ReadClock, TakeExpired, Expired, uiVars, textInputVars, messageVars, dartVars
<1>4. CASE PostToUi
  <2>1. Head(posts) \in Replies /\ Tail(posts) \in Seq(Replies)
    BY <1>4, HeadTailProperties DEF PostToUi
  <2>2. \A u \in tasks' : u \in tasks \/ u.task = Head(posts)
    BY <1>4 DEF PostToUi, Register
  <2> QED BY <1>4, <2>1, <2>2 DEF PostToUi, UiTasks, runnerState, textInputVars, dartVars
<1>5. CASE CloseApplet
  <2>1. ASSUME NEW typed \in Texts
        PROVE  Messages(typed) \in Seq(Replies)
    <3> SUFFICES ASSUME g_client_id # NoClient PROVE Messages(typed) \in Seq(Replies)
      BY DEF Messages
    <3>1. UpdateEditingState(g_client_id, typed) \in Replies
      BY DEF Replies
    <3>2. PerformAction(g_client_id, g_input_action) \in Replies
      BY DEF Replies
    <3> QED BY <3>1, <3>2 DEF Messages
  <2>2. posts' \in Seq(Replies)
    BY <1>5, <2>1 DEF CloseApplet
  <2>3. UNCHANGED <<queue, due, enqueued, tasks, g_client_id, g_input_action, dart>>
    BY <1>5 DEF CloseApplet, Confirm, Cancel, textInputVars, runnerVars, runnerState, uiVars, dartVars
  <2> QED BY <2>2, <2>3
<1>6. CASE Talks
  <2>1. PICK m \in Sendable, reply \in BOOLEAN : Send(m, reply)
    BY <1>6, TalksSend
  <2>2. \A e \in Pending' : e.task \in Sendable
    BY <2>1, SendEffect DEF RunnerTypeOK
  <2>3. enqueued' <= MaxMessages
    BY <2>1, SendEffect, PlatformMessagesAssumption DEF RunnerTypeOK
  <2>4. /\ dart' = [client |-> dart'.client, text |-> dart'.text, selection |-> dart'.selection,
                    built |-> dart'.built]
        /\ dart'.client \in Clients \cup {NoClient} /\ dart'.built \in BOOLEAN
    BY <1>6 DEF Talks, Attach, SetsText, Detach, ShowsOrHides, Asks, dartVars
  <2> QED BY <2>1, <2>2, <2>3, <2>4, SendEffect DEF textInputVars, RunnerTypeOK
<1>7. ASSUME NEW e \in due, HandleMessage(e)
      PROVE  TaskInv'
  <2>1. e.id \in Ids
    BY PlatformMessagesAssumption DEF RunnerTypeOK, RunnerEntries, Ids
  <2>2. AnswerTo(e.id) \in Replies
    BY <2>1 DEF Replies
  <2>4. <<>> \in Seq(Replies) /\ <<AnswerTo(e.id)>> \in Seq(Replies)
    BY <2>2
  <2>5. posts' \in Seq(Replies)
    BY <1>7, <2>4, HandleEffect
  <2>3. /\ g_client_id' \in Clients \cup {NoClient}
        /\ g_client_id' # NoClient => g_input_action' = Action[g_client_id']
    BY <1>7, HandleEffect DEF HandleTextInput, SetClient, SetEditingState, ClearClient, Show,
       Acknowledge, textInputVars, Sendable, TextMessage, OtherMessage
  <2> QED BY <1>7, <2>3, <2>5, HandleEffect DEF dartVars
<1>8. ASSUME NEW e \in tasks, UiTask(e)
      PROVE  TaskInv'
  <2>1. tasks' \subseteq tasks
    BY <1>8 DEF UiTask, NextTask
  <2>2. /\ dart' = [client |-> dart'.client, text |-> dart'.text, selection |-> dart'.selection,
                    built |-> dart'.built]
        /\ dart'.client = dart.client /\ dart'.built \in BOOLEAN
    BY <1>8 DEF UiTask, Receives
  <2> QED BY <1>8, <2>1, <2>2 DEF UiTask, runnerState, textInputVars
<1> QED BY <1>2, <1>3, <1>4, <1>5, <1>6, <1>7, <1>8, StepKinds DEF RunnerTypeOK

-----------------------------------------------------------------------------
(* The clock does not go back.                                             *)
LEMMA TimeGrows ==
  ASSUME RunnerTypeOK, TaskInv, [Next]_vars
  PROVE  now \in Nat /\ now' \in Nat /\ now <= now'
<1>1. now \in Times /\ now \in Nat
  BY EngineTimeAssumption DEF RunnerTypeOK
<1>2. [RunnerNext]_runnerVars
  BY <1>1, PartsStep
<1>3. now' = now \/ (now' \in Nat /\ now' > now)
  BY <1>2, EngineTimeAssumption DEF RunnerNext, Enqueue, ReadClock, TakeExpired, Finish,
     RunnerTick, RunTask, Passes, runnerVars
<1> QED BY <1>1, <1>3

(* Reading the clock and taking out what is due moves messages from the    *)
(* queue to the call under way and changes nothing else.                   *)
LEMMA RoundEffect ==
  ASSUME RunnerTypeOK, Round
  PROVE  /\ Pending' = Pending
         /\ UNCHANGED <<enqueued, now, tasks, registered, posts, handles, textInputVars, dartVars>>
<1>1. CASE ReadClock
  BY <1>1 DEF Round, ReadClock, Pending, uiVars, messageVars
<1>2. CASE TakeExpired
  <2>1. due = {}
    BY <1>2 DEF TakeExpired, RunnerTypeOK
  <2>2. Pending' = Pending
    BY <1>2, <2>1 DEF TakeExpired, Expired, Pending
  <2> QED BY <1>2, <2>2 DEF Round, TakeExpired, uiVars, messageVars
<1> QED BY <1>1, <1>2 DEF Round

(* The entries of the runner have ids below the count, and are queued or   *)
(* taken out.                                                              *)
LEMMA EntryFacts ==
  ASSUME RunnerTypeOK
  PROVE  /\ enqueued \in Nat
         /\ \A e \in Pending : e.id \in Nat /\ e.time \in Nat /\ e.id < enqueued
         /\ queue \cap due = {}
BY EngineTimeAssumption DEF RunnerTypeOK, RunnerEntries, Pending

(* The message that is handled is the first that waits.                    *)
LEMMA FirstComesFirst ==
  ASSUME RunnerTypeOK, TaskInv, OrderInv, NEW e \in due, HandleMessage(e)
  PROVE  /\ e \in Pending /\ Pending' = Pending \ {e}
         /\ \A f \in Pending' : e.id < f.id
<1>1. e \in Pending
  BY DEF Pending
<1>2. Pending' = Pending \ {e}
  BY HandleEffect, EntryFacts DEF Pending
<1>3. ASSUME NEW f \in Pending' PROVE e.id < f.id
  <2>1. f \in Pending /\ f # e
    BY <1>2, <1>3
  <2>2. e.id \in Nat /\ f.id \in Nat /\ f.id # e.id
    BY <1>1, <2>1, EntryFacts DEF OrderInv
  <2>3. e.id <= f.id
    <3>1. CASE f \in due
      BY <3>1, HandleEffect
    <3>2. CASE f \in queue
      BY <2>2, <3>2 DEF OrderInv
    <3> QED BY <2>1, <3>1, <3>2 DEF Pending
  <2> QED BY <2>2, <2>3
<1> QED BY <1>1, <1>2, <1>3

(* Every step keeps the order: an entry that stays in the queue is later   *)
(* than one that is taken out, hence younger.                              *)
LEMMA OrderKept ==
  ASSUME RunnerTypeOK, TaskInv, OrderInv, [Next]_vars
  PROVE  OrderInv'
<1>t. /\ now \in Nat /\ now' \in Nat /\ now <= now' /\ enqueued \in Nat
      /\ \A e \in Pending : e.id \in Nat /\ e.time \in Nat /\ e.id < enqueued
  BY TimeGrows, EntryFacts
<1>1. ASSUME queue' \subseteq queue, due' \subseteq due
      PROVE  OrderInv'
  <2>1. \A e \in Pending' : e \in Pending
    BY <1>1 DEF Pending
  <2>2. \A e \in Pending' : e.time <= now'
    BY <1>t, <2>1 DEF OrderInv
  <2> QED BY <1>1, <2>1, <2>2 DEF OrderInv
<1>2. CASE Aside \/ PostToUi \/ CloseApplet \/ (\E e \in tasks : UiTask(e))
  <2>1. queue' = queue /\ due' = due
    BY <1>2 DEF Aside, PostToUi, CloseApplet, UiTask, runnerState, runnerVars
  <2> QED BY <1>1, <2>1
<1>3. CASE \E e \in due : HandleMessage(e)
  <2>1. PICK e \in due : HandleMessage(e)
    BY <1>3
  <2>2. queue' = queue /\ due' = due \ {e}
    BY <2>1, HandleEffect
  <2> QED BY <1>1, <2>2
<1>4. CASE Round
  <2>1. Pending' = Pending
    BY <1>4, RoundEffect
  <2>2. CASE ReadClock
    BY <1>1, <2>2 DEF ReadClock
  <2>3. CASE TakeExpired
    <3>1. at \in Nat
      BY EngineTimeAssumption DEF RunnerTypeOK
    <3>2. ASSUME NEW d \in due', NEW q \in queue' PROVE d.id < q.id
      <4>1. d \in Pending /\ d.time <= at /\ q \in Pending /\ ~(q.time <= at)
        BY <2>3, <3>2 DEF TakeExpired, Expired, Pending
      <4>2. /\ d.id \in Nat /\ q.id \in Nat /\ d.time \in Nat /\ q.time \in Nat
            /\ q.id = d.id => q = d
            /\ q.id < d.id => q.time <= d.time
        BY <1>t, <4>1 DEF OrderInv
      <4> QED BY <3>1, <4>1, <4>2
    <3> QED BY <1>t, <2>1, <3>2 DEF OrderInv
  <2> QED BY <1>4, <2>2, <2>3 DEF Round
<1>5. CASE Talks
  <2>1. PICK m \in Sendable, reply \in BOOLEAN : Send(m, reply)
    BY <1>5, TalksSend
  <2>2. PICK new : new = [id |-> enqueued, time |-> now, task |-> m]
    OBVIOUS
  <2>3. /\ Pending' = Pending \cup {new} /\ queue' = queue \cup {new} /\ due' = due
        /\ now' = now
    BY <1>t, <2>1, <2>2, SendEffect
  <2>4. /\ new.id = enqueued /\ new.time = now
        /\ \A e \in Pending : e.id < new.id /\ e.time <= new.time
    BY <1>t, <2>2 DEF OrderInv
  <2>5. due \subseteq Pending
    BY DEF Pending
  <2>6. \A e, f \in Pending' : /\ e.id = f.id => e = f
                               /\ e.id < f.id => e.time <= f.time
    BY <1>t, <2>3, <2>4 DEF OrderInv
  <2>7. \A e \in Pending' : e.time <= now'
    BY <1>t, <2>3, <2>4 DEF OrderInv
  <2>8. \A d \in due', q \in queue' : d.id < q.id
    BY <2>3, <2>4, <2>5 DEF OrderInv
  <2> QED BY <2>6, <2>7, <2>8 DEF OrderInv
<1> QED BY <1>2, <1>3, <1>4, <1>5, StepKinds DEF RunnerTypeOK

-----------------------------------------------------------------------------
(* An answer is known by its kind, and no other task has it.               *)
LEMMA AnswerFacts ==
  /\ \A r \in UiTasks : r.kind = "answer" => r.id \in Ids /\ r = AnswerTo(r.id)
  /\ \A kind \in SystemKinds : Ui(kind).kind # "answer"
  /\ \A typed : \A i \in DOMAIN Messages(typed) : Messages(typed)[i].kind # "answer"
  /\ \A id : AnswerTo(id).kind = "answer" /\ AnswerTo(id).id = id
<1>1. ASSUME NEW typed, NEW i \in DOMAIN Messages(typed)
      PROVE  Messages(typed)[i].kind # "answer"
  BY <1>1 DEF Messages, UpdateEditingState, PerformAction
<1> QED
  BY <1>1 DEF UiTasks, Replies, Ui, AnswerTo, UpdateEditingState, PerformAction, SystemKinds

(* Every step keeps the books of the answers: sending opens one, handling  *)
(* posts it, posting closes it, and the await returns.                     *)
LEMMA AnswerKept ==
  ASSUME RunnerTypeOK, TaskInv, OrderInv, AnswerInv, [Next]_vars
  PROVE  AnswerInv'
<1>t. /\ enqueued \in Nat /\ \A e \in Pending : e.id \in Nat /\ e.id < enqueued /\ e.id \in Ids
      /\ Ids \subseteq Nat
  BY EntryFacts, PlatformMessagesAssumption DEF Ids, TaskInv
<1>1. CASE Aside
  <2>1. \A u \in tasks' : u \in tasks \/ u.task.kind # "answer"
    BY <1>1, SystemPostsAdd, AnswerFacts DEF Aside
  <2> QED BY <1>1, <2>1 DEF Aside, AnswerInv, Pending
<1>2. CASE Round
  BY <1>2, RoundEffect DEF AnswerInv
<1>3. CASE PostToUi
  <2>1. PICK x : x = Head(posts)
    OBVIOUS
  <2>2. PICK p : p = Tail(posts)
    OBVIOUS
  <2>3. /\ x \in Replies /\ x \in UiTasks /\ 1 \in DOMAIN posts /\ posts[1] = x
        /\ \A i \in DOMAIN p : i + 1 \in DOMAIN posts /\ p[i] = posts[i + 1] /\ i \in Nat \ {0}
        /\ \A i \in DOMAIN posts : i # 1 => i - 1 \in DOMAIN p /\ i \in Nat /\ posts[i] = p[i - 1]
    <3>1. posts # <<>> /\ posts \in Seq(Replies)
      BY <1>3 DEF PostToUi, TaskInv
    <3> QED BY <2>1, <2>2, <3>1, HeadTailProperties DEF UiTasks
  <2>4. /\ UNCHANGED <<queue, due, enqueued>> /\ Pending' = Pending /\ posts' = p
        /\ \A u \in tasks' : u \in tasks \/ u.task = x
    BY <1>3, <2>1, <2>2 DEF PostToUi, runnerState, Register, Pending
  <2>5. CASE x.kind = "answer"
    <3>1. x.id \in Ids /\ x = AnswerTo(x.id) /\ handles[x.id] = "open"
      BY <2>3, <2>5, AnswerFacts DEF AnswerInv
    <3>2. handles' = [handles EXCEPT ![x.id] = "answered"]
      BY <1>3, <2>1, <2>5, <3>1 DEF PostToUi, Posted, AnswerInv
    <3>3. \A i \in DOMAIN p : p[i].kind = "answer" =>
            /\ p[i].id \in Ids /\ p[i] = AnswerTo(p[i].id) /\ p[i].id # x.id
      <4> SUFFICES ASSUME NEW i \in DOMAIN p, p[i].kind = "answer"
                   PROVE  p[i].id \in Ids /\ p[i] = AnswerTo(p[i].id) /\ p[i].id # x.id
        OBVIOUS
      <4>1. p[i] \in UiTasks
        BY <2>3, ElementOfSeq DEF TaskInv, UiTasks
      <4>2. p[i].id \in Ids /\ p[i] = AnswerTo(p[i].id)
        BY <4>1, AnswerFacts
      <4>3. p[i] # x
        BY <2>3, <2>5 DEF AnswerInv
      <4> QED BY <3>1, <4>2, <4>3
    <3>4. handles' \in [Ids -> {"none", "open", "answered", "returned"}]
      BY <3>2 DEF AnswerInv
    <3>5. \A id \in Ids : id >= enqueued => handles'[id] = "none"
      BY <3>1, <3>2 DEF AnswerInv
    <3>6. \A e \in Pending : handles'[e.id] \in {"none", "open"}
      BY <1>t, <2>3, <2>5, <3>2 DEF AnswerInv
    <3>7. \A i \in DOMAIN p : p[i].kind = "answer" =>
            /\ handles'[p[i].id] = "open"
            /\ \A e \in Pending : e.id # p[i].id
            /\ \A j \in DOMAIN p : p[j] = p[i] => i = j
      <4> SUFFICES ASSUME NEW i \in DOMAIN p, p[i].kind = "answer"
                   PROVE  /\ handles'[p[i].id] = "open"
                          /\ \A e \in Pending : e.id # p[i].id
                          /\ \A j \in DOMAIN p : p[j] = p[i] => i = j
        OBVIOUS
      <4>1. i + 1 \in DOMAIN posts /\ p[i] = posts[i + 1] /\ i \in Nat
        BY <2>3
      <4>2. \A j \in DOMAIN p : p[j] = p[i] => i + 1 = j + 1 /\ j \in Nat
        BY <2>3, <4>1 DEF AnswerInv
      <4> QED BY <3>2, <3>3, <4>1, <4>2 DEF AnswerInv
    <3>8. \A u \in tasks' : u.task.kind = "answer" =>
            handles'[u.task.id] \in {"answered", "returned"}
      <4> SUFFICES ASSUME NEW u \in tasks', u.task.kind = "answer"
                   PROVE  handles'[u.task.id] \in {"answered", "returned"}
        OBVIOUS
      <4>1. CASE u.task = x
        BY <3>1, <3>2, <4>1 DEF AnswerInv
      <4>2. CASE u \in tasks
        <5>1. u.task.id \in Ids /\ handles[u.task.id] \in {"answered", "returned"}
          BY <4>2, AnswerFacts DEF AnswerInv, TaskInv
        <5> QED BY <3>1, <3>2, <5>1 DEF AnswerInv
      <4> QED BY <2>4, <4>1, <4>2
    <3>9. \A id \in Ids : handles'[id] = "open" =>
            \/ \E e \in Pending : e.id = id
            \/ \E i \in DOMAIN p : p[i] = AnswerTo(id)
      <4> SUFFICES ASSUME NEW id \in Ids, handles'[id] = "open",
                          \A e \in Pending : e.id # id
                   PROVE  \E i \in DOMAIN p : p[i] = AnswerTo(id)
        OBVIOUS
      <4>1. id # x.id /\ handles[id] = "open"
        BY <3>1, <3>2 DEF AnswerInv
      <4>2. PICK i \in DOMAIN posts : posts[i] = AnswerTo(id)
        BY <4>1 DEF AnswerInv
      <4>3. i # 1
        BY <2>3, <4>1, <4>2, AnswerFacts
      <4> QED BY <2>3, <4>2, <4>3
    <3> QED BY <2>4, <3>4, <3>5, <3>6, <3>7, <3>8, <3>9 DEF AnswerInv
  <2>6. CASE x.kind # "answer"
    <3>1. handles' = handles
      BY <1>3, <2>1, <2>6 DEF PostToUi, Posted
    <3>2. \A i \in DOMAIN p : p[i].kind = "answer" =>
            /\ handles[p[i].id] = "open"
            /\ \A e \in Pending : e.id # p[i].id
            /\ \A j \in DOMAIN p : p[j] = p[i] => i = j
      <4> SUFFICES ASSUME NEW i \in DOMAIN p, p[i].kind = "answer"
                   PROVE  /\ handles[p[i].id] = "open"
                          /\ \A e \in Pending : e.id # p[i].id
                          /\ \A j \in DOMAIN p : p[j] = p[i] => i = j
        OBVIOUS
      <4>1. i + 1 \in DOMAIN posts /\ p[i] = posts[i + 1] /\ i \in Nat
        BY <2>3
      <4>2. \A j \in DOMAIN p : p[j] = p[i] => i + 1 = j + 1 /\ j \in Nat
        BY <2>3, <4>1 DEF AnswerInv
      <4> QED BY <4>1, <4>2 DEF AnswerInv
    <3>3. \A id \in Ids : handles[id] = "open" =>
            \/ \E e \in Pending : e.id = id
            \/ \E i \in DOMAIN p : p[i] = AnswerTo(id)
      <4> SUFFICES ASSUME NEW id \in Ids, handles[id] = "open",
                          \A e \in Pending : e.id # id
                   PROVE  \E i \in DOMAIN p : p[i] = AnswerTo(id)
        OBVIOUS
      <4>1. PICK i \in DOMAIN posts : posts[i] = AnswerTo(id)
        BY DEF AnswerInv
      <4>2. i # 1
        BY <2>3, <2>6, <4>1, AnswerFacts
      <4> QED BY <2>3, <4>1, <4>2
    <3> QED BY <2>4, <2>6, <3>1, <3>2, <3>3 DEF AnswerInv
  <2> QED BY <2>5, <2>6
<1>4. CASE CloseApplet
  <2>1. /\ UNCHANGED <<queue, due, enqueued, tasks, handles>> /\ Pending' = Pending
        /\ posts = <<>> /\ \A i \in DOMAIN posts' : posts'[i].kind # "answer"
    BY <1>4, AnswerFacts DEF CloseApplet, runnerVars, runnerState, uiVars, Pending
  <2> QED BY <2>1 DEF AnswerInv
<1>5. CASE Talks
  <2>1. PICK m \in Sendable, reply \in BOOLEAN : Send(m, reply)
    BY <1>5, TalksSend
  <2>2. PICK new : new = [id |-> enqueued, time |-> now, task |-> m]
    OBVIOUS
  <2>3. PICK state \in {"none", "open"} : state = IF reply THEN "open" ELSE "none"
    OBVIOUS
  <2>4. /\ Pending' = Pending \cup {new} /\ new.id = enqueued /\ enqueued' = enqueued + 1
        /\ handles' = [handles EXCEPT ![enqueued] = state]
        /\ UNCHANGED <<tasks, posts>> /\ enqueued \in Ids
    BY <1>t, <2>1, <2>2, <2>3, SendEffect, PlatformMessagesAssumption DEF Ids
  <2>5. \A id \in Ids : id # enqueued => handles'[id] = handles[id]
    BY <2>4 DEF AnswerInv
  <2>6. handles[enqueued] = "none" /\ handles'[enqueued] = state
    BY <1>t, <2>4 DEF AnswerInv
  <2>7. \A i \in DOMAIN posts : posts[i].kind = "answer" => posts[i].id \in Ids
    BY AnswerFacts, ElementOfSeq DEF TaskInv, UiTasks
  <2>8. \A u \in tasks : u.task.kind = "answer" => u.task.id \in Ids
    BY AnswerFacts DEF TaskInv
  <2>9. handles' \in [Ids -> {"none", "open", "answered", "returned"}]
    BY <2>4 DEF AnswerInv
  <2>10. \A id \in Ids : id >= enqueued' => handles'[id] = "none"
    BY <1>t, <2>4, <2>5 DEF AnswerInv
  <2>11. \A e \in Pending' : handles'[e.id] \in {"none", "open"}
    BY <1>t, <2>4, <2>5, <2>6 DEF AnswerInv
  <2>12. \A i \in DOMAIN posts : posts[i].kind = "answer" =>
           /\ posts[i].id # enqueued /\ handles'[posts[i].id] = "open"
           /\ \A e \in Pending' : e.id # posts[i].id
    BY <2>4, <2>5, <2>6, <2>7 DEF AnswerInv
  <2>13. \A u \in tasks : u.task.kind = "answer" =>
           handles'[u.task.id] \in {"answered", "returned"}
    BY <2>5, <2>6, <2>8 DEF AnswerInv
  <2>14. \A id \in Ids : handles'[id] = "open" =>
           \/ \E e \in Pending' : e.id = id
           \/ \E i \in DOMAIN posts : posts[i] = AnswerTo(id)
    BY <2>4, <2>5 DEF AnswerInv
  <2> QED BY <2>4, <2>9, <2>10, <2>11, <2>12, <2>13, <2>14 DEF AnswerInv
<1>6. ASSUME NEW e \in due, HandleMessage(e)
      PROVE  AnswerInv'
  <2>1. /\ e \in Pending /\ Pending' = Pending \ {e}
        /\ \A f \in Pending' : f.id # e.id
    BY <1>t, <1>6, FirstComesFirst
  <2>2. /\ posts = <<>> /\ UNCHANGED <<enqueued, tasks, handles>>
        /\ posts' = IF handles[e.id] = "none" THEN <<>> ELSE <<AnswerTo(e.id)>>
    BY <1>6, HandleEffect
  <2>3. \A i \in DOMAIN posts' : i = 1 /\ posts'[i] = AnswerTo(e.id) /\ handles[e.id] = "open"
    BY <2>1, <2>2 DEF AnswerInv
  <2>4. handles[e.id] = "open" => 1 \in DOMAIN posts' /\ posts'[1] = AnswerTo(e.id)
    BY <2>2
  <2> QED BY <2>1, <2>2, <2>3, <2>4, AnswerFacts DEF AnswerInv
<1>7. ASSUME NEW u \in tasks, UiTask(u)
      PROVE  AnswerInv'
  <2>1. /\ UNCHANGED <<queue, due, enqueued, posts>> /\ Pending' = Pending
        /\ tasks' \subseteq tasks
    BY <1>7 DEF UiTask, NextTask, runnerState, Pending
  <2>2. CASE u.task.kind = "answer"
    <3>1. /\ u.task.id \in Ids /\ handles[u.task.id] \in {"answered", "returned"}
          /\ handles' = [handles EXCEPT ![u.task.id] = "returned"]
      BY <1>7, <2>2, AnswerFacts DEF UiTask, Receives, TaskInv, AnswerInv
    <3>2. /\ handles' \in [Ids -> {"none", "open", "answered", "returned"}]
          /\ handles'[u.task.id] = "returned"
          /\ \A id \in Ids : id # u.task.id => handles'[id] = handles[id]
      BY <3>1 DEF AnswerInv
    <3>3. \A i \in DOMAIN posts : posts[i].kind = "answer" => posts[i].id \in Ids
      BY AnswerFacts, ElementOfSeq DEF TaskInv, UiTasks
    <3>4. \A v \in tasks : v.task.kind = "answer" => v.task.id \in Ids
      BY AnswerFacts DEF TaskInv
    <3> QED BY <1>t, <2>1, <3>1, <3>2, <3>3, <3>4 DEF AnswerInv
  <2>3. CASE u.task.kind # "answer"
    BY <1>7, <2>1, <2>3 DEF UiTask, Receives, AnswerInv
  <2> QED BY <2>2, <2>3
<1> QED BY <1>1, <1>2, <1>3, <1>4, <1>5, <1>6, <1>7, StepKinds DEF RunnerTypeOK

-----------------------------------------------------------------------------
(* The invariant of the messages and the tasks.                            *)
BaseInv == RunnerInv /\ LoopInv /\ TaskInv /\ OrderInv /\ AnswerInv

(* Nothing is queued, posted or owed at the start.                         *)
LEMMA InitBase == Init => BaseInv
<1> SUFFICES ASSUME Init PROVE BaseInv
  OBVIOUS
<1>1. RunnerInv /\ LoopInv
  BY RunnerInitInv, LoopInitInv DEF Init
<1>2. queue = {} /\ due = {} /\ Pending = {} /\ tasks = {} /\ posts = <<>> /\ enqueued = 0
  BY DEF Init, RunnerInit, LoopInit, Pending
<1>3. TaskInv
  BY <1>2, PlatformMessagesAssumption DEF Init, TextInputInit, TaskInv
<1>4. OrderInv
  BY <1>2 DEF OrderInv
<1>5. AnswerInv
  BY <1>2 DEF Init, AnswerInv
<1> QED BY <1>1, <1>3, <1>4, <1>5 DEF BaseInv

(* Every step keeps it, and is one of the task runner and one of the       *)
(* message loop.                                                           *)
LEMMA StepBase ==
  BaseInv /\ [Next]_vars => BaseInv' /\ [RunnerNext]_runnerVars /\ [LoopNext]_loopVars
<1> SUFFICES ASSUME BaseInv, [Next]_vars
             PROVE  BaseInv' /\ [RunnerNext]_runnerVars /\ [LoopNext]_loopVars
  OBVIOUS
<1>1. now \in Times /\ RunnerTypeOK
  BY DEF BaseInv, RunnerInv, RunnerTypeOK
<1>2. [RunnerNext]_runnerVars /\ [LoopNext]_loopVars
  BY <1>1, PartsStep DEF BaseInv
<1>3. RunnerInv'
  BY <1>2, RunnerStepInv DEF BaseInv
<1>4. LoopInv'
  BY <1>2, LoopStepType, LoopStepInv DEF BaseInv, LoopInv
<1>5. TaskInv' /\ OrderInv' /\ AnswerInv'
  BY <1>1, TaskInvKept, OrderKept, AnswerKept DEF BaseInv
<1> QED BY <1>2, <1>3, <1>4, <1>5 DEF BaseInv

(* It holds throughout.                                                    *)
LEMMA BaseAlways == Spec => []BaseInv
BY InitBase, StepBase, PTL DEF Spec

(* The platform's and the UI thread, composed with all they talk to, are   *)
(* runs of the task runner and of the message loop: what is proved of      *)
(* these holds in the program.                                             *)
THEOREM PartsImplemented == Spec => RunnerSpec /\ LoopSpec
<1>1. Init => RunnerInit /\ LoopInit
  BY DEF Init
<1> QED BY <1>1, StepBase, BaseAlways, PTL DEF Spec, RunnerSpec, LoopSpec

(* Every message with a response handle is answered, and none twice,       *)
(* whatever its handler does and whatever comes in between.                *)
THEOREM MessagesAnsweredOnce == Spec => []AnsweredOnce
<1>1. BaseInv => AnsweredOnce
  BY DEF BaseInv, AnswerInv, AnsweredOnce, Pending
<1> QED BY <1>1, BaseAlways, PTL

-----------------------------------------------------------------------------
(* The messages of one method that wait, the last of some messages, and    *)
(* the texts on their way to Dart.                                         *)
ToChannel(method) == {e \in Pending : e.task.channel = "textinput" /\ e.task.method = method}
ClientMessages == ToChannel("setClient") \cup ToChannel("clearClient")
TextMessages == ToChannel("setEditingState") \cup ToChannel("clearClient")
IsLast(e, messages) == e \in messages /\ \A f \in messages : f.id <= e.id

Updates == {u \in tasks : u.task.kind = "update"}
NonePosted == \A i \in DOMAIN posts : posts[i].kind # "update"

(* What the user types reaches Dart in the order of typing.                *)
UpdatesInv ==
  /\ \A u \in tasks : u.id < registered
  /\ \A u \in Updates : u.time <= now
  /\ \A u, v \in Updates : /\ u.id = v.id => u = v
                           /\ u.id < v.id => u.time <= v.time
  /\ \A i \in DOMAIN posts : posts[i].kind = "update" => i = 1

(* The channel has the framework's client, or the last message about it    *)
(* brings it; and no text without a client.                                *)
ClientInv ==
  \/ ClientMessages = {} /\ g_client_id = dart.client
  \/ \E e \in ClientMessages : IsLast(e, ClientMessages) /\ e.task.client = dart.client

NoTextInv ==
  dart.client = NoClient =>
    \/ TextMessages = {} /\ g_text = <<>>
    \/ \E e \in ToChannel("clearClient") : IsLast(e, TextMessages)

(* Dart's text is on its way, before any keyboard and after all about the  *)
(* client; or it has arrived, and what was typed since is on its way back. *)
TextComes ==
  /\ ~keyboard /\ Updates = {} /\ NonePosted
  /\ \E e \in ToChannel("setEditingState") :
       /\ Read[e.task.text] = dart.text
       /\ IsLast(e, TextMessages)
       /\ \A f \in ClientMessages : f.id < e.id
       /\ \A f \in ToChannel("show") : f.id > e.id

TextReturns ==
  /\ TextMessages = {} /\ ClientMessages = {}
  /\ \A u \in Updates : u.task.client = dart.client
  /\ \A i \in DOMAIN posts :
       posts[i].kind = "update" => posts[i].client = dart.client /\ posts[i].text = g_text
  /\ NonePosted => /\ Updates = {} => g_text = dart.text
                   /\ \A u \in Updates : IsLast(u, Updates) => u.task.text = g_text

AgreedInv ==
  agreed /\ dart.client # NoClient =>
    /\ \E text \in Texts : dart.text = Utf8(text) /\ dart.selection = Units[text]
    /\ TextComes \/ TextReturns

(* The kinds of what is posted, and what the messages of a channel hold.   *)
LEMMA TextFacts ==
  /\ \A kind \in SystemKinds : Ui(kind).kind # "update"
  /\ \A id : AnswerTo(id).kind # "update"
  /\ \A client \in Clients : client # NoClient
  /\ \A r \in UiTasks : r.kind = "update" =>
       \E text \in Texts : r.text = Utf8(text) /\ r.selection = Units[text]
  /\ \A m \in Sendable : m.channel = "textinput" /\ m.method = "clearClient" => m.client = NoClient
  /\ \A m \in Sendable : m.channel = "textinput" =>
       m.method \in {"setClient", "setEditingState"} \/ m.method \in {"clearClient", "show", "hide"}
<1>1. \A client \in Clients : client # NoClient
  BY TextInputAssumption DEF NoClient
<1>2. ASSUME NEW r \in UiTasks, r.kind = "update"
      PROVE  \E text \in Texts : r.text = Utf8(text) /\ r.selection = Units[text]
  <2>1. PICK client \in Clients, text \in Texts : r = UpdateEditingState(client, text)
    BY <1>2 DEF UiTasks, Replies, Ui, AnswerTo, PerformAction
  <2> QED BY <2>1, TextsReadBack DEF UpdateEditingState, Units
<1> QED BY <1>1, <1>2 DEF SystemKinds, Ui, AnswerTo, Sendable, TextMessage, OtherMessage

(* What the steps do to the texts on their way to Dart.                    *)
LEMMA NoUpdatesMove ==
  ASSUME RunnerTypeOK, TaskInv,
         Aside \/ Round \/ CloseApplet \/ Talks \/ \E e \in due : HandleMessage(e)
  PROVE  Updates' = Updates /\ registered' \in {registered, registered + 1}
         /\ \A u \in tasks' : u \in tasks \/ (u.id = registered /\ registered' = registered + 1)
<1>1. ASSUME SystemPosts
      PROVE  Updates' = Updates /\ registered' \in {registered, registered + 1}
             /\ \A u \in tasks' : u \in tasks \/ (u.id = registered /\ registered' = registered + 1)
  <2>1. PICK kind \in SystemKinds, time \in Times :
          /\ tasks' = tasks \cup {[id |-> registered, time |-> time, task |-> Ui(kind)]}
          /\ registered' = registered + 1
    BY <1>1, SystemPostsAdd
  <2> QED BY <2>1, TextFacts DEF Updates
<1>2. ASSUME UNCHANGED <<tasks, registered>>
      PROVE  Updates' = Updates /\ registered' \in {registered, registered + 1}
             /\ \A u \in tasks' : u \in tasks \/ (u.id = registered /\ registered' = registered + 1)
  <2>1. tasks' = tasks /\ registered' = registered
    BY <1>2
  <2>2. Updates' = Updates
    BY <2>1 DEF Updates
  <2> QED BY <2>1, <2>2
<1>7. CASE Aside
  BY <1>1, <1>2, <1>7 DEF Aside
<1>3. CASE Round
  BY <1>2, <1>3, RoundEffect
<1>4. CASE CloseApplet
  BY <1>2, <1>4 DEF CloseApplet, uiVars
<1>5. CASE Talks
  <2>1. PICK m \in Sendable, reply \in BOOLEAN : Send(m, reply)
    BY <1>5, TalksSend
  <2> QED BY <1>2, <2>1, SendEffect DEF RunnerTypeOK
<1>6. CASE \E e \in due : HandleMessage(e)
  BY <1>2, <1>6, HandleEffect
<1> QED BY <1>3, <1>4, <1>5, <1>6, <1>7

(* What is posted has a text only in front, since a handler answers and    *)
(* the keyboard sends when nothing else is posted.                         *)
LEMMA PostedTexts ==
  ASSUME RunnerTypeOK, TaskInv, [Next]_vars, ~PostToUi
  PROVE  \/ posts' = posts
         \/ posts = <<>> /\ NonePosted'
         \/ \E typed \in Texts : Confirm(typed) /\ posts = <<>> /\ posts' = Messages(typed)
<1>1. CASE Aside \/ Round
  BY <1>1, RoundEffect DEF Aside
<1>2. CASE CloseApplet
  BY <1>2 DEF CloseApplet
<1>3. CASE Talks
  <2>1. PICK m \in Sendable, reply \in BOOLEAN : Send(m, reply)
    BY <1>3, TalksSend
  <2> QED BY <2>1 DEF Send
<1>4. ASSUME NEW e \in due, HandleMessage(e)
      PROVE  posts = <<>> /\ NonePosted'
  <2>1. /\ posts = <<>>
        /\ posts' = <<>> \/ posts' = <<AnswerTo(e.id)>>
    BY <1>4, HandleEffect
  <2> QED BY <2>1, TextFacts DEF NonePosted
<1>5. ASSUME NEW u \in tasks, UiTask(u)
      PROVE  posts' = posts
  BY <1>5 DEF UiTask
<1> QED BY <1>1, <1>2, <1>3, <1>4, <1>5, StepKinds DEF RunnerTypeOK

(* Every step keeps the texts that were typed in their order on the way to *)
(* Dart.                                                                   *)
LEMMA UpdatesKept ==
  ASSUME RunnerTypeOK, LoopTypeOK, TaskInv, UpdatesInv, [Next]_vars
  PROVE  UpdatesInv'
<1>t. /\ now \in Nat /\ now' \in Nat /\ now <= now' /\ registered \in Nat
      /\ \A u \in tasks : u.id \in Nat /\ u.time \in Nat
      /\ Updates \subseteq tasks
  BY TimeGrows, EngineTimeAssumption DEF LoopTypeOK, LoopEntries, Updates
<1>1. \A i \in DOMAIN posts' : posts'[i].kind = "update" => i = 1
  <2>1. CASE PostToUi
    <3>1. posts \in Seq(Replies) /\ posts # <<>> /\ posts' = Tail(posts)
      BY <2>1 DEF TaskInv, PostToUi
    <3>2. \A i \in DOMAIN posts' : i \in Nat /\ i # 0 /\ i + 1 \in DOMAIN posts /\ posts'[i] = posts[i + 1]
      BY <3>1, HeadTailProperties
    <3> QED BY <3>2 DEF UpdatesInv
  <2>2. CASE ~PostToUi
    <3>1. ASSUME NEW typed, posts' = Messages(typed)
          PROVE  \A i \in DOMAIN posts' : posts'[i].kind = "update" => i = 1
      BY <3>1 DEF Messages, UpdateEditingState, PerformAction
    <3> QED BY <2>2, <3>1, PostedTexts DEF UpdatesInv, NonePosted
  <2> QED BY <2>1, <2>2
<1>2. CASE Aside \/ Round \/ CloseApplet \/ Talks \/ \E e \in due : HandleMessage(e)
  <2>1. /\ Updates' = Updates /\ registered' \in {registered, registered + 1}
        /\ \A u \in tasks' : u \in tasks \/ (u.id = registered /\ registered' = registered + 1)
    BY <1>2, NoUpdatesMove
  <2>2. \A u \in tasks' : u.id < registered'
    BY <1>t, <2>1 DEF UpdatesInv
  <2>3. \A u \in Updates' : u.time <= now'
    BY <1>t, <2>1 DEF UpdatesInv
  <2> QED BY <1>1, <2>1, <2>2, <2>3 DEF UpdatesInv
<1>3. CASE PostToUi
  <2>1. PICK new : new = [id |-> registered, time |-> now, task |-> Head(posts)]
    OBVIOUS
  <2>2. /\ tasks' = tasks \cup {new} /\ registered' = registered + 1 /\ now' = now
        /\ new.id = registered /\ new.time = now
    BY <1>3, <2>1 DEF PostToUi, Register
  <2>3. Updates' \subseteq Updates \cup {new}
    BY <2>2 DEF Updates
  <2>4. \A u \in tasks' : u.id < registered'
    BY <1>t, <2>2 DEF UpdatesInv
  <2>5. \A u \in Updates' : u.time <= now'
    BY <1>t, <2>2, <2>3 DEF UpdatesInv
  <2>6. \A u \in Updates : u.id < new.id /\ u.time <= new.time
    BY <1>t, <2>2 DEF UpdatesInv
  <2>7. \A u, v \in Updates' : /\ u.id = v.id => u = v
                               /\ u.id < v.id => u.time <= v.time
    BY <1>t, <2>2, <2>3, <2>6 DEF UpdatesInv
  <2> QED BY <1>1, <2>4, <2>5, <2>7 DEF UpdatesInv
<1>4. ASSUME NEW u \in tasks, UiTask(u)
      PROVE  UpdatesInv'
  <2>1. /\ tasks' \subseteq tasks /\ registered' = registered
        /\ Updates' \subseteq Updates
    BY <1>4 DEF UiTask, NextTask, Updates
  <2>2. \A v \in Updates' : v.time <= now'
    BY <1>t, <2>1 DEF UpdatesInv
  <2> QED BY <1>1, <2>1, <2>2 DEF UpdatesInv
<1> QED BY <1>2, <1>3, <1>4, StepKinds DEF RunnerTypeOK

(* What the other steps do to the messages, and what the channel and Dart  *)
(* know: only a confirmed keyboard changes the channel's text.             *)
LEMMA MessagesWait ==
  ASSUME RunnerTypeOK, TaskInv,
         Aside \/ Round \/ PostToUi \/ CloseApplet \/ \E u \in tasks : UiTask(u)
  PROVE  /\ Pending' = Pending
         /\ \A method : ToChannel(method)' = ToChannel(method)
         /\ ClientMessages' = ClientMessages /\ TextMessages' = TextMessages
         /\ g_client_id' = g_client_id /\ dart'.client = dart.client /\ agreed' = agreed
         /\ g_text' = g_text \/ \E typed \in Texts : Confirm(typed)
<1>1. Pending' = Pending
  BY RoundEffect DEF Aside, PostToUi, CloseApplet, UiTask, runnerState, runnerVars, Pending
<1>2. /\ g_client_id' = g_client_id /\ dart'.client = dart.client /\ agreed' = agreed
      /\ g_text' = g_text \/ \E typed \in Texts : Confirm(typed)
  <2>1. CASE Aside \/ Round \/ PostToUi
    BY <2>1, RoundEffect DEF Aside, PostToUi, textInputVars, dartVars
  <2>2. CASE CloseApplet
    BY <2>2 DEF CloseApplet, Confirm, Cancel, textInputVars, dartVars
  <2>3. CASE \E u \in tasks : UiTask(u)
    BY <2>3 DEF UiTask, Receives, TaskInv, textInputVars
  <2> QED BY <2>1, <2>2, <2>3
<1>3. \A method : ToChannel(method)' = ToChannel(method)
  BY <1>1 DEF ToChannel
<1>4. ClientMessages' = ClientMessages /\ TextMessages' = TextMessages
  BY <1>3 DEF ClientMessages, TextMessages
<1> QED BY <1>1, <1>2, <1>3, <1>4

(* A message that is sent is the last.                                     *)
LEMMA MessageSent ==
  ASSUME RunnerTypeOK, NEW m, NEW reply, Send(m, reply)
  PROVE  /\ UNCHANGED <<posts, tasks, textInputVars>>
         /\ \E new : /\ new.task = m /\ new.id \in Nat /\ \A e \in Pending : e.id < new.id
                     /\ Pending' = Pending \cup {new}
                     /\ \A method :
                          ToChannel(method)' =
                            IF m.channel = "textinput" /\ m.method = method
                            THEN ToChannel(method) \cup {new} ELSE ToChannel(method)
<1>1. PICK new : new = [id |-> enqueued, time |-> now, task |-> m]
  OBVIOUS
<1>2. enqueued \in Nat /\ \A e \in Pending : e.id < enqueued
  BY EntryFacts
<1>3. Pending' = Pending \cup {new} /\ UNCHANGED <<posts, tasks, textInputVars>>
  BY <1>1, <1>2, SendEffect
<1>4. ASSUME NEW method
      PROVE  ToChannel(method)' =
               IF m.channel = "textinput" /\ m.method = method
               THEN ToChannel(method) \cup {new} ELSE ToChannel(method)
  BY <1>1, <1>3 DEF ToChannel
<1> QED BY <1>1, <1>2, <1>3, <1>4

(* One that is handled was the first.                                      *)
LEMMA MessageHandled ==
  ASSUME RunnerTypeOK, TaskInv, OrderInv, NEW e \in due, HandleMessage(e)
  PROVE  /\ e \in Pending /\ e.task \in Sendable /\ e.id \in Nat
         /\ \A f \in Pending : f # e => e.id < f.id /\ f.id \in Nat
         /\ Pending' = Pending \ {e}
         /\ \A method : ToChannel(method)' = ToChannel(method) \ {e}
         /\ ClientMessages' = ClientMessages \ {e} /\ TextMessages' = TextMessages \ {e}
         /\ e \in TextMessages \cup ClientMessages \cup ToChannel("show") \cup ToChannel("hide")
              => e.task.channel = "textinput" /\ HandleTextInput(e.task)
         /\ e \notin TextMessages => g_text' = g_text
         /\ e \notin ClientMessages => g_client_id' = g_client_id
         /\ e \notin ToChannel("show") => ~keyboard'
<1>1. /\ e \in Pending /\ Pending' = Pending \ {e}
      /\ \A f \in Pending' : e.id < f.id
  BY FirstComesFirst
<1>2. e.task \in Sendable /\ \A f \in Pending : f.id \in Nat
  BY <1>1, EntryFacts DEF TaskInv
<1>3. \A method : ToChannel(method)' = ToChannel(method) \ {e}
  BY <1>1 DEF ToChannel
<1>4. ClientMessages' = ClientMessages \ {e} /\ TextMessages' = TextMessages \ {e}
  BY <1>3 DEF ClientMessages, TextMessages
<1>5. IF e.task.channel = "textinput" THEN HandleTextInput(e.task) ELSE UNCHANGED textInputVars
  BY HandleEffect
<1>6. \A method : e \in ToChannel(method) <=> e.task.channel = "textinput" /\ e.task.method = method
  BY <1>1 DEF ToChannel
<1>7. ~keyboard
  BY HandleEffect
<1>8. e \in TextMessages \cup ClientMessages \cup ToChannel("show") \cup ToChannel("hide")
        => e.task.channel = "textinput" /\ HandleTextInput(e.task)
  BY <1>5, <1>6 DEF ClientMessages, TextMessages
<1>9. e \notin TextMessages => g_text' = g_text
  BY <1>5, <1>6 DEF TextMessages, HandleTextInput, SetClient, SetEditingState, ClearClient, Show,
     Acknowledge, textInputVars
<1>10. e \notin ClientMessages => g_client_id' = g_client_id
  BY <1>5, <1>6 DEF ClientMessages, HandleTextInput, SetClient, SetEditingState, ClearClient, Show,
     Acknowledge, textInputVars
<1>11. e \notin ToChannel("show") => ~keyboard'
  BY <1>5, <1>6, <1>7 DEF HandleTextInput, SetClient, SetEditingState, ClearClient, Show,
     Acknowledge, textInputVars
<1> QED BY <1>1, <1>2, <1>3, <1>4, <1>8, <1>9, <1>10, <1>11

(* A message about the client carries it; one about the text brings what   *)
(* is read of it.                                                          *)
LEMMA HandlingBrings ==
  ASSUME NEW e, e.task \in Sendable, e.task.channel = "textinput", HandleTextInput(e.task)
  PROVE  /\ e.task.method \in {"setClient", "clearClient"} => g_client_id' = e.task.client
         /\ e.task.method = "setEditingState" => g_text' = Read[e.task.text]
         /\ e.task.method = "clearClient" => g_text' = <<>>
<1>1. e.task.method = "clearClient" => e.task.client = NoClient
  BY TextFacts
<1> QED BY <1>1 DEF HandleTextInput, SetClient, SetEditingState, ClearClient, Show, Acknowledge

(* Every step keeps the last word about the client with the framework.     *)
LEMMA ClientKept ==
  ASSUME RunnerTypeOK, TaskInv, OrderInv, ClientInv, [Next]_vars
  PROVE  ClientInv'
<1>1. CASE Aside \/ Round \/ PostToUi \/ CloseApplet \/ \E u \in tasks : UiTask(u)
  BY <1>1, MessagesWait DEF ClientInv, IsLast
<1>2. ASSUME NEW m, NEW reply, Send(m, reply), m.channel = "textinput" =>
               m.method \notin {"setClient", "clearClient"},
             dart'.client = dart.client
      PROVE  ClientInv'
  <2>1. ToChannel("setClient")' = ToChannel("setClient") /\ ToChannel("clearClient")' = ToChannel("clearClient")
    BY <1>2, MessageSent
  <2>2. ClientMessages' = ClientMessages /\ g_client_id' = g_client_id
    BY <1>2, <2>1, MessageSent DEF ClientMessages, textInputVars
  <2> QED BY <1>2, <2>2 DEF ClientInv, IsLast
<1>3. ASSUME NEW m, NEW reply, Send(m, reply), m.channel = "textinput",
             m.method \in {"setClient", "clearClient"}, dart'.client = m.client
      PROVE  ClientInv'
  <2>1. PICK new : /\ new.task = m /\ new.id \in Nat /\ \A e \in Pending : e.id < new.id
                   /\ \A method : ToChannel(method)' =
                        IF m.channel = "textinput" /\ m.method = method
                        THEN ToChannel(method) \cup {new} ELSE ToChannel(method)
    BY <1>3, MessageSent
  <2>2. ClientMessages' = ClientMessages \cup {new}
    BY <1>3, <2>1 DEF ClientMessages
  <2>3. \A f \in ClientMessages : f.id < new.id /\ f.id \in Nat
    BY <2>1, EntryFacts DEF ClientMessages, ToChannel
  <2> QED BY <1>3, <2>1, <2>2, <2>3 DEF ClientInv, IsLast
<1>4. CASE Talks
  <2>1. CASE \E client \in Clients : Attach(client)
    BY <1>3, <2>1 DEF Attach, TextMessage, TaskInv
  <2>2. CASE Detach
    BY <1>3, <2>2 DEF Detach, TextMessage, TaskInv
  <2>3. CASE \E text \in Texts : SetsText(text)
    BY <1>2, <2>3 DEF SetsText, TextMessage, TaskInv
  <2>4. CASE ShowsOrHides \/ Asks
    BY <1>2, <2>4 DEF ShowsOrHides, Asks, TextMessage, OtherMessage, dartVars
  <2> QED BY <1>4, <2>1, <2>2, <2>3, <2>4 DEF Talks
<1>5. ASSUME NEW e \in due, HandleMessage(e)
      PROVE  ClientInv'
  <2>1. dart' = dart
    BY <1>5, HandleEffect DEF dartVars
  <2>2. CASE e \notin ClientMessages
    <3>1. ClientMessages' = ClientMessages /\ g_client_id' = g_client_id
      BY <1>5, <2>2, MessageHandled
    <3> QED BY <2>1, <3>1 DEF ClientInv, IsLast
  <2>3. CASE e \in ClientMessages
    <3>1. g_client_id' = e.task.client
      BY <1>5, <2>3, MessageHandled, HandlingBrings DEF ClientMessages, ToChannel
    <3>2. PICK l \in ClientMessages : IsLast(l, ClientMessages) /\ l.task.client = dart.client
      BY <2>3 DEF ClientInv
    <3>3. /\ ClientMessages' = ClientMessages \ {e} /\ ClientMessages \subseteq Pending
          /\ \A f \in ClientMessages' : f.id \in Nat /\ e.id \in Nat /\ e.id < f.id
      BY <1>5, MessageHandled DEF ClientMessages, ToChannel
    <3>4. CASE l = e
      BY <2>1, <3>1, <3>2, <3>3, <3>4 DEF ClientInv, IsLast
    <3>5. CASE l # e
      BY <2>1, <3>2, <3>3, <3>5 DEF ClientInv, IsLast
    <3> QED BY <3>4, <3>5
  <2> QED BY <2>2, <2>3
<1> QED BY <1>1, <1>4, <1>5, StepKinds DEF RunnerTypeOK

(* Every step keeps the text away from a channel without a client; a       *)
(* keyboard that is confirmed late finds none.                             *)
LEMMA NoTextKept ==
  ASSUME RunnerTypeOK, TaskInv, OrderInv, ClientInv, NoTextInv, [Next]_vars
  PROVE  NoTextInv'
<1>s. SUFFICES ASSUME dart'.client = NoClient
               PROVE  \/ TextMessages' = {} /\ g_text' = <<>>
                      \/ \E e \in ToChannel("clearClient")' : IsLast(e, TextMessages')
  BY DEF NoTextInv, IsLast
<1>1. CASE Aside \/ Round \/ PostToUi \/ CloseApplet \/ \E u \in tasks : UiTask(u)
  <2>1. /\ TextMessages' = TextMessages /\ ToChannel("clearClient")' = ToChannel("clearClient")
        /\ dart.client = NoClient
        /\ g_text' = g_text \/ \E typed \in Texts : Confirm(typed)
    BY <1>s, <1>1, MessagesWait
  <2>2. CASE \E e \in ToChannel("clearClient") : IsLast(e, TextMessages)
    BY <2>1, <2>2
  <2>3. CASE TextMessages = {} /\ g_text = <<>>
    <3>1. g_client_id = NoClient
      <4> SUFFICES ASSUME NEW l \in ClientMessages, l.task.client = dart.client PROVE FALSE
        BY <2>1 DEF ClientInv
      <4>1. l \in ToChannel("setClient")
        BY <2>3 DEF TextMessages, ClientMessages
      <4>2. l.task \in Sendable /\ l.task.channel = "textinput" /\ l.task.method = "setClient"
        BY <4>1 DEF ToChannel, TaskInv
      <4>3. l.task.client \in Clients
        BY <4>2 DEF Sendable, TextMessage, OtherMessage
      <4> QED BY <2>1, <4>3, TextFacts
    <3>2. g_text' = g_text
      BY <2>1, <3>1 DEF Confirm
    <3> QED BY <2>1, <2>3, <3>2
  <2> QED BY <2>1, <2>2, <2>3 DEF NoTextInv
<1>2. CASE Talks
  <2>1. CASE \E client \in Clients : Attach(client)
    <3>1. dart'.client \in Clients
      BY <2>1 DEF Attach, TaskInv
    <3> QED BY <1>s, <3>1, TextFacts
  <2>2. CASE Detach
    <3>0. PICK m, reply : m = TextMessage("clearClient", NoClient, <<>>) /\ Send(m, reply)
      BY <2>2 DEF Detach
    <3>1. PICK new : /\ new.task = m
                     /\ new.id \in Nat /\ \A e \in Pending : e.id < new.id
                     /\ \A method : ToChannel(method)' =
                          IF m.channel = "textinput" /\ m.method = method
                          THEN ToChannel(method) \cup {new} ELSE ToChannel(method)
      BY <3>0, MessageSent
    <3>2. /\ ToChannel("clearClient")' = ToChannel("clearClient") \cup {new}
          /\ ToChannel("setEditingState")' = ToChannel("setEditingState")
      BY <3>0, <3>1 DEF TextMessage
    <3>3. TextMessages' = TextMessages \cup {new}
      BY <3>2 DEF TextMessages
    <3>4. \A f \in TextMessages : f.id < new.id /\ f.id \in Nat
      BY <3>1, EntryFacts DEF TextMessages, ToChannel
    <3> QED BY <3>1, <3>2, <3>3, <3>4 DEF IsLast
  <2>3. CASE \E text \in Texts : SetsText(text)
    BY <1>s, <2>3 DEF SetsText, TaskInv
  <2>4. CASE ShowsOrHides \/ Asks
    <3>1. PICK m, reply : /\ Send(m, reply) /\ dart' = dart
                          /\ m.channel = "textinput" => m.method \in {"show", "hide"}
      <4>1. CASE ShowsOrHides
        <5>1. PICK method \in {"show", "hide"} : Send(TextMessage(method, NoClient, <<>>), TRUE)
          BY <4>1 DEF ShowsOrHides
        <5>2. TextMessage(method, NoClient, <<>>).method \in {"show", "hide"}
          BY DEF TextMessage
        <5> QED BY <4>1, <5>1, <5>2 DEF ShowsOrHides, dartVars
      <4>2. CASE Asks
        <5>1. OtherMessage.channel # "textinput"
          BY DEF OtherMessage
        <5> QED BY <4>2, <5>1 DEF Asks, dartVars
      <4> QED BY <2>4, <4>1, <4>2
    <3>2. /\ ToChannel("clearClient")' = ToChannel("clearClient")
          /\ ToChannel("setEditingState")' = ToChannel("setEditingState")
      BY <3>1, MessageSent
    <3>3. TextMessages' = TextMessages /\ g_text' = g_text
      BY <3>1, <3>2, MessageSent DEF TextMessages, textInputVars
    <3> QED BY <1>s, <3>1, <3>2, <3>3 DEF NoTextInv
  <2> QED BY <1>2, <2>1, <2>2, <2>3, <2>4 DEF Talks
<1>3. ASSUME NEW e \in due, HandleMessage(e)
      PROVE  \/ TextMessages' = {} /\ g_text' = <<>>
             \/ \E l \in ToChannel("clearClient")' : IsLast(l, TextMessages')
  <2>1. dart.client = NoClient
    BY <1>s, <1>3, HandleEffect DEF dartVars
  <2>2. /\ TextMessages' = TextMessages \ {e} /\ TextMessages \subseteq Pending
        /\ ToChannel("clearClient")' = ToChannel("clearClient") \ {e}
        /\ \A f \in TextMessages : f # e => e.id < f.id /\ f.id \in Nat /\ e.id \in Nat
    BY <1>3, MessageHandled DEF TextMessages, ToChannel
  <2>3. CASE TextMessages = {} /\ g_text = <<>>
    BY <1>3, <2>2, <2>3, MessageHandled
  <2>4. CASE \E l \in ToChannel("clearClient") : IsLast(l, TextMessages)
    <3>1. PICK l \in ToChannel("clearClient") : IsLast(l, TextMessages)
      BY <2>4
    <3>2. CASE l = e
      <4>1. TextMessages' = {}
        BY <2>2, <3>1, <3>2 DEF IsLast
      <4>2. g_text' = <<>>
        BY <1>3, <3>1, <3>2, MessageHandled, HandlingBrings DEF ToChannel, TextMessages
      <4> QED BY <4>1, <4>2
    <3>3. CASE l # e
      BY <2>2, <3>1, <3>3 DEF IsLast
    <3> QED BY <3>2, <3>3
  <2> QED BY <2>1, <2>3, <2>4 DEF NoTextInv
<1> QED BY <1>1, <1>2, <1>3, StepKinds DEF RunnerTypeOK

(* A text that Dart sets while no keyboard comes is on its way, and what   *)
(* is sent after it does not overtake it.                                  *)
LEMMA AgreedTalks ==
  ASSUME RunnerTypeOK, TaskInv, AgreedInv, Talks
  PROVE  AgreedInv'
<1>1. CASE (\E client \in Clients : Attach(client)) \/ Detach
  BY <1>1 DEF Attach, Detach, AgreedInv
<1>2. ASSUME NEW text \in Texts, SetsText(text), agreed'
      PROVE  AgreedInv'
  <2>1. PICK m, reply : m = TextMessage("setEditingState", NoClient, text) /\ Send(m, reply)
    BY <1>2 DEF SetsText
  <2>2. PICK new : /\ new.task = m /\ new.id \in Nat /\ \A e \in Pending : e.id < new.id
                   /\ \A method : ToChannel(method)' =
                        IF m.channel = "textinput" /\ m.method = method
                        THEN ToChannel(method) \cup {new} ELSE ToChannel(method)
    BY <2>1, MessageSent
  <2>3. /\ ToChannel("setEditingState")' = ToChannel("setEditingState") \cup {new}
        /\ ToChannel("setClient")' = ToChannel("setClient")
        /\ ToChannel("clearClient")' = ToChannel("clearClient")
        /\ ToChannel("show")' = ToChannel("show")
    BY <2>1, <2>2 DEF TextMessage
  <2>4. TextMessages' = TextMessages \cup {new} /\ ClientMessages' = ClientMessages
    BY <2>3 DEF TextMessages, ClientMessages
  <2>5. \A f \in TextMessages \cup ClientMessages : f.id < new.id /\ f.id \in Nat
    BY <2>2, EntryFacts DEF TextMessages, ClientMessages, ToChannel
  <2>6. UNCHANGED <<posts, tasks, textInputVars>>
    BY <2>1, MessageSent
  <2>7. ~KeyboardComes
    BY <1>2 DEF SetsText
  <2>8. ~keyboard' /\ Updates' = {} /\ NonePosted' /\ ToChannel("show") = {}
    BY <2>6, <2>7 DEF KeyboardComes, Updates, NonePosted, ToChannel, Pending, textInputVars
  <2>9. /\ dart'.text = Utf8(text) /\ dart'.selection = Units[text]
        /\ new.task.text = text /\ Read[text] = Utf8(text)
    BY <1>2, <2>1, <2>2, TextsReadBack DEF SetsText, TaskInv, TextMessage
  <2>10. IsLast(new, TextMessages')
    BY <2>2, <2>4, <2>5 DEF IsLast
  <2>11. TextComes'
    BY <2>3, <2>4, <2>5, <2>8, <2>9, <2>10 DEF TextComes, IsLast
  <2> QED BY <2>9, <2>11 DEF AgreedInv
<1>3. CASE ShowsOrHides \/ Asks
  <2>1. PICK m, reply : /\ Send(m, reply) /\ dart' = dart /\ agreed' = agreed
                        /\ m.channel = "textinput" => m.method \in {"show", "hide"}
    <3>1. CASE ShowsOrHides
      <4>1. PICK method \in {"show", "hide"} : Send(TextMessage(method, NoClient, <<>>), TRUE)
        BY <3>1 DEF ShowsOrHides
      <4>2. TextMessage(method, NoClient, <<>>).method \in {"show", "hide"}
        BY DEF TextMessage
      <4> QED BY <3>1, <4>1, <4>2 DEF ShowsOrHides, dartVars
    <3>2. CASE Asks
      <4>1. OtherMessage.channel # "textinput"
        BY DEF OtherMessage
      <4> QED BY <3>2, <4>1 DEF Asks, dartVars
    <3> QED BY <1>3, <3>1, <3>2
  <2>2. PICK new : /\ new.id \in Nat /\ \A e \in Pending : e.id < new.id
                   /\ \A method : ToChannel(method)' =
                        IF m.channel = "textinput" /\ m.method = method
                        THEN ToChannel(method) \cup {new} ELSE ToChannel(method)
    BY <2>1, MessageSent
  <2>3. /\ ToChannel("setEditingState")' = ToChannel("setEditingState")
        /\ ToChannel("setClient")' = ToChannel("setClient")
        /\ ToChannel("clearClient")' = ToChannel("clearClient")
        /\ \A f \in ToChannel("show")' : f \in ToChannel("show") \/ f = new
    BY <2>1, <2>2
  <2>4. TextMessages' = TextMessages /\ ClientMessages' = ClientMessages
    BY <2>3 DEF TextMessages, ClientMessages
  <2>5. \A e \in ToChannel("setEditingState") : new.id > e.id
    BY <2>2, EntryFacts DEF ToChannel
  <2>6. UNCHANGED <<posts, tasks, textInputVars>>
    BY <2>1, MessageSent
  <2>7. Updates' = Updates /\ (NonePosted' <=> NonePosted)
    BY <2>6 DEF Updates, NonePosted
  <2>8. TextComes => TextComes'
    BY <2>1, <2>3, <2>4, <2>5, <2>6, <2>7 DEF TextComes, IsLast, textInputVars
  <2>9. TextReturns => TextReturns'
    BY <2>1, <2>4, <2>6, <2>7 DEF TextReturns, IsLast, textInputVars
  <2> QED BY <2>1, <2>8, <2>9 DEF AgreedInv
<1>4. CASE \E text \in Texts : SetsText(text)
  BY <1>2, <1>4 DEF AgreedInv
<1> QED BY <1>1, <1>3, <1>4 DEF Talks

(* The text arrives when its message is handled, and no other message      *)
(* about client or text is left then.                                      *)
LEMMA AgreedHandles ==
  ASSUME RunnerTypeOK, TaskInv, OrderInv, AgreedInv, NEW e \in due, HandleMessage(e)
  PROVE  AgreedInv'
<1>1. /\ e \in Pending /\ e.task \in Sendable /\ e.id \in Nat
      /\ \A f \in Pending : f # e => e.id < f.id /\ f.id \in Nat
      /\ \A method : ToChannel(method)' = ToChannel(method) \ {e}
      /\ ClientMessages' = ClientMessages \ {e} /\ TextMessages' = TextMessages \ {e}
      /\ e \notin TextMessages => g_text' = g_text
      /\ e \notin ToChannel("show") => ~keyboard'
  BY MessageHandled
<1>2. posts = <<>> /\ NonePosted /\ NonePosted' /\ dart' = dart /\ agreed' = agreed
  <2>1. /\ posts = <<>> /\ dart' = dart /\ agreed' = agreed
        /\ posts' = <<>> \/ posts' = <<AnswerTo(e.id)>>
    BY HandleEffect DEF dartVars
  <2> QED BY <2>1, TextFacts DEF NonePosted
<1>3. Updates' = Updates
  BY NoUpdatesMove
<1>4. ASSUME TextComes PROVE TextComes' \/ TextReturns'
  <2>1. PICK l \in ToChannel("setEditingState") :
               /\ Read[l.task.text] = dart.text
               /\ IsLast(l, TextMessages)
               /\ \A f \in ClientMessages : f.id < l.id
               /\ \A f \in ToChannel("show") : f.id > l.id
    BY <1>4 DEF TextComes
  <2>2. /\ l \in Pending /\ ClientMessages \subseteq Pending /\ TextMessages \subseteq Pending
        /\ ToChannel("show") \subseteq Pending
        /\ l \in TextMessages /\ l.task.channel = "textinput" /\ l.task.method = "setEditingState"
    BY DEF ToChannel, ClientMessages, TextMessages
  <2>3. CASE l = e
    <3>1. ClientMessages' = {} /\ TextMessages' = {}
      BY <1>1, <2>1, <2>2, <2>3 DEF IsLast
    <3>2. g_text' = dart'.text
      BY <1>1, <1>2, <2>1, <2>2, <2>3, MessageHandled, HandlingBrings
    <3>3. Updates' = {}
      BY <1>3, <1>4 DEF TextComes
    <3>4. TextReturns'
      BY <1>2, <3>1, <3>2, <3>3 DEF TextReturns, NonePosted
    <3> QED BY <3>4
  <2>4. CASE l # e
    <3>1. e \notin ToChannel("show")
      BY <1>1, <2>1, <2>2, <2>4
    <3>2. l \in ToChannel("setEditingState")'
      BY <1>1, <2>4
    <3>3. IsLast(l, TextMessages')
      BY <1>1, <2>1, <2>4 DEF IsLast
    <3>4. \A f \in ClientMessages' : f.id < l.id
      BY <1>1, <2>1
    <3>5. \A f \in ToChannel("show")' : f.id > l.id
      BY <1>1, <2>1
    <3>6. ~keyboard' /\ Updates' = {}
      BY <1>1, <1>3, <1>4, <3>1 DEF TextComes
    <3>7. TextComes'
      BY <1>2, <2>1, <3>2, <3>3, <3>4, <3>5, <3>6 DEF TextComes, IsLast
    <3> QED BY <3>7
  <2> QED BY <2>3, <2>4
<1>5. ASSUME TextReturns PROVE TextReturns'
  <2>1. TextMessages' = {} /\ ClientMessages' = {} /\ g_text' = g_text
    BY <1>1, <1>5 DEF TextReturns
  <2> QED BY <1>2, <1>3, <1>5, <2>1 DEF TextReturns, NonePosted, IsLast
<1> QED BY <1>2, <1>4, <1>5 DEF AgreedInv

(* What was typed leaves the platform thread and is the youngest of the    *)
(* texts on their way.                                                     *)
LEMMA AgreedPosts ==
  ASSUME RunnerTypeOK, LoopTypeOK, TaskInv, UpdatesInv, AgreedInv, PostToUi
  PROVE  AgreedInv'
<1>1. PICK h : h = Head(posts)
  OBVIOUS
<1>2. PICK new : new = [id |-> registered, time |-> now, task |-> h]
  OBVIOUS
<1>3. /\ posts \in Seq(Replies) /\ posts # <<>> /\ posts' = Tail(posts)
      /\ tasks' = tasks \cup {new} /\ new.id = registered /\ new.task = h
      /\ UNCHANGED <<textInputVars, dartVars>>
  BY <1>1, <1>2 DEF TaskInv, PostToUi, Register
<1>4. /\ 1 \in DOMAIN posts /\ posts[1] = h
      /\ \A i \in DOMAIN posts' : i \in Nat /\ i # 0 /\ i + 1 \in DOMAIN posts /\ posts'[i] = posts[i + 1]
  BY <1>1, <1>3, HeadTailProperties
<1>5. NonePosted'
  BY <1>4 DEF NonePosted, UpdatesInv
<1>6. /\ \A method : ToChannel(method)' = ToChannel(method)
      /\ ClientMessages' = ClientMessages /\ TextMessages' = TextMessages
  BY MessagesWait
<1>7. CASE h.kind # "update"
  <2>1. Updates' = Updates
    BY <1>3, <1>7 DEF Updates
  <2>2. NonePosted
    BY <1>4, <1>7 DEF NonePosted, UpdatesInv
  <2>3. TextComes => TextComes'
    BY <1>3, <1>5, <1>6, <2>1 DEF TextComes, IsLast, textInputVars, dartVars
  <2>4. TextReturns => TextReturns'
    BY <1>3, <1>5, <1>6, <2>1, <2>2 DEF TextReturns, NonePosted, IsLast, textInputVars, dartVars
  <2> QED BY <1>3, <2>3, <2>4 DEF AgreedInv, dartVars
<1>8. CASE h.kind = "update"
  <2>1. Updates' = Updates \cup {new} /\ new \in Updates'
    BY <1>3, <1>8 DEF Updates
  <2>2. ~TextComes
    BY <1>4, <1>8 DEF TextComes, NonePosted
  <2>3. \A u \in Updates : u.id \in Nat /\ new.id \in Nat /\ u.id < new.id
    BY <1>3 DEF Updates, UpdatesInv, LoopTypeOK, LoopEntries
  <2>4. ASSUME TextReturns PROVE TextReturns'
    <3>1. h.client = dart.client /\ h.text = g_text
      BY <1>4, <1>8, <2>4 DEF TextReturns
    <3>2. \A u \in Updates' : u.task.client = dart'.client
      BY <1>3, <2>1, <2>4, <3>1 DEF TextReturns, dartVars
    <3>3. \A u \in Updates' : IsLast(u, Updates') => u.task.text = g_text'
      <4> SUFFICES ASSUME NEW u \in Updates', IsLast(u, Updates') PROVE u = new
        BY <1>3, <3>1 DEF textInputVars
      <4> QED BY <2>1, <2>3 DEF IsLast
    <3> QED BY <1>5, <1>6, <2>1, <2>4, <3>2, <3>3 DEF TextReturns, NonePosted, IsLast
  <2> QED BY <1>3, <2>2, <2>4 DEF AgreedInv, dartVars
<1> QED BY <1>7, <1>8

(* What the user confirms is the text of the channel and what is posted to *)
(* the client.                                                             *)
LEMMA AgreedTypes ==
  ASSUME RunnerTypeOK, TaskInv, ClientInv, AgreedInv, CloseApplet
  PROVE  AgreedInv'
<1>1. /\ posts = <<>> /\ dart' = dart /\ agreed' = agreed /\ g_client_id' = g_client_id
      /\ UNCHANGED <<tasks, registered>>
  BY MessagesWait DEF CloseApplet, dartVars, uiVars, Confirm, Cancel, textInputVars
<1>2. /\ \A method : ToChannel(method)' = ToChannel(method)
      /\ ClientMessages' = ClientMessages /\ TextMessages' = TextMessages
  BY MessagesWait
<1>3. Updates' = Updates /\ NonePosted
  BY <1>1 DEF Updates, NonePosted
<1>4. CASE \E typed \in Texts : Confirm(typed) /\ posts' = Messages(typed)
  <2>1. PICK typed \in Texts : Confirm(typed) /\ posts' = Messages(typed)
    BY <1>4
  <2>2. ~TextComes
    BY <2>1 DEF Confirm, TextComes
  <2>3. ASSUME TextReturns, dart.client # NoClient PROVE TextReturns'
    <3>1. g_client_id = dart.client
      BY <2>3 DEF TextReturns, ClientInv
    <3>2. g_text' = Utf8(typed) /\ Typed[typed].read = Utf8(typed)
      BY <2>1, <2>3, <3>1, TextsReadBack DEF Confirm
    <3>3. posts' = <<UpdateEditingState(dart.client, typed), PerformAction(dart.client, g_input_action)>>
      BY <2>1, <2>3, <3>1 DEF Messages
    <3>4. UpdateEditingState(dart.client, typed).kind = "update"
          /\ UpdateEditingState(dart.client, typed).client = dart.client
          /\ UpdateEditingState(dart.client, typed).text = Utf8(typed)
          /\ PerformAction(dart.client, g_input_action).kind = "action"
      BY <3>2 DEF UpdateEditingState, PerformAction
    <3>5. ~NonePosted'
      BY <3>3, <3>4 DEF NonePosted
    <3>6. \A i \in DOMAIN posts' :
            posts'[i].kind = "update" => posts'[i].client = dart.client /\ posts'[i].text = g_text'
      BY <3>2, <3>3, <3>4
    <3> QED BY <1>1, <1>2, <1>3, <2>3, <3>5, <3>6 DEF TextReturns
  <2> QED BY <1>1, <2>2, <2>3 DEF AgreedInv
<1>5. CASE posts' = posts /\ g_text' = g_text /\ (keyboard' = FALSE \/ keyboard' = keyboard)
  <2>1. NonePosted'
    BY <1>1, <1>5 DEF NonePosted
  <2>2. TextComes => TextComes'
    BY <1>1, <1>2, <1>3, <1>5, <2>1 DEF TextComes, IsLast
  <2>3. TextReturns => TextReturns'
    BY <1>1, <1>2, <1>3, <1>5, <2>1 DEF TextReturns, IsLast, NonePosted
  <2> QED BY <1>1, <2>2, <2>3 DEF AgreedInv
<1> QED BY <1>4, <1>5 DEF CloseApplet, Cancel, textInputVars

(* Dart receives what was typed in the order of typing, so that the last   *)
(* is the text of the channel.                                             *)
LEMMA AgreedReceives ==
  ASSUME RunnerTypeOK, LoopTypeOK, TaskInv, UpdatesInv, AgreedInv, NEW u \in tasks, UiTask(u)
  PROVE  AgreedInv'
<1>1. /\ \A method : ToChannel(method)' = ToChannel(method)
      /\ ClientMessages' = ClientMessages /\ TextMessages' = TextMessages
      /\ dart'.client = dart.client /\ agreed' = agreed
  BY MessagesWait
<1>2. tasks' = tasks \ {u} /\ UNCHANGED <<textInputVars, posts>> /\ IsTop(u)
  BY DEF UiTask, NextTask
<1>3. Updates' = Updates \ {u} /\ (NonePosted' <=> NonePosted)
  BY <1>2 DEF Updates, NonePosted
<1>4. CASE u.task.kind # "update"
  <2>1. dart'.text = dart.text /\ dart'.selection = dart.selection
    BY <1>4 DEF UiTask, Receives, TaskInv
  <2>2. Updates' = Updates
    BY <1>3, <1>4 DEF Updates
  <2>3. TextComes => TextComes'
    BY <1>1, <1>2, <1>3, <2>1, <2>2 DEF TextComes, IsLast, textInputVars
  <2>4. TextReturns => TextReturns'
    BY <1>1, <1>2, <1>3, <2>1, <2>2 DEF TextReturns, IsLast, textInputVars
  <2> QED BY <1>1, <2>1, <2>3, <2>4 DEF AgreedInv
<1>5. ASSUME u.task.kind = "update", agreed, dart.client # NoClient
      PROVE  AgreedInv'
  <2>1. u \in Updates /\ TextReturns
    BY <1>5 DEF Updates, TextComes, AgreedInv
  <2>2. dart'.text = u.task.text /\ dart'.selection = u.task.selection
    BY <1>5, <2>1 DEF UiTask, Receives, TaskInv, TextReturns
  <2>3. \E text \in Texts : dart'.text = Utf8(text) /\ dart'.selection = Units[text]
    BY <1>5, <2>2, TextFacts DEF TaskInv
  <2>4. \A v \in Updates : v.id \in Nat /\ v.time \in Nat
    BY EngineTimeAssumption DEF Updates, LoopTypeOK, LoopEntries
  <2>5. \A v \in Updates' : v \in Updates /\ u.id < v.id
    <3> SUFFICES ASSUME NEW v \in Updates, v # u PROVE u.id < v.id
      BY <1>3
    <3>1. u.time < v.time \/ (u.time = v.time /\ u.id <= v.id)
      BY <1>2 DEF IsTop, Updates
    <3>2. u.id # v.id /\ (v.id < u.id => v.time <= u.time)
      BY <2>1 DEF UpdatesInv
    <3> QED BY <2>1, <2>4, <3>1, <3>2
  <2>6. ASSUME NonePosted
        PROVE  /\ Updates' = {} => g_text' = dart'.text
               /\ \A v \in Updates' : IsLast(v, Updates') => v.task.text = g_text'
    <3>1. Updates' = {} => IsLast(u, Updates)
      BY <1>3, <2>1, <2>4 DEF IsLast
    <3>2. \A v \in Updates' : IsLast(v, Updates') => IsLast(v, Updates)
      BY <1>3, <2>1, <2>4, <2>5 DEF IsLast
    <3>3. \A v \in Updates : IsLast(v, Updates) => v.task.text = g_text
      BY <2>1, <2>6 DEF TextReturns
    <3>4. \A v \in Updates' : v \in Updates
      BY <1>3
    <3> QED BY <1>2, <2>1, <2>2, <3>1, <3>2, <3>3, <3>4 DEF textInputVars
  <2>7. \A v \in Updates' : v.task.client = dart'.client
    BY <1>1, <1>3, <2>1 DEF TextReturns
  <2>8. \A i \in DOMAIN posts' :
          posts'[i].kind = "update" => posts'[i].client = dart'.client /\ posts'[i].text = g_text'
    BY <1>1, <1>2, <2>1 DEF TextReturns, textInputVars
  <2>9. TextMessages' = {} /\ ClientMessages' = {}
    BY <1>1, <2>1 DEF TextReturns
  <2>10. TextReturns'
    BY <1>3, <2>6, <2>7, <2>8, <2>9 DEF TextReturns
  <2> QED BY <2>3, <2>10 DEF AgreedInv
<1> QED BY <1>1, <1>4, <1>5 DEF AgreedInv

(* Every step keeps the text on its way, or on its way back.               *)
LEMMA AgreedKept ==
  ASSUME RunnerTypeOK, LoopTypeOK, TaskInv, OrderInv, UpdatesInv, ClientInv, AgreedInv, [Next]_vars
  PROVE  AgreedInv'
<1>1. CASE Aside \/ Round
  <2>1. /\ \A method : ToChannel(method)' = ToChannel(method)
        /\ ClientMessages' = ClientMessages /\ TextMessages' = TextMessages
    BY <1>1, MessagesWait
  <2>2. Updates' = Updates
    BY <1>1, NoUpdatesMove
  <2>3. UNCHANGED <<posts, textInputVars, dartVars>>
    BY <1>1, RoundEffect DEF Aside
  <2>4. NonePosted' <=> NonePosted
    BY <2>3 DEF NonePosted
  <2>5. TextComes => TextComes'
    BY <2>1, <2>2, <2>3, <2>4 DEF TextComes, IsLast, textInputVars, dartVars
  <2>6. TextReturns => TextReturns'
    BY <2>1, <2>2, <2>3, <2>4 DEF TextReturns, IsLast, textInputVars, dartVars
  <2> QED BY <2>3, <2>5, <2>6 DEF AgreedInv, dartVars
<1> QED
  BY <1>1, AgreedTalks, AgreedHandles, AgreedPosts, AgreedTypes, AgreedReceives, StepKinds
  DEF RunnerTypeOK

-----------------------------------------------------------------------------
TextInv == UpdatesInv /\ ClientInv /\ NoTextInv /\ AgreedInv

(* The channel's client and text are the framework's once nothing about    *)
(* them is under way: for all clients, texts and numbers of messages,      *)
(* wherever the keyboard comes in between, if the conversions lose nothing.*)
THEOREM TextsInStep == Spec => []TextInStep
<1>1. Init => TextInv
  <2> SUFFICES ASSUME Init PROVE TextInv
    OBVIOUS
  <2>1. /\ Pending = {} /\ tasks = {} /\ posts = <<>> /\ dart.client = NoClient
        /\ g_client_id = NoClient /\ g_text = <<>>
    BY DEF Init, RunnerInit, LoopInit, TextInputInit, Pending
  <2>2. \A method : ToChannel(method) = {}
    BY <2>1 DEF ToChannel
  <2>3. ClientMessages = {} /\ TextMessages = {} /\ Updates = {}
    BY <2>1, <2>2 DEF ClientMessages, TextMessages, Updates
  <2> QED BY <2>1, <2>3 DEF TextInv, UpdatesInv, ClientInv, NoTextInv, AgreedInv
<1>2. BaseInv /\ TextInv /\ [Next]_vars => TextInv'
  BY UpdatesKept, ClientKept, NoTextKept, AgreedKept DEF BaseInv, RunnerInv, LoopInv, TextInv
<1>3. BaseInv /\ TextInv => TextInStep
  <2> SUFFICES ASSUME TextInv, posts = <<>>, ~keyboard,
                      \A e \in queue \cup due : e.task.channel # "textinput",
                      \A u \in tasks : u.task.kind # "update"
               PROVE  /\ g_client_id = dart.client
                      /\ (dart.client = NoClient => g_text = <<>>)
                      /\ dart.client # NoClient /\ agreed =>
                           /\ g_text = dart.text
                           /\ \E text \in Texts : dart.text = Utf8(text) /\ dart.selection = Units[text]
    BY DEF TextInStep
  <2>1. \A method : ToChannel(method) = {}
    BY DEF ToChannel, Pending
  <2>2. ClientMessages = {} /\ TextMessages = {} /\ Updates = {} /\ NonePosted
    BY <2>1 DEF ClientMessages, TextMessages, Updates, NonePosted
  <2>3. g_client_id = dart.client
    BY <2>2 DEF TextInv, ClientInv
  <2>4. dart.client = NoClient => g_text = <<>>
    BY <2>1 DEF TextInv, NoTextInv
  <2>5. TextReturns => g_text = dart.text
    BY <2>2 DEF TextReturns
  <2>6. ~TextComes
    BY <2>1 DEF TextComes
  <2> QED BY <2>3, <2>4, <2>5, <2>6 DEF TextInv, AgreedInv
<1> QED BY <1>1, <1>2, <1>3, BaseAlways, PTL DEF Spec

-----------------------------------------------------------------------------
(* Every step keeps it: runApp builds for good, before the first frame.    *)
LEMMA FocusKept ==
  ASSUME now \in Times, TaskInv, FocusInv, [Next]_vars
  PROVE  FocusInv'
<1> USE DEF FocusInv
<1>1. ASSUME UNCHANGED <<g_first_frame_presented, uiTask, dartVars>>,
             UNCHANGED <<tasks, registered>> \/
               \E kind \in SystemKinds \ {"focus"}, time \in Times : Register(Ui(kind), time)
      PROVE  FocusInv'
  <2>1. \A u \in tasks' : u \in tasks \/ u.task.kind # "focus"
    BY <1>1 DEF Register, Ui
  <2> QED BY <1>1, <2>1 DEF dartVars
<1>2. CASE Starts \/ ShutsDown \/ Tick \/ UiWakes \/ UiNotify \/ UiStops \/ UiWaits
  <2>1. UNCHANGED <<tasks, registered>>
    BY <1>2 DEF Starts, ShutsDown, Tick, UiWakes, UiNotify, UiStops, loopVars, LoopTick, Spurious,
       Notify, Terminate, UiWaits, Start, Leave, Wait, WaitFor, WaitEnds, RunTasks, NoneDue
  <2>2. UNCHANGED <<g_first_frame_presented, uiTask, dartVars>>
    BY <1>2 DEF Starts, ShutsDown, Tick, UiWakes, UiNotify, UiStops, UiWaits, frameVars
  <2> QED BY <1>1, <2>1, <2>2
<1>3. CASE Runs \/ QuitLoop \/ \E time \in Times : SetsTimer(time)
  BY <1>1, <1>3 DEF Runs, QuitLoop, SetsTimer, SystemKinds, frameVars, loopVars
<1>4. CASE Round \/ (\E e \in due : HandleMessage(e)) \/ CloseApplet
  BY <1>1, <1>4 DEF Round, HandleMessage, CloseApplet, uiVars, frameVars
<1>5. CASE PostToUi
  <2>1. Head(posts) \in Replies
    BY <1>5, HeadTailProperties DEF TaskInv, PostToUi
  <2>2. Head(posts).kind # "focus"
    BY <2>1 DEF Replies, AnswerTo, UpdateEditingState, PerformAction
  <2>3. \A u \in tasks' : u \in tasks \/ u.task.kind # "focus"
    BY <1>5, <2>2 DEF PostToUi, Register
  <2> QED BY <1>5, <2>3 DEF PostToUi, frameVars, dartVars
<1>6. CASE RoundEnds
  <2>1. \A u \in tasks' : u \in tasks \/ g_first_frame_presented
    BY <1>6 DEF RoundEnds, Register, loopVars
  <2> QED BY <1>6, <2>1 DEF RoundEnds, dartVars
<1>7. ASSUME NEW u \in tasks, UiTask(u) PROVE FocusInv'
  <2>1. dart.built => dart'.built
    BY <1>7 DEF UiTask, Receives, TaskInv
  <2>2. tasks' \subseteq tasks /\ uiTask' = u.task
    BY <1>7 DEF UiTask, NextTask
  <2> QED BY <1>7, <2>1, <2>2 DEF UiTask, frameVars
<1>8. CASE UiStarts
  <2>1. /\ \A u \in tasks' : u \in tasks \/ u.task.kind # "focus"
        /\ uiTask'.kind # "focus"
    BY <1>8 DEF UiStarts, Register, Ui
  <2> QED BY <1>8, <2>1 DEF UiStarts, frameVars, dartVars
<1>9. CASE UiTaskDone
  BY <1>9 DEF UiTaskDone, TaskDone, Ui, frameVars, dartVars
<1>10. CASE Present
  BY <1>10 DEF Present, loopVars, dartVars
<1>11. CASE Talks
  <2>1. UNCHANGED <<tasks, g_first_frame_presented, uiTask>>
    BY <1>11 DEF Talks, Attach, SetsText, Detach, ShowsOrHides, Asks, Send, uiVars, frameVars
  <2>2. dart'.built = dart.built
    BY <1>11 DEF Talks, Attach, SetsText, Detach, ShowsOrHides, Asks, TaskInv, dartVars
  <2> QED BY <2>1, <2>2
<1>12. CASE UNCHANGED vars
  BY <1>1, <1>12 DEF vars, frameVars, loopVars
<1> QED
  BY <1>2, <1>3, <1>4, <1>5, <1>6, <1>7, <1>8, <1>9, <1>10, <1>11, <1>12
  DEF Next, Platform, UiThread, Dart, Talks

(* The focus is announced to a tree that has been built, although nobody   *)
(* waits for runApp.                                                       *)
THEOREM FocusFinds == Spec => []FocusFindsTree
<1>1. Init => FocusInv
  BY DEF Init, LoopInit, FocusInv, Ui
<1>2. BaseInv /\ FocusInv /\ [Next]_vars => FocusInv'
  BY FocusKept DEF BaseInv, RunnerInv, RunnerTypeOK
<1>3. FocusInv => FocusFindsTree
  BY DEF FocusInv, FocusFindsTree
<1> QED BY <1>1, <1>2, <1>3, BaseAlways, PTL DEF Spec

-----------------------------------------------------------------------------
(* A service that is opened is open, or has failed and is not.             *)
LEMMA OpenedOrNot == \A service : Opened(service) \subseteq {{service}, {}}
BY DEF Opened

(* Every step of main and of the threads keeps it; the order of the        *)
(* shutdown is what the sets of each stage say.                            *)
LEMMA LifeKept == LifeInv /\ [Next]_vars => LifeInv'
<1> SUFFICES ASSUME LifeInv, [Next]_vars PROVE LifeInv'
  OBVIOUS
<1> USE DEF LifeInv, Early, Middle, Late
<1>1. CASE Starts
  <2>1. loop' = loop
    BY <1>1 DEF Starts, loopVars
  <2>2. CASE LogInit
    BY <2>1, <2>2 DEF LogInit
  <2>3. CASE RomfsInit
    BY <2>1, <2>3 DEF RomfsInit, Fail
  <2>4. CASE EglInit
    BY <2>1, <2>4 DEF EglInit
  <2>5. CASE PlatformInitialize
    BY <2>1, <2>5 DEF PlatformInitialize, Fail
  <2>6. CASE BoostAndPsm
    <3>1. /\ stage = "psm" /\ stage' = "initialize" /\ UNCHANGED <<egl, engine, exitCode>>
          /\ \E psm \in {{"psm"}, {}} : sessions' = sessions \cup {"boost"} \cup psm
      BY <2>6, OpenedOrNot DEF BoostAndPsm
    <3> QED BY <2>1, <3>1
  <2>7. CASE EngineInitialize
    BY <2>1, <2>7 DEF EngineInitialize
  <2> QED BY <1>1, <2>2, <2>3, <2>4, <2>5, <2>6, <2>7 DEF Starts, StartUp
<1>2. CASE Runs
  <2>1. loop' = loop /\ RunInitialized
    BY <1>2 DEF Runs, Register, loopVars
  <2> QED BY <2>1 DEF RunInitialized
<1>3. CASE QuitLoop
  <2>1. loop' = loop /\ Quit
    BY <1>3 DEF QuitLoop, Register, loopVars
  <2> QED BY <2>1 DEF Quit
<1>4. CASE ShutsDown
  <2>1. loop' = loop
    BY <1>4 DEF ShutsDown, loopVars
  <2>2. CASE loop = "left" /\ EngineShutdown
    BY <2>1, <2>2 DEF EngineShutdown
  <2>3. CASE CloseDown
    BY <2>1, <2>3 DEF CloseDown, MediaKitVideoShutdown, EglShutdown, ServicesExit, LogShutdown, Return
  <2> QED BY <1>4, <2>2, <2>3 DEF ShutsDown
<1>5. CASE UiStarts
  <2>1. /\ loop = "task" /\ loop' = loop /\ UNCHANGED <<stage, egl, engine, exitCode>>
        /\ \E csrng \in {{"csrng"}, {}} : sessions' = sessions \cup csrng
    BY <1>5, OpenedOrNot DEF UiStarts, UseRandom, Register
  <2> QED BY <2>1
<1>6. ASSUME NEW e \in tasks, UiTask(e) PROVE LifeInv'
  <2>1. /\ loop = "flush" /\ UNCHANGED <<stage, egl, engine, exitCode>>
        /\ \E fonts \in {{"fonts"}, {}} : sessions' = sessions \cup fonts
    BY <1>6, OpenedOrNot DEF UiTask, NextTask, UseFonts, lifecycleVars
  <2> QED BY <2>1
<1>7. ASSUME UNCHANGED lifecycleVars,
             loop' = loop \/ loop \notin {"new", "left"} \/ engine # "none"
      PROVE  LifeInv'
  BY <1>7 DEF lifecycleVars
<1>8. CASE UiWaits \/ UiWakes \/ UiNotify \/ UiStops \/ UiTaskDone
  BY <1>7, <1>8 DEF UiWaits, UiWakes, UiNotify, UiStops, UiTaskDone, Spurious, Notify, Terminate,
     TaskDone, Waiting
<1>9. CASE \/ Round \/ PostToUi \/ RoundEnds \/ CloseApplet \/ Present \/ Tick
           \/ \E e \in due : HandleMessage(e)
  <2>1. loop' = loop
    BY <1>9 DEF Round, PostToUi, RoundEnds, CloseApplet, Present, Tick, HandleMessage, uiVars,
       loopVars, Register, LoopTick
  <2>2. UNCHANGED lifecycleVars
    BY <1>9 DEF Round, PostToUi, RoundEnds, CloseApplet, Present, Tick, HandleMessage
  <2> QED BY <1>7, <2>1, <2>2
<1>10. CASE Talks \/ \E time \in Times : SetsTimer(time)
  <2>1. loop' = loop /\ UNCHANGED lifecycleVars
    BY <1>10 DEF Talks, Attach, SetsText, Detach, ShowsOrHides, Asks, Send, SetsTimer, Register, uiVars
  <2> QED BY <1>7, <2>1
<1>11. CASE UNCHANGED vars
  BY <1>7, <1>11 DEF vars, loopVars
<1> QED
  BY <1>1, <1>2, <1>3, <1>4, <1>5, <1>6, <1>8, <1>9, <1>10, <1>11
  DEF Next, Platform, UiThread, Dart, Talks

(* Whatever fails at the start and whenever the engine's threads open      *)
(* their sessions: a regular end leaves nothing open, and until then the   *)
(* log outlives everything that writes to it.                              *)
THEOREM NothingLeftOpen == Spec => []NothingLeft
<1>1. Init => LifeInv
  BY DEF Init, LifecycleInit, LoopInit, LifeInv, Early, Middle, Late
<1>2. LifeInv => NothingLeft
  BY DEF LifeInv, NothingLeft, Early, Middle, Late
<1> QED BY <1>1, <1>2, LifeKept, PTL DEF Spec
=============================================================================

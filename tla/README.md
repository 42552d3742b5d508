# TLA+ models of flutter-libnx

flutter-libnx runs the Flutter engine on Horizon (the Nintendo Switch system, through libnx): an embedder in C++,
replacements for the parts of the Dart VM, dart:io and fml that know no Horizon, a bridge from libmpv to Flutter's
external textures, and an application that drives it all from a loop. This directory holds TLA+ models of its
concurrent and crash-prone parts, the TLC configurations that check them, and proofs of what these runs check of safety
and of refinement, for all values of the constants.

    tlc -config VideoBridge.cfg MCVideoBridge        # model-check one run (PROJECT.json lists them all)
    tlapm VideoBridge_proofs.tla                     # check the proofs of one part; the others are EventHandler,
                                                     # PosixCompat, Settings, PlatformInput, EngineThreads,
                                                     # PlatformMessages and AppServices, each with _proofs

`PROJECT.json` names, for every definition of the modules, the lines of code it stands for, for every property a
change of the model that the property detects (definitions with the comment "Fault:" are those changed forms; no run
or theorem uses them), and the hazards the properties answer.


## 1. The system

Threads: the **platform thread** (the program's main loop), the engine's **raster** and **UI** threads, the **Dart
threads** with the dart:io **event handler thread**, and **mpv's** threads. Paths below are relative to `src/`.

| Component (code) | State | Operations | Talks to | Hard about it | Must hold | Module |
|---|---|---|---|---|---|---|
| Video bridge (`embedder/src/engine/media_kit_video_horizon.cpp`) | list of outputs, each with render context, FBO, size, flags; the raster thread's tasks | Create, SetSize, Dispose (waits 2 s), pump, frame callback, create and dispose tasks, shutdown | Dart (channel), engine (tasks, textures), mpv (raw pointer) | 4 parties, a time limit, objects with addresses that are used again | no use after free; one GL thread; no context without a player; frames and answers arrive | `VideoBridge` |
| EGL window context (`embedder/src/platform/egl_horizon.cpp`) | display, window and resource context, current surface | init, make_current, clear_current, present, shutdown | raster thread, bridge, main | a context is current on one thread; init fails half-way | what was set up is taken down | contexts in `VideoBridge`, init and shutdown in `Lifecycle` |
| dart:io event handler (`patches/.../dart/bin/eventhandler_horizon.cc`, `.h`) | `socket_map_`, timers, the loopback pair or the interrupt queue | poll loop, messages (set mask, return token, close, shutdown read and write, timer, shutdown) | Dart threads, BSD sockets | level-triggered poll, numbers of descriptors used again, shared listeners | order of events and messages, ownership of descriptors, tokens, progress | `EventHandler` |
| Virtual file handles (`embedder/src/platform/posix_compat_horizon.cpp:190-920`) | tables of real descriptors and of handles, one mutex | open, read, write, lseek, ftruncate, dup, close, pread, stat, unlinkat, renameat | dart:io, sqlite, Hive; Horizon's file service | a file is open once in the system; calls made of several locked calls | each handle sees a file of its own; counts exact; nothing stays locked | `VirtualFiles`, `PosixFiles` |
| Directory handles (`posix_compat_horizon.cpp:15-190`, *at functions `:268-420`) | table of 64 directory handles with their paths | openat, dup, close, fdopendir, fchdir, mkdirat, unlinkat, renameat | dart:io on several threads | look-up and use are two critical sections; table full; relative paths | a handle names the directory it was opened on | `DirHandles`, `PosixCompat` |
| Main loop, input, lifecycle (`examples/ui_app/source/main.cpp`) | touch slots, cursor, held keys, focus, response handles, sessions | send touch, cursor and key events, dispatch messages, pump, start, stop | engine, all plugins | repeated and lost down/up, early returns, handlers that block | every down gets one up; every message one answer; nothing stays open | `PlatformInput`, `Lifecycle`, `PlatformMessages`; pump in `VideoBridge` |
| Plugins (`embedder/src/engine/plugins_horizon.cpp`) | preferences, secure storage (on the SD card), cached paths | get, set, remove, clear; write, delete; paths, files, battery, browser | Dart, SD card, system applets | a crash between writing, removing and renaming; every branch must answer | a setting is not lost; one answer | `Settings`, `PluginChannels` |
| Text input (`embedder/src/engine/textinput_horizon.cpp`) | client, text, input action | setClient, setEditingState, clearClient, show (blocking), hide | Dart, software keyboard | Dart goes on while the keyboard holds up the platform thread; JSON by hand | text and client are the framework's | `JsonText`, `TextInput` |
| Engine tasks, message loop (`embedder/src/engine/task_runner.cpp`, `patches/.../fml/.../message_loop_horizon.cc`) | queue with due times; loop with condition variable | post, run expired; run, terminate, wake up | engine | lost wake-ups, order, tasks that post tasks | each task once, in time; no sleep over a task | `TaskBag`, `TaskRunner`, `MessageLoop`, `EngineTime` |
| HTTP client, stream proxy (`dart_helpers/*.dart`) | slots in use, waiting requests; servers, routes, addresses | request, redirect; wrap, rewrite a playlist | sockets, mpv | awaits between check and use, errors on all paths | slots come back and are handed on; addresses stay good | `HorizonHttp`, `LocalStreamProxy` |
| Log (`embedder/src/log.cpp`) | file and receiver, the report of the run before; the socket service | init, write, shutdown | all threads, SD card, sockets | a crash during the rotation; a receiver that fails | the report of a crash survives the next start | `LogSinks` |
| Dart VM layer (`patches/.../dart/vm/*.cc`) | threads, monitors; list of guarded blocks | wrappers over pthread and memalign | Dart VM | callers are not in the repository | - | not modelled |
| Standard message codec (`embedder/src/engine/standard_message_codec.cpp`) | - | encode, decode | plugins | sizes and padding at their boundaries, truncated data | what was written is read back, a part of it is not | `StandardCodec` |
| Fonts, random, static libraries, sqlite probe, fml files | tables | conversions, look-ups | - | nothing concurrent | - | not modelled |
| Heap guard and layout, crash handler, thread diagnosis | diagnosis | dumps, heap walk | newlib's allocator | data belong to the allocator | - | not modelled |
| Patches, build scripts, other examples | - | - | - | no behaviour of the port at run time | - | not modelled |

How they meet: the main loop polls the input, runs the platform tasks (among them the messages from Dart, answered on
this thread by the plugins and the bridge), pumps the bridge, and sleeps. A handler that waits (a Dispose, the keyboard,
the browser) holds up all of this, while Dart goes on in the tasks of the UI thread; `PlatformMessages` composes the two
threads from the start of the program to its end. The bridge posts tasks to the raster thread, which calls back into it
while it composes; EGL, the pump and the shutdown of main.cpp that matter to it are part of its module. dart:io runs on
threads of its own over the event handler, the virtual files and the directory handles. Settings and log write to one
card and lose power together, and it is the log that starts the socket service, without which neither the HTTP client
nor the proxy connects: `AppServices` composes these. No lock of one component is taken while one of another is held.


## 2. The plan

Most important behaviour first.

1. *(done)* **VideoBridge**: four parties over one mutex; safety, liveness, inductive invariant and proofs.
2. *(done)* **EventHandler**: the loop with the pair and with the queue; safety and liveness; proofs.
3. *(done)* **PosixFiles / VirtualFiles**: abstract specification and refinement; proofs.
4. *(done)* **Settings / StandardCodec**: preferences and secure storage on a card that can lose power between two
   calls, with the codec of their files; proofs.
5. *(done)* **PlatformInput**: main.cpp's touch slots, virtual cursor and keys; proofs.
6. *(done)* **TaskRunner** (with the abstract **TaskBag**), **MessageLoop**, **TextInput**, **PluginChannels** and
   **Lifecycle**, composed in **PlatformMessages**: from Dart to the platform and back; proofs.
7. *(done)* **HorizonHttp**, **LocalStreamProxy**, **LogSinks**, composed with `Settings` in **AppServices**;
   proofs.
8. *(done)* **DirHandles**, composed with `VirtualFiles` in **PosixCompat**; proofs.
9. Left: an abstract durable map that `Settings` implements, which would turn its invariants into one refinement; the
   list of guarded blocks of `virtual_memory_horizon.cc`; the safety part of the liveness arguments (what keeps each
   fair action enabled) as theorems.


## 3. The modules

### VideoBridge (MCVideoBridge, VideoBridge_proofs)

*State.* An output is named by its texture id, because the code never uses an id twice; `handle`, `pending`, `size`,
`tex`, `framePending`, `disposing`, `failed`, `ctx` are the fields of `VideoOutput`. `mpv` says which handles are
players at the moment: the address of a destroyed player may be given to a new one. `queue` is the raster thread's
task queue, `rpc`/`ppc` say where the two threads stand, `current` to which thread the window context is bound.
`ctx = "orphan"` marks a render context whose player was destroyed under it.

*Actions.* One per handler or critical section. The mutex `g_mutex` is given back within a step everywhere except in
the frame callback, which begins (`FrameBegin`: lock, flag exchanged) and ends (`FrameUnchanged`, `FrameFails`,
`FrameRender`) in two steps, so that mpv's lock-free notification runs in between. `HandleDispose` is `Dispose`
(mark and post), then `DisposeDone` or `DisposeTimeout` and `DisposeDirect`; the raster side of it is
`DisposeOnRasterThread` and `SignalDone`, two mutexes apart. While the platform thread waits it handles no message,
does not pump and does not end the program (`Receives`). A task whose requester has given up becomes `"late"`: it
signals a heap object that nobody looks at. The engine caches an external texture until it is marked again (`stale`),
and asks for it when a paint is `scheduled`, or at any other paint. Dart is assumed to do what media_kit does: it
destroys a player after the answer to its Dispose, and not before.

*Left out.* GL calls, the decoding of messages, logging; the shared context of egl_horizon.cpp, which nothing uses.

| Run | Checks | Instance |
|---|---|---|
| video_safety (`VideoBridge.cfg`) | `TypeOK`, `CallbackTargetAlive`, `TaskTargetAlive`, `ContextHasPlayer`, `OneOutputPerHandle`, `OnlyRasterThreadBinds`, `ReportedTextureExists`, `ShutdownReleases` | 2 handles (symmetric), 2 texture ids, 1 size, queue of 2, a pump of 1 |
| video_liveness (`VideoBridgeLive.cfg`) | `DisposeAnswered`, `EagerContext`, `FrameShown` | 2 handles, one with a picture, 2 ids, 1 size, queue of 1, a pump of 2 |
| video_terminate (`VideoBridgeTerminate.cfg`) | `NoOrphanedContext`, violated | 1 handle, 1 id |

*Bounds.* `MaxId` = 2 allows a handle to be created, disposed and created again, and a zombie next to a new output;
`MaxQueue` = 2 allows a Dispose to follow its Create before the raster thread has run either, and a Dispose to follow
a late one. (Create and Dispose wait for room; the tasks of the engine's own unregistering do not.) `MaxReady` is 8 in
the code and 1 in the safety run, so that a pump really leaves an output for the next one. The proofs show the safety
properties for all values. The liveness run has two players as well: while the Dispose of one is under way, the frames
of the other keep taking `g_mutex` (a disposing output gets none itself). To keep its state graph small only one of
them has a picture (`Sized`), and Dart destroys none (`Destroyed`): it does so after the answer to a Dispose only, when
the three properties ask nothing more of that output. Its `MaxReady` has room for both, as the code's 8 has for
eight: the pump takes the first it finds ready, so with more outputs than that the first ones could keep the last from
ever being marked, in the code too.

*What is reported.* `ReportedTextureExists` says of the texture that the last Create or SetSize reported, and Dart
shows, that it belongs to the handle's listed output, that nobody tears this output down and no task on its way will,
and that the engine knows the texture. It excepts the output that a time limit has left in the list (`Zombie`). Its
handle still finds it (:456, :510), so Create and SetSize report it although its texture was unregistered (:608), and
the late task may free it while it is shown. That is what the comment at :599-601 rules out, and what section 4 reports.

*Fairness.* Weak for what the raster thread has begun (it leaves the callback, it answers a task it has run), for the
end of a wait at its limit, and for mpv's notification once begun. Strong for whoever needs `g_mutex` (the platform
thread's `DisposeDone`, `DisposeDirect` and `Pump`) and for the raster thread's tasks and scheduled paints. While another
player is painted the mutex is taken for every frame of it, so these are enabled again and again and not always, and
weak fairness would promise nothing. Strong fairness is justified because the raster thread gives the mutex back after
every frame and then waits for the display, and because its tasks and paints take turns on one FIFO task runner. The
main loop waits for nothing but a Dispose and the applets, which the user ends. The texture stays in the scene. No
message, frame, other paint or shutdown is assumed to happen. The time limit may always win against the answer.

*Proved* (`VideoBridge_proofs`, for every `Handles`, `Sizes`, `MaxId`, `MaxQueue`, `MaxReady`, under `VideoAssumption`
and `~DestroyFaults`): `Invariance`, and from it every property of video_safety: `Typing` (`TypeOK`),
`NoUseAfterFree` (`CallbackTargetAlive`), `TaskTargetsLive`, `SingleGlThread`, `PlayersKept` (`ContextHasPlayer`),
`HandlesName` (`OneOutputPerHandle`), `ReportedExists` (`ReportedTextureExists`), `CleanShutdown`.
None of the properties is inductive by itself. That a context never outlives its output needs that an output is
erased only when its dispose task has torn it down, hence:

- `PhaseInv` ties the two program counters together: what the platform thread waits for is listed and marked, the
  raster thread signals only a requester that waits, what it renders is not marked;
- `DoneInv`: once the task has worked, and as long as its answer is pending, the output has no GL object. That nobody
  makes a new one before the erasure needs the mark (`PhaseInv`), which the create task and the callback respect;
- `QueueInv`: the dispose task somebody waits for is the last one for its output, so no later one finds it erased;
- `ListInv`: GL objects belong to listed outputs, ids below `nextId` only are in use;
- `PlayerInv`: a player can be destroyed only when its outputs are marked. This is why a create task that runs late
  makes no context for a dead player.

`IInv` is their conjunction with the properties; `TypeStep`, ... prove one conjunct each, with a step per action.
`~DestroyFaults` says that `eglMakeCurrent` does not fail on the thread that owns the context. With faults the
properties do not hold: the task signals done although nothing was freed, and `CallbackTargetAlive` is violated by the
erasure; see the hazards.

`ReportedExists` needs two invariants besides: `ShownIsListed`, that the texture on display is not of the output the
platform thread waits for, and `TextureInv`, that the engine knows the texture of every output nobody disposes of, and
that an unregistering on its way is for a disposed output.

### EventHandler (MCEventHandler, EventHandler_proofs)

*State.* A native `Socket` with its Dart port is one model value, used once; a descriptor number is used again after
its close. `info` and `ports` are `socket_map_` and the ports its `DescriptorInfo`s know; `mask` and `tokens` the
port's state in them; `waiting` and `due` the `TimeoutQueue`. `channel` is the loopback pair's buffer, or the
interrupt queue; `loopback`, chosen in `Init`, says which. `infos` is the array `Poll` builds before `poll()` and uses
after it. `pc = "undefined"` is reached by the use of a deleted `DescriptorInfo`.

*Actions.* The loop's phases `PollReturns`/`PollFails`, `TakeQueue` or `ReadChannel`, `ServeTimer`, `Dispatch` (one
descriptor a step), `DispatchDone`, and a step for every message (`Process...`); around them Dart, other threads and the
network: a message can arrive, a descriptor become ready, a new socket get a free number, between any two of them.
The mixins of `DescriptorInfo` (single and multiple ports, tokens), `TimeoutQueue` and `ListeningSocketRegistry` are
SDK code that is not in the repository and are modelled, as external, from how this file uses them.

*Left out.* A read of the pair brings whole messages. Of one that is there in part, since its write found the buffer of
the socket almost full, `bytes / kInterruptMessageSize` (:210-212) would drop the beginning and misread the rest; the
messages have 24 bytes, and nothing in the code handles the case.

| Run | Checks | Instance |
|---|---|---|
| events_safety (`EventHandler.cfg`) | `LoopbackOrder`, `DescriptorsOwned`, `TokensConserved`, `DestroyedIsLast` | 2 sockets (symmetric), 1 number, 1 token, no timers |
| events_liveness (`EventHandlerLive.cfg`) | `CloseAnswered`, `TimerServed`, `ReadReported` | 1 socket, 2 timers, a queue of 1 |
| events_queue_order (`EventHandlerQueue.cfg`) | `EventsBeforeMessages`, violated | 1 socket |

*Bounds.* Two sockets for one number are enough for its reuse and for a shared listener; a queue of two holds a
command and the close that overtakes or follows it, or the two closes of a socket and its finalizer (the liveness run,
where messages only compete for the loop, has a queue of one); `MaxBatch` (24
messages in the code) bounds a batch, and a read may bring any number of the messages that are there, so a rest can stay. One
token stands for the count of the SDK: with it a token's absence is reached at once. `MaxInbox` only keeps a port that
nobody reads from growing; poll does not return while it is reached, which safety does not notice, and the liveness
runs leave it above the number of tokens. Without pair the time limit of 20 ms is `TimesOut`.

*Fairness.* Weak for the loop's steps, strong for `PollReturns` and `ReadChannel` (`PollFails` and `ReadFails` compete with
them: neither call fails for ever). Two timers compete for the one that a round serves, and each may be set again and
be due again, beside a socket that is ready in every round. Nothing is assumed of Dart, of the network or of the time.

*Proved* (`EventHandler_proofs`, for any sockets, numbers of descriptors, timers, tokens and bounds, under
`EventHandlerAssumption`, with the pair and without): `HandlerInvariant`, and from it the four properties of
events_safety: `LoopbackKeepsOrder` (`LoopbackOrder`), `DescriptorsHaveOwners` (`DescriptorsOwned`), `TokensAreConserved`
(`TokensConserved`), `DestroyedComesLast` (`DestroyedIsLast`). What makes them inductive:

- `DescriptorInv`, `PortsInv`: only listening sockets share a number, and a `DescriptorInfo` knows the ports of its
  present users only, so that a number used again starts without ports of its former user;
- `FoundInv`: what poll has found is one entry per descriptor, and a socket alone on its descriptor still has the token
  it was polled for when its entry is dispatched; this is why a mask without a token is never dispatched;
- `RoundInv`: with the pair, messages are read only when the list of the round is used up. This is the one place where
  the pair and the queue differ, and what `events_queue_order` shows to fail without it;
- `KnownInv`: a port that has got an event, or about which a message is under way, has been opened; a destroyed port has
  no descriptor any more;
- `TokensInv`: the tokens in the `DescriptorInfo`, the events in the port's inbox and the tokens that messages in the
  channel and in the batch carry add up to the number a port starts with. It rests on lemmas about counting messages in
  a sequence while one is appended, split off or worked on (`CountAppend`, `CountSplit`, `CountTail`).

### PosixFiles, VirtualFiles, DirHandles, PosixCompat (MCVirtualFiles, PosixCompat_proofs)

`PosixFiles` states what callers rely on: any number of handles to a file, each with its own offset, reads and writes
that see the file as it is. It differs from POSIX where the code does on purpose: a duplicate has its own offset, and
a file that is open cannot be removed or renamed.

`VirtualFiles` is the code: `bases` (real descriptors with their path, reference count and real position) and `files`
(virtual handles). All calls on a handle take one mutex and are one step; `pread` is four of them (`PreadBegin`,
`PreadSeek`, `PreadRead`, `PreadRestore`), and `stat` of an open file an open and a close (`StatBegin`, `StatOpen`,
`StatClose`, `StatReturns`). `held` is what Horizon's file service knows to be open; it refuses a second open, a remove
and a rename of it. A file is a sequence of bytes, each read and write moves one; `ftruncate` passes on any length, and
a file that grows is filled up. The check by open and fstat of a `stat` that failed is modelled for files that are held,
the case it was written for; a stat that fails otherwise, as for a file that is not there, changes nothing that stays.

| Run | Checks | Instance |
|---|---|---|
| files (`VirtualFiles.cfg`) | `HeldExactly` (with `RefsCounted`), `ImplementsPosixFiles`, `HandleStandsForDirectory` | 2 files, 3 paths (one an alias), 2 real descriptors, 2 handles, files of one byte; 2 directories and 2 threads (symmetric), 2 directory handles |
| files_stat (`VirtualFilesStat.cfg`) | `StatAnswersOpenFiles`, violated | the same, 3 handles |

*The refinement.* `Offered` maps a handle to its file, its offset (while a `pread` is at work on it, the offset the
`pread` will restore) and its append flag; the handle of a `stat` is mapped to none; `got` is what the last read gave.
`shared`, chosen in `Init`, says whether the program uses a handle while a `pread` of another thread runs on it: the
mutex of `pread` keeps out other preads only, so `ImplementsPosixFiles` promises nothing then, while `HeldExactly` is
checked in both cases.

*Directory handles.* `entries` is the table, whose mutex is held for each access and not for the whole call, so a call
is a look-up and a use (`Probe` or `LooksUp`, then `AllocHandle`, `TableExhausted`, or `Opendir` and `ReleaseHandle`),
and the other threads come in between; `calls` says where each is. `opened` is history: what a caller may believe of
his handles. A path is absolute or relative, because an `openat` at `AT_FDCWD` stores it as it was given. Callers are
assumed not to use a handle that an `fdopendir` is taking over.

`PosixCompat` puts both tables side by side. They share no state, only the three functions that tell their numbers
apart, so the run uses one of them at a time, and finds both in every state the two can reach.

*Bounds.* The tables have 64 and 128 places in the code, and the directories' has 64; two here, so that they run full,
which is the case the roll-back in `open` is for (in the run the handles run out first, the descriptors never; the theorem
`OpenFilesExact` covers both). One byte is enough to tell content, an empty file and no file apart,
and an offset at the end from one at the head. All directories lie in the root; two names are enough to rename one
over the handle of the other.

No fairness and no liveness: every call returns.

*Proved* (`PosixCompat_proofs`, for any files, paths, numbers of descriptors and handles, sizes, directories and threads,
under `VirtualFilesAssumption` and `DirHandlesAssumption`):

- `FilesTypeCorrect` (`TypeOK` of `VirtualFiles`) and `OpenFilesExact` (`HeldExactly`), from `FilesInv`. Its `TablesInv`
  adds to the counts that handles refer to bases in use, that each held file has one, and that open files exist: the
  count of a base is a cardinality, so each opening, duplication and closing is a lemma about a set that grows or
  shrinks by one handle. Its `CallsInv` says what the calls of several steps rely on: as long as handles are not
  shared, the handle of a `pread` stays in use and keeps the offset it has been moved to, and a `stat` closes the handle
  it has opened before it answers.
- `VirtualFilesImplementPosix` (`ImplementsPosixFiles`): the step simulation, one lemma per call. A call changes what
  `Offered` says of one handle and leaves the others (`Elsewhere`); a `pread`'s first and last steps stutter. When
  `shared` holds, the property promises nothing, and so does the theorem.
- `DirHandlesStand` (`HandleStandsForDirectory`): `DirInv` adds that a path found by a look-up, which the thread carries
  to its allocation without the mutex, leads to the directory it was found for at the moment of the allocation too,
  unless that directory was removed or renamed in between, or the path is relative and the working directory has changed.

### TaskBag, TaskRunner, MessageLoop, EngineTime (EngineThreads_proofs)

`TaskBag` states what the engine expects of a runner: a task runs once, one at a time, not early, and not before one
that was posted earlier for the same or an earlier time. `TaskRunner` is the platform thread's queue: `Enqueue` on any
thread, `ReadClock` before the lock, `TakeExpired` under it, `RunTask` and `Finish` after it. `MessageLoop` is fml's
loop on a condition variable: `Wait`, `WaitFor` with its end, `Spurious` wake-ups, and `WakeUp` and `Terminate`, whose
notification (`Notify`) follows after the mutex has been released. The queue behind `RunExpiredTasksNow` is fml's and
not in the repository; it is modelled, as external, from the comment at `message_loop_horizon.cc:70-72`.

*Proved* (`EngineThreads_proofs`): `RunnerImplementsBag`, `RunnerSpec => RunnerBag!Spec` for all tasks and times, from the
inductive invariant `RunnerTypeOK /\ NoneOvertaken`. The second conjunct says that what is left in the
queue while others run is due later than each of them that was posted after it, so that none is overtaken, although
the clock is read before the lock is taken and tasks are posted in between.
`NoLostWakeUp`, that is `NeverOversleeps` for all tasks and times. The strengthening relates
the announcement to the queue: as long as no flush is under way, every task is announced for no later than its time,
so whoever sleeps has seen the announcement, or its notification is still to come.

### PluginChannels, JsonText, TextInput, Lifecycle, PlatformMessages (MCPlatformMessages, PlatformMessages_proofs)

*PluginChannels* gives for a message the set of results its handler may have: whether it takes the message, how often
and what it answers, what it opens. *JsonText* holds the scanner, the escaper and the length of texts in UTF-16 that
textinput_horizon.cpp has written for itself; `MCPlatformMessages` evaluates them against a reference on characters of
every length and every way JSON has to write them. *TextInput* keeps the channel's client and text and the keyboard.
*Lifecycle* is `main`: what it opens, in which order, how each part may fail, what an early return leaves, and the
order of the shutdown; the fonts and the random source are opened by threads of the engine.

*PlatformMessages* composes them with `TaskRunner` and `MessageLoop`. Dart runs in tasks of the UI thread: it sends
messages, attaches text input clients, sets texts and timers. Sending is an `Enqueue` on the platform's queue.
`HandleMessage` runs a task, calls the handlers and collects in `posts` what they answer; `PostToUi` brings one of
these to the UI thread; the keyboard and the browser open after the answer was posted and end by `CloseApplet`. `handles`
is how far each message with a response handle has come. `agreed` is history: Dart's last text was set while no
keyboard was up.

| Run | Checks | Instance |
|---|---|---|
| messages (`PlatformMessages.cfg`) | `AnsweredOnce`, `TextInStep`, `FocusFindsTree`, `NothingLeft`, `NeverOversleeps`, `RunsEachOnce`, `AwaitReturns`, `ShutdownEnds` | 3 messages, 2 clients, 2 texts, 2 points of time, every branch of every handler, every start-up failure of `Faults` |

*Bounds.* Three messages are enough for a client to be attached, to set a text and to show the keyboard, and for a
second client to take over in between; of the two texts one is empty, the other has a character that JSON escapes and
one that counts twice in UTF-16. A program that has set a timer, or has no GPU, sends one message. Messages of the
other channels differ only in their results, so the queue holds one kind of them and the results of all of them are
looked up when it is handled. `"services"` is not among the run's `Faults`: what is not opened is not left open.

*Fairness.* Weak for the platform's thread together with the user who ends an applet, and weak for the UI thread with
the notifications on their way: both are loops of the program that wait for nothing else, a full-screen applet cannot
be left but by ending it, and a thread between the unlock and `notify_all` goes on. Frames, time and Dart's own steps
are not assumed to come, which is why `ShutdownEnds` also covers a UI thread that sleeps for a timer that is far off.

*Proved* (`PlatformMessages_proofs`, for any numbers of messages, any clients, texts, points of time, faults and results
of handlers; `MaxMessages` bounds nothing here):

- `PartsImplemented`: every step of the composition is a step, or a stutter, of `TaskRunner` and of `MessageLoop`, under
  `TasksAssumption` (the messages and tasks of the composition are among those of the two parts). With it
  `RunnerImplementsBag` and `NoLostWakeUp` hold here too.
- `MessagesAnsweredOnce` (`AnsweredOnce`): `AnswerInv` says for every message how far its handle is, from where the
  message is; `EachAnswersOnce` shows of every branch of every handler that it answers a message once; `OrderInv`, that
  messages come in the order in which they were sent, is what both text and handles need.
- `TextsInStep` (`TextInStep`): `TextInv` says what is still under way between the channel's text and client and those
  of the framework. Either Dart's text comes (`TextComes`: queued, before any keyboard, and after all messages about
  the client) or what the user typed goes back (`TextReturns`), and the last message about the client names the
  framework's. `AgreedInv` is where a text set while the keyboard is up would break it. The conversions between JSON,
  UTF-8 and UTF-16 are the tables `Read`, `Typed` and `Units`, of which `TextsReadBack` assumes that they lose nothing of the
  texts; TLC evaluates it for the texts of the run with the scanner and the escaper of `JsonText`.
- `FocusFinds` (`FocusFindsTree`): `FocusInv`, nothing is presented and no focus is under way before the tree is built.
- `NothingLeftOpen` (`NothingLeft`): `LifeInv` relates what is open to how far `main` is, and says that the UI thread, which
  opens more, runs only while there is an engine. As the property, it is about regular ends.

### LogSinks, HorizonHttp, LocalStreamProxy, AppServices (MCSettings, AppServices_proofs)

*LogSinks*: `EnsureSocket`, then the rotation in three calls to the card (`RemoveAlt`, `RenameLog`, `OpenLog`), then
lines, of which each is flushed, and the receiver, which is given up at its first failure. A crash and the next start
(`Restart`) come at any point. All lines of a run are one; `by` is the run they are of. `EvidenceKept` is the comment
at `log.cpp:195-203`. The card may refuse the remove and the rename, whose results the code does not look at; then
`fopen("w")` empties the report, which `EvidenceKept` grants for that start (`refused`).

*HorizonHttp*: a request is at one of its awaits (`phase`); in between nothing else of the isolate runs. The slot is
taken in `Acquire` or handed over by `Release` to the first that waits, which is not counted down in between; every
await may throw, and redirects go round again with the slot they have. *LocalStreamProxy*: `wrap` awaits the server and
then registers the address without a further await; a playlist's addresses are wrapped like the first. Several callers
may find no server and start one each.

`AppServices` composes these with `Settings`: all four are used in any order and at once, as soon as LogInit is over; one
loss of power, or the end of the program, hits them together (`StartAgain`), and the next start has what is on the card;
and without the socket service, which the log starts and ends, nothing connects. The run is the run `settings`: 4
requests, 2 slots (4 in the code), 1 redirect (8), 1 lost socket at a time; 2 urls, 2 sets of headers, 3 callers, 2
servers. Four requests on two slots leave two in the queue, so that its order shows; three callers can start two servers
at once and still leave one that finds them. The four together are far too large for TLC, so `MCSettings` bounds the
run, and only the run: a behaviour has settings or a log file on the card, or uses the network, and of that the client
or the proxy (`OneAtATime`). The theorem about the composition has no such bound.

No fairness and no liveness, because the code has none: a request has no limit on its handshake, so a slot need never
come back. `SlotsExact` says what holds all the same.

*Proved* (`AppServices_proofs`, for any requests, numbers of slots and redirects, urls, headers, callers and
servers):

- `SlotsAreExact` (`SlotsExact`): `HttpInv` adds that the requests that run are finitely many, so that counting them makes
  sense, and that only a connected request has a socket (`SocketInv`), since an end before the connect closes none.
- `AddressesStayGood` (`AddressesGood`): every address of a url leads to a port where a server listens and to the route
  of this url (`RouteInv`), and what mpv was given is the url's present address (`HandedInv`). `ServerInv` is what the
  await in `wrap` needs: whoever goes on to register finds a server that listens, if not the one it has started.
- `EvidenceIsKept` (`EvidenceKept`): `EvidenceInv` says at each of the three calls of the rotation which of the two files
  holds the report of the run before, and that nothing lies in the way of the rename, unless the card has refused.
- `ServicesAreComposed`: with the four in use at once, each keeps what it promises: `EvidenceKept`, `SlotsExact`,
  `AddressesGood`, and, if fclose loses nothing, the three properties of the settings. A step of the composition is one
  of each part's own, a stutter of it, or its restart. That the restart, which comes in the middle of anything, leads
  back to the invariants of client and proxy is `RestartInv`. `AnsweredIsStored` is part of it with the load of a
  start that may fail.

### Settings and StandardCodec (MCSettings, Settings_proofs)

*State.* `memory` and `loaded` are `g_prefs`/`g_secure` and their flags; `store`, chosen in `Init`, says which of the
two stores it is, since their code differs only in what is cleared and answered. `main` and `side` are the bytes of
the file and of the file with `.neu`, or `NoFile`. `pc` is the next step of the save in progress. `answer` and `kept`
are history: the last answer to a change, and the newest map that the card is meant to hold, which is the new one from
the removal of the old file on.

*Actions.* A call loads the file if it is the first (`Loaded`; the load may fail, which the code takes for the first use
or for an unreadable file: it goes on with an empty map), changes the map and begins a save: `Open`, `Write`,
`Close`, `Discard`, `RemoveMain`, `Rename` are the calls to the card, each of which may fail if `Faults` says so, and
`Crash` comes between any two of them and forgets all but the card. An interrupted or failed write leaves any beginning
of the data. Calls are handled one at a time on the platform thread, so a save is interleaved with nothing else. It is
assumed that what fclose has written is on the card.

*The codec.* `Encode` and `Decode` are constants, of which `CodecRoundTrip` assumes that a map is read back and that no
beginning of its bytes is read as a map. `StandardCodec` is the code's codec, over bytes of `Base` values; the run
gives it to the constants, so the assumption is evaluated with it. With `Base` = 16 sizes change their form at 14 and
256 instead of 254 and 65536, and integers at 16 bits instead of 32. The value of the run has 14 bytes, so its maps
have a size of the second form, and the run tears them at every byte. The other boundaries no property reaches:
`CodecSamples` writes values of every type at
these boundaries to every offset of a padding, reads them back, and tries all their beginnings. It stays a check of
samples: the codec is recursive, and what it computes for every value is out of the prover's reach.

| Run | Checks | Instance |
|---|---|---|
| settings (`Settings.cfg`) | `NeverTorn`, `WorstCase`, `AnsweredIsStored`; of `AppServices` (above): `EvidenceKept`, `SlotsExact`, `AddressesGood` | 2 keys (one with the prefix), 1 value, all faults but that of fclose |
| settings_close (`SettingsClose.cfg`) | `NeverTorn`, violated | only fclose fails |

*Bounds.* Two keys let a change of one show what becomes of the other; with one value, there or not, there are four maps;
every length of the data is tried. Nothing else is bounded: calls, saves and crashes go on for ever.

No fairness: a save runs to its end or is cut off.

*Proved* (`Settings_proofs`, for all keys, values and codecs under `SettingsAssumption` and `CodecRoundTrip`):
`SettingsTypeCorrect`, and, with `"close" \notin Faults`, `SettingsSafe` (all three safety properties, named for
`WorstCase`), and from it `SettingsNeverTorn` (`NeverTorn`) and `AnsweredTrueIsStored` (`AnsweredIsStored`): a change that was
answered true is whole in the file until the next change. That a start has it in memory too depends on its load: with
the fault `"load"` it may begin empty instead, but never with a part or an older map, and without it
`AnsweredTrueIsFound` says that it has it. `NeverTorn` needs
to know what a rename brings: `SaveInv` says that the side file is whole from its closing to the rename, which is where
an unnoticed failure of fclose would break it. `WorstCase` needs `CardInv`: without a main file the only copy of `kept`
is the side file, and a save that has opened it has given `kept` up.

### PlatformInput (MCPlatformInput, PlatformInput_proofs)

*State.* `touches`, `held`, `before` and `stick` are what `SwitchPlatform` has polled; `previous` is the set of fingers
in `g_previous`, `cursor` is `g_vcursor` with its position on a line, `claimed` are the buttons that the cursor keeps
from the keyboard in this round, `sent` the events of the last call. `contacts`, `dragging` and `keysDown` are history:
what Flutter, which sees the events only, must take for touching, dragged and held.

*Actions.* One round of the main loop is `PollEvents` (any screen and controller at all: what comes and goes between
two rounds is not seen), `SendTouchEvents`, `UpdateVirtualCursor`, `SendKeyEvents`, in this order; `Quit` leaves the
loop. A new finger takes a slot before the lifted fingers' slots are freed; when the slots run out, which of the new
fingers get one depends on the order of the screen, and is any choice. That five seconds have gone since the cursor was
used is a choice too (`MayHide`), as is the stick's direction.

*Left out.* The engine that is not there yet (every call returns at once), the drawn cursor, coordinates beyond the
line, time stamps.

| Run | Checks | Instance |
|---|---|---|
| input (`PlatformInput.cfg`) | `ContactsMatchScreen`, `TouchProtocol`, `PointerFollows`, `NoDoubleActivation`, `ReleasedIsUp` | 4 fingers (symmetric), 2 at a time, 4 slots, 4 buttons, 2 positions |

*Bounds.* Four fingers of which two touch at a time let both be replaced between two rounds, which needs all four
slots. Of the buttons two share a key (`Up`, `StickLUp`), two click (`A`, `ZR`) and one of these is a key as well. Two
positions are enough for the cursor to move and to be stopped by the edge. Deadlock is not checked, since the program
ends with `Quit`.

No fairness and no liveness.

*Proved* (`PlatformInput_proofs`): `ContactsMatch` (`ContactsMatchScreen`) and `TouchesInOrder` (`TouchProtocol`) for
all fingers under `2 * MaxFingers <= MaxTouchPoints`. `TouchInv` says that the slots are those of the round before until
the touch events are sent and those of the screen from then on, and that Flutter's contacts are the slots; that all new
fingers get one (`AllTaken`) is where the assumption is used. `PointerIsHeld` (`PointerFollows`) for all constants:
`PointerInv` holds the button until the cursor has seen its release. `ReleasedKeysAreUp` (`ReleasedIsUp`) for all
buttons, also those that share a key: `KeysInv` says that a key that is down for Flutter has a button that was held in
the last round whose key events were sent. The events of a round are a set of records with their place in `ButtonKeys`,
and `HeldAfter` says what Flutter holds after them: the last event of a key decides. `ClickIsNoKey`
(`NoDoubleActivation`): `ClaimInv`, the press that begins a click is claimed until the keys have been sent.


## 4. Where the code does not do what it says

Each of these has a run whose counterexample shows it (`findings` in `PROJECT.json` quotes the lines).

1. **video_terminate**: after the time limit the direct teardown cannot bind the context the raster thread has
   current; nothing is freed, but Dart is answered and destroys the player under its live render context.
   Read in the same place, without a run of its own: the zombie that is left is found again by a later `HandleCreate`
   or `HandleSetSize` for the same address (:456, :510), which then reports a texture that the engine no longer knows and
   that never shows anything, and the late task may free it meanwhile, while :599-601 expects the zombie to have no
   further effect. `ReportedTextureExists` excepts it; without the exception TLC finds Create, Dispose, the time limit
   and a SetSize.
2. **events_queue_order**: without the loopback pair a close is processed between `poll` and the dispatch of its
   events, which use the deleted `DescriptorInfo`.
3. **files_stat**: `stat` of an open file opens it through the wrapped `open`, gets a virtual handle the real `fstat`
   does not know, and fails.
4. **settings_close**: the failure of fclose, which writes the buffered data, goes unnoticed: the old settings are
   replaced by a part of the new ones, and the setter is answered true.

Met while modelling, without a run of their own:

- `eventhandler_horizon.cc:305`: an error without readable data becomes no event. It is reported to nobody and takes no
  token, so poll returns with it round after round until the socket is closed, whereas the header
  (`eventhandler_horizon.h:15-18`) expects a reported descriptor to fall out of the list.
- `main.cpp:463`: A is pressed and sent as Enter; while it is held the stick wakes the cursor, which claims A; the
  release is not sent, and Enter stays down for Flutter until the next press and release of A. `ReleasedIsUp` leaves
  Enter out for this reason; with it TLC finds the sequence in three rounds.
- `textinput_horizon.cpp:36`: `g_text` is called the framework's state. A text that Dart sets while the keyboard is up
  is overwritten by what the user typed, or overwrites it, on one side only; the comment at :11-13 (the engine stands
  still meanwhile) is from before the UI got a thread of its own (`main.cpp:829-842`), as is `main.cpp:966-969`, where
  the focus event runs at once. `TextInStep` leaves these texts out. A text whose JSON does not end is taken in part.
- `main.cpp:1037-1043` wants every session closed. The early returns after a failed romfs or window leave romfs and the
  display open, and a failed `eglInitialize` keeps `g_display`; `NothingLeft` is about regular ends. The frame buffer is
  closed by a destructor after the log, which `main.cpp:1054-1056` means to be the last.
- `plugins_horizon.cpp:138`: any failure of fopen is taken for the first use ("Erste Benutzung"), and the part that a failed
  fread leaves for an unreadable file. The run goes on with an empty map although the settings are there, and its first
  change replaces all of them. `AnsweredIsStored` grants this. Secure storage answers success although the save has
  failed (:441).
- `log.cpp:203-204`: if the card refuses the remove or the rename, the `fopen("w")` that follows destroys the report it was to
  keep; `EvidenceKept` grants this.
- `fonts_horizon.cpp:48`: `EnsureInitialized` is not synchronised; two engine threads can open the service twice.
- `task_runner.cpp`: due tasks run in the order of posting, not of their times; `TaskBag` promises no more. The time of
  the next task that `RunExpiredTasks` returns is used by nobody. A `Terminate` before the loop's `Run` would be lost;
  fml posts it as a task of the loop.
- `posix_compat_horizon.cpp:176`: a handle opened at `AT_FDCWD` with a relative path keeps that path, while :22-23
  says the full path is kept. After a `chdir`, also one by `fchdir` through the handle itself, it leads elsewhere;
  `HandleStandsForDirectory` leaves these handles out from then on, so it says nothing of this case.
- `horizon_http.dart:35` says six at once, :37 has four. A fetch that throws after it has connected destroys no socket;
  the read limit of :162 ends a body early, which is then given as the answer; the handshake has no limit at all.
- `local_stream_proxy.dart:55`: several first callers start a server each, of which the last stays in `_server`; a url
  that is wrapped again with other headers keeps the route, and the headers, it had.
- `log.cpp:195-203`: a run that crashes between the rename and its first line leaves a next start that removes the
  report of the run before. `LogWrite` closes a failed receiver without a lock, so two threads may close it twice.
- `main.cpp:248`: a finger that finds no slot is sent as kDown all the same. In the next round it is sent as kDown
  again, or, if it has been lifted, never as kUp. This needs more than half as many fingers as there are slots, all
  replaced within a round; the theorems state the assumption.


## 5. Only model-checked, and not modelled

Every safety and action property and every refinement that a passing run checks is stated by a theorem. Only checked by
TLC, on the instances above:

- liveness (`DisposeAnswered`, `EagerContext`, `FrameShown`, `CloseAnswered`, `TimerServed`, `ReadReported`, `AwaitReturns`,
  `ShutdownEnds`): under fairness it is out of the prover's reach, which knows no ENABLED;
- the standard codec and the JSON scanner, on samples: they are recursive, and what a recursive definition computes for
  every input needs an induction over data that the installed provers cannot do. `CodecRoundTrip` and `TextsReadBack`
  are therefore assumptions of the theorems, which TLC evaluates with the code's codec and scanner on each instance;
- that the code violates `NoOrphanedContext`, `EventsBeforeMessages`, `StatAnswersOpenFiles`, and `NeverTorn` where fclose
  fails: a counterexample needs no proof. The theorems of `VideoBridge` and `Settings` name as hypotheses what these two
  runs leave out or add (`~DestroyFaults`, `"close" \notin Faults`).

The type invariants of `VirtualFiles`, `Settings`, `TaskRunner` and `MessageLoop` are proved and not checked by a run of
their own. In the other modules the types that the properties depend on are part of the inductive invariants.

Not modelled: the Dart VM layer (its callers are not in the repository, each function is one call of pthread or
memalign), the heap diagnosis (it works on the allocator's data), fml's mappings and paths, the static tables and the
sqlite probe (sequential, without state that changes), the stubs of dart:io, build scripts, patches and the other
examples. Of modelled components, what is left out stands in their notes in `PROJECT.json`: GL calls, pixels, the
contents of answers, the bytes of streams, logging and statistics.

Time is modelled as choice, except in `TaskRunner` and `MessageLoop`, where it is a clock of a few points: a time limit
may run out at any moment, a timer may become due at any moment; no property depends on how long something takes.

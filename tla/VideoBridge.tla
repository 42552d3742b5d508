---------------------------- MODULE VideoBridge ----------------------------
(***************************************************************************)
(* The bridge from libmpv to Flutter's external textures                   *)
(* (embedder/src/engine/media_kit_video_horizon.cpp).  Four parties meet:  *)
(*                                                                         *)
(*  - the platform thread answers the channel com.alexmercerind/           *)
(*    media_kit_video (Create, SetSize, Dispose), pumps announced frames   *)
(*    to the engine, and tears everything down after the engine is gone;   *)
(*  - the raster thread runs the tasks posted to it in FIFO order and      *)
(*    calls the texture frame callback while it composes a scene;          *)
(*  - mpv announces frames from a thread of its own through a raw pointer  *)
(*    to the VideoOutput;                                                  *)
(*  - Dart owns the mpv handles: it destroys a player once its Dispose was *)
(*    answered.                                                            *)
(*                                                                         *)
(* A VideoOutput is identified by its texture id; a handle stands for the  *)
(* address of an mpv_handle, which a later player may be given again.  A   *)
(* size stands for a width and a height that are both positive, None for   *)
(* the pair 0x0.                                                           *)
(***************************************************************************)
EXTENDS Integers, Sequences, FiniteSets

CONSTANTS
  Handles,       (* addresses of mpv_handles                                *)
  Sizes,         (* picture sizes Dart asks for, without 0x0                *)
  MaxId,         (* bound: texture ids handed out in a behaviour            *)
  MaxQueue,      (* bound: Create and Dispose wait while the queue is full  *)
  MaxReady,      (* textures one pump marks at most (8 in the code)         *)
  DestroyFaults, (* may eglMakeCurrent fail on the thread that owns the     *)
                 (* context when an output is torn down?                    *)
  Sized,         (* bound: handles whose player ever has a picture size     *)
  Destroyed      (* bound: handles whose player Dart ever destroys          *)

None == 0

ASSUME VideoAssumption ==
  /\ None \notin Sizes /\ None \notin Handles
  /\ MaxId \in Nat /\ MaxQueue \in Nat /\ MaxReady \in Nat \ {0}
  /\ DestroyFaults \in BOOLEAN
  /\ Sized \subseteq Handles /\ Destroyed \subseteq Handles

VARIABLES
  outputs,       (* g_outputs: the texture ids of the outputs in the list   *)
  nextId,        (* g_next_texture_id                                       *)
  handle, pending, size, tex, framePending, disposing, failed,
                 (* the fields of a VideoOutput                             *)
  ctx,           (* render_context: none, live, or orphan (its player was   *)
                 (* destroyed while it was live)                            *)
  queue,         (* the raster thread's task queue                          *)
  rpc, rout, rwants,   (* where the raster thread stands, on which output   *)
  ppc, pout, pdone,    (* where the platform thread stands, and task->done  *)
  current,       (* the thread the window context is bound to               *)
  engine,        (* running, stopped (after FlutterEngineShutdown), closed  *)
                 (* (after the bridge's shutdown), off (EGL is gone)        *)
  registered,    (* textures the engine calls back for                      *)
  stale,         (* those without a cached image: the next paint asks for it*)
  scheduled,     (* those a paint is scheduled for                          *)
  mpv,           (* handle |-> is there a player at this address?           *)
  hasFrame,      (* mpv holds a frame the output has not rendered           *)
  notifying,     (* mpv is about to call MpvUpdateCallback with the output  *)
  mayTerminate,  (* handles whose Dispose was answered                      *)
  reported       (* the texture id Dart shows for a handle, from Resize     *)

listVars == <<outputs, nextId, handle, pending>>
glVars == <<ctx, tex, size, current>>
flagVars == <<framePending, disposing, failed>>
rasterVars == <<rpc, rout, rwants>>
platformVars == <<ppc, pout, pdone>>
textureVars == <<registered, stale, scheduled>>
frameVars == <<hasFrame, notifying>>
dartVars == <<mpv, mayTerminate, reported>>

vars == <<listVars, glVars, flagVars, queue, rasterVars, platformVars, engine,
          textureVars, frameVars, dartVars>>

Ids == 1 .. MaxId

\* Raster tasks; "late" is a dispose task whose requester gave up waiting.
Tasks == [kind : {"create"}, arg : Handles]
           \cup [kind : {"dispose", "late", "unregister"}, arg : Ids]

\* Types, and what the threads' program counters say of their locals: in
\* particular task->done is only ever written while its requester waits (a
\* late task writes to the heap object it was given, :566-567).
TypeOK ==
  /\ outputs \subseteq Ids /\ nextId \in 1 .. (MaxId + 1)
  /\ handle \in [Ids -> Handles \cup {None}]
  /\ pending \in [Ids -> Sizes \cup {None}]
  /\ size \in [Ids -> Sizes \cup {None}]
  /\ ctx \in [Ids -> {"none", "live", "orphan"}]
  /\ tex \in [Ids -> BOOLEAN] /\ framePending \in [Ids -> BOOLEAN]
  /\ disposing \in [Ids -> BOOLEAN] /\ failed \in [Ids -> BOOLEAN]
  /\ queue \in Seq(Tasks)
  /\ rpc \in {"idle", "frame", "signal"} /\ rout \in Ids \cup {None}
  /\ rwants \in BOOLEAN
  /\ ppc \in {"idle", "waiting", "direct"} /\ pout \in Ids \cup {None}
  /\ pdone \in BOOLEAN
  /\ (rpc = "idle" <=> rout = None) /\ (ppc = "idle" <=> pout = None)
  /\ pdone => ppc = "waiting"
  /\ current \in {"nobody", "raster", "platform"}
  /\ engine \in {"running", "stopped", "closed", "off"}
  /\ registered \subseteq Ids /\ stale \subseteq Ids /\ scheduled \subseteq Ids
  /\ mpv \in [Handles -> BOOLEAN] /\ mayTerminate \subseteq Handles
  /\ hasFrame \in [Ids -> BOOLEAN] /\ notifying \in [Ids -> BOOLEAN]
  /\ reported \in [Handles -> Ids \cup {None}]

Init ==
  /\ outputs = {} /\ nextId = 1
  /\ handle = [o \in Ids |-> None] /\ pending = [o \in Ids |-> None]
  /\ size = [o \in Ids |-> None] /\ tex = [o \in Ids |-> FALSE]
  /\ ctx = [o \in Ids |-> "none"]
  /\ framePending = [o \in Ids |-> FALSE]
  /\ disposing = [o \in Ids |-> FALSE] /\ failed = [o \in Ids |-> FALSE]
  /\ queue = <<>>
  /\ rpc = "idle" /\ rout = None /\ rwants = FALSE
  /\ ppc = "idle" /\ pout = None /\ pdone = FALSE
  /\ current = "nobody" /\ engine = "running"
  /\ registered = {} /\ stale = {} /\ scheduled = {}
  /\ mpv = [h \in Handles |-> TRUE] /\ mayTerminate = {}
  /\ hasFrame = [o \in Ids |-> FALSE] /\ notifying = [o \in Ids |-> FALSE]
  /\ reported = [h \in Handles |-> None]

-----------------------------------------------------------------------------
(***************************************************************************)
(* Shared helpers.  Every step that takes g_mutex and gives it back is one *)
(* step; only the frame callback holds it from one step to the next.       *)
(***************************************************************************)
MutexFree == rpc # "frame"

\* Fault: outputs under disposal are skipped by the search.
FindByHandleSkippingZombies(h) ==
  {o \in outputs : handle[o] = h /\ ~disposing[o]}

\* FindByHandleLocked: the outputs with this handle (at most one).
FindByHandle(h) == {o \in outputs : handle[o] = h}

\* FlutterEnginePostRenderThreadTask.
Post(task) == queue' = Append(queue, task)

\* Fault: messages are served while a Dispose is waiting.
ReceivesNested == engine = "running" /\ MutexFree

\* A message arrives in the main loop.
Receives == engine = "running" /\ ppc = "idle" /\ MutexFree

\* Fault: the context is bound wherever it is asked for.
CanBindAnywhere(t) == current \in {"nobody", "raster", "platform", t}

\* eglMakeCurrent refuses a context that another thread has current.
CanBind(t) == current \in {"nobody", t}

\* DestroyOutputGlLocked on thread t: nothing to do; freed; or the context
\* cannot be bound and everything is left behind.
NothingToDestroy(o) == ctx[o] = "none" /\ ~tex[o]

FreeOutputGl(o, t) ==
  /\ ~NothingToDestroy(o) /\ CanBind(t)
  /\ current' = t
  /\ ctx' = [ctx EXCEPT ![o] = "none"]
  /\ tex' = [tex EXCEPT ![o] = FALSE]
  /\ notifying' = [notifying EXCEPT ![o] = FALSE]
  /\ hasFrame' = [hasFrame EXCEPT ![o] = FALSE]

\* Fault: the teardown waits until it can have the context.
DestroyOutputGlWaiting(o, t) ==
  \/ NothingToDestroy(o) /\ UNCHANGED <<ctx, tex, current, frameVars>>
  \/ FreeOutputGl(o, t)

DestroyOutputGl(o, t) ==
  \/ NothingToDestroy(o) /\ UNCHANGED <<ctx, tex, current, frameVars>>
  \/ FreeOutputGl(o, t)
  \/ /\ ~NothingToDestroy(o) /\ (DestroyFaults \/ ~CanBind(t))
     /\ UNCHANGED <<ctx, tex, current, frameVars>>

-----------------------------------------------------------------------------
(***************************************************************************)
(* The platform thread: the channel's three methods.                       *)
(***************************************************************************)

\* HandleCreate for a handle that has an output: its texture is reported
\* again, and the eager creation is posted again.
CreateAgain(h) ==
  /\ Receives /\ mpv[h] /\ Len(queue) < MaxQueue
  /\ \E o \in FindByHandle(h) : reported' = [reported EXCEPT ![h] = o]
  /\ mayTerminate' = mayTerminate \ {h}
  /\ Post([kind |-> "create", arg |-> h])
  /\ UNCHANGED <<listVars, glVars, flagVars, rasterVars, platformVars, engine,
                 textureVars, frameVars, mpv>>

\* HandleCreate for a new handle, with the size of its configuration.
CreateNew(h, s) ==
  /\ Receives /\ mpv[h] /\ FindByHandle(h) = {}
  /\ nextId \in Ids /\ Len(queue) < MaxQueue
  /\ nextId' = nextId + 1
  /\ outputs' = outputs \cup {nextId}
  /\ handle' = [handle EXCEPT ![nextId] = h]
  /\ pending' = [pending EXCEPT ![nextId] = s]
  /\ registered' = registered \cup {nextId}
  /\ stale' = stale \cup {nextId}
  /\ reported' = [reported EXCEPT ![h] = nextId]
  /\ mayTerminate' = mayTerminate \ {h}
  /\ Post([kind |-> "create", arg |-> h])
  /\ UNCHANGED <<glVars, flagVars, rasterVars, platformVars, engine, scheduled,
                 frameVars, mpv>>

\* HandleCreate when RegisterExternalTexture fails: the id is used up.
CreateRefused(h) ==
  /\ Receives /\ mpv[h] /\ FindByHandle(h) = {} /\ nextId \in Ids
  /\ nextId' = nextId + 1
  /\ UNCHANGED <<outputs, handle, pending, glVars, flagVars, queue, rasterVars,
                 platformVars, engine, textureVars, frameVars, dartVars>>

\* HandleSetSize with a positive size; without one, or without an output,
\* it only answers.
SetSize(h, s) ==
  /\ Receives
  /\ \E o \in FindByHandle(h) :
       /\ pending' = [pending EXCEPT ![o] = s]
       /\ framePending' = [framePending EXCEPT ![o] = TRUE]
       /\ reported' = [reported EXCEPT ![h] = o]
  /\ UNCHANGED <<outputs, nextId, handle, glVars, disposing, failed, queue,
                 rasterVars, platformVars, engine, textureVars, frameVars, mpv,
                 mayTerminate>>

\* HandleDispose up to the wait: the output is marked and the dispose task
\* is posted; if posting fails the thread goes on to the direct teardown.
\* Dart drops the texture of a handle it disposes.
Dispose(h) ==
  /\ Receives /\ Len(queue) < MaxQueue
  /\ \E o \in FindByHandle(h) :
       /\ disposing' = [disposing EXCEPT ![o] = TRUE]
       /\ pout' = o /\ pdone' = FALSE
       /\ \/ ppc' = "waiting" /\ Post([kind |-> "dispose", arg |-> o])
          \/ ppc' = "direct" /\ UNCHANGED queue
  /\ reported' = [reported EXCEPT ![h] = None]
  /\ UNCHANGED <<listVars, glVars, framePending, failed, rasterVars, engine,
                 textureVars, frameVars, mpv, mayTerminate>>

\* HandleDispose for a handle without an output: answered at once.
DisposeUnknown(h) ==
  /\ Receives /\ FindByHandle(h) = {}
  /\ mayTerminate' = mayTerminate \cup {h}
  /\ reported' = [reported EXCEPT ![h] = None]
  /\ UNCHANGED <<listVars, glVars, flagVars, queue, rasterVars, platformVars,
                 engine, textureVars, frameVars, mpv>>

\* The end of HandleDispose: the texture is unregistered (a raster task of
\* the engine's) and Dart gets its answer.
AnswerDispose(o) ==
  /\ mayTerminate' = mayTerminate \cup {handle[o]}
  /\ ppc' = "idle" /\ pout' = None /\ pdone' = FALSE

\* g_outputs.erase: the output is freed (what its fields held is forgotten;
\* its render context, if it still has one, is not).
EraseOutput(o) ==
  /\ outputs' = outputs \ {o}
  /\ handle' = [handle EXCEPT ![o] = None]
  /\ pending' = [pending EXCEPT ![o] = None]
  /\ size' = [size EXCEPT ![o] = None]
  /\ framePending' = [framePending EXCEPT ![o] = FALSE]
  /\ disposing' = [disposing EXCEPT ![o] = FALSE]
  /\ failed' = [failed EXCEPT ![o] = FALSE]

\* Fault: the output is erased although its task has not answered.
KeepZombieErased(o) == EraseOutput(o)

\* After the time limit the output stays in the list as a zombie.
KeepZombie(o) ==
  UNCHANGED <<outputs, handle, pending, size, framePending, disposing, failed>>

\* The task has answered.
DisposeDone ==
  /\ ppc = "waiting" /\ pdone /\ MutexFree
  /\ EraseOutput(pout)
  /\ Post([kind |-> "unregister", arg |-> pout])
  /\ AnswerDispose(pout)
  /\ UNCHANGED <<nextId, ctx, tex, current, rasterVars, engine, textureVars,
                 frameVars, mpv, reported>>

\* Fault: the late task still signals whoever waits at that time.
AbandonNothing(task) == task

\* A task whose requester has given up.
Abandon(task) == IF task.kind = "dispose"
                 THEN [kind |-> "late", arg |-> task.arg] ELSE task

\* wait_for runs out.  The task stays where it is and signals nobody.
DisposeTimeout ==
  /\ ppc = "waiting" /\ ~pdone
  /\ ppc' = "direct"
  /\ queue' = [i \in DOMAIN queue |-> Abandon(queue[i])]
  /\ IF rpc = "signal" THEN rpc' = "idle" /\ rout' = None
                       ELSE UNCHANGED <<rpc, rout>>
  /\ UNCHANGED <<listVars, glVars, flagVars, rwants, pout, pdone, engine,
                 textureVars, frameVars, dartVars>>

\* The direct teardown on the platform thread; the output stays in the list.
DisposeDirect ==
  /\ ppc = "direct" /\ MutexFree
  /\ DestroyOutputGl(pout, "platform")
  /\ Post([kind |-> "unregister", arg |-> pout])
  /\ AnswerDispose(pout)
  /\ KeepZombie(pout)
  /\ UNCHANGED <<nextId, rasterVars, engine, textureVars, mpv, reported>>

(***************************************************************************)
(* The pump of the main loop marks the first MaxReady outputs with an      *)
(* announced frame; the flag stays for the frame callback to clear.        *)
(***************************************************************************)
\* Fault: an output is ready only once it has a buffer.
ReadyWithBuffer == {o \in outputs : /\ framePending[o] /\ size[o] # None
                                    /\ ~disposing[o] /\ ~failed[o]}

Ready == {o \in outputs : /\ framePending[o] /\ pending[o] # None
                          /\ ~disposing[o] /\ ~failed[o]}

FirstReady == {o \in Ready : Cardinality({p \in Ready : p < o}) < MaxReady}

Pump ==
  /\ Receives /\ Ready # {}
  /\ stale' = stale \cup (FirstReady \cap registered)
  /\ scheduled' = scheduled \cup (FirstReady \cap registered)
  /\ UNCHANGED <<listVars, glVars, flagVars, queue, rasterVars, platformVars,
                 engine, registered, frameVars, dartVars>>

-----------------------------------------------------------------------------
(***************************************************************************)
(* The raster thread.                                                      *)
(***************************************************************************)
RasterFree == engine = "running" /\ rpc = "idle"

\* CreateRenderContextLocked for an output without one: any of its failures
\* (binding, GL functions, mpv) marks the output for good.
CreateRenderContext(o) ==
  \/ /\ CanBind("raster") /\ current' = "raster"
     /\ ctx' = [ctx EXCEPT ![o] = "live"]
     /\ UNCHANGED failed
  \/ /\ failed' = [failed EXCEPT ![o] = TRUE]
     /\ current' \in {current, "raster"}
     /\ current' # current => CanBind("raster")
     /\ UNCHANGED ctx

\* Fault: the task does not look whether the output was disposed meanwhile.
CreatableDisposed(h) == {o \in FindByHandle(h) : ~failed[o]}

\* Fault: the context is made only once the size is known.
CreatableWithSize(h) == {o \in FindByHandle(h) : /\ pending[o] # None
                                                  /\ ~disposing[o] /\ ~failed[o]}

\* CreateOnRasterThread: the task carries the handle, so an output that was
\* disposed meanwhile makes it a no-op.
Creatable(h) == {o \in FindByHandle(h) : ~disposing[o] /\ ~failed[o]}

CreateOnRasterThread ==
  /\ RasterFree /\ queue # <<>> /\ Head(queue).kind = "create"
  /\ queue' = Tail(queue)
  /\ \/ /\ \E o \in Creatable(Head(queue).arg) :
             ctx[o] = "none" /\ CreateRenderContext(o)
     \/ /\ \A o \in Creatable(Head(queue).arg) : ctx[o] # "none"
        /\ UNCHANGED <<ctx, current, failed>>
  /\ UNCHANGED <<listVars, tex, size, framePending, disposing, rasterVars,
                 platformVars, engine, textureVars, frameVars, dartVars>>

\* DisposeOnRasterThread, first half: the teardown under g_mutex.
DisposeOnRasterThread ==
  /\ RasterFree /\ queue # <<>> /\ Head(queue).kind \in {"dispose", "late"}
  /\ queue' = Tail(queue)
  /\ DestroyOutputGl(Head(queue).arg, "raster")
  /\ IF Head(queue).kind = "dispose"
     THEN rpc' = "signal" /\ rout' = Head(queue).arg
     ELSE UNCHANGED <<rpc, rout>>
  /\ UNCHANGED <<listVars, size, flagVars, rwants, platformVars, engine,
                 textureVars, dartVars>>

\* Second half: task->done under the task's own mutex.
SignalDone ==
  /\ rpc = "signal"
  /\ rpc' = "idle" /\ rout' = None
  /\ pdone' = TRUE
  /\ UNCHANGED <<listVars, glVars, flagVars, queue, rwants, ppc, pout, engine,
                 textureVars, frameVars, dartVars>>

\* The engine's own task behind UnregisterExternalTexture.
UnregisterOnRasterThread ==
  /\ RasterFree /\ queue # <<>> /\ Head(queue).kind = "unregister"
  /\ queue' = Tail(queue)
  /\ registered' = registered \ {Head(queue).arg}
  /\ stale' = stale \ {Head(queue).arg}
  /\ scheduled' = scheduled \ {Head(queue).arg}
  /\ UNCHANGED <<listVars, glVars, flagVars, rasterVars, platformVars, engine,
                 frameVars, dartVars>>

\* The frame callback for an output that is gone, disposed or failed.
FrameRefused(o) ==
  /\ RasterFree /\ CanBind("raster")
  /\ o \in stale /\ (o \notin outputs \/ disposing[o] \/ failed[o])
  /\ current' = "raster"
  /\ scheduled' = scheduled \ {o}
  /\ UNCHANGED <<listVars, ctx, tex, size, flagVars, queue, rasterVars,
                 platformVars, engine, registered, stale, frameVars, dartVars>>

\* The frame callback takes g_mutex and exchanges the frame flag.
FrameBegin(o) ==
  /\ RasterFree /\ CanBind("raster")
  /\ o \in stale /\ o \in outputs /\ ~disposing[o] /\ ~failed[o]
  /\ current' = "raster"
  /\ rpc' = "frame" /\ rout' = o /\ rwants' = framePending[o]
  /\ framePending' = [framePending EXCEPT ![o] = FALSE]
  /\ UNCHANGED <<listVars, ctx, tex, size, disposing, failed, queue,
                 platformVars, engine, textureVars, frameVars, dartVars>>

NeedsCreate(o) == ctx[o] = "none"
NeedsResize(o) == pending[o] # None /\ pending[o] # size[o]

\* The callback gives its answer and g_mutex back; a delivered texture is
\* cached by the engine until the next mark.
FrameReturns(o, delivered) ==
  /\ stale' = IF delivered THEN stale \ {o} ELSE stale
  /\ scheduled' = scheduled \ {o}
  /\ rpc' = "idle" /\ rout' = None /\ rwants' = FALSE

\* Nothing to do: the texture is delivered as it is.
FrameUnchanged ==
  /\ rpc = "frame" /\ ~(NeedsCreate(rout) \/ NeedsResize(rout) \/ rwants)
  /\ FrameReturns(rout, tex[rout] /\ size[rout] # None)
  /\ UNCHANGED <<listVars, glVars, flagVars, queue, platformVars, engine,
                 registered, frameVars, dartVars>>

\* No render context, or no complete framebuffer for the new size (whose
\* texture object exists then): the output has failed.
FrameFails ==
  /\ rpc = "frame" /\ (NeedsCreate(rout) \/ NeedsResize(rout) \/ rwants)
  /\ failed' = [failed EXCEPT ![rout] = TRUE]
  /\ \/ NeedsCreate(rout) /\ UNCHANGED <<ctx, tex>>
     \/ /\ NeedsResize(rout)
        /\ ctx' = [ctx EXCEPT ![rout] = IF NeedsCreate(rout) THEN "live" ELSE @]
        /\ tex' = [tex EXCEPT ![rout] = TRUE]
  /\ FrameReturns(rout, FALSE)
  /\ UNCHANGED <<listVars, size, current, framePending, disposing, queue,
                 platformVars, engine, registered, frameVars, dartVars>>

\* The context is made if need be, the buffer follows the wanted size, and
\* mpv renders the frame it holds once there is a buffer.
FrameRender ==
  /\ rpc = "frame" /\ (NeedsCreate(rout) \/ NeedsResize(rout) \/ rwants)
  /\ ctx' = [ctx EXCEPT ![rout] = IF NeedsCreate(rout) THEN "live" ELSE @]
  /\ size' = [size EXCEPT ![rout] =
                IF NeedsResize(rout) THEN pending[rout] ELSE @]
  /\ tex' = [tex EXCEPT ![rout] = @ \/ NeedsResize(rout)]
  /\ hasFrame' = [hasFrame EXCEPT ![rout] = @ /\ size'[rout] = None]
  /\ FrameReturns(rout, tex'[rout] /\ size'[rout] # None)
  /\ UNCHANGED <<listVars, current, flagVars, queue, platformVars, engine,
                 registered, notifying, dartVars>>

-----------------------------------------------------------------------------
(***************************************************************************)
(* mpv and Dart (external to the repository).                              *)
(***************************************************************************)

\* A player with a render context decodes a frame ...
MpvFrame(o) ==
  /\ ctx[o] = "live" /\ ~notifying[o]
  /\ hasFrame' = [hasFrame EXCEPT ![o] = TRUE]
  /\ notifying' = [notifying EXCEPT ![o] = TRUE]
  /\ UNCHANGED <<listVars, glVars, flagVars, queue, rasterVars, platformVars,
                 engine, textureVars, dartVars>>

\* ... and MpvUpdateCallback sets the output's flag, without any lock.
MpvUpdateCallback(o) ==
  /\ notifying[o]
  /\ notifying' = [notifying EXCEPT ![o] = FALSE]
  /\ framePending' = [framePending EXCEPT ![o] = TRUE]
  /\ UNCHANGED <<listVars, glVars, disposing, failed, queue, rasterVars,
                 platformVars, engine, textureVars, hasFrame, dartVars>>

\* mpv_terminate_destroy, after the Dispose of the handle was answered.
MpvTerminate(h) ==
  /\ engine = "running" /\ mpv[h] /\ h \in mayTerminate
  /\ mpv' = [mpv EXCEPT ![h] = FALSE]
  /\ mayTerminate' = mayTerminate \ {h}
  /\ ctx' = [o \in Ids |-> IF handle[o] = h /\ ctx[o] = "live"
                           THEN "orphan" ELSE ctx[o]]
  /\ notifying' = [o \in Ids |-> notifying[o] /\ handle[o] # h]
  /\ hasFrame' = [o \in Ids |-> hasFrame[o] /\ handle[o] # h]
  /\ UNCHANGED <<listVars, tex, size, current, flagVars, queue, rasterVars,
                 platformVars, engine, textureVars, reported>>

\* A new player at an address that is free again.
MpvCreate(h) ==
  /\ engine = "running" /\ ~mpv[h]
  /\ mpv' = [mpv EXCEPT ![h] = TRUE]
  /\ UNCHANGED <<listVars, glVars, flagVars, queue, rasterVars, platformVars,
                 engine, textureVars, frameVars, mayTerminate, reported>>

-----------------------------------------------------------------------------
(***************************************************************************)
(* The end of the program: FlutterEngineShutdown joins the raster thread,  *)
(* then the bridge frees what is left, then EGL goes.                      *)
(***************************************************************************)
EngineShutdown ==
  /\ Receives /\ rpc = "idle"
  /\ engine' = "stopped" /\ current' = "nobody"
  /\ queue' = <<>>
  /\ registered' = {} /\ stale' = {} /\ scheduled' = {}
  /\ UNCHANGED <<listVars, ctx, tex, size, flagVars, rasterVars, platformVars,
                 frameVars, dartVars>>

\* Fault: outputs whose Dispose was answered are taken for torn down.
LeftoverUndisposed == {o \in outputs : ~disposing[o]}

\* The outputs the shutdown tears down: whatever is still in the list.
Leftover == outputs

\* flutter_libnx_media_kit_video_shutdown: DestroyOutputGlLocked for each
\* output on the platform thread, then g_outputs.clear().
VideoShutdown ==
  /\ engine = "stopped" /\ CanBind("platform")
  /\ engine' = "closed"
  /\ ctx' = [o \in Ids |-> IF o \in Leftover THEN "none" ELSE ctx[o]]
  /\ tex' = [o \in Ids |-> tex[o] /\ o \notin Leftover]
  /\ notifying' = [o \in Ids |-> notifying[o] /\ o \notin Leftover]
  /\ hasFrame' = [o \in Ids |-> hasFrame[o] /\ o \notin Leftover]
  /\ current' = IF \A o \in Leftover : NothingToDestroy(o)
                THEN current ELSE "platform"
  /\ outputs' = {}
  /\ UNCHANGED <<nextId, handle, pending, size, flagVars, queue, rasterVars,
                 platformVars, textureVars, dartVars>>

\* flutter_libnx_egl_shutdown
EglShutdown ==
  /\ engine = "closed"
  /\ engine' = "off" /\ current' = "nobody"
  /\ UNCHANGED <<listVars, ctx, tex, size, flagVars, queue, rasterVars,
                 platformVars, textureVars, frameVars, dartVars>>

-----------------------------------------------------------------------------
\* The sizes Dart asks for: those of the player's picture, if it has any.
SizesOf(h) == IF h \in Sized THEN Sizes ELSE {}

Channel == \E h \in Handles :
  \/ CreateAgain(h) \/ CreateRefused(h) \/ Dispose(h) \/ DisposeUnknown(h)
  \/ \E s \in SizesOf(h) \cup {None} : CreateNew(h, s)
  \/ \E s \in SizesOf(h) : SetSize(h, s)

Raster ==
  \/ CreateOnRasterThread \/ DisposeOnRasterThread \/ SignalDone
  \/ UnregisterOnRasterThread \/ FrameUnchanged \/ FrameFails \/ FrameRender

Next ==
  \/ Channel \/ DisposeDone \/ DisposeTimeout \/ DisposeDirect \/ Pump
  \/ Raster \/ \E o \in Ids : FrameRefused(o) \/ FrameBegin(o)
  \/ \E o \in Ids : MpvFrame(o) \/ MpvUpdateCallback(o)
  \/ \E h \in Destroyed : MpvTerminate(h) \/ MpvCreate(h)
  \/ EngineShutdown \/ VideoShutdown \/ EglShutdown

(***************************************************************************)
(* Fairness.  The raster thread goes on with what it has begun: it leaves  *)
(* the callback and answers a task it has run.  Whoever else needs g_mutex *)
(* finds it taken again and again while another player's frames are        *)
(* painted, but the thread gives it back after every frame and then waits  *)
(* for the display, so the platform thread gets its turn in the end, with  *)
(* its answer, its direct teardown and its pump: these are enabled again   *)
(* and again, not always, and strong fairness is what they need.  So do    *)
(* the raster thread's tasks and the scheduled paints, which take turns on *)
(* one FIFO task runner.  A wait that runs out ends, and mpv delivers the  *)
(* notification it began.  Messages, frames, other paints and the end of   *)
(* the program may happen or not.                                          *)
(***************************************************************************)
ScheduledPaint(o) == o \in scheduled /\ (FrameRefused(o) \/ FrameBegin(o))

RasterGoesOn == SignalDone \/ FrameUnchanged \/ FrameFails \/ FrameRender

RasterTask ==
  CreateOnRasterThread \/ DisposeOnRasterThread \/ UnregisterOnRasterThread

Fairness ==
  /\ WF_vars(RasterGoesOn) /\ SF_vars(RasterTask)
  /\ WF_vars(DisposeTimeout) /\ SF_vars(DisposeDone \/ DisposeDirect)
  /\ SF_vars(Pump)
  /\ \A o \in Ids : SF_vars(ScheduledPaint(o)) /\ WF_vars(MpvUpdateCallback(o))

Safety == Init /\ [][Next]_vars
Spec == Safety /\ Fairness
-----------------------------------------------------------------------------
(***************************************************************************)
(* Safety.                                                                 *)
(***************************************************************************)

\* mpv's raw pointer never outlives the output: while a render context has
\* MpvUpdateCallback registered, or mpv is about to call it, the VideoOutput
\* it points to is still in g_outputs (media_kit_video_horizon.cpp:333-340).
CallbackTargetAlive ==
  \A o \in Ids : (ctx[o] # "none" \/ notifying[o]) => o \in outputs

\* No dispose task, however late, refers to a freed output ("Der spaete Task
\* darf keinen freigegebenen Speicher anfassen", :599-602).
Targets(kinds) ==
  {queue[i].arg : i \in {j \in DOMAIN queue : queue[j].kind \in kinds}}

TaskTargetAlive == Targets({"dispose", "late"}) \subseteq outputs

\* A live render context belongs to a live player: a create task or a frame
\* callback never makes a context for a player Dart has destroyed meanwhile
\* (CreateOnRasterThread, "ein Dispose dazwischen macht ihn zum No-Op").
ContextHasPlayer ==
  \A o \in Ids : ctx[o] = "live" => mpv[handle[o]]

\* The handle identifies an output: FindByHandleLocked never has a choice.
OneOutputPerHandle ==
  \A o, p \in outputs : handle[o] = handle[p] => o = p

\* While the engine runs, whoever holds GL objects of mpv holds them in the
\* raster thread's context, so that thread can always free them; and the
\* platform thread never becomes a second GL thread, not even in the direct
\* teardown after a time limit.
OnlyRasterThreadBinds ==
  engine = "running" =>
    /\ current # "platform"
    /\ (\E o \in Ids : ctx[o] # "none" \/ tex[o]) => current = "raster"

\* What a time limit has left in the list, until the end of the program.
Zombie(o) == disposing[o] /\ pout # o

\* The texture Dart shows for a handle is that of an existing output of the
\* handle; nobody is tearing that output down, no task that will is on its
\* way, and the engine knows its texture: what HandleCreate and HandleSetSize
\* report (:456, :510) is never what a Dispose takes away (:557, :571, :608).
\* A zombie is excepted: its handle still finds it, so they report it although
\* its texture is gone and a late task may free it, against "dispose_requested
\* haelt ihn aus allem heraus" (:600-601).
ReportedTextureExists ==
  \A h \in Handles : LET o == reported[h] IN
    o # None /\ engine = "running" =>
      /\ o \in outputs /\ handle[o] = h
      /\ \/ Zombie(o)
         \/ /\ ~disposing[o] /\ o \in registered
            /\ o \notin Targets({"dispose", "late", "unregister"})

\* When EGL is shut down nothing of mpv is left in it, whatever Dispose
\* requests were answered, timed out or never came.
ShutdownReleases ==
  engine \in {"closed", "off"} =>
    \A o \in Ids : ctx[o] = "none" /\ ~tex[o] /\ ~notifying[o]

\* A player is never destroyed while its render context is live: the dispose
\* must free the context first (media_kit_video_horizon.cpp:39-41, 564-565).
NoOrphanedContext == \A o \in Ids : ctx[o] # "orphan"

(***************************************************************************)
(* Liveness.                                                               *)
(***************************************************************************)

\* Every Dispose is answered, whatever the raster thread is doing: while it
\* paints another player and takes g_mutex for every frame of it, before and
\* after the time limit (:554, :574, :583, :590).
DisposeAnswered == ppc # "idle" ~> ppc = "idle"

Alive(o) == /\ o \in outputs /\ ~disposing[o] /\ ~failed[o]
            /\ engine = "running"

\* The eager task makes the render context without any paint: mpv selects
\* no video track before, so waiting for the frame callback would wait for
\* ever (media_kit_video_horizon.cpp:257-263).
EagerContext ==
  \A o \in Ids :
    (/\ Alive(o)
     /\ \E i \in DOMAIN queue : queue[i] = [kind |-> "create", arg |-> handle[o]])
    ~> (ctx[o] # "none" \/ ~Alive(o))

\* A frame mpv holds for an output with a size is rendered: no notification
\* is lost between the flag's exchange, the render and the pump.
FrameShown ==
  \A o \in Ids : (Alive(o) /\ hasFrame[o] /\ pending[o] # None)
                  ~> (~hasFrame[o] \/ ~Alive(o))
=============================================================================

------------------------- MODULE VideoBridge_proofs -------------------------
(***************************************************************************)
(* The inductive invariant of VideoBridge and the theorems it carries: for *)
(* any number of players, texture ids, sizes and queued tasks.  They hold  *)
(* when binding the context succeeds on the thread that owns it            *)
(* (~DestroyFaults); with DestroyFaults an erased output may still have a  *)
(* live render context.                                                    *)
(***************************************************************************)
EXTENDS VideoBridge, TLAPS

(* Every id of an output was handed out; GL objects and notifications are  *)
(* only those of listed outputs.                                           *)
ListInv ==
  /\ \A o \in outputs : o < nextId /\ handle[o] \in Handles
  /\ \A o \in Ids : ctx[o] # "none" \/ tex[o] => o \in outputs
  /\ \A o \in Ids : notifying[o] => ctx[o] = "live"

(* What the platform thread waits for is marked; what the raster thread    *)
(* works on is not.                                                        *)
PhaseInv ==
  /\ ppc # "idle" => pout \in outputs /\ disposing[pout]
  /\ rpc = "frame" => rout \in outputs /\ ~disposing[rout] /\ current = "raster"
  /\ rpc = "signal" => ppc = "waiting" /\ pout = rout /\ ~pdone
  /\ engine # "running" => rpc = "idle" /\ ppc = "idle" /\ queue = <<>>
  /\ engine = "stopped" => current = "nobody"

(* Once the task has worked, the output has no GL object left.             *)
TornDown(o) == ctx[o] = "none" /\ ~tex[o]

DoneInv ==
  /\ rpc = "signal" => TornDown(rout)
  /\ pdone => TornDown(pout)

(* The dispose task somebody waits for is the last one for its output; all *)
(* of them refer to marked outputs.                                        *)
IsDispose(i) == queue[i].kind \in {"dispose", "late"}

QueueInv ==
  /\ \A i \in DOMAIN queue : IsDispose(i) =>
       queue[i].arg \in outputs /\ disposing[queue[i].arg]
  /\ \A i \in DOMAIN queue : queue[i].kind = "dispose" =>
       /\ ppc = "waiting" /\ pout = queue[i].arg /\ ~pdone /\ rpc # "signal"
       /\ \A j \in DOMAIN queue : IsDispose(j) => j <= i
  /\ rpc = "signal" \/ pdone =>
       \A i \in DOMAIN queue : IsDispose(i) => queue[i].arg # pout

(* A player may be destroyed only when its outputs are marked.             *)
PlayerInv ==
  \A o \in outputs : ~disposing[o] => mpv[handle[o]] /\ handle[o] \notin mayTerminate

IInv == /\ TypeOK /\ OneOutputPerHandle /\ OnlyRasterThreadBinds
        /\ ContextHasPlayer /\ ShutdownReleases
        /\ ListInv /\ PhaseInv /\ DoneInv /\ QueueInv /\ PlayerInv

-----------------------------------------------------------------------------
(* What the three operations on the task queue do to it.                   *)
LEMMA QueueHead ==
  ASSUME NEW q \in Seq(Tasks), q # <<>>
  PROVE  /\ Head(q) = q[1] /\ 1 \in DOMAIN q
         /\ Head(q).kind = "create" => Head(q).arg \in Handles
         /\ Head(q).kind # "create" => Head(q).arg \in Ids
         /\ Tail(q) \in Seq(Tasks)
         /\ \A i \in DOMAIN Tail(q) : i + 1 \in DOMAIN q /\ Tail(q)[i] = q[i + 1]
<1>1. Head(q) = q[1] /\ q[1] \in Tasks /\ 1 \in DOMAIN q
  OBVIOUS
<1>2. Tail(q) \in Seq(Tasks)
  OBVIOUS
<1>3. \A i \in DOMAIN Tail(q) : i + 1 \in DOMAIN q /\ Tail(q)[i] = q[i + 1]
  OBVIOUS
<1>4. QED BY <1>1, <1>2, <1>3 DEF Tasks

(* A task that is posted comes last, and the others stay where they are.   *)
LEMMA QueueAppend ==
  ASSUME NEW q \in Seq(Tasks), NEW t \in Tasks
  PROVE  /\ Append(q, t) \in Seq(Tasks)
         /\ DOMAIN Append(q, t) = 1 .. (Len(q) + 1)
         /\ DOMAIN q = 1 .. Len(q) /\ Len(q) \in Nat
         /\ \A i \in DOMAIN q : Append(q, t)[i] = q[i]
         /\ Append(q, t)[Len(q) + 1] = t
OBVIOUS

(* When a requester gives up, its dispose task becomes late and no other   *)
(* task changes.                                                           *)
LEMMA QueueAbandon ==
  ASSUME NEW q \in Seq(Tasks)
  PROVE  /\ [i \in DOMAIN q |-> Abandon(q[i])] \in Seq(Tasks)
         /\ \A i \in DOMAIN q : /\ Abandon(q[i]).kind # "dispose"
                                /\ Abandon(q[i]).arg = q[i].arg
                                /\ Abandon(q[i]).kind \in {"dispose", "late"} <=>
                                     q[i].kind \in {"dispose", "late"}
<1>1. \A i \in DOMAIN q : q[i] \in Tasks
  OBVIOUS
<1>2. \A t \in Tasks : /\ Abandon(t) \in Tasks /\ Abandon(t).kind # "dispose"
                       /\ Abandon(t).arg = t.arg
                       /\ Abandon(t).kind \in {"dispose", "late"} <=>
                            t.kind \in {"dispose", "late"}
  BY DEF Abandon, Tasks
<1>3. DOMAIN q = 1 .. Len(q) /\ Len(q) \in Nat
  OBVIOUS
<1>4. [i \in DOMAIN q |-> Abandon(q[i])] \in Seq(Tasks)
  BY <1>1, <1>2, <1>3
<1>5. QED BY <1>1, <1>2, <1>4

-----------------------------------------------------------------------------

(* Every action keeps the types. *)
LEMMA TypeStep == ASSUME TypeOK, PhaseInv, ListInv, Next PROVE TypeOK'
<1> USE VideoAssumption DEF listVars, glVars, flagVars, rasterVars,
      platformVars, textureVars, frameVars, dartVars, TypeOK, PhaseInv, Ids,
      None
<1>1. ASSUME NEW h \in Handles, CreateAgain(h) PROVE TypeOK'
  BY <1>1 DEF CreateAgain, Receives, Post, FindByHandle, Tasks
<1>2. ASSUME NEW h \in Handles, CreateRefused(h) PROVE TypeOK'
  BY <1>2 DEF CreateRefused, Receives
<1>3. ASSUME NEW h \in Handles, Dispose(h) PROVE TypeOK'
  <2>1. PICK o \in outputs : /\ disposing' = [disposing EXCEPT ![o] = TRUE]
                             /\ pout' = o /\ pdone' = FALSE
                             /\ \/ /\ ppc' = "waiting"
                                   /\ Post([kind |-> "dispose", arg |-> o])
                                \/ ppc' = "direct" /\ UNCHANGED queue
    BY <1>3 DEF Dispose, FindByHandle
  <2>2. queue' \in Seq(Tasks)
    <3>1. [kind |-> "dispose", arg |-> o] \in Tasks
      BY DEF Tasks
    <3>2. Append(queue, [kind |-> "dispose", arg |-> o]) \in Seq(Tasks)
      BY <3>1, QueueAppend
    <3>3. QED BY <2>1, <3>2 DEF Post
  <2>3. /\ reported' = [reported EXCEPT ![h] = None]
        /\ UNCHANGED <<listVars, glVars, framePending, failed, rasterVars,
                       engine, textureVars, frameVars, mpv, mayTerminate>>
    BY <1>3 DEF Dispose
  <2>4. /\ disposing' \in [Ids -> BOOLEAN] /\ pout' \in Ids /\ pdone' = FALSE
        /\ ppc' \in {"waiting", "direct"}
    BY <2>1
  <2>5. reported' \in [Handles -> Ids \cup {None}]
    BY <2>3
  <2>6. UNCHANGED <<outputs, nextId, handle, pending, ctx, tex, size, current>>
    BY <2>3
  <2>7. UNCHANGED <<framePending, failed, rpc, rout, rwants, engine, registered,
                    stale, scheduled, hasFrame, notifying, mpv, mayTerminate>>
    BY <2>3
  <2>8. /\ (rpc = "idle" <=> rout = None)' /\ (ppc = "idle" <=> pout = None)'
        /\ (pdone => ppc = "waiting")' /\ pdone' \in BOOLEAN
        /\ ppc' \in {"idle", "waiting", "direct"} /\ pout' \in Ids \cup {None}
    <3>1. (rpc = "idle" <=> rout = None)'
      BY <2>7
    <3>2. pout' # None /\ ppc' # "idle"
      BY <2>4
    <3>3. pdone' = FALSE
      BY <2>4
    <3>4. QED BY <2>4, <3>1, <3>2, <3>3
  <2>9. QED BY <2>2, <2>4, <2>5, <2>6, <2>7, <2>8
<1>4. ASSUME NEW h \in Handles, DisposeUnknown(h) PROVE TypeOK'
  BY <1>4 DEF DisposeUnknown, FindByHandle
<1>5. ASSUME NEW h \in Handles, NEW s \in Sizes \cup {None}, CreateNew(h, s) PROVE TypeOK'
  <2>1. queue' \in Seq(Tasks)
    BY <1>5 DEF CreateNew, Post, Tasks
  <2>2. QED BY <1>5, <2>1 DEF CreateNew
<1>6. ASSUME NEW h \in Handles, NEW s \in Sizes, SetSize(h, s) PROVE TypeOK'
  BY <1>6 DEF SetSize, Receives, FindByHandle
<1>7. ASSUME DisposeDone PROVE TypeOK'
  <2>1. pout \in Ids /\ handle[pout] \in Handles
    BY <1>7 DEF DisposeDone, ListInv
  <2>2. queue' \in Seq(Tasks)
    BY <1>7, <2>1 DEF DisposeDone, Post, Tasks
  <2>3. QED
    BY <1>7, <2>1, <2>2 DEF DisposeDone, EraseOutput, AnswerDispose
<1>8. ASSUME DisposeTimeout PROVE TypeOK'
  BY <1>8, QueueAbandon DEF DisposeTimeout, Abandon
<1>9. ASSUME DisposeDirect PROVE TypeOK'
  <2>1. pout \in Ids /\ handle[pout] \in Handles
    BY <1>9 DEF DisposeDirect, ListInv
  <2>2. queue' \in Seq(Tasks)
    BY <1>9, <2>1 DEF DisposeDirect, Post, Tasks
  <2>3. DestroyOutputGl(pout, "platform")
    BY <1>9 DEF DisposeDirect
  <2>4. /\ ctx' \in [Ids -> {"none", "live", "orphan"}] /\ tex' \in [Ids -> BOOLEAN]
        /\ current' \in {"nobody", "raster", "platform"}
        /\ hasFrame' \in [Ids -> BOOLEAN] /\ notifying' \in [Ids -> BOOLEAN]
    <3>1. ctx' \in [Ids -> {"none", "live", "orphan"}] /\ tex' \in [Ids -> BOOLEAN]
      BY <2>1, <2>3 DEF DestroyOutputGl, FreeOutputGl
    <3>2. current' \in {"nobody", "raster", "platform"}
      BY <2>1, <2>3 DEF DestroyOutputGl, FreeOutputGl
    <3>3. hasFrame' \in [Ids -> BOOLEAN]
      BY <2>1, <2>3 DEF DestroyOutputGl, FreeOutputGl
    <3>4. notifying' \in [Ids -> BOOLEAN]
      BY <2>1, <2>3 DEF DestroyOutputGl, FreeOutputGl
    <3>5. QED BY <3>1, <3>2, <3>3, <3>4
  <2>5. /\ AnswerDispose(pout) /\ KeepZombie(pout)
        /\ UNCHANGED <<nextId, rasterVars, engine, textureVars, mpv, reported>>
    BY <1>9 DEF DisposeDirect
  <2>6. QED
    BY <2>1, <2>2, <2>4, <2>5 DEF AnswerDispose, KeepZombie
<1>10. ASSUME Pump PROVE TypeOK'
  BY <1>10 DEF Pump, Receives
<1>11. ASSUME CreateOnRasterThread PROVE TypeOK'
  <2>1. queue' \in Seq(Tasks)
    BY <1>11, QueueHead DEF CreateOnRasterThread
  <2>2. CASE UNCHANGED <<ctx, current, failed>>
    BY <1>11, <2>1, <2>2 DEF CreateOnRasterThread
  <2>3. CASE \E o \in Ids : CreateRenderContext(o)
    BY <1>11, <2>1, <2>3 DEF CreateOnRasterThread, CreateRenderContext
  <2>4. QED
    BY <1>11, <2>2, <2>3 DEF CreateOnRasterThread, Creatable, FindByHandle
<1>12. ASSUME DisposeOnRasterThread PROVE TypeOK'
  <2>1. PICK o \in Ids : o = Head(queue).arg /\ DestroyOutputGl(o, "raster")
    BY <1>12, QueueHead DEF DisposeOnRasterThread
  <2>2. queue' \in Seq(Tasks)
    BY <1>12, QueueHead DEF DisposeOnRasterThread
  <2>3. /\ ctx' \in [Ids -> {"none", "live", "orphan"}] /\ tex' \in [Ids -> BOOLEAN]
        /\ current' \in {"nobody", "raster", "platform"}
        /\ hasFrame' \in [Ids -> BOOLEAN] /\ notifying' \in [Ids -> BOOLEAN]
    <3>1. ctx' \in [Ids -> {"none", "live", "orphan"}] /\ tex' \in [Ids -> BOOLEAN]
      <4>1. \/ ctx' = ctx /\ tex' = tex
            \/ ctx' = [ctx EXCEPT ![o] = "none"] /\ tex' = [tex EXCEPT ![o] = FALSE]
        BY <2>1 DEF DestroyOutputGl, FreeOutputGl
      <4> QED BY <4>1
    <3>2. current' \in {"nobody", "raster", "platform"}
      BY <2>1 DEF DestroyOutputGl, FreeOutputGl
    <3>3. hasFrame' \in [Ids -> BOOLEAN]
      BY <2>1 DEF DestroyOutputGl, FreeOutputGl
    <3>4. notifying' \in [Ids -> BOOLEAN]
      BY <2>1 DEF DestroyOutputGl, FreeOutputGl
    <3>5. QED BY <3>1, <3>2, <3>3, <3>4
  <2>4. \/ rpc' = "signal" /\ rout' = o
        \/ UNCHANGED <<rpc, rout>>
    BY <1>12, <2>1 DEF DisposeOnRasterThread
  <2>5. UNCHANGED <<listVars, size, flagVars, rwants, platformVars, engine,
                    textureVars, dartVars>>
    BY <1>12 DEF DisposeOnRasterThread
  <2>6. QED
    BY <2>2, <2>3, <2>4, <2>5
<1>13. ASSUME SignalDone PROVE TypeOK'
  BY <1>13 DEF SignalDone
<1>14. ASSUME UnregisterOnRasterThread PROVE TypeOK'
  BY <1>14, QueueHead DEF UnregisterOnRasterThread, RasterFree
<1>15. ASSUME FrameUnchanged PROVE TypeOK'
  BY <1>15 DEF FrameUnchanged, FrameReturns
<1>16. ASSUME FrameFails PROVE TypeOK'
  <2> rout \in Ids
    BY <1>16 DEF FrameFails
  <2>1. CASE UNCHANGED <<ctx, tex>>
    BY <1>16, <2>1 DEF FrameFails, FrameReturns
  <2>2. CASE /\ ctx' = [ctx EXCEPT ![rout] = IF NeedsCreate(rout) THEN "live" ELSE @]
             /\ tex' = [tex EXCEPT ![rout] = TRUE]
    BY <1>16, <2>2 DEF FrameFails, FrameReturns, NeedsCreate
  <2>3. QED BY <1>16, <2>1, <2>2 DEF FrameFails
<1>17. ASSUME FrameRender PROVE TypeOK'
  BY <1>17 DEF FrameRender, FrameReturns, NeedsCreate, NeedsResize
<1>18. ASSUME NEW o \in Ids, FrameRefused(o) PROVE TypeOK'
  BY <1>18 DEF FrameRefused, RasterFree, CanBind
<1>19. ASSUME NEW o \in Ids, FrameBegin(o) PROVE TypeOK'
  BY <1>19 DEF FrameBegin, RasterFree, CanBind
<1>20. ASSUME NEW o \in Ids, MpvFrame(o) PROVE TypeOK'
  BY <1>20 DEF MpvFrame
<1>21. ASSUME NEW o \in Ids, MpvUpdateCallback(o) PROVE TypeOK'
  BY <1>21 DEF MpvUpdateCallback
<1>22. ASSUME NEW h \in Handles, MpvTerminate(h) PROVE TypeOK'
  BY <1>22 DEF MpvTerminate
<1>23. ASSUME NEW h \in Handles, MpvCreate(h) PROVE TypeOK'
  BY <1>23 DEF MpvCreate
<1>24. ASSUME EngineShutdown PROVE TypeOK'
  BY <1>24 DEF EngineShutdown, Receives
<1>25. ASSUME VideoShutdown PROVE TypeOK'
  BY <1>25 DEF VideoShutdown, Leftover, NothingToDestroy
<1>26. ASSUME EglShutdown PROVE TypeOK'
  BY <1>26 DEF EglShutdown
<1>27. QED BY <1>1, <1>2, <1>3, <1>4, <1>5, <1>6, <1>7, <1>8, <1>9, <1>10,
       <1>11, <1>12, <1>13, <1>14, <1>15, <1>16, <1>17, <1>18, <1>19, <1>20,
       <1>21, <1>22, <1>23, <1>24, <1>25, <1>26 DEF Next, Channel, SizesOf, Raster

(* A handle is given to a second output only when the first is gone. *)
LEMMA OneStep == ASSUME TypeOK, OneOutputPerHandle, ListInv, Next PROVE OneOutputPerHandle'
<1> USE VideoAssumption DEF listVars, glVars, flagVars, rasterVars,
      platformVars, textureVars, frameVars, dartVars, TypeOK,
      OneOutputPerHandle, ListInv, Ids, None
<1>1. ASSUME NEW h \in Handles, NEW s \in Sizes \cup {None}, CreateNew(h, s) PROVE OneOutputPerHandle'
  BY <1>1 DEF CreateNew, Receives, FindByHandle, Post
<1>2. ASSUME DisposeDone PROVE OneOutputPerHandle'
  BY <1>2 DEF DisposeDone, MutexFree, EraseOutput, AnswerDispose, Post
<1>3. ASSUME DisposeDirect PROVE OneOutputPerHandle'
  BY <1>3
  DEF DisposeDirect, MutexFree, DestroyOutputGl, FreeOutputGl,
      NothingToDestroy, CanBind, KeepZombie, AnswerDispose, Post
<1>4. ASSUME VideoShutdown PROVE OneOutputPerHandle'
  BY <1>4 DEF VideoShutdown, Leftover, NothingToDestroy
<1>5. ASSUME NEW o \in Ids, FrameRefused(o) PROVE OneOutputPerHandle'
  BY <1>5 DEF FrameRefused, RasterFree, CanBind
<1>6. ASSUME NEW o \in Ids, FrameBegin(o) PROVE OneOutputPerHandle'
  BY <1>6 DEF FrameBegin, RasterFree, CanBind
<1>7. ASSUME NEW o \in Ids, MpvFrame(o) PROVE OneOutputPerHandle'
  BY <1>7 DEF MpvFrame
<1>8. ASSUME NEW o \in Ids, MpvUpdateCallback(o) PROVE OneOutputPerHandle'
  BY <1>8 DEF MpvUpdateCallback
<1>9. ASSUME NEW h \in Handles,
            CreateAgain(h) \/ CreateRefused(h) \/ Dispose(h) \/
            DisposeUnknown(h) \/ MpvTerminate(h) \/ MpvCreate(h)
     PROVE OneOutputPerHandle'
  BY <1>9 DEF CreateAgain, CreateRefused, Dispose, DisposeUnknown,
      MpvTerminate, MpvCreate
<1>10. ASSUME NEW h \in Handles, NEW s \in Sizes,
            SetSize(h, s)
     PROVE OneOutputPerHandle'
  BY <1>10 DEF SetSize
<1>11. ASSUME DisposeTimeout \/ Pump \/ CreateOnRasterThread \/
            DisposeOnRasterThread \/ SignalDone \/
            UnregisterOnRasterThread \/ FrameUnchanged \/ FrameFails
            \/ FrameRender \/ EngineShutdown \/ EglShutdown
     PROVE OneOutputPerHandle'
  BY <1>11 DEF DisposeTimeout, Pump, CreateOnRasterThread,
      DisposeOnRasterThread, SignalDone, UnregisterOnRasterThread,
      FrameUnchanged, FrameFails, FrameRender, EngineShutdown, EglShutdown
<1>12. QED BY <1>1, <1>2, <1>3, <1>4, <1>5, <1>6, <1>7, <1>8, <1>9, <1>10,
       <1>11 DEF Next, Channel, SizesOf, Raster

(* GL objects belong to listed outputs. *)
LEMMA ListStep == ASSUME ~DestroyFaults, IInv, Next PROVE ListInv'
<1> USE VideoAssumption DEF listVars, glVars, flagVars, rasterVars,
      platformVars, textureVars, frameVars, dartVars, IInv, TypeOK, Ids, None,
      ListInv, PhaseInv
<1>1. ASSUME NEW h \in Handles, CreateAgain(h) PROVE ListInv'
  BY <1>1 DEF CreateAgain, Receives
<1>2. ASSUME NEW h \in Handles, CreateRefused(h) PROVE ListInv'
  BY <1>2 DEF CreateRefused, Receives
<1>3. ASSUME NEW h \in Handles, Dispose(h) PROVE ListInv'
  BY <1>3 DEF Dispose, Receives, MutexFree, FindByHandle, Post
<1>4. ASSUME NEW h \in Handles, DisposeUnknown(h) PROVE ListInv'
  BY <1>4 DEF DisposeUnknown, FindByHandle
<1>5. ASSUME NEW h \in Handles, NEW s \in Sizes \cup {None}, CreateNew(h, s) PROVE ListInv'
  BY <1>5 DEF CreateNew, Receives, FindByHandle, Post
<1>6. ASSUME DisposeDone PROVE ListInv'
  BY <1>6
  DEF DisposeDone, MutexFree, EraseOutput, AnswerDispose, Post, DoneInv,
      TornDown
<1>7. ASSUME DisposeTimeout PROVE ListInv'
  BY <1>7 DEF DisposeTimeout, Abandon
<1>8. ASSUME DisposeDirect PROVE ListInv'
  BY <1>8
  DEF DisposeDirect, MutexFree, DestroyOutputGl, FreeOutputGl,
      NothingToDestroy, CanBind, KeepZombie, AnswerDispose, Post
<1>9. ASSUME Pump PROVE ListInv'
  BY <1>9 DEF Pump, Receives
<1>10. ASSUME CreateOnRasterThread PROVE ListInv'
  BY <1>10
  DEF CreateOnRasterThread, RasterFree, Creatable, FindByHandle,
      CreateRenderContext, CanBind
<1>11. ASSUME DisposeOnRasterThread PROVE ListInv'
  <2>1. PICK o \in Ids : /\ o = Head(queue).arg /\ DestroyOutputGl(o, "raster")
                         /\ UNCHANGED <<listVars, size, flagVars>>
    BY <1>11, QueueHead DEF DisposeOnRasterThread, RasterFree
  <2>2. CASE FreeOutputGl(o, "raster")
    BY <2>1, <2>2 DEF FreeOutputGl
  <2>3. CASE UNCHANGED <<ctx, tex, current, frameVars>>
    BY <2>1, <2>3
  <2>4. QED BY <2>1, <2>2, <2>3 DEF DestroyOutputGl
<1>12. ASSUME SignalDone PROVE ListInv'
  BY <1>12 DEF SignalDone
<1>13. ASSUME UnregisterOnRasterThread PROVE ListInv'
  BY <1>13 DEF UnregisterOnRasterThread, RasterFree
<1>14. ASSUME FrameUnchanged PROVE ListInv'
  BY <1>14 DEF FrameUnchanged, FrameReturns
<1>15. ASSUME FrameFails PROVE ListInv'
  <2> rout \in Ids
    BY <1>15 DEF FrameFails
  <2>1. CASE UNCHANGED <<ctx, tex>>
    BY <1>15, <2>1 DEF FrameFails, FrameReturns
  <2>2. CASE /\ ctx' = [ctx EXCEPT ![rout] = IF NeedsCreate(rout) THEN "live" ELSE @]
             /\ tex' = [tex EXCEPT ![rout] = TRUE]
    BY <1>15, <2>2 DEF FrameFails, FrameReturns, NeedsCreate
  <2>3. QED BY <1>15, <2>1, <2>2 DEF FrameFails
<1>16. ASSUME FrameRender PROVE ListInv'
  BY <1>16 DEF FrameRender, FrameReturns, NeedsCreate, NeedsResize
<1>17. ASSUME NEW o \in Ids, FrameRefused(o) PROVE ListInv'
  BY <1>17 DEF FrameRefused, RasterFree, CanBind
<1>18. ASSUME NEW o \in Ids, FrameBegin(o) PROVE ListInv'
  BY <1>18 DEF FrameBegin, RasterFree, CanBind
<1>19. ASSUME NEW o \in Ids, MpvFrame(o) PROVE ListInv'
  BY <1>19 DEF MpvFrame
<1>20. ASSUME NEW o \in Ids, MpvUpdateCallback(o) PROVE ListInv'
  BY <1>20 DEF MpvUpdateCallback
<1>21. ASSUME NEW h \in Handles, MpvTerminate(h) PROVE ListInv'
  BY <1>21 DEF MpvTerminate
<1>22. ASSUME NEW h \in Handles, MpvCreate(h) PROVE ListInv'
  BY <1>22 DEF MpvCreate
<1>23. ASSUME EngineShutdown PROVE ListInv'
  BY <1>23 DEF EngineShutdown, Receives
<1>24. ASSUME VideoShutdown PROVE ListInv'
  BY <1>24 DEF VideoShutdown, Leftover, NothingToDestroy
<1>25. ASSUME EglShutdown PROVE ListInv'
  BY <1>25 DEF EglShutdown
<1>26. ASSUME NEW h \in Handles, NEW s \in Sizes,
            SetSize(h, s)
     PROVE ListInv'
  BY <1>26 DEF SetSize
<1>27. QED BY <1>1, <1>2, <1>3, <1>4, <1>5, <1>6, <1>7, <1>8, <1>9, <1>10,
       <1>11, <1>12, <1>13, <1>14, <1>15, <1>16, <1>17, <1>18, <1>19, <1>20,
       <1>21, <1>22, <1>23, <1>24, <1>25, <1>26 DEF Next, Channel, SizesOf, Raster

(* What is waited for is marked, what is worked on is not. *)
LEMMA PhaseStep == ASSUME ~DestroyFaults, IInv, Next PROVE PhaseInv'
<1> USE VideoAssumption DEF listVars, glVars, flagVars, rasterVars,
      platformVars, textureVars, frameVars, dartVars, IInv, TypeOK, Ids, None,
      PhaseInv, OnlyRasterThreadBinds
<1>1. ASSUME NEW h \in Handles, CreateAgain(h) PROVE PhaseInv'
  BY <1>1 DEF CreateAgain, Receives
<1>2. ASSUME NEW h \in Handles, Dispose(h) PROVE PhaseInv'
  BY <1>2 DEF Dispose, Receives, MutexFree, FindByHandle, Post
<1>3. ASSUME NEW h \in Handles, NEW s \in Sizes \cup {None}, CreateNew(h, s) PROVE PhaseInv'
  BY <1>3 DEF CreateNew, Receives, FindByHandle, Post
<1>4. ASSUME NEW h \in Handles, NEW s \in Sizes, SetSize(h, s) PROVE PhaseInv'
  BY <1>4 DEF SetSize, Receives, FindByHandle
<1>5. ASSUME DisposeDone PROVE PhaseInv'
  BY <1>5 DEF DisposeDone, MutexFree, EraseOutput, AnswerDispose, Post
<1>6. ASSUME DisposeTimeout PROVE PhaseInv'
  BY <1>6 DEF DisposeTimeout, Abandon
<1>7. ASSUME DisposeDirect PROVE PhaseInv'
  BY <1>7
  DEF DisposeDirect, MutexFree, DestroyOutputGl, FreeOutputGl,
      NothingToDestroy, CanBind, KeepZombie, AnswerDispose, Post
<1>8. ASSUME CreateOnRasterThread PROVE PhaseInv'
  BY <1>8
  DEF CreateOnRasterThread, RasterFree, Creatable, FindByHandle,
      CreateRenderContext, CanBind
<1>9. ASSUME DisposeOnRasterThread PROVE PhaseInv'
  BY <1>9, QueueHead
  DEF DisposeOnRasterThread, RasterFree, DestroyOutputGl, FreeOutputGl,
      NothingToDestroy, CanBind, QueueInv, IsDispose
<1>10. ASSUME SignalDone PROVE PhaseInv'
  BY <1>10 DEF SignalDone
<1>11. ASSUME UnregisterOnRasterThread PROVE PhaseInv'
  BY <1>11 DEF UnregisterOnRasterThread, RasterFree
<1>12. ASSUME FrameUnchanged PROVE PhaseInv'
  BY <1>12 DEF FrameUnchanged, FrameReturns
<1>13. ASSUME FrameFails PROVE PhaseInv'
  BY <1>13 DEF FrameFails, FrameReturns, NeedsCreate, NeedsResize
<1>14. ASSUME FrameRender PROVE PhaseInv'
  BY <1>14 DEF FrameRender, FrameReturns, NeedsCreate, NeedsResize
<1>15. ASSUME NEW o \in Ids, FrameRefused(o) PROVE PhaseInv'
  BY <1>15 DEF FrameRefused, RasterFree, CanBind
<1>16. ASSUME NEW o \in Ids, FrameBegin(o) PROVE PhaseInv'
  BY <1>16 DEF FrameBegin, RasterFree, CanBind
<1>17. ASSUME EngineShutdown PROVE PhaseInv'
  BY <1>17 DEF EngineShutdown, Receives
<1>18. ASSUME VideoShutdown PROVE PhaseInv'
  BY <1>18 DEF VideoShutdown, Leftover, NothingToDestroy
<1>19. ASSUME EglShutdown PROVE PhaseInv'
  BY <1>19 DEF EglShutdown
<1>20. ASSUME NEW h \in Handles,
            CreateRefused(h) \/ DisposeUnknown(h) \/ MpvTerminate(h)
            \/ MpvCreate(h)
     PROVE PhaseInv'
  BY <1>20 DEF CreateRefused, DisposeUnknown, MpvTerminate, MpvCreate,
      Receives
<1>21. ASSUME Pump
     PROVE PhaseInv'
  BY <1>21 DEF Pump, Receives
<1>22. ASSUME NEW o \in Ids,
            MpvFrame(o) \/ MpvUpdateCallback(o)
     PROVE PhaseInv'
  BY <1>22 DEF MpvFrame, MpvUpdateCallback
<1>23. QED BY <1>1, <1>2, <1>3, <1>4, <1>5, <1>6, <1>7, <1>8, <1>9, <1>10,
       <1>11, <1>12, <1>13, <1>14, <1>15, <1>16, <1>17, <1>18, <1>19, <1>20,
       <1>21, <1>22 DEF Next, Channel, SizesOf, Raster

(* A task that answers has torn its output down. *)
LEMMA DoneStep == ASSUME ~DestroyFaults, IInv, Next PROVE DoneInv'
<1> USE VideoAssumption DEF listVars, glVars, flagVars, rasterVars,
      platformVars, textureVars, frameVars, dartVars, IInv, TypeOK, Ids, None,
      PhaseInv, DoneInv, TornDown
<1>1. ASSUME NEW h \in Handles, Dispose(h) PROVE DoneInv'
  BY <1>1 DEF Dispose, Receives, MutexFree, FindByHandle, Post
<1>2. ASSUME DisposeDone PROVE DoneInv'
  BY <1>2 DEF DisposeDone, MutexFree, EraseOutput, AnswerDispose, Post
<1>3. ASSUME DisposeTimeout PROVE DoneInv'
  BY <1>3 DEF DisposeTimeout, Abandon
<1>4. ASSUME DisposeDirect PROVE DoneInv'
  BY <1>4
  DEF DisposeDirect, MutexFree, DestroyOutputGl, FreeOutputGl,
      NothingToDestroy, CanBind, KeepZombie, AnswerDispose, Post
<1>5. ASSUME CreateOnRasterThread PROVE DoneInv'
  BY <1>5
  DEF CreateOnRasterThread, RasterFree, Creatable, FindByHandle,
      CreateRenderContext, CanBind
<1>6. ASSUME DisposeOnRasterThread PROVE DoneInv'
  BY <1>6, QueueHead
  DEF DisposeOnRasterThread, RasterFree, DestroyOutputGl, FreeOutputGl,
      NothingToDestroy, CanBind, OnlyRasterThreadBinds, QueueInv, IsDispose
<1>7. ASSUME SignalDone PROVE DoneInv'
  BY <1>7 DEF SignalDone
<1>8. ASSUME NEW o \in Ids, FrameBegin(o) PROVE DoneInv'
  BY <1>8 DEF FrameBegin, RasterFree, CanBind
<1>9. ASSUME FrameUnchanged PROVE DoneInv'
  BY <1>9 DEF FrameUnchanged, FrameReturns
<1>10. ASSUME FrameFails PROVE DoneInv'
  BY <1>10 DEF FrameFails, FrameReturns, NeedsCreate, NeedsResize
<1>11. ASSUME FrameRender PROVE DoneInv'
  BY <1>11 DEF FrameRender, FrameReturns, NeedsCreate, NeedsResize
<1>12. ASSUME NEW h \in Handles, MpvTerminate(h) PROVE DoneInv'
  BY <1>12 DEF MpvTerminate
<1>13. ASSUME VideoShutdown PROVE DoneInv'
  BY <1>13 DEF VideoShutdown, Leftover, NothingToDestroy
<1>14. ASSUME Pump PROVE DoneInv'
  BY <1>14 DEF Pump, Receives
<1>15. ASSUME UnregisterOnRasterThread PROVE DoneInv'
  BY <1>15 DEF UnregisterOnRasterThread, RasterFree
<1>16. ASSUME EngineShutdown PROVE DoneInv'
  BY <1>16 DEF EngineShutdown, Receives
<1>17. ASSUME EglShutdown PROVE DoneInv'
  BY <1>17 DEF EglShutdown
<1>18. ASSUME NEW h \in Handles,
            CreateAgain(h) \/ CreateRefused(h) \/ DisposeUnknown(h) \/
            MpvCreate(h)
     PROVE DoneInv'
  BY <1>18 DEF CreateAgain, CreateRefused, DisposeUnknown, MpvCreate
<1>19. ASSUME NEW h \in Handles, NEW s \in Sizes \cup {None},
            CreateNew(h, s)
     PROVE DoneInv'
  BY <1>19 DEF CreateNew
<1>20. ASSUME NEW h \in Handles, NEW s \in Sizes,
            SetSize(h, s)
     PROVE DoneInv'
  BY <1>20 DEF SetSize
<1>21. ASSUME NEW o \in Ids,
            FrameRefused(o) \/ MpvFrame(o) \/ MpvUpdateCallback(o)
     PROVE DoneInv'
  BY <1>21 DEF FrameRefused, MpvFrame, MpvUpdateCallback
<1>22. QED BY <1>1, <1>2, <1>3, <1>4, <1>5, <1>6, <1>7, <1>8, <1>9, <1>10,
       <1>11, <1>12, <1>13, <1>14, <1>15, <1>16, <1>17, <1>18, <1>19, <1>20,
       <1>21 DEF Next, Channel, SizesOf, Raster

(* Dispose tasks refer to marked outputs, and nothing comes after the one
   that is waited for. *)
LEMMA QueueStep == ASSUME ~DestroyFaults, IInv, Next PROVE QueueInv'
<1> USE VideoAssumption DEF listVars, glVars, flagVars, rasterVars,
      platformVars, textureVars, frameVars, dartVars, IInv, TypeOK, Ids, None,
      PhaseInv, QueueInv, IsDispose
<1>1. ASSUME NEW h \in Handles, CreateAgain(h) PROVE QueueInv'
  BY <1>1, QueueAppend DEF CreateAgain, Receives, Post
<1>2. ASSUME NEW h \in Handles, NEW s \in Sizes \cup {None}, CreateNew(h, s) PROVE QueueInv'
  BY <1>2, QueueAppend DEF CreateNew, Receives, FindByHandle, Post
<1>3. ASSUME NEW h \in Handles, Dispose(h) PROVE QueueInv'
  <2>1. PICK o \in outputs : /\ disposing' = [disposing EXCEPT ![o] = TRUE]
                             /\ pout' = o /\ pdone' = FALSE /\ ppc = "idle"
                             /\ \/ /\ ppc' = "waiting"
                                   /\ Post([kind |-> "dispose", arg |-> o])
                                \/ ppc' = "direct" /\ UNCHANGED queue
    BY <1>3 DEF Dispose, Receives, FindByHandle
  <2>2. UNCHANGED <<outputs, rpc>> /\ rpc # "signal"
    BY <1>3 DEF Dispose, Receives
  <2>3. CASE UNCHANGED queue
    BY <2>1, <2>2, <2>3
  <2>4. CASE ppc' = "waiting" /\ Post([kind |-> "dispose", arg |-> o])
    <3>1. [kind |-> "dispose", arg |-> o] \in Tasks
      BY DEF Tasks
    <3>2. /\ queue' = Append(queue, [kind |-> "dispose", arg |-> o])
          /\ DOMAIN queue = 1 .. Len(queue) /\ Len(queue) \in Nat
          /\ DOMAIN queue' = 1 .. (Len(queue) + 1)
          /\ \A i \in DOMAIN queue : queue'[i] = queue[i]
          /\ queue'[Len(queue) + 1] = [kind |-> "dispose", arg |-> o]
      BY <2>4, <3>1, QueueAppend DEF Post
    <3>3. \A i \in DOMAIN queue : queue[i].kind # "dispose"
      BY <2>1
    <3>4. \A i \in DOMAIN queue' : queue'[i].kind \in {"dispose", "late"} =>
             queue'[i].arg \in outputs' /\ disposing'[queue'[i].arg]
      <4>1. \A p \in outputs : disposing[p] => disposing'[p]
        BY <2>1
      <4>2. o \in outputs' /\ disposing'[o]
        BY <2>1, <2>2
      <4>3. SUFFICES ASSUME NEW i \in DOMAIN queue',
                            queue'[i].kind \in {"dispose", "late"}
                     PROVE  queue'[i].arg \in outputs' /\ disposing'[queue'[i].arg]
        OBVIOUS
      <4>4. CASE i \in DOMAIN queue
        BY <2>2, <3>2, <4>1, <4>3, <4>4
      <4>5. CASE i = Len(queue) + 1
        BY <3>2, <4>2, <4>5
      <4>6. QED BY <3>2, <4>4, <4>5
    <3>5. \A i \in DOMAIN queue' : queue'[i].kind = "dispose" => i = Len(queue) + 1
      BY <3>2, <3>3
    <3>6. QED BY <2>1, <2>2, <2>4, <3>2, <3>4, <3>5
  <2>5. QED BY <2>1, <2>3, <2>4
<1>4. ASSUME DisposeDone PROVE QueueInv'
  BY <1>4, QueueAppend
  DEF DisposeDone, MutexFree, EraseOutput, AnswerDispose, Post
<1>5. ASSUME DisposeTimeout PROVE QueueInv'
  BY <1>5, QueueAbandon DEF DisposeTimeout, Abandon
<1>6. ASSUME DisposeDirect PROVE QueueInv'
  BY <1>6, QueueAppend
  DEF DisposeDirect, MutexFree, DestroyOutputGl, FreeOutputGl,
      NothingToDestroy, CanBind, KeepZombie, AnswerDispose, Post
<1>7. ASSUME CreateOnRasterThread PROVE QueueInv'
  BY <1>7, QueueHead
  DEF CreateOnRasterThread, RasterFree, Creatable, FindByHandle,
      CreateRenderContext, CanBind
<1>8. ASSUME DisposeOnRasterThread PROVE QueueInv'
  BY <1>8, QueueHead
  DEF DisposeOnRasterThread, RasterFree, DestroyOutputGl, FreeOutputGl,
      NothingToDestroy, CanBind
<1>9. ASSUME SignalDone PROVE QueueInv'
  BY <1>9 DEF SignalDone
<1>10. ASSUME UnregisterOnRasterThread PROVE QueueInv'
  BY <1>10, QueueHead DEF UnregisterOnRasterThread, RasterFree
<1>11. ASSUME NEW o \in Ids, FrameBegin(o) PROVE QueueInv'
  BY <1>11 DEF FrameBegin, RasterFree, CanBind
<1>12. ASSUME FrameUnchanged PROVE QueueInv'
  BY <1>12 DEF FrameUnchanged, FrameReturns
<1>13. ASSUME FrameFails PROVE QueueInv'
  BY <1>13 DEF FrameFails, FrameReturns, NeedsCreate, NeedsResize
<1>14. ASSUME FrameRender PROVE QueueInv'
  BY <1>14 DEF FrameRender, FrameReturns, NeedsCreate, NeedsResize
<1>15. ASSUME EngineShutdown PROVE QueueInv'
  BY <1>15 DEF EngineShutdown, Receives
<1>16. ASSUME VideoShutdown PROVE QueueInv'
  BY <1>16 DEF VideoShutdown, Leftover, NothingToDestroy
<1>17. ASSUME NEW h \in Handles, CreateRefused(h) PROVE QueueInv'
  BY <1>17 DEF CreateRefused, Receives
<1>18. ASSUME NEW h \in Handles, DisposeUnknown(h) PROVE QueueInv'
  BY <1>18 DEF DisposeUnknown, FindByHandle
<1>19. ASSUME NEW h \in Handles, MpvTerminate(h) PROVE QueueInv'
  BY <1>19 DEF MpvTerminate
<1>20. ASSUME NEW h \in Handles, MpvCreate(h) PROVE QueueInv'
  BY <1>20 DEF MpvCreate
<1>21. ASSUME NEW o \in Ids, FrameRefused(o) PROVE QueueInv'
  BY <1>21 DEF FrameRefused, RasterFree, CanBind
<1>22. ASSUME NEW o \in Ids, MpvFrame(o) PROVE QueueInv'
  BY <1>22 DEF MpvFrame
<1>23. ASSUME NEW o \in Ids, MpvUpdateCallback(o) PROVE QueueInv'
  BY <1>23 DEF MpvUpdateCallback
<1>24. ASSUME NEW h \in Handles, NEW s \in Sizes,
            SetSize(h, s)
     PROVE QueueInv'
  BY <1>24 DEF SetSize
<1>25. ASSUME Pump PROVE QueueInv'
  BY <1>25 DEF Pump
<1>26. ASSUME EglShutdown PROVE QueueInv'
  BY <1>26 DEF EglShutdown
<1>27. QED BY <1>1, <1>2, <1>3, <1>4, <1>5, <1>6, <1>7, <1>8, <1>9, <1>10,
       <1>11, <1>12, <1>13, <1>14, <1>15, <1>16, <1>17, <1>18, <1>19, <1>20,
       <1>21, <1>22, <1>23, <1>24, <1>25, <1>26 DEF Next, Channel, SizesOf, Raster

(* Unmarked outputs belong to live players. *)
LEMMA PlayerStep == ASSUME ~DestroyFaults, IInv, Next PROVE (ContextHasPlayer /\ PlayerInv)'
<1> USE VideoAssumption DEF listVars, glVars, flagVars, rasterVars,
      platformVars, textureVars, frameVars, dartVars, IInv, TypeOK, Ids, None,
      OneOutputPerHandle, ListInv, PhaseInv, ContextHasPlayer, PlayerInv
<1>1. ASSUME NEW h \in Handles, CreateAgain(h) PROVE (ContextHasPlayer /\ PlayerInv)'
  BY <1>1 DEF CreateAgain, Receives
<1>2. ASSUME NEW h \in Handles, NEW s \in Sizes \cup {None}, CreateNew(h, s) PROVE (ContextHasPlayer /\ PlayerInv)'
  BY <1>2 DEF CreateNew, Receives, FindByHandle, Post
<1>3. ASSUME NEW h \in Handles, Dispose(h) PROVE (ContextHasPlayer /\ PlayerInv)'
  BY <1>3 DEF Dispose, Receives, MutexFree, FindByHandle, Post
<1>4. ASSUME NEW h \in Handles, DisposeUnknown(h) PROVE (ContextHasPlayer /\ PlayerInv)'
  BY <1>4 DEF DisposeUnknown, FindByHandle
<1>5. ASSUME DisposeDone PROVE (ContextHasPlayer /\ PlayerInv)'
  BY <1>5
  DEF DisposeDone, MutexFree, EraseOutput, AnswerDispose, Post, DoneInv,
      TornDown
<1>6. ASSUME DisposeDirect PROVE (ContextHasPlayer /\ PlayerInv)'
  BY <1>6
  DEF DisposeDirect, MutexFree, DestroyOutputGl, FreeOutputGl,
      NothingToDestroy, CanBind, KeepZombie, AnswerDispose, Post
<1>7. ASSUME CreateOnRasterThread PROVE (ContextHasPlayer /\ PlayerInv)'
  BY <1>7
  DEF CreateOnRasterThread, RasterFree, Creatable, FindByHandle,
      CreateRenderContext, CanBind
<1>8. ASSUME DisposeOnRasterThread PROVE (ContextHasPlayer /\ PlayerInv)'
  BY <1>8, QueueHead
  DEF DisposeOnRasterThread, RasterFree, DestroyOutputGl, FreeOutputGl,
      NothingToDestroy, CanBind
<1>9. ASSUME FrameFails PROVE (ContextHasPlayer /\ PlayerInv)'
  BY <1>9 DEF FrameFails, FrameReturns, NeedsCreate, NeedsResize
<1>10. ASSUME FrameRender PROVE (ContextHasPlayer /\ PlayerInv)'
  BY <1>10 DEF FrameRender, FrameReturns, NeedsCreate, NeedsResize
<1>11. ASSUME NEW h \in Handles, MpvTerminate(h) PROVE (ContextHasPlayer /\ PlayerInv)'
  BY <1>11 DEF MpvTerminate
<1>12. ASSUME NEW h \in Handles, MpvCreate(h) PROVE (ContextHasPlayer /\ PlayerInv)'
  BY <1>12 DEF MpvCreate
<1>13. ASSUME VideoShutdown PROVE (ContextHasPlayer /\ PlayerInv)'
  BY <1>13 DEF VideoShutdown, Leftover, NothingToDestroy
<1>14. ASSUME DisposeTimeout PROVE (ContextHasPlayer /\ PlayerInv)'
  BY <1>14 DEF DisposeTimeout, Abandon
<1>15. ASSUME Pump PROVE (ContextHasPlayer /\ PlayerInv)'
  BY <1>15 DEF Pump, Receives
<1>16. ASSUME SignalDone PROVE (ContextHasPlayer /\ PlayerInv)'
  BY <1>16 DEF SignalDone
<1>17. ASSUME UnregisterOnRasterThread PROVE (ContextHasPlayer /\ PlayerInv)'
  BY <1>17 DEF UnregisterOnRasterThread, RasterFree
<1>18. ASSUME NEW o \in Ids, FrameRefused(o) PROVE (ContextHasPlayer /\ PlayerInv)'
  BY <1>18 DEF FrameRefused, RasterFree, CanBind
<1>19. ASSUME NEW o \in Ids, FrameBegin(o) PROVE (ContextHasPlayer /\ PlayerInv)'
  BY <1>19 DEF FrameBegin, RasterFree, CanBind
<1>20. ASSUME NEW o \in Ids, MpvFrame(o) PROVE (ContextHasPlayer /\ PlayerInv)'
  BY <1>20 DEF MpvFrame
<1>21. ASSUME NEW o \in Ids, MpvUpdateCallback(o) PROVE (ContextHasPlayer /\ PlayerInv)'
  BY <1>21 DEF MpvUpdateCallback
<1>22. ASSUME FrameUnchanged PROVE (ContextHasPlayer /\ PlayerInv)'
  BY <1>22 DEF FrameUnchanged, FrameReturns
<1>23. ASSUME EngineShutdown PROVE (ContextHasPlayer /\ PlayerInv)'
  BY <1>23 DEF EngineShutdown, Receives
<1>24. ASSUME EglShutdown PROVE (ContextHasPlayer /\ PlayerInv)'
  BY <1>24 DEF EglShutdown
<1>25. ASSUME NEW h \in Handles,
            CreateRefused(h)
     PROVE (ContextHasPlayer /\ PlayerInv)'
  BY <1>25 DEF CreateRefused
<1>26. ASSUME NEW h \in Handles, NEW s \in Sizes,
            SetSize(h, s)
     PROVE (ContextHasPlayer /\ PlayerInv)'
  BY <1>26 DEF SetSize
<1>27. QED BY <1>1, <1>2, <1>3, <1>4, <1>5, <1>6, <1>7, <1>8, <1>9, <1>10,
       <1>11, <1>12, <1>13, <1>14, <1>15, <1>16, <1>17, <1>18, <1>19, <1>20,
       <1>21, <1>22, <1>23, <1>24, <1>25, <1>26 DEF Next, Channel, SizesOf, Raster

(* The context stays with the raster thread while the engine runs. *)
LEMMA BindStep == ASSUME ~DestroyFaults, IInv, Next PROVE OnlyRasterThreadBinds'
<1> USE VideoAssumption DEF listVars, glVars, flagVars, rasterVars,
      platformVars, textureVars, frameVars, dartVars, IInv, TypeOK, Ids, None,
      PhaseInv, OnlyRasterThreadBinds
<1>1. ASSUME DisposeDirect PROVE OnlyRasterThreadBinds'
  BY <1>1
  DEF DisposeDirect, MutexFree, DestroyOutputGl, FreeOutputGl,
      NothingToDestroy, CanBind, KeepZombie, AnswerDispose, Post
<1>2. ASSUME CreateOnRasterThread PROVE OnlyRasterThreadBinds'
  BY <1>2
  DEF CreateOnRasterThread, RasterFree, Creatable, FindByHandle,
      CreateRenderContext, CanBind
<1>3. ASSUME DisposeOnRasterThread PROVE OnlyRasterThreadBinds'
  BY <1>3, QueueHead
  DEF DisposeOnRasterThread, RasterFree, DestroyOutputGl, FreeOutputGl,
      NothingToDestroy, CanBind
<1>4. ASSUME NEW o \in Ids, FrameRefused(o) PROVE OnlyRasterThreadBinds'
  BY <1>4 DEF FrameRefused, RasterFree, CanBind
<1>5. ASSUME NEW o \in Ids, FrameBegin(o) PROVE OnlyRasterThreadBinds'
  BY <1>5 DEF FrameBegin, RasterFree, CanBind
<1>6. ASSUME FrameFails PROVE OnlyRasterThreadBinds'
  BY <1>6 DEF FrameFails, FrameReturns, NeedsCreate, NeedsResize
<1>7. ASSUME FrameRender PROVE OnlyRasterThreadBinds'
  BY <1>7 DEF FrameRender, FrameReturns, NeedsCreate, NeedsResize
<1>8. ASSUME NEW h \in Handles, MpvTerminate(h) PROVE OnlyRasterThreadBinds'
  BY <1>8 DEF MpvTerminate
<1>9. ASSUME EngineShutdown PROVE OnlyRasterThreadBinds'
  BY <1>9 DEF EngineShutdown, Receives
<1>10. ASSUME VideoShutdown PROVE OnlyRasterThreadBinds'
  BY <1>10 DEF VideoShutdown, Leftover, NothingToDestroy
<1>11. ASSUME EglShutdown PROVE OnlyRasterThreadBinds'
  BY <1>11 DEF EglShutdown
<1>12. ASSUME NEW h \in Handles,
            CreateAgain(h) \/ CreateRefused(h) \/ Dispose(h) \/
            DisposeUnknown(h) \/ MpvCreate(h)
     PROVE OnlyRasterThreadBinds'
  BY <1>12 DEF CreateAgain, CreateRefused, Dispose, DisposeUnknown, MpvCreate
<1>13. ASSUME NEW h \in Handles, NEW s \in Sizes \cup {None},
            CreateNew(h, s)
     PROVE OnlyRasterThreadBinds'
  BY <1>13 DEF CreateNew
<1>14. ASSUME NEW h \in Handles, NEW s \in Sizes,
            SetSize(h, s)
     PROVE OnlyRasterThreadBinds'
  BY <1>14 DEF SetSize
<1>15. ASSUME DisposeDone \/ DisposeTimeout \/ Pump \/ SignalDone \/
            UnregisterOnRasterThread \/ FrameUnchanged
     PROVE OnlyRasterThreadBinds'
  BY <1>15 DEF DisposeDone, DisposeTimeout, Pump, SignalDone,
      UnregisterOnRasterThread, FrameUnchanged
<1>16. ASSUME NEW o \in Ids,
            MpvFrame(o) \/ MpvUpdateCallback(o)
     PROVE OnlyRasterThreadBinds'
  BY <1>16 DEF MpvFrame, MpvUpdateCallback
<1>17. QED BY <1>1, <1>2, <1>3, <1>4, <1>5, <1>6, <1>7, <1>8, <1>9, <1>10,
       <1>11, <1>12, <1>13, <1>14, <1>15, <1>16 DEF Next, Channel, SizesOf, Raster

(* What the shutdown leaves behind is empty, and stays so. *)
LEMMA ShutdownStep == ASSUME ~DestroyFaults, IInv, Next PROVE ShutdownReleases'
<1> USE VideoAssumption DEF listVars, glVars, flagVars, rasterVars,
      platformVars, textureVars, frameVars, dartVars, IInv, TypeOK, Ids, None,
      ListInv, PhaseInv, ShutdownReleases
<1>1. ASSUME NEW h \in Handles, Dispose(h) PROVE ShutdownReleases'
  BY <1>1 DEF Dispose, Receives, MutexFree, FindByHandle, Post
<1>2. ASSUME NEW h \in Handles, NEW s \in Sizes \cup {None}, CreateNew(h, s) PROVE ShutdownReleases'
  BY <1>2 DEF CreateNew, Receives, FindByHandle, Post
<1>3. ASSUME DisposeDone PROVE ShutdownReleases'
  BY <1>3 DEF DisposeDone, MutexFree, EraseOutput, AnswerDispose, Post
<1>4. ASSUME DisposeTimeout PROVE ShutdownReleases'
  BY <1>4 DEF DisposeTimeout, Abandon
<1>5. ASSUME DisposeDirect PROVE ShutdownReleases'
  BY <1>5
  DEF DisposeDirect, MutexFree, DestroyOutputGl, FreeOutputGl,
      NothingToDestroy, CanBind, KeepZombie, AnswerDispose, Post
<1>6. ASSUME CreateOnRasterThread PROVE ShutdownReleases'
  BY <1>6
  DEF CreateOnRasterThread, RasterFree, Creatable, FindByHandle,
      CreateRenderContext, CanBind
<1>7. ASSUME DisposeOnRasterThread PROVE ShutdownReleases'
  BY <1>7
  DEF DisposeOnRasterThread, RasterFree, DestroyOutputGl, FreeOutputGl,
      NothingToDestroy, CanBind
<1>8. ASSUME SignalDone PROVE ShutdownReleases'
  BY <1>8 DEF SignalDone
<1>9. ASSUME UnregisterOnRasterThread PROVE ShutdownReleases'
  BY <1>9 DEF UnregisterOnRasterThread, RasterFree
<1>10. ASSUME FrameUnchanged PROVE ShutdownReleases'
  BY <1>10 DEF FrameUnchanged, FrameReturns
<1>11. ASSUME FrameFails PROVE ShutdownReleases'
  BY <1>11 DEF FrameFails, FrameReturns, NeedsCreate, NeedsResize
<1>12. ASSUME FrameRender PROVE ShutdownReleases'
  BY <1>12 DEF FrameRender, FrameReturns, NeedsCreate, NeedsResize
<1>13. ASSUME NEW o \in Ids, FrameRefused(o) PROVE ShutdownReleases'
  BY <1>13 DEF FrameRefused, RasterFree, CanBind
<1>14. ASSUME NEW o \in Ids, FrameBegin(o) PROVE ShutdownReleases'
  BY <1>14 DEF FrameBegin, RasterFree, CanBind
<1>15. ASSUME NEW o \in Ids, MpvFrame(o) PROVE ShutdownReleases'
  BY <1>15 DEF MpvFrame
<1>16. ASSUME NEW o \in Ids, MpvUpdateCallback(o) PROVE ShutdownReleases'
  BY <1>16 DEF MpvUpdateCallback
<1>17. ASSUME NEW h \in Handles, MpvTerminate(h) PROVE ShutdownReleases'
  BY <1>17 DEF MpvTerminate
<1>18. ASSUME EngineShutdown PROVE ShutdownReleases'
  BY <1>18 DEF EngineShutdown, Receives
<1>19. ASSUME VideoShutdown PROVE ShutdownReleases'
  BY <1>19 DEF VideoShutdown, Leftover, NothingToDestroy
<1>20. ASSUME EglShutdown PROVE ShutdownReleases'
  BY <1>20 DEF EglShutdown
<1>21. ASSUME NEW h \in Handles,
            CreateAgain(h) \/ CreateRefused(h) \/ DisposeUnknown(h) \/
            MpvCreate(h)
     PROVE ShutdownReleases'
  BY <1>21 DEF CreateAgain, CreateRefused, DisposeUnknown, MpvCreate, Receives
<1>22. ASSUME NEW h \in Handles, NEW s \in Sizes,
            SetSize(h, s)
     PROVE ShutdownReleases'
  BY <1>22 DEF SetSize, Receives
<1>23. ASSUME Pump
     PROVE ShutdownReleases'
  BY <1>23 DEF Pump, Receives
<1>24. QED BY <1>1, <1>2, <1>3, <1>4, <1>5, <1>6, <1>7, <1>8, <1>9, <1>10,
       <1>11, <1>12, <1>13, <1>14, <1>15, <1>16, <1>17, <1>18, <1>19, <1>20,
       <1>21, <1>22, <1>23 DEF Next, Channel, SizesOf, Raster

-----------------------------------------------------------------------------
(* Nothing is listed, posted or bound at the start.                        *)
LEMMA InitIInv == Init => IInv
<1> SUFFICES ASSUME Init PROVE IInv
  OBVIOUS
<1> USE VideoAssumption DEF Init, Ids, None
<1>1. TypeOK
  <2>1. /\ outputs \subseteq Ids /\ nextId \in 1 .. (MaxId + 1)
        /\ queue \in Seq(Tasks)
    OBVIOUS
  <2>2. /\ handle \in [Ids -> Handles \cup {None}]
        /\ pending \in [Ids -> Sizes \cup {None}]
        /\ size \in [Ids -> Sizes \cup {None}]
        /\ mpv \in [Handles -> BOOLEAN]
        /\ reported \in [Handles -> Ids \cup {None}]
    OBVIOUS
  <2>3. QED BY <2>1, <2>2 DEF TypeOK
<1>2. OneOutputPerHandle /\ OnlyRasterThreadBinds /\ ContextHasPlayer
  BY DEF OneOutputPerHandle, OnlyRasterThreadBinds, ContextHasPlayer
<1>3. ShutdownReleases /\ ListInv /\ PhaseInv
  BY DEF ShutdownReleases, ListInv, PhaseInv
<1>4. DoneInv /\ QueueInv /\ PlayerInv
  BY DEF DoneInv, QueueInv, PlayerInv
<1>5. QED BY <1>1, <1>2, <1>3, <1>4 DEF IInv

(* A stutter keeps the invariant.                                          *)
LEMMA StutterIInv == ASSUME IInv, UNCHANGED vars PROVE IInv'
BY DEF vars, listVars, glVars, flagVars, rasterVars, platformVars, textureVars,
       frameVars, dartVars, IInv, TypeOK, OneOutputPerHandle,
       OnlyRasterThreadBinds, ContextHasPlayer, ShutdownReleases, ListInv,
       PhaseInv, DoneInv, QueueInv, IsDispose, TornDown, PlayerInv

(* The strengthened invariant holds in every state the bridge can be in.   *)
THEOREM Invariance == ASSUME ~DestroyFaults PROVE Safety => []IInv
<1>1. IInv /\ [Next]_vars => IInv'
  <2> SUFFICES ASSUME IInv, [Next]_vars PROVE IInv'
    OBVIOUS
  <2>1. CASE Next
    <3>1. TypeOK' /\ OneOutputPerHandle'
      BY <2>1, TypeStep, OneStep DEF IInv
    <3>2. QED BY <2>1, <3>1, ListStep, PhaseStep, DoneStep, QueueStep,
                 PlayerStep, BindStep, ShutdownStep DEF IInv
  <2>2. CASE UNCHANGED vars
    BY <2>2, StutterIInv
  <2>3. QED BY <2>1, <2>2
<1>2. QED BY <1>1, InitIInv, PTL DEF Safety

(* All variables keep their types, and each thread's program counter       *)
(* agrees with its locals.                                                 *)
THEOREM Typing == ASSUME ~DestroyFaults PROVE Safety => []TypeOK
<1>1. IInv => TypeOK
  BY DEF IInv
<1>2. QED BY <1>1, Invariance, PTL

(* mpv never calls back into a freed output, and no dispose task, however  *)
(* late, works on one.                                                     *)
THEOREM NoUseAfterFree ==
  ASSUME ~DestroyFaults PROVE Safety => [](CallbackTargetAlive /\ TaskTargetAlive)
<1>1. IInv => CallbackTargetAlive /\ TaskTargetAlive
  BY DEF IInv, ListInv, QueueInv, IsDispose, CallbackTargetAlive,
         TaskTargetAlive, Targets
<1>2. QED BY <1>1, Invariance, PTL

(* GL work stays with the raster thread as long as the engine runs.        *)
THEOREM SingleGlThread == ASSUME ~DestroyFaults PROVE Safety => []OnlyRasterThreadBinds
<1>1. IInv => OnlyRasterThreadBinds
  BY DEF IInv
<1>2. QED BY <1>1, Invariance, PTL

(* No render context is made for a destroyed player, and a handle names at *)
(* most one output.                                                        *)
THEOREM PlayersKept ==
  ASSUME ~DestroyFaults PROVE Safety => [](ContextHasPlayer /\ OneOutputPerHandle)
<1>1. IInv => ContextHasPlayer /\ OneOutputPerHandle
  BY DEF IInv
<1>2. QED BY <1>1, Invariance, PTL

(* The shutdown frees what Dispose requests have left.                     *)
THEOREM CleanShutdown == ASSUME ~DestroyFaults PROVE Safety => []ShutdownReleases
<1>1. IInv => ShutdownReleases
  BY DEF IInv
<1>2. QED BY <1>1, Invariance, PTL

(* No dispose task, queued or given up, refers to an output that was freed. *)
THEOREM TaskTargetsLive == ASSUME ~DestroyFaults PROVE Safety => []TaskTargetAlive
BY NoUseAfterFree, PTL

(* The handle of a player finds one output or none.                        *)
THEOREM HandlesName == ASSUME ~DestroyFaults PROVE Safety => []OneOutputPerHandle
BY PlayersKept, PTL

-----------------------------------------------------------------------------
(* The texture on display belongs to a listed output of the handle, which  *)
(* is not the one the platform thread waits for.                           *)
ShownIsListed ==
  \A h \in Handles : reported[h] # None /\ engine = "running" =>
    /\ reported[h] \in outputs /\ handle[reported[h]] = h
    /\ pout # reported[h]

(* Only an answer to Create or SetSize puts a texture on display, and a    *)
(* Dispose takes that of its own handle away.                              *)
LEMMA ShownStep ==
  ASSUME IInv, ShownIsListed, [Next]_vars
  PROVE  ShownIsListed'
<1> USE VideoAssumption DEF listVars, platformVars, dartVars, Ids, None,
      ShownIsListed
<1> DEFINE Fixed == UNCHANGED <<outputs, handle, pout, reported>>
<1>1. TypeOK /\ OneOutputPerHandle /\ (ppc # "idle" => pout \in outputs)
  BY DEF IInv, PhaseInv
<1>2. ASSUME Fixed, engine' = "running" => engine = "running"
      PROVE  ShownIsListed'
  BY <1>2
<1>3. ASSUME engine' # "running" PROVE ShownIsListed'
  BY <1>3
<1>4. ASSUME NEW h \in Handles, CreateAgain(h) \/ \E s \in Sizes : SetSize(h, s)
      PROVE  ShownIsListed'
  <2>1. PICK o \in FindByHandle(h) : reported' = [reported EXCEPT ![h] = o]
    BY <1>4 DEF CreateAgain, SetSize
  <2>2. /\ UNCHANGED <<outputs, handle, pout, engine>> /\ pout = None
    BY <1>1, <1>4 DEF CreateAgain, SetSize, Receives, TypeOK
  <2>3. o \in outputs /\ handle[o] = h /\ o # None /\ o \in Ids
    BY <1>1 DEF FindByHandle, TypeOK
  <2> QED BY <1>1, <2>1, <2>2, <2>3 DEF TypeOK
<1>5. ASSUME NEW h \in Handles, NEW s \in Sizes \cup {None}, CreateNew(h, s)
      PROVE  ShownIsListed'
  <2>1. /\ outputs' = outputs \cup {nextId}
        /\ handle' = [handle EXCEPT ![nextId] = h]
        /\ reported' = [reported EXCEPT ![h] = nextId]
        /\ UNCHANGED <<pout, engine>> /\ pout = None /\ nextId \in Ids
    BY <1>1, <1>5 DEF CreateNew, Receives, TypeOK
  <2>2. nextId \notin outputs /\ nextId # None
    BY <2>1 DEF IInv, ListInv
  <2> QED BY <1>1, <2>1, <2>2 DEF TypeOK
<1>6. ASSUME NEW h \in Handles, Dispose(h) PROVE ShownIsListed'
  <2>1. PICK o \in FindByHandle(h) : pout' = o
    BY <1>6 DEF Dispose
  <2>2. /\ UNCHANGED <<outputs, handle, engine>>
        /\ reported' = [reported EXCEPT ![h] = None]
    BY <1>6 DEF Dispose
  <2>3. handle[o] = h
    BY DEF FindByHandle
  <2> QED BY <1>1, <2>1, <2>2, <2>3 DEF TypeOK
<1>7. ASSUME NEW h \in Handles, DisposeUnknown(h) PROVE ShownIsListed'
  <2>1. /\ UNCHANGED <<outputs, handle, pout, engine>>
        /\ reported' = [reported EXCEPT ![h] = None]
    BY <1>7 DEF DisposeUnknown
  <2> QED BY <1>1, <2>1 DEF TypeOK
<1>8. CASE DisposeDone
  <2>1. /\ outputs' = outputs \ {pout} /\ handle' = [handle EXCEPT ![pout] = None]
        /\ pout' = None /\ UNCHANGED <<reported, engine>>
    BY <1>8 DEF DisposeDone, EraseOutput, AnswerDispose
  <2> QED BY <1>1, <2>1 DEF TypeOK
<1>9. CASE DisposeDirect
  <2>1. /\ pout' = None /\ UNCHANGED <<outputs, handle, reported, engine>>
    BY <1>9 DEF DisposeDirect, KeepZombie, AnswerDispose
  <2> QED BY <1>1, <2>1 DEF TypeOK
<1>10. CASE EngineShutdown \/ VideoShutdown \/ EglShutdown
  BY <1>3, <1>10 DEF EngineShutdown, VideoShutdown, EglShutdown
<1>11. ASSUME NEW h \in Handles, CreateRefused(h) \/ MpvTerminate(h) \/ MpvCreate(h)
       PROVE  ShownIsListed'
  BY <1>2, <1>11 DEF CreateRefused, MpvTerminate, MpvCreate
<1>12. ASSUME NEW o \in Ids,
              FrameRefused(o) \/ FrameBegin(o) \/ MpvFrame(o) \/ MpvUpdateCallback(o)
       PROVE  ShownIsListed'
  BY <1>2, <1>12 DEF FrameRefused, FrameBegin, MpvFrame, MpvUpdateCallback
<1>13. CASE DisposeTimeout \/ Pump \/ Raster
  BY <1>2, <1>13
     DEF DisposeTimeout, Pump, Raster, CreateOnRasterThread, DisposeOnRasterThread,
         SignalDone, UnregisterOnRasterThread, FrameUnchanged, FrameFails, FrameRender
<1>14. CASE UNCHANGED vars
  BY <1>2, <1>14 DEF vars
<1> QED BY <1>4, <1>5, <1>6, <1>7, <1>8, <1>9, <1>10, <1>11, <1>12, <1>13, <1>14
        DEF Next, Channel, SizesOf

(* The engine knows the texture of every listed output nobody disposes of, *)
(* and the tasks that take a texture away are for the other outputs only.  *)
IsUnregister(i) == queue[i].kind = "unregister"

TextureInv ==
  engine = "running" =>
    /\ \A o \in outputs : ~disposing[o] => o \in registered
    /\ \A i \in DOMAIN queue : IsUnregister(i) =>
         /\ queue[i].arg < nextId
         /\ queue[i].arg \in outputs => disposing[queue[i].arg]

(* Only a Dispose, which marks its output first, has a texture taken away. *)
LEMMA TextureStep ==
  ASSUME IInv, TextureInv, [Next]_vars
  PROVE  TextureInv'
<1> USE VideoAssumption DEF listVars, glVars, flagVars, rasterVars,
      platformVars, textureVars, frameVars, dartVars, Ids, None, TextureInv,
      IsUnregister
<1>1. TypeOK /\ (ppc # "idle" => pout \in outputs /\ disposing[pout])
  BY DEF IInv, PhaseInv
<1>2. ASSUME UNCHANGED <<outputs, disposing, registered, nextId, queue>>,
             engine' = "running" => engine = "running"
      PROVE  TextureInv'
  BY <1>2
<1>3. ASSUME engine' # "running" PROVE TextureInv'
  BY <1>3
<1>4. ASSUME NEW h \in Handles, CreateAgain(h) PROVE TextureInv'
  <2>1. /\ queue' = Append(queue, [kind |-> "create", arg |-> h])
        /\ [kind |-> "create", arg |-> h] \in Tasks
        /\ UNCHANGED <<outputs, disposing, registered, nextId, engine>>
    BY <1>4 DEF CreateAgain, Post, Tasks
  <2> QED BY <1>1, <2>1, QueueAppend DEF TypeOK
<1>5. ASSUME NEW h \in Handles, NEW s \in Sizes \cup {None}, CreateNew(h, s)
      PROVE  TextureInv'
  <2>1. /\ queue' = Append(queue, [kind |-> "create", arg |-> h])
        /\ [kind |-> "create", arg |-> h] \in Tasks
        /\ outputs' = outputs \cup {nextId} /\ nextId' = nextId + 1
        /\ registered' = registered \cup {nextId}
        /\ UNCHANGED <<disposing, engine>>
    BY <1>5 DEF CreateNew, Post, Tasks
  <2>2. nextId \in Int
    BY <1>1 DEF TypeOK
  <2>3. \A i \in DOMAIN queue : queue'[i] = queue[i]
    BY <1>1, <2>1, QueueAppend DEF TypeOK
  <2>4. \A i \in DOMAIN queue' : i \in DOMAIN queue \/ queue'[i].kind = "create"
    BY <1>1, <2>1, QueueAppend DEF TypeOK
  <2>5. \A i \in DOMAIN queue : IsUnregister(i) => queue[i].arg \in Ids
    BY <1>1 DEF TypeOK, Tasks
  <2> QED BY <1>1, <2>1, <2>2, <2>3, <2>4, <2>5 DEF TypeOK
<1>6. ASSUME NEW h \in Handles, CreateRefused(h) PROVE TextureInv'
  <2>1. /\ nextId' = nextId + 1 /\ nextId \in Int
        /\ UNCHANGED <<outputs, disposing, registered, queue, engine>>
    BY <1>1, <1>6 DEF CreateRefused, TypeOK
  <2>2. \A i \in DOMAIN queue : IsUnregister(i) => queue[i].arg \in Ids
    BY <1>1 DEF TypeOK, Tasks
  <2> QED BY <2>1, <2>2
<1>7. ASSUME NEW h \in Handles, Dispose(h) PROVE TextureInv'
  <2>1. PICK o \in FindByHandle(h) :
          /\ disposing' = [disposing EXCEPT ![o] = TRUE]
          /\ \/ Post([kind |-> "dispose", arg |-> o])
             \/ UNCHANGED queue
    BY <1>7 DEF Dispose
  <2>2. /\ UNCHANGED <<outputs, registered, nextId, engine>>
        /\ o \in Ids /\ [kind |-> "dispose", arg |-> o] \in Tasks
    BY <1>1, <1>7 DEF Dispose, FindByHandle, TypeOK, Tasks
  <2>3. \A p \in Ids : disposing[p] => disposing'[p]
    BY <1>1, <2>1 DEF TypeOK
  <2>4. /\ \A i \in DOMAIN queue : i \in DOMAIN queue' /\ queue'[i] = queue[i]
        /\ \A i \in DOMAIN queue' : i \in DOMAIN queue \/ queue'[i].kind = "dispose"
    <3>1. CASE queue' = queue
      BY <3>1
    <3>2. CASE queue' = Append(queue, [kind |-> "dispose", arg |-> o])
      <4>1. /\ DOMAIN queue' = 1 .. (Len(queue) + 1)
            /\ DOMAIN queue = 1 .. Len(queue) /\ Len(queue) \in Nat
            /\ \A i \in DOMAIN queue : queue'[i] = queue[i]
            /\ queue'[Len(queue) + 1] = [kind |-> "dispose", arg |-> o]
        BY <1>1, <2>2, <3>2, QueueAppend DEF TypeOK
      <4> QED BY <4>1
    <3> QED BY <2>1, <3>1, <3>2 DEF Post
  <2> QED BY <1>1, <2>2, <2>3, <2>4 DEF TypeOK
<1>8. CASE DisposeDone
  <2>1. /\ queue' = Append(queue, [kind |-> "unregister", arg |-> pout])
        /\ outputs' = outputs \ {pout}
        /\ disposing' = [disposing EXCEPT ![pout] = FALSE]
        /\ UNCHANGED <<registered, nextId, engine>>
    BY <1>8 DEF DisposeDone, Post, EraseOutput
  <2>2. pout \in outputs /\ pout < nextId /\ pout \in Ids
    BY <1>1, <1>8 DEF DisposeDone, IInv, ListInv, TypeOK
  <2>3. [kind |-> "unregister", arg |-> pout] \in Tasks
    BY <2>2 DEF Tasks
  <2>4. /\ \A i \in DOMAIN queue : queue'[i] = queue[i]
        /\ \A i \in DOMAIN queue' :
             \/ i \in DOMAIN queue
             \/ queue'[i] = [kind |-> "unregister", arg |-> pout]
    BY <1>1, <2>1, <2>3, QueueAppend DEF TypeOK
  <2>5. \A o \in outputs' : disposing'[o] = disposing[o]
    BY <1>1, <2>1 DEF TypeOK
  <2> QED BY <2>1, <2>2, <2>4, <2>5
<1>9. CASE DisposeDirect
  <2>1. /\ queue' = Append(queue, [kind |-> "unregister", arg |-> pout])
        /\ UNCHANGED <<outputs, disposing, registered, nextId, engine>>
    BY <1>9 DEF DisposeDirect, Post, KeepZombie
  <2>2. /\ pout \in outputs /\ disposing[pout] /\ pout < nextId
        /\ [kind |-> "unregister", arg |-> pout] \in Tasks
    BY <1>1, <1>9 DEF DisposeDirect, IInv, ListInv, TypeOK, Tasks
  <2>3. \A i \in DOMAIN queue' :
          \/ i \in DOMAIN queue /\ queue'[i] = queue[i]
          \/ queue'[i] = [kind |-> "unregister", arg |-> pout]
    BY <1>1, <2>1, <2>2, QueueAppend DEF TypeOK
  <2> QED BY <2>1, <2>2, <2>3
<1>10. CASE DisposeTimeout
  <2>1. /\ queue' = [i \in DOMAIN queue |-> Abandon(queue[i])]
        /\ UNCHANGED <<outputs, disposing, registered, nextId, engine>>
    BY <1>10 DEF DisposeTimeout
  <2>2. \A i \in DOMAIN queue : /\ queue'[i].arg = queue[i].arg
                                /\ IsUnregister(i)' => IsUnregister(i)
    BY <2>1 DEF Abandon
  <2> QED BY <2>1, <2>2
<1>11. CASE CreateOnRasterThread \/ DisposeOnRasterThread
  <2>1. /\ queue # <<>> /\ queue' = Tail(queue)
        /\ UNCHANGED <<outputs, disposing, registered, nextId, engine>>
    BY <1>11 DEF CreateOnRasterThread, CreateRenderContext, DisposeOnRasterThread
  <2> QED BY <1>1, <2>1, QueueHead DEF TypeOK
<1>12. CASE UnregisterOnRasterThread
  <2>1. /\ queue # <<>> /\ queue' = Tail(queue)
        /\ registered' = registered \ {Head(queue).arg}
        /\ Head(queue).kind = "unregister"
        /\ UNCHANGED <<outputs, disposing, nextId, engine>>
    BY <1>12 DEF UnregisterOnRasterThread
  <2>2. /\ Head(queue) = queue[1] /\ 1 \in DOMAIN queue
        /\ \A i \in DOMAIN queue' : i + 1 \in DOMAIN queue /\ queue'[i] = queue[i + 1]
    BY <1>1, <2>1, QueueHead DEF TypeOK
  <2>3. engine = "running" => \A o \in outputs : ~disposing[o] => o # Head(queue).arg
    BY <2>1, <2>2
  <2> QED BY <2>1, <2>2, <2>3
<1>13. CASE EngineShutdown \/ VideoShutdown \/ EglShutdown
  BY <1>3, <1>13 DEF EngineShutdown, VideoShutdown, EglShutdown
<1>14. ASSUME NEW h \in Handles,
              \/ DisposeUnknown(h) \/ MpvTerminate(h) \/ MpvCreate(h)
              \/ \E s \in Sizes : SetSize(h, s)
       PROVE  TextureInv'
  BY <1>2, <1>14 DEF DisposeUnknown, MpvTerminate, MpvCreate, SetSize
<1>15. ASSUME NEW o \in Ids,
              FrameRefused(o) \/ FrameBegin(o) \/ MpvFrame(o) \/ MpvUpdateCallback(o)
       PROVE  TextureInv'
  BY <1>2, <1>15 DEF FrameRefused, FrameBegin, MpvFrame, MpvUpdateCallback
<1>16. CASE Pump \/ SignalDone \/ FrameUnchanged \/ FrameFails \/ FrameRender
  BY <1>2, <1>16 DEF Pump, SignalDone, FrameUnchanged, FrameFails, FrameRender
<1>17. CASE UNCHANGED vars
  BY <1>2, <1>17 DEF vars
<1> QED BY <1>4, <1>5, <1>6, <1>7, <1>8, <1>9, <1>10, <1>11, <1>12, <1>13,
           <1>14, <1>15, <1>16, <1>17 DEF Next, Channel, SizesOf, Raster

(* The texture Dart shows for a handle is that of a listed output of the   *)
(* handle; unless a time limit has made that output a zombie, nobody tears *)
(* it down, no task that will is queued, and the engine knows its texture. *)
THEOREM ReportedExists ==
  ASSUME ~DestroyFaults PROVE Safety => []ReportedTextureExists
<1>1. Init => ShownIsListed /\ TextureInv
  BY DEF Init, ShownIsListed, TextureInv
<1>2. /\ IInv /\ ShownIsListed /\ [Next]_vars => ShownIsListed'
      /\ IInv /\ TextureInv /\ [Next]_vars => TextureInv'
  BY ShownStep, TextureStep
<1>3. IInv /\ ShownIsListed /\ TextureInv => ReportedTextureExists
  <2> SUFFICES ASSUME IInv, ShownIsListed, TextureInv, engine = "running",
                      NEW h \in Handles, reported[h] # None, ~Zombie(reported[h])
               PROVE  /\ reported[h] \in outputs /\ handle[reported[h]] = h
                      /\ ~disposing[reported[h]] /\ reported[h] \in registered
                      /\ reported[h] \notin Targets({"dispose", "late", "unregister"})
    BY DEF ReportedTextureExists, ShownIsListed
  <2>1. /\ reported[h] \in outputs /\ handle[reported[h]] = h
        /\ ~disposing[reported[h]]
    BY DEF ShownIsListed, Zombie
  <2>2. \A i \in DOMAIN queue :
          queue[i].kind \in {"dispose", "late", "unregister"} => queue[i].arg # reported[h]
    BY <2>1 DEF IInv, QueueInv, IsDispose, IsUnregister, TextureInv
  <2> QED BY <2>1, <2>2 DEF TextureInv, Targets
<1>4. QED BY <1>1, <1>2, <1>3, Invariance, PTL DEF Safety
=============================================================================

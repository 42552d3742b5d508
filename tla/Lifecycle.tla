------------------------------ MODULE Lifecycle ------------------------------
(***************************************************************************)
(* The life of the program (main of examples/ui_app/source/main.cpp): what *)
(* it opens one after the other, the ways in which that fails, and the     *)
(* order in which it closes.  The process that hosts the program outlives  *)
(* it, so whatever is left open stays open.                                *)
(*                                                                         *)
(* Two sessions are opened on demand by threads of the engine: the shared  *)
(* fonts (fonts_horizon.cpp) and the random source (random_horizon.cpp).   *)
(***************************************************************************)
CONSTANT Faults   (* what may fail; "services" are those the program does without *)

ASSUME LifecycleAssumption ==
  Faults \subseteq {"romfs", "egl", "window", "services", "engine", "run"}

VARIABLES
  stage,      (* the next step of main *)
  sessions,
  egl,        (* what of EGL exists *)
  engine,     (* "none", "initialized" or "runs" *)
  exitCode

lifecycleVars == <<stage, sessions, egl, engine, exitCode>>

Opened(service) == {{service}} \cup (IF "services" \in Faults THEN {{}} ELSE {})

LifecycleInit ==
  stage = "log" /\ sessions = {} /\ egl = {} /\ engine = "none" /\ exitCode = 0

LogInit ==
  /\ stage = "log"
  /\ stage' = "romfs" /\ sessions' = {"log"}
  /\ UNCHANGED <<egl, engine, exitCode>>

\* main returns early: the log is closed, and nothing else.
Fail ==
  /\ stage' = "ended" /\ exitCode' = 1 /\ sessions' = sessions \ {"log"}
  /\ UNCHANGED <<egl, engine>>

RomfsInit ==
  /\ stage = "romfs"
  /\ \/ /\ stage' = "egl" /\ sessions' = sessions \cup {"romfs"}
        /\ UNCHANGED <<egl, engine, exitCode>>
     \/ "romfs" \in Faults /\ Fail

\* A display that eglInitialize does not bring up is kept; what fails later takes all down.
EglInit ==
  /\ stage = "egl" /\ stage' = "platform"
  /\ \/ egl' = {"display", "surface", "context"}
     \/ "egl" \in Faults /\ egl' \in {{}, {"display"}}
  /\ UNCHANGED <<sessions, engine, exitCode>>

use_gpu == "context" \in egl

PlatformInitialize ==
  /\ stage = "platform"
  /\ \/ /\ stage' = "psm"
        /\ sessions' = IF use_gpu THEN sessions ELSE sessions \cup {"framebuffer"}
        /\ UNCHANGED <<egl, engine, exitCode>>
     \/ ~use_gpu /\ "window" \in Faults /\ Fail

BoostAndPsm ==
  /\ stage = "psm" /\ stage' = "initialize"
  /\ \E psm \in Opened("psm") : sessions' = sessions \cup {"boost"} \cup psm
  /\ UNCHANGED <<egl, engine, exitCode>>

\* The main loop runs all the same when there is no engine.
EngineInitialize ==
  /\ stage = "initialize"
  /\ \/ engine' = "initialized" /\ stage' = "run"
     \/ "engine" \in Faults /\ stage' = "loop" /\ UNCHANGED engine
  /\ UNCHANGED <<sessions, egl, exitCode>>

RunInitialized ==
  /\ stage = "run" /\ stage' = "loop"
  /\ \/ engine' = "runs"
     \/ "run" \in Faults /\ UNCHANGED engine
  /\ UNCHANGED <<sessions, egl, exitCode>>

-----------------------------------------------------------------------------
UseFonts ==
  /\ \E fonts \in Opened("fonts") : sessions' = sessions \cup fonts
  /\ UNCHANGED <<stage, egl, engine, exitCode>>

UseRandom ==
  /\ \E csrng \in Opened("csrng") : sessions' = sessions \cup csrng
  /\ UNCHANGED <<stage, egl, engine, exitCode>>

\* Plus, or the system wants the program to end.
Quit ==
  /\ stage = "loop"
  /\ stage' = IF engine = "none" THEN "video" ELSE "shutdown"
  /\ UNCHANGED <<sessions, egl, engine, exitCode>>

EngineShutdown ==
  /\ stage = "shutdown" /\ stage' = "video" /\ engine' = "none"
  /\ UNCHANGED <<sessions, egl, exitCode>>

\* What this does is VideoShutdown of module VideoBridge.
MediaKitVideoShutdown ==
  /\ stage = "video" /\ stage' = "eglShutdown"
  /\ UNCHANGED <<sessions, egl, engine, exitCode>>

EglShutdown ==
  /\ stage = "eglShutdown" /\ stage' = "services" /\ egl' = {}
  /\ UNCHANGED <<sessions, engine, exitCode>>

\* Fault: the sessions that are opened on demand are forgotten.
ServicesExitOwn ==
  /\ stage = "services" /\ stage' = "logShutdown"
  /\ sessions' = sessions \ {"boost", "psm", "romfs"}
  /\ UNCHANGED <<egl, engine, exitCode>>

ServicesExit ==
  /\ stage = "services" /\ stage' = "logShutdown"
  /\ sessions' = sessions \ {"boost", "fonts", "csrng", "psm", "romfs"}
  /\ UNCHANGED <<egl, engine, exitCode>>

LogShutdown ==
  /\ stage = "logShutdown" /\ stage' = "return"
  /\ sessions' = sessions \ {"log"}
  /\ UNCHANGED <<egl, engine, exitCode>>

\* The destructor of SwitchPlatform closes the frame buffer.
Return ==
  /\ stage = "return" /\ stage' = "ended"
  /\ sessions' = sessions \ {"framebuffer"}
  /\ UNCHANGED <<egl, engine, exitCode>>

CloseDown ==
  \/ MediaKitVideoShutdown \/ EglShutdown \/ ServicesExit \/ LogShutdown \/ Return

StartUp ==
  \/ LogInit \/ RomfsInit \/ EglInit \/ PlatformInitialize \/ BoostAndPsm

=============================================================================

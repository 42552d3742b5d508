---------------------------- MODULE EngineTime ----------------------------
(* The engine's clock (FlutterEngineGetCurrentTime, fml::TimePoint), which *)
(* the task runner and the message loop share.                             *)
EXTENDS Naturals

CONSTANT Times

ASSUME EngineTimeAssumption == Times \subseteq Nat

VARIABLE now

Passes == now' \in Times /\ now' > now
=============================================================================

--------------------------- MODULE MCVideoBridge ---------------------------
(***************************************************************************)
(* The instances of VideoBridge.  Two texture ids let a handle be created  *)
(* a second time, a queue of two lets a Dispose follow its Create before   *)
(* the raster thread ran either.  The safety run's two handles are         *)
(* interchangeable.  The liveness run has two players as well, so that     *)
(* while the Dispose of one is under way the other one's frames keep       *)
(* taking g_mutex; only one of them has a picture, one task is queued at a *)
(* time, a pump has room for both (as the code's eight), and Dart keeps    *)
(* the players: it destroys one only after its Dispose was answered, when  *)
(* the three properties ask nothing more of its output.                    *)
(***************************************************************************)
EXTENDS VideoBridge, TLC

HandleSymmetry == Permutations(Handles)
=============================================================================

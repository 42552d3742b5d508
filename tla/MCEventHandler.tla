--------------------------- MODULE MCEventHandler ---------------------------
(***************************************************************************)
(* The instances of EventHandler.  Safety: two sockets, alike, and one     *)
(* descriptor number, so that the number is used again and a listening     *)
(* descriptor is shared.  Liveness: one socket and two timers, which       *)
(* compete for the rounds of the loop (no symmetry there).                 *)
(***************************************************************************)
EXTENDS EventHandler, TLC

SocketSymmetry == Permutations(Sockets)
=============================================================================

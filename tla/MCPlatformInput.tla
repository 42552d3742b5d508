--------------------------- MODULE MCPlatformInput ---------------------------
(* PlatformInput with symmetric fingers.                                   *)
EXTENDS PlatformInput, TLC

CONSTANTS f1, f2, f3, f4

MCFingers  == {f1, f2, f3, f4}
MCSymmetry == Permutations(MCFingers)
=============================================================================

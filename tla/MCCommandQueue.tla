--------------------------- MODULE MCCommandQueue ---------------------------
(* Instances of CommandQueue for TLC; the .cfg files give the constants.    *)
EXTENDS CommandQueue
=============================================================================

---------------------------- MODULE MCGreenMutex ----------------------------
(* Small instances of GreenMutex for TLC. *)
EXTENDS GreenMutex, TLC
=============================================================================

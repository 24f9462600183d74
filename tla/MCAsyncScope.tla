---------------------------- MODULE MCAsyncScope ----------------------------
(* Small instances of AsyncScope for TLC. *)
EXTENDS AsyncScope
=============================================================================

------------------------------ MODULE MCPlugin ------------------------------
(***************************************************************************)
(* Two camera threads that deliver stereo frames, one poller, memory for   *)
(* fewer images than the two threads can ask for.                          *)
(***************************************************************************)
EXTENDS Plugin

CONSTANTS c1, c2, p1
=============================================================================

---------------------------- MODULE MCEventLoop ----------------------------
(***************************************************************************)
(* EventLoop for TLC.  Four records are enough for two to be merged while  *)
(* a third is being handled and a fourth arrives during the shutdown.      *)
(***************************************************************************)
EXTENDS EventLoop
=============================================================================

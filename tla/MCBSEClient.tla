----------------------------- MODULE MCBSEClient -----------------------------
(***************************************************************************)
(* BSEClient for TLC.  Two messages, so that one is being saved while the  *)
(* next arrives, or while what the first made the client send is written.  *)
(***************************************************************************)
EXTENDS BSEClient
=============================================================================

---------------------------- MODULE MCBSESession ----------------------------
(***************************************************************************)
(* BSESession for TLC.  Two descriptors: an account may have two clients.  *)
(* More connections than that and a number comes back; with a second       *)
(* account, a client may log in to both.                                   *)
(***************************************************************************)
EXTENDS BSESession, TLC

Symmetry == Permutations(Worker) \cup Permutations(Fd)
=============================================================================

--------------------------- MODULE MCConnections ---------------------------
(***************************************************************************)
(* Connections for TLC.  One descriptor is enough for its number to be     *)
(* used again, and makes it certain; two show that descriptors do not mix. *)
(***************************************************************************)
EXTENDS Connections, TLC

Symmetry == Permutations(Worker) \cup Permutations(Fd)
=============================================================================

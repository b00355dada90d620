----------------------------- MODULE MCTcpRead -----------------------------
(***************************************************************************)
(* TcpRead for TLC: messages of one, two, four and five bytes through a    *)
(* buffer of four.  One read may bring two messages and a remainder that   *)
(* must be moved; the third message fills the buffer, the fourth cannot    *)
(* fit in it.                                                              *)
(***************************************************************************)
EXTENDS TcpRead, TLC

MCBoundary == {1, 3, 7, 12}

Symmetry == Permutations(Worker)
=============================================================================

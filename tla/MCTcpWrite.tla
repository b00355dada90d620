----------------------------- MODULE MCTcpWrite -----------------------------
(***************************************************************************)
(* TcpWrite for TLC: requests smaller and larger than the send buffer, two *)
(* senders that interleave, and a low-water mark above the first free byte.*)
(***************************************************************************)
EXTENDS TcpWrite, TLC

MCSizes == {1, 3}

Symmetry == Permutations(Sender) \cup Permutations(Worker)
=============================================================================

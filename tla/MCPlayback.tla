----------------------------- MODULE MCPlayback -----------------------------
(***************************************************************************)
(* Playback for TLC.  A file of three bytes.  Account a is rated at two    *)
(* bytes a second in two slices: two buffers, of two slices and of one.    *)
(* Account b is unlimited, in two buffers; or so slow that the rate leaves *)
(* it no byte in a slice.                                                  *)
(***************************************************************************)
EXTENDS Playback, TLC

MCJnlRate == [c \in Code |-> IF c = "a" THEN 2 ELSE 0]
MCSlowRate == [c \in Code |-> IF c = "a" THEN 2 ELSE 1]

Symmetry == Permutations(Worker) \cup Permutations(Fd)
=============================================================================

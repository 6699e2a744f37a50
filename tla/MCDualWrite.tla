----------------------------- MODULE MCDualWrite -----------------------------
(* Two threads and a handful of rounds, none of them special.              *)
EXTENDS DualWrite, TLC

Interchangeable == Permutations(Threads) \cup Permutations(Rounds)
=============================================================================

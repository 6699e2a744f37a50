----------------------------- MODULE MCRateGate -----------------------------
(* Instances of RateGate for TLC: three threads on two nodes.               *)
EXTENDS RateGate, TLC

CONSTANTS a, b, w1, w2, w3

Threads == (w1 :> a) @@ (w2 :> a) @@ (w3 :> b)

\* Request keys are random and only compared; so are the threads of node a.
Alike == Permutations(Keys) \cup Permutations({w1, w2})
=============================================================================

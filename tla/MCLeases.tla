------------------------------ MODULE MCLeases ------------------------------
(* Instances of Leases for TLC: two nodes, the first with two threads; two  *)
(* or three games, in registry order.                                       *)
EXTENDS Leases, TLC

CONSTANTS a, b, w1, w2, w3, g1, g2, g3

ThreeThreads == (w1 :> a) @@ (w2 :> a) @@ (w3 :> b)

TwoThreads == (w1 :> a) @@ (w3 :> b)

Registered == (g1 :> 1) @@ (g2 :> 2) @@ (g3 :> 3)

FirstTwo == (g1 :> 1) @@ (g2 :> 2)

OnlyOne == (g1 :> 1)

\* The threads of node a are interchangeable.
Threads == Permutations({w1, w2})

\* Every game, none preferred: a full round.
FullRoster == {[allowed |-> Games, preferred |-> {}]}
=============================================================================

------------------------------ MODULE GameLock ------------------------------
(***************************************************************************)
(* What the lease scheduler promises, told without rounds, orders, retries *)
(* and quotas: every game is a lock with two keys.  Several holders may    *)
(* share it, one per key, or one may have it to itself, never both.        *)
(* Nobody takes a key of a game that is sealed, or from a node that is     *)
(* barred; the number of keys taken is bounded, in all and per node; and   *)
(* only a holder that has a game to itself can seal it.  Module Leases     *)
(* implements this.                                                        *)
(***************************************************************************)
EXTENDS Integers, FiniteSets

CONSTANTS
    Games,
    Keys,      \* the keys of a game
    Nodes,
    Nobody,
    Budget,    \* how many keys may be taken at a time
    Share      \* and how many of them by one node

VARIABLES
    holder,    \* per game and key: the node that has taken it
    alone,     \* the games whose holder has them to itself
    barred,    \* the nodes that may take nothing
    sealed     \* the games nobody may take again

lockvars == <<holder, alone, barred, sealed>>

Taken == {k \in Games \X Keys : holder[k[1]][k[2]] # Nobody}

TakenBy(n) == {k \in Games \X Keys : holder[k[1]][k[2]] = n}

Free(g) == \A s \in Keys : holder[g][s] = Nobody

Init ==
    /\ holder = [g \in Games |-> [s \in Keys |-> Nobody]]
    /\ alone = {}
    /\ barred = {}
    /\ sealed \in SUBSET Games

\* A thread of node n gets a key of g, to share the game or to have it alone.
Take(g, s, n) ==
    /\ holder[g][s] = Nobody
    /\ g \notin sealed /\ n \notin barred
    /\ Cardinality(Taken) < Budget
    /\ Cardinality(TakenBy(n)) < Share
    /\ holder' = [holder EXCEPT ![g][s] = n]
    /\ \/ g \notin alone /\ alone' = alone
       \/ Free(g) /\ alone' = alone \cup {g}
    /\ UNCHANGED <<barred, sealed>>

\* A key comes back.
Return(g, s) ==
    /\ holder[g][s] # Nobody
    /\ holder' = [holder EXCEPT ![g][s] = Nobody]
    /\ alone' = alone \ {g}
    /\ UNCHANGED <<barred, sealed>>

\* A node is barred and loses all its keys at once.
Bar(n) ==
    /\ holder' = [g \in Games |-> [s \in Keys |->
                     IF holder[g][s] = n THEN Nobody ELSE holder[g][s]]]
    /\ alone' = {g \in alone : \E s \in Keys : holder[g][s] \notin {n, Nobody}}
    /\ barred' = barred \cup {n}
    /\ UNCHANGED sealed

Seal(g) ==
    /\ g \in alone
    /\ sealed' = sealed \cup {g}
    /\ UNCHANGED <<holder, alone, barred>>

\* A new round: every key is back and no node is barred; seals stay.
Reset ==
    /\ holder' = [g \in Games |-> [s \in Keys |-> Nobody]]
    /\ alone' = {}
    /\ barred' = {}
    /\ UNCHANGED sealed

Next ==
    \/ \E g \in Games, s \in Keys :
          \/ \E n \in Nodes : Take(g, s, n)
          \/ Return(g, s)
    \/ \E n \in Nodes : Bar(n)
    \/ \E g \in Games : Seal(g)
    \/ Reset

Spec == Init /\ [][Next]_lockvars

=============================================================================

------------------------------- MODULE Leases -------------------------------
(***************************************************************************)
(* The lease scheduler of actions/coordinator.py: which runner thread may  *)
(* capture which game.  A round opens with "begin" and closes with "end";  *)
(* in between every thread of every node loops over "claim" and "done".    *)
(*                                                                         *)
(* A game has two lease keys: "main" (slug) and "second" (slug#2).  A game *)
(* with purchase modes is first captured by up to two special shards, one  *)
(* per key, and only when its mode quota is complete by a single normal    *)
(* lease on "main".  Games without purchase modes only know the latter.    *)
(*                                                                         *)
(* Each coordinator operation runs under one lock (Daemon.handle holds     *)
(* store.lock around Store.execute), so it is one action here.  Wall-clock *)
(* comparisons are flags that time may switch at any moment: "cooling"     *)
(* (now < retryAt), "fresh" (claimed less than 120 s ago), "closing" (the  *)
(* deadline has passed, or the host is overloaded).                        *)
(***************************************************************************)
EXTENDS Integers, FiniteSets

CONSTANTS
    Workers,     \* runner threads, "<node>.<thread>"
    Nodes,       \* runner nodes, one network egress each
    NodeOf,      \* the node of a thread (node_of)
    Games,       \* the active slugs of games/registry.json
    Position,    \* the place of a game in the registry, 1..|Games|
    ModeGames,   \* the games with purchase or booster modes
    Rosters,     \* the allowedGames / preferredGames a "begin" may carry
    MaxClaims,   \* topology.maxClaims: the global session budget
    NodeCount,   \* topology.nodes
    MaxShards,   \* topology.maxShards, 1 or 2
    FillIdle,    \* topology.fillIdleNormal
    MaxRetries,  \* MAX_TRANSIENT_RETRIES_PER_ROUND
    Resend,      \* a lost reply makes the channel deliver a request twice
    Reports,     \* the statuses a worker may report with "done"
    None

ASSUME ConstantsAssumption ==
    /\ IsFiniteSet(Games)
    /\ NodeOf \in [Workers -> Nodes]
    /\ None \notin Workers /\ None \notin Nodes
    /\ ModeGames \subseteq Games
    /\ Position \in [Games -> Nat]
    /\ Rosters \subseteq [allowed : SUBSET Games, preferred : SUBSET Games]
    /\ MaxClaims \in Nat \ {0}
    /\ NodeCount \in Nat \ {0}
    /\ MaxShards \in 1..2
    /\ MaxRetries \in Nat
    /\ Reports \subseteq {"retryable", "waiting", "unavailable", "failed",
                          "paused", "shard-complete", "accepted"}
    /\ FillIdle \in BOOLEAN
    /\ Resend \in BOOLEAN

VARIABLES
    open,       \* state['owner'] is set: a run holds the cross-run queue lock
    rank,       \* the place of a game in state['games'], 0 when not scheduled
    lease,      \* state['claims'], by game and key
    complete,   \* the games whose modeQuotas entry says specialComplete
    down,       \* the nodes where a special shard found the game unavailable
    halted,     \* the nodes fused after too many 429 answers
    closing,    \* now >= deadline, or serverHalt is set
    accepted,   \* the games whose data on disk passed the final acceptance
    cursor      \* the game the next round starts from

vars == <<open, rank, lease, complete, down, halted, closing, accepted, cursor>>

-----------------------------------------------------------------------------
(* Leases.                                                                 *)

Slots == {"main", "second"}

Statuses == {"none", "running", "released", "shard-complete", "waiting",
             "retryable", "unavailable", "failed", "paused", "accepted",
             "already-accepted"}

Lease == [status  : Statuses,
          worker  : Workers \cup {None},
          special : BOOLEAN,
          fresh   : BOOLEAN,
          cooling : BOOLEAN,
          retries : 0..MaxRetries]

\* No entry in state['claims'] yet.
Absent == [status |-> "none", worker |-> None, special |-> FALSE,
           fresh |-> FALSE, cooling |-> FALSE, retries |-> 0]

\* claim() found the acceptance files of the game on disk.
AlreadyAccepted == [Absent EXCEPT !.status = "already-accepted"]

\* The record grant_claim writes.  It has no retryCount, whatever the key held
\* before.  "fresh" is only consulted under fillIdleNormal.
Granted(w, special) == [status |-> "running", worker |-> w, special |-> special,
                        fresh |-> FillIdle, cooling |-> FALSE, retries |-> 0]

Running(g, s) == lease[g][s].status = "running"

RunningKeys == {k \in Games \X Slots : Running(k[1], k[2])}

\* The running leases held by threads of node n.
HeldOn(n, g, s) == Running(g, s) /\ NodeOf[lease[g][s].worker] = n

Reclaimable(l) ==
    \/ l.status \in {"released", "shard-complete", "waiting"}
    \/ l.status = "retryable" /\ ~l.cooling /\ l.retries < MaxRetries

Free(g, s) == lease[g][s].status = "none" \/ Reclaimable(lease[g][s])

Unavailable(g) == Cardinality(down[g]) >= MaxShards

\* Slip: the entry of the second key is looked up first.
ClaimKeySwapped(w, g) ==
    IF lease[g]["second"].worker = w THEN {"second"}
    ELSE IF lease[g]["main"].worker = w THEN {"main"}
    ELSE {}

\* worker_claim: the entry of g that names w, "main" first because its key is
\* always inserted first.  The status is not looked at.
ClaimKey(w, g) ==
    IF lease[g]["main"].worker = w THEN {"main"}
    ELSE IF lease[g]["second"].worker = w THEN {"second"}
    ELSE {}

-----------------------------------------------------------------------------
(* The order of a round: the registry rotated at the cursor, the games the *)
(* site lists as preferred first.                                          *)

Scheduled == {g \in Games : rank[g] > 0}

RotatedPosition(g, allowed) ==
    IF cursor \in allowed /\ Position[g] < Position[cursor]
    THEN Position[g] + Cardinality(Games)
    ELSE Position[g]

Precedes(g, h, r) ==
    \/ g \in r.preferred /\ h \notin r.preferred
    \/ /\ g \in r.preferred <=> h \in r.preferred
       /\ RotatedPosition(g, r.allowed) <= RotatedPosition(h, r.allowed)

RoundOrder(r) ==
    [g \in Games |-> IF g \in r.allowed
                     THEN Cardinality({h \in r.allowed : Precedes(h, g, r)})
                     ELSE 0]

\* Slip: the cursor stays on the game just granted.
FollowsItself(h, g) == h = g

\* The game after g in state['games'], cyclically.
Follows(h, g) ==
    IF \E x \in Games : rank[x] = rank[g] + 1
    THEN rank[h] = rank[g] + 1
    ELSE rank[h] = 1

-----------------------------------------------------------------------------
(* What "claim" looks at.  Each loop of the code walks the games in order; *)
(* a "turn" is the set of games its filters let through.                   *)

PerNode ==
    LET share == (MaxClaims + NodeCount - 1) \div NodeCount
    IN  IF share > 1 THEN share ELSE 1

\* The gates before the loops.  A thread asks for work only when it holds
\* none, unless the reply that granted it was lost.
Admitted(w) ==
    /\ open /\ ~closing
    /\ NodeOf[w] \notin halted
    /\ Resend \/ \A k \in RunningKeys : lease[k[1]][k[2]].worker # w
    /\ Cardinality(RunningKeys) < MaxClaims
    /\ Cardinality({k \in RunningKeys : HeldOn(NodeOf[w], k[1], k[2])}) < PerNode

\* Loop 1: a special shard on the main key.
SpecialTurns ==
    {g \in ModeGames \cap Scheduled :
        /\ g \notin complete /\ ~Unavailable(g)
        /\ Free(g, "main")
        /\ ~(lease[g]["main"].status = "shard-complete" /\ Running(g, "second"))}

\* Loop 2: a second special shard, from another node than the first.
SecondTurns(n) ==
    {g \in ModeGames \cap Scheduled :
        /\ MaxShards = 2
        /\ g \notin complete /\ ~Unavailable(g)
        /\ lease[g]["main"].status \in {"running", "unavailable"}
        /\ NodeOf[lease[g]["main"].worker] # n
        /\ Free(g, "second")}

SpecialRunning(g) == \E s \in Slots : Running(g, s) /\ lease[g][s].special

\* Slip: the normal loop forgets the shards still running.
NormalTurnsBesideShards ==
    {g \in Scheduled :
        /\ g \in ModeGames => g \in complete
        /\ Free(g, "main")}

\* Loop 4: one normal lease for the whole game.
NormalTurns ==
    {g \in Scheduled :
        /\ g \in ModeGames => g \in complete
        /\ ~SpecialRunning(g)
        /\ Free(g, "main")}

\* A loop marks the accepted games it meets until it reaches one to grant.
Passed(turns) ==
    {g \in turns \cap accepted :
        \A h \in turns \ accepted : rank[g] < rank[h]}

FirstOf(turns) == {g \in turns : \A h \in turns : rank[g] <= rank[h]}

\* The mode games that still hold back normal leases once loop 1 has marked
\* the accepted ones.
Unresolved ==
    {g \in (ModeGames \cap Scheduled) \ Passed(SpecialTurns) :
        /\ g \notin complete /\ ~Unavailable(g)
        /\ \A s \in Slots : lease[g][s].status # "failed"}

NormalRunning == {k \in RunningKeys : ~lease[k[1]][k[2]].special}

NormalBlocked ==
    /\ Unresolved # {}
    /\ \/ ~FillIdle
       \/ Cardinality(NormalRunning) >= MaxClaims - Cardinality(Unresolved)

\* The loop of claim() that answers a thread of node n.
AnsweringLoop(n) ==
    IF SpecialTurns \ accepted # {} THEN "special"
    ELSE IF SecondTurns(n) # {} THEN "second"
    ELSE IF NormalBlocked THEN "blocked"
    ELSE "normal"

\* Slip: only the lease being granted is asked whether it is special.
CrowdedOneWay(n, special) ==
    /\ FillIdle /\ special
    /\ \E k \in RunningKeys : HeldOn(n, k[1], k[2])

\* grant_claim keeps a node to itself for a special shard, and spreads normal
\* leases over idle nodes first, but only under fillIdleNormal.
Crowded(n, special) ==
    /\ FillIdle
    /\ \E k \in RunningKeys :
          /\ HeldOn(n, k[1], k[2])
          /\ \/ special
             \/ lease[k[1]][k[2]].special
             \/ /\ lease[k[1]][k[2]].fresh
                /\ Cardinality({NodeOf[lease[j[1]][j[2]].worker] : j \in RunningKeys})
                      < NodeCount

-----------------------------------------------------------------------------
(* begin, end.                                                             *)

Init ==
    /\ open = FALSE
    /\ rank = [g \in Games |-> 0]
    /\ lease = [g \in Games |-> [s \in Slots |-> Absent]]
    /\ complete = {}
    /\ down = [g \in Games |-> {}]
    /\ halted = {}
    /\ closing = FALSE
    /\ accepted \in SUBSET Games
    /\ cursor \in Games

\* A new run takes the queue: either the last one called "end", or GitHub says
\* that its attempt is over.  Everything but the cursor and the disk is reset.
Begin(r) ==
    /\ r.allowed # {}
    /\ open' = TRUE
    /\ rank' = RoundOrder(r)
    /\ lease' = [g \in Games |-> [s \in Slots |-> Absent]]
    /\ complete' = {}
    /\ down' = [g \in Games |-> {}]
    /\ halted' = {}
    /\ closing' = FALSE
    /\ UNCHANGED <<accepted, cursor>>

End ==
    /\ open
    /\ open' = FALSE
    /\ UNCHANGED <<rank, lease, complete, down, halted, closing, accepted, cursor>>

-----------------------------------------------------------------------------
(* claim.                                                                  *)

\* The lease table once the games in S are marked already-accepted.
Marked(S) ==
    [g \in Games |-> [s \in Slots |->
        IF g \in S /\ s = "main" THEN AlreadyAccepted ELSE lease[g][s]]]

\* Loop 1 also replaces the quota of the games it marks.
MarkQuotas ==
    /\ complete' = complete \cup Passed(SpecialTurns)
    /\ down' = [g \in Games |-> IF g \in Passed(SpecialTurns) THEN {} ELSE down[g]]

\* grant_claim.  The second shard leaves the cursor alone.
Grant(w, g, s, special, passed) ==
    /\ ~Crowded(NodeOf[w], special)
    /\ lease' = [Marked(passed) EXCEPT ![g][s] = Granted(w, special)]
    /\ IF s = "second" THEN cursor' = cursor
       ELSE \E h \in Games : Follows(h, g) /\ cursor' = h
    /\ MarkQuotas
    /\ UNCHANGED <<open, rank, halted, closing, accepted>>

ClaimSpecial(w, g) ==
    /\ Admitted(w)
    /\ AnsweringLoop(NodeOf[w]) = "special"
    /\ g \in FirstOf(SpecialTurns \ accepted)
    /\ Grant(w, g, "main", TRUE, Passed(SpecialTurns))

ClaimSecond(w, g) ==
    /\ Admitted(w)
    /\ AnsweringLoop(NodeOf[w]) = "second"
    /\ g \in FirstOf(SecondTurns(NodeOf[w]))
    /\ Grant(w, g, "second", TRUE, Passed(SpecialTurns))

ClaimNormal(w, g) ==
    /\ Admitted(w)
    /\ AnsweringLoop(NodeOf[w]) = "normal"
    /\ g \in FirstOf(NormalTurns \ accepted)
    /\ Grant(w, g, "main", FALSE, Passed(SpecialTurns) \cup Passed(NormalTurns))

\* The thread is told to wait or to stop; the games passed over stay marked.
ClaimNothing(w) ==
    LET n == NodeOf[w] IN
    /\ Admitted(w)
    /\ \/ AnsweringLoop(n) \in {"special", "second"} /\ Crowded(n, TRUE)
       \/ AnsweringLoop(n) = "blocked"
       \/ AnsweringLoop(n) = "normal"
          /\ (Crowded(n, FALSE) \/ NormalTurns \subseteq accepted)
    /\ lease' = Marked(Passed(SpecialTurns) \cup
                       (IF AnsweringLoop(n) = "normal" THEN Passed(NormalTurns) ELSE {}))
    /\ MarkQuotas
    /\ UNCHANGED <<open, rank, halted, closing, accepted, cursor>>

-----------------------------------------------------------------------------
(* What the holder of a lease reports.                                     *)

\* The statuses worker.ts closes a lease with.  "paused" stands for paused,
\* halted and incomplete, which no branch of the coordinator tells apart.
Outcomes(g, special) ==
    {status \in Reports :
        /\ status = "shard-complete" => special
        /\ status = "accepted" => ~special /\ g \in accepted}

\* The retry count saturates: only its comparison with MaxRetries is observable.
Closed(l, status) ==
    [l EXCEPT !.status = status,
              !.fresh = FALSE,
              !.cooling = (status = "retryable"),
              !.retries = IF status = "retryable" /\ @ < MaxRetries THEN @ + 1 ELSE @]

\* "done", and with Resend the same "done" delivered once more.
Done(w, g, status) ==
    /\ open
    /\ \E s \in ClaimKey(w, g) :
         LET l == lease[g][s] IN
         /\ \/ l.status = "running" /\ status \in Outcomes(g, l.special)
            \/ Resend /\ l.status = status
         /\ lease' = [lease EXCEPT ![g][s] = Closed(l, status)]
         /\ down' = IF l.special /\ status = "unavailable"
                    THEN [down EXCEPT ![g] = @ \cup {NodeOf[w]}] ELSE down
    /\ UNCHANGED <<open, rank, complete, halted, closing, accepted, cursor>>

\* reserve_modes or append brings every purchase mode of g to its target.
FillQuota(g) ==
    /\ open /\ g \notin complete /\ SpecialRunning(g)
    /\ complete' = complete \cup {g}
    /\ UNCHANGED <<open, rank, lease, down, halted, closing, accepted, cursor>>

\* Slip: any holder of the main key may upload the reports.
AcceptFromShard(g) ==
    /\ open /\ g \notin accepted
    /\ Running(g, "main")
    /\ accepted' = accepted \cup {g}
    /\ UNCHANGED <<open, rank, lease, complete, down, halted, closing, cursor>>

\* "files": the normal holder uploads reports that pass the acceptance.
Accept(g) ==
    /\ open /\ g \notin accepted
    /\ Running(g, "main") /\ ~lease[g]["main"].special
    /\ accepted' = accepted \cup {g}
    /\ UNCHANGED <<open, rank, lease, complete, down, halted, closing, cursor>>

-----------------------------------------------------------------------------
(* Rate limiting and time.                                                 *)

\* Slip: the thread is cleared and the status forgotten.
ReleasedNotClosed(n) ==
    [g \in Games |-> [s \in Slots |->
        IF HeldOn(n, g, s) THEN [lease[g][s] EXCEPT !.worker = None] ELSE lease[g][s]]]

\* release_node: every running lease of the node goes back to the queue.
Released(n) ==
    [g \in Games |-> [s \in Slots |->
        IF HeldOn(n, g, s)
        THEN [lease[g][s] EXCEPT !.status = "released", !.worker = None, !.fresh = FALSE]
        ELSE lease[g][s]]]

\* "response" with one 429 too many: the node is fused.
HaltNode(n) ==
    /\ open
    /\ \E g \in Games, s \in Slots :
          lease[g][s].worker # None /\ NodeOf[lease[g][s].worker] = n
    /\ halted' = halted \cup {n}
    /\ lease' = Released(n)
    /\ UNCHANGED <<open, rank, complete, down, closing, accepted, cursor>>

\* The deadline passes, or health_loop sees two unhealthy samples in a row.
Close ==
    /\ open /\ ~closing
    /\ closing' = TRUE
    /\ UNCHANGED <<open, rank, lease, complete, down, halted, accepted, cursor>>

\* retryAt is reached.
CoolDown(g, s) ==
    /\ open
    /\ lease[g][s].cooling
    /\ lease' = [lease EXCEPT ![g][s].cooling = FALSE]
    /\ UNCHANGED <<open, rank, complete, down, halted, closing, accepted, cursor>>

\* 120 s since the claim.
Settle(g, s) ==
    /\ open
    /\ lease[g][s].fresh
    /\ lease' = [lease EXCEPT ![g][s].fresh = FALSE]
    /\ UNCHANGED <<open, rank, complete, down, halted, closing, accepted, cursor>>

-----------------------------------------------------------------------------
\* A step within a round.
RoundStep ==
    \/ End
    \/ \E w \in Workers, g \in Games :
          \/ ClaimSpecial(w, g)
          \/ ClaimSecond(w, g)
          \/ ClaimNormal(w, g)
    \/ \E w \in Workers : ClaimNothing(w)
    \/ \E w \in Workers, g \in Games, status \in Reports : Done(w, g, status)
    \/ \E g \in Games : FillQuota(g) \/ Accept(g)
    \/ \E n \in Nodes : HaltNode(n)
    \/ Close
    \/ \E g \in Games, s \in Slots : CoolDown(g, s) \/ Settle(g, s)

Next == (\E r \in Rosters : Begin(r)) \/ RoundStep

Spec == Init /\ [][Next]_vars

\* Rounds keep being begun (each workflow run dispatches the next one), and it
\* is not the case for ever that a thread could be granted a game and none is.
SomeGrant ==
    \E w \in Workers, g \in Games :
        ClaimSpecial(w, g) \/ ClaimSecond(w, g) \/ ClaimNormal(w, g)

FairSpec ==
    /\ Spec
    /\ WF_vars(\E r \in Rosters : Begin(r))
    /\ SF_vars(SomeGrant)

-----------------------------------------------------------------------------
(* What the scheduler promises.                                            *)

TypeOK ==
    /\ open \in BOOLEAN
    /\ rank \in [Games -> Nat]
    /\ lease \in [Games -> [Slots -> Lease]]
    /\ complete \subseteq Games
    /\ down \in [Games -> SUBSET Nodes]
    /\ halted \subseteq Nodes
    /\ closing \in BOOLEAN
    /\ accepted \subseteq Games
    /\ cursor \in Games
    /\ \A g \in Games, s \in Slots : Running(g, s) => lease[g][s].worker \in Workers

\* Under fillIdleNormal a special shard has its node to itself, so the two
\* shards of a game run behind two different egresses (README: at most two
\* different runner nodes split a game; grant_claim, 354-358).
SpecialOwnsNode ==
    FillIdle =>
        \A k, j \in RunningKeys :
            /\ k # j
            /\ NodeOf[lease[k[1]][k[2]].worker] = NodeOf[lease[j[1]][j[2]].worker]
            => ~lease[k[1]][k[2]].special

\* The normal lease of a game validates and audits exact totals, so it is
\* alone: no shard of the game runs beside it, and a game with purchase modes
\* gets it only with its mode quota complete (loop 4, 556-569).
NormalIsAlone ==
    \A g \in Games :
        Running(g, "main") /\ ~lease[g]["main"].special =>
            /\ ~Running(g, "second")
            /\ g \in ModeGames => g \in complete

\* A fused node holds no lease: release_node takes back every lease of it and
\* no later claim of its threads is granted (329-338, 485-488, 811-814).
HaltedHoldsNothing ==
    \A n \in halted, g \in Games, s \in Slots : ~HeldOn(n, g, s)

\* The holder of a running lease can close it: worker_claim, which ignores the
\* status, finds that lease and not a stale entry of the same thread (340-345).  It
\* takes fillIdleNormal or a channel that does not re-send: otherwise a claim
\* delivered twice may give a thread both keys of a game, and "done" then only
\* ever finds the first.
HolderCanFinish ==
    \A g \in Games, s \in Slots :
        Running(g, s) => ClaimKey(lease[g][s].worker, g) = {s}

\* A game whose data is accepted on disk is never leased again: no grant, on
\* either key, re-opens it (511-525, 556-569; loop 2 does not even look).
AcceptedStaysClosed ==
    [][\A g \in Games, s \in Slots :
         Running(g, s)' /\ lease'[g][s] # lease[g][s] /\ ~Running(g, s)
            => g \notin accepted]_vars

\* Starvation freedom across rounds: every game with purchase modes keeps
\* getting a lease on its main key, until its data is accepted, although a
\* round may serve one game only and serve it again and again (the cursor,
\* 375-376 and 442-445; comment 509).
EveryModeGameServed ==
    \A g \in ModeGames : []<>(Running(g, "main") \/ g \in accepted)

-----------------------------------------------------------------------------
(* The scheduler implements a lock per game (module GameLock).             *)

HolderOf(g, s) == IF Running(g, s) THEN NodeOf[lease[g][s].worker] ELSE None

Locks == INSTANCE GameLock WITH
    Keys   <- Slots,
    Nobody <- None,
    Budget <- MaxClaims,
    Share  <- PerNode,
    holder <- [g \in Games |-> [s \in Slots |-> HolderOf(g, s)]],
    alone  <- {g \in Games : Running(g, "main") /\ ~lease[g]["main"].special},
    barred <- halted,
    sealed <- accepted

\* Whatever a round does, shards share a game and a normal lease has it to
\* itself; keys go only to nodes that are not fused and games that are not
\* accepted, within the session budget and the share of a node; and only the
\* normal holder has a game accepted (grant_claim, release_node, claim, files
\* and done, 329-388 and 485-725).
ImplementsGameLock == Locks!Spec

=============================================================================

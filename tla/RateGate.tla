------------------------------ MODULE RateGate ------------------------------
(***************************************************************************)
(* The gate in front of the provider: a runner thread asks the coordinator *)
(* for a permit before every official request ("permit"), and reports what *)
(* came back ("response"), actions/coordinator.py 726-817.  The client     *)
(* side is the fetch wrapper of actions/worker.ts, 205-281.                *)
(*                                                                         *)
(* Time is counted in ticks; a tick is any duration, and everything that   *)
(* is compared in the code (spacing, Retry-After, window, deadline) is a   *)
(* number of ticks.  Leases are abstract here: "holds" says whether the    *)
(* coordinator finds a running lease of the thread (module Leases).        *)
(***************************************************************************)
EXTENDS Integers, FiniteSets

CONSTANTS
    Workers,        \* runner threads
    Nodes,          \* runner nodes that appear in the instance
    NodeOf,         \* the node of a thread
    Keys,           \* request keys, 64 hex digits in the code
    None,
    NodeCount,      \* topology.nodes
    MaxInFlight,    \* topology.maxInFlight: threads * nodes
    ThrottleLimit,  \* topology.throttleLimit
    SharedEgress,   \* topology.sharedEgress: containers on one host
    Spacing,        \* topology.nodeMs
    MinWait,        \* a 429 closes the egress at least this long (10 s)
    RetryAfters,    \* the waits a 429 answer may ask for
    Window,         \* GLOBAL_LIMIT_WINDOW_MS
    Budget,         \* deadlineMinutes
    Horizon,        \* bound: the last tick
    Failures        \* what may go wrong with a request: "fetch", "body", "reply"

SharedNode == "local-egress"

ASSUME GateAssumption ==
    /\ NodeOf \in [Workers -> Nodes]
    /\ SharedNode \notin Nodes
    /\ None \notin Workers \cup Keys
    /\ NodeCount \in Nat \ {0} /\ MaxInFlight \in Nat \ {0} /\ ThrottleLimit \in Nat \ {0}
    /\ Spacing \in Nat \ {0} /\ MinWait \in Nat \ {0} /\ Window \in Nat /\ Budget \in Nat
    /\ RetryAfters \subseteq Nat
    /\ SharedEgress \in BOOLEAN
    /\ Horizon \in Nat
    /\ Failures \subseteq {"fetch", "body", "reply"}

VARIABLES
    now,
    deadline,
    until,       \* state['until']: the pause of all nodes, kept across rounds
    nodeUntil,   \* state['nodeUntil'], 0 when the node has no entry
    permits,     \* state['permits']: by key, the thread and the time of the grant
    waiters,     \* state['waiters']: the keys, whose order nothing reads
    throttled,   \* state['nodeThrottle']: the threads that got a 429, by node
    rateNodes,   \* state['rateNodes']: 429 answers of the last Window ticks
    halted,      \* state['halted']: by node, the tick it was fused, or None
    holds,       \* the threads with a running lease
    phase,       \* what a thread is doing: idle, asking, fetching or gone
    key,         \* its request key
    told         \* history: until when the provider told a node to stay away

timeVars == <<now, deadline>>
gateVars == <<until, nodeUntil, permits, waiters, throttled, rateNodes, halted>>
workerVars == <<holds, phase, key>>
vars == <<timeVars, gateVars, workerVars, told>>

-----------------------------------------------------------------------------

Egresses == Nodes \cup {SharedNode}

\* The node a request is charged to (395, 726-727).
Egress(w) == IF SharedEgress THEN SharedNode ELSE NodeOf[w]

NoPermit == [worker |-> None, at |-> 0]

Taken == {k \in Keys : permits[k] # NoPermit}

Later(a, b) == IF a >= b THEN a ELSE b

\* Slip: only the shared egress is looked up.
HaltedWhenShared(w) == SharedEgress /\ halted[SharedNode] # None

\* The egress of the thread has been fused.
Halted(w) ==
    \/ halted[NodeOf[w]] # None
    \/ SharedEgress /\ halted[SharedNode] # None

Init ==
    /\ now = 0
    /\ deadline = Budget
    /\ until = 0
    /\ nodeUntil = [n \in Egresses |-> 0]
    /\ permits = [k \in Keys |-> NoPermit]
    /\ waiters = {}
    /\ throttled = [n \in Egresses |-> {}]
    /\ rateNodes = {}
    /\ halted = [n \in Egresses |-> None]
    /\ holds = Workers
    /\ phase = [w \in Workers |-> "idle"]
    /\ key = [w \in Workers |-> None]
    /\ told = [n \in Egresses |-> 0]

-----------------------------------------------------------------------------
(* A thread between requests.                                              *)

\* A thread that lost its lease, or closed it after a 429, claims another one.
Claim(w) ==
    /\ phase[w] = "idle" /\ w \notin holds
    /\ ~Halted(w) /\ now < deadline /\ until < deadline /\ now >= until
    /\ holds' = holds \cup {w}
    /\ UNCHANGED <<timeVars, gateVars, phase, key, told>>

\* The next official request: a random key (requestKey is unset in the
\* production transport or names a step of the current round).
Ask(w) ==
    /\ phase[w] = "idle" /\ w \in holds
    /\ \E k \in Keys \ (Taken \cup {key[v] : v \in Workers} \cup waiters) :
          key' = [key EXCEPT ![w] = k]
    /\ phase' = [phase EXCEPT ![w] = "asking"]
    /\ UNCHANGED <<timeVars, gateVars, holds, told>>

\* The thread stops for good: its lease is closed with "done", or lost.
Leave(w) ==
    /\ phase' = [phase EXCEPT ![w] = "gone"]
    /\ key' = [key EXCEPT ![w] = None]
    /\ holds' = holds \ {w}

\* The thread goes back to its capture loop, the key is forgotten
\* (discardPending, acknowledge).
Resume(w) ==
    /\ phase' = [phase EXCEPT ![w] = "idle"]
    /\ key' = [key EXCEPT ![w] = None]

-----------------------------------------------------------------------------
(* permit.                                                                 *)

\* Every permit call of a thread that may wait records its arrival.
Arrived(k) == waiters \cup {k}

\* The thread is told to stop, or has lost its lease.
PermitStop(w) ==
    /\ phase[w] = "asking"
    /\ \/ Halted(w)
       \/ w \notin holds
       \/ now >= deadline
       \/ now < until /\ until >= deadline
    /\ Leave(w)
    /\ UNCHANGED <<timeVars, gateVars, told>>

\* The thread is heard.
Heard(w) ==
    /\ phase[w] = "asking" /\ w \in holds
    /\ ~Halted(w) /\ now < deadline /\ now >= until

\* Capacity, then the spacing of the egress.
Open(w) ==
    /\ Cardinality(Taken) < MaxInFlight
    /\ now >= nodeUntil[Egress(w)]

\* "wait": the thread sleeps and asks again with the same key.
PermitWait(w) ==
    /\ Heard(w) /\ ~Open(w)
    /\ waiters' = Arrived(key[w])
    /\ UNCHANGED <<timeVars, until, nodeUntil, permits, throttled, rateNodes, halted, workerVars, told>>

\* "granted".  With a lost reply the channel asks once more with the same key.
PermitGrant(w, lost) ==
    /\ Heard(w) /\ Open(w)
    /\ lost => "reply" \in Failures
    /\ permits' = [permits EXCEPT ![key[w]] = [worker |-> w, at |-> now]]
    /\ waiters' = waiters \ {key[w]}
    /\ nodeUntil' = [nodeUntil EXCEPT ![Egress(w)] = Later(@, now + Spacing)]
    /\ phase' = IF lost THEN phase ELSE [phase EXCEPT ![w] = "fetching"]
    /\ UNCHANGED <<timeVars, until, throttled, rateNodes, halted, holds, key, told>>

\* Slip: the permit of a failed request is kept.
ReturnedNever(w) == permits

\* The permit of the thread's request is given back.
Returned(w) == [permits EXCEPT ![key[w]] = NoPermit]

-----------------------------------------------------------------------------
(* response.                                                               *)

\* The coordinator refuses the response of a thread whose lease was released;
\* the permit stays.
Refused(w) ==
    /\ phase[w] = "fetching" /\ w \notin holds
    /\ Leave(w)
    /\ UNCHANGED <<timeVars, gateVars, told>>

\* An answer that is not a 429, or a network failure reported as status 0.
Answer(w) ==
    /\ phase[w] = "fetching" /\ w \in holds
    /\ permits' = Returned(w)
    /\ IF Halted(w) THEN Leave(w) ELSE Resume(w) /\ UNCHANGED holds
    /\ UNCHANGED <<timeVars, until, nodeUntil, waiters, throttled, rateNodes, halted, told>>

\* The connection fails: status 0 is reported, and the session is retried.
FetchFails(w) ==
    /\ "fetch" \in Failures
    /\ phase[w] = "fetching" /\ w \in holds
    /\ permits' = Returned(w)
    /\ Resume(w)
    /\ UNCHANGED <<timeVars, until, nodeUntil, waiters, throttled, rateNodes, halted, holds, told>>

\* The headers arrive and the body does not (worker.ts:247 is outside the try
\* that reports failures): no response is sent, the session is retried.
BodyFails(w) ==
    /\ "body" \in Failures
    /\ phase[w] = "fetching" /\ w \in holds
    /\ Resume(w)
    /\ UNCHANGED <<timeVars, gateVars, holds, told>>

\* The 429 answers that count, this one included.
Recent(w) ==
    {e \in rateNodes : now - e.at < Window} \cup {[node |-> Egress(w), at |-> now]}

GlobalLimit == Later(2, (NodeCount + 1) \div 2)

\* Slip: the latest 429 decides alone how long the egress stays closed.
ClosedAnew(n, end) == end

\* An egress closed for longer stays closed for longer.
ClosedUntil(n, end) == Later(nodeUntil[n], end)

\* How long a 429 closes the egress.
Wait(retryAfter) == Later(MinWait, retryAfter)

Fused(w) == Cardinality(throttled[Egress(w)] \cup {w}) >= ThrottleLimit

\* release_node: the leases of the threads that belong to the fused node.
ReleasedBy(w) == {v \in holds : Fused(w) /\ NodeOf[v] = Egress(w)}

\* A 429.  The thread closes its lease as "waiting" and claims again, unless
\* its node has been fused.
Throttled(w, retryAfter) ==
    LET n == Egress(w)
        end == now + Wait(retryAfter)
    IN  /\ phase[w] = "fetching" /\ w \in holds
        /\ permits' = Returned(w)
        /\ nodeUntil' = [nodeUntil EXCEPT ![n] = ClosedUntil(n, end)]
        /\ told' = [told EXCEPT ![n] = Later(@, now + retryAfter)]
        /\ throttled' = [throttled EXCEPT ![n] = @ \cup {w}]
        /\ rateNodes' = Recent(w)
        /\ until' = IF SharedEgress \/ Cardinality({e.node : e \in Recent(w)}) >= GlobalLimit
                    THEN Later(until, end) ELSE until
        /\ halted' = IF Fused(w) THEN [halted EXCEPT ![n] = now] ELSE halted
        /\ IF Fused(w) \/ Halted(w)
           THEN /\ phase' = [phase EXCEPT ![w] = "gone"]
                /\ key' = [key EXCEPT ![w] = None]
                /\ holds' = (holds \ ReleasedBy(w)) \ {w}
           ELSE /\ Resume(w)
                /\ holds' = holds \ {w}
        /\ UNCHANGED <<timeVars, waiters>>

-----------------------------------------------------------------------------
(* Rounds and time.                                                        *)

\* Slip: a new round starts with nothing to wait for.
PauseForgotten == now

\* begin keeps the pause of all nodes (432).
PauseKept == until

\* The workers of the last attempt are gone (GitHub says so, or "end" was
\* called after them); the rest of the gate is reset (472-476).
Begin ==
    /\ deadline' = now + Budget
    /\ until' = PauseKept
    /\ nodeUntil' = [n \in Egresses |-> 0]
    /\ permits' = [k \in Keys |-> NoPermit]
    /\ waiters' = {}
    /\ throttled' = [n \in Egresses |-> {}]
    /\ rateNodes' = {}
    /\ halted' = [n \in Egresses |-> None]
    /\ holds' = {}
    /\ phase' = [w \in Workers |-> "idle"]
    /\ key' = [w \in Workers |-> None]
    /\ told' = [n \in Egresses |-> 0]
    /\ UNCHANGED now

Tick ==
    /\ now < Horizon
    /\ now' = now + 1
    /\ UNCHANGED <<deadline, gateVars, workerVars, told>>

Step(w) ==
    \/ Claim(w) \/ Ask(w)
    \/ PermitStop(w) \/ PermitWait(w)
    \/ \E lost \in BOOLEAN : PermitGrant(w, lost)
    \/ Refused(w) \/ Answer(w) \/ FetchFails(w) \/ BodyFails(w)
    \/ \E retryAfter \in RetryAfters : Throttled(w, retryAfter)

Next == (\E w \in Workers : Step(w)) \/ Begin \/ Tick

Spec == Init /\ [][Next]_vars

-----------------------------------------------------------------------------

TypeOK ==
    /\ now \in Nat /\ deadline \in Nat /\ until \in Nat
    /\ nodeUntil \in [Egresses -> Nat]
    /\ permits \in [Keys -> [worker : Workers \cup {None}, at : Nat]]
    /\ waiters \subseteq Keys
    /\ throttled \in [Egresses -> SUBSET Workers]
    /\ rateNodes \subseteq [node : Egresses, at : Nat]
    /\ halted \in [Egresses -> Nat \cup {None}]
    /\ holds \subseteq Workers
    /\ phase \in [Workers -> {"idle", "asking", "fetching", "gone"}]
    /\ key \in [Workers -> Keys \cup {None}]
    /\ told \in [Egresses -> Nat]
    /\ \A w \in Workers : phase[w] \in {"asking", "fetching"} <=> key[w] # None

GrantedNow(k) == permits[k] = NoPermit /\ permits'[k] # NoPermit

\* Once an egress is fused no thread behind it gets another permit (485-488).
FusedGetsNoPermit ==
    \A k \in Taken :
        LET n == Egress(permits[k].worker)
        IN  halted[n] # None => permits[k].at <= halted[n]

\* As long as the provider told an egress to stay away, none of its threads is
\* granted a permit, however the answers of the others interleave (797).
RetryAfterHonoured ==
    [][\A k \in Keys : GrantedNow(k) => now >= told[Egress(permits'[k].worker)]]_vars

\* A pause of all nodes binds every node, and the rounds that follow (432;
\* README: the deadline is persisted and later runs honour it).
PauseHonoured ==
    [][until' >= until /\ \A k \in Keys : GrantedNow(k) => now >= until]_vars

\* With one permit per thread (worker.ts:581) a thread that has no request at
\* the provider is never refused for want of a permit: what other threads have
\* abandoned does not fill the capacity up (comment worker.ts:242).
CapacityForIdle ==
    \A w \in holds : phase[w] # "fetching" => Cardinality(Taken) < MaxInFlight
=============================================================================

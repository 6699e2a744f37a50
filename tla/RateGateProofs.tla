--------------------------- MODULE RateGateProofs ---------------------------
(* Theorems about the request gate, for every number of threads, nodes and  *)
(* request keys, every spacing, Retry-After and throttle limit, and any     *)
(* horizon.                                                                 *)
EXTENDS RateGate, FiniteSetTheorems, TLAPS

-----------------------------------------------------------------------------
(* Types.                                                                  *)

\* A thread is charged to an egress the tables of the gate know (395, 726-727).
LEMMA EgressType == \A w \in Workers : Egress(w) \in Egresses /\ NodeOf[w] \in Egresses
  BY GateAssumption DEF Egress, Egresses

\* A 429 closes the egress for a number of ticks, at least what was asked (796).
LEMMA WaitFacts == \A r \in RetryAfters : r \in Nat /\ Wait(r) \in Nat /\ Wait(r) >= r
  BY GateAssumption DEF Wait, Later

\* The 429 answers that count are records of a known egress (793-795).
LEMMA RecentType ==
    ASSUME TypeOK, NEW w \in Workers
    PROVE  Recent(w) \subseteq [node : Egresses, at : Nat]
  BY EgressType DEF TypeOK, Recent

\* Giving a permit, or giving it back, changes the entry of one key.
LEMMA PermitType ==
    ASSUME TypeOK, NEW w \in Workers, phase[w] \in {"asking", "fetching"}
    PROVE  /\ key[w] \in Keys
           /\ Returned(w) \in [Keys -> [worker : Workers \cup {None}, at : Nat]]
           /\ Returned(w)[key[w]] = NoPermit
           /\ \A k \in Keys \ {key[w]} : Returned(w)[k] = permits[k]
           /\ [permits EXCEPT ![key[w]] = [worker |-> w, at |-> now]]
                 \in [Keys -> [worker : Workers \cup {None}, at : Nat]]
  <1>1. key[w] \in Keys
    BY DEF TypeOK
  <1>2. NoPermit \in [worker : Workers \cup {None}, at : Nat]
    BY DEF NoPermit
  <1> QED BY <1>1, <1>2 DEF Returned, TypeOK

\* The part of the type that ties a request key to the phase of its thread.
KeyFits == \A w \in Workers : phase[w] \in {"asking", "fetching"} <=> key[w] # None

\* Leaving and resuming both drop the request key.
LEMMA DroppedKey ==
    ASSUME TypeOK, NEW w \in Workers,
           \/ phase' = [phase EXCEPT ![w] = "idle"]
           \/ phase' = [phase EXCEPT ![w] = "gone"],
           key' = [key EXCEPT ![w] = None]
    PROVE  /\ phase' \in [Workers -> {"idle", "asking", "fetching", "gone"}]
           /\ key' \in [Workers -> Keys \cup {None}]
           /\ KeyFits'
  BY DEF TypeOK, KeyFits

\* Every step of a thread keeps the tables of the gate typed.
LEMMA StepType ==
    ASSUME TypeOK, NEW w \in Workers, Step(w)
    PROVE  TypeOK'
  <1>1. CASE Claim(w)
    BY <1>1 DEF Claim, TypeOK, timeVars, gateVars
  <1>2. CASE Ask(w)
    <2>1. PICK k \in Keys : key' = [key EXCEPT ![w] = k]
      BY <1>2 DEF Ask
    <2>2. k # None
      BY GateAssumption
    <2>3. key' \in [Workers -> Keys \cup {None}]
      BY <2>1 DEF TypeOK
    <2>4. /\ phase' = [phase EXCEPT ![w] = "asking"]
          /\ UNCHANGED <<timeVars, gateVars, holds, told>>
      BY <1>2 DEF Ask
    <2>5. KeyFits'
      BY <2>1, <2>2, <2>4 DEF TypeOK, KeyFits
    <2> QED BY <2>3, <2>4, <2>5 DEF TypeOK, KeyFits, timeVars, gateVars
  <1>3. CASE PermitStop(w) \/ Refused(w)
    <2>1. Leave(w) /\ UNCHANGED <<timeVars, gateVars, told>>
      BY <1>3 DEF PermitStop, Refused
    <2> QED BY <2>1, DroppedKey DEF Leave, TypeOK, KeyFits, timeVars, gateVars
  <1>4. CASE PermitWait(w)
    <2>1. phase[w] = "asking"
      BY <1>4 DEF PermitWait, Heard
    <2>2. waiters' \subseteq Keys
      BY <1>4, <2>1, PermitType DEF PermitWait, Arrived, TypeOK
    <2> QED BY <1>4, <2>2 DEF PermitWait, TypeOK, timeVars, workerVars
  <1>5. ASSUME NEW lost \in BOOLEAN, PermitGrant(w, lost)
        PROVE  TypeOK'
    <2>1. phase[w] = "asking"
      BY <1>5 DEF PermitGrant, Heard
    <2>2. permits' \in [Keys -> [worker : Workers \cup {None}, at : Nat]]
      BY <1>5, <2>1, PermitType DEF PermitGrant
    <2>3. nodeUntil' \in [Egresses -> Nat]
      BY <1>5, EgressType, GateAssumption DEF PermitGrant, TypeOK, Later
    <2>4. /\ phase' \in [Workers -> {"idle", "asking", "fetching", "gone"}]
          /\ KeyFits'
      BY <1>5, <2>1 DEF PermitGrant, TypeOK, KeyFits
    <2>5. waiters' \subseteq Keys
      BY <1>5 DEF PermitGrant, TypeOK
    <2> QED BY <1>5, <2>2, <2>3, <2>4, <2>5 DEF PermitGrant, TypeOK, KeyFits, timeVars
  <1>6. CASE Answer(w)
    <2>1. permits' \in [Keys -> [worker : Workers \cup {None}, at : Nat]]
      BY <1>6, PermitType DEF Answer
    <2>2. /\ \/ phase' = [phase EXCEPT ![w] = "idle"]
             \/ phase' = [phase EXCEPT ![w] = "gone"]
          /\ key' = [key EXCEPT ![w] = None]
          /\ holds' \subseteq holds
      BY <1>6 DEF Answer, Leave, Resume
    <2> QED BY <1>6, <2>1, <2>2, DroppedKey DEF Answer, TypeOK, KeyFits, timeVars
  <1>7. CASE FetchFails(w)
    <2>1. permits' \in [Keys -> [worker : Workers \cup {None}, at : Nat]]
      BY <1>7, PermitType DEF FetchFails
    <2> QED BY <1>7, <2>1, DroppedKey DEF FetchFails, Resume, TypeOK, KeyFits, timeVars
  <1>8. CASE BodyFails(w)
    BY <1>8, DroppedKey DEF BodyFails, Resume, TypeOK, KeyFits, timeVars, gateVars
  <1>9. ASSUME NEW retryAfter \in RetryAfters, Throttled(w, retryAfter)
        PROVE  TypeOK'
    <2> DEFINE n == Egress(w)
               end == now + Wait(retryAfter)
    <2>1. n \in Egresses /\ end \in Nat /\ now + retryAfter \in Nat
      BY EgressType, WaitFacts DEF TypeOK
    <2>2. permits' \in [Keys -> [worker : Workers \cup {None}, at : Nat]]
      BY <1>9, PermitType DEF Throttled
    <2>3. /\ nodeUntil' = [nodeUntil EXCEPT ![n] = Later(nodeUntil[n], end)]
          /\ told' = [told EXCEPT ![n] = Later(told[n], now + retryAfter)]
          /\ throttled' = [throttled EXCEPT ![n] = throttled[n] \cup {w}]
          /\ rateNodes' = Recent(w)
          /\ until' = Later(until, end) \/ until' = until
          /\ halted' = [halted EXCEPT ![n] = now] \/ halted' = halted
          /\ holds' \subseteq holds
          /\ \/ phase' = [phase EXCEPT ![w] = "idle"]
             \/ phase' = [phase EXCEPT ![w] = "gone"]
          /\ key' = [key EXCEPT ![w] = None]
          /\ UNCHANGED <<timeVars, waiters>>
      BY <1>9, <2>1 DEF Throttled, ClosedUntil, Resume, TypeOK
    <2> HIDE DEF n, end
    <2>4. nodeUntil' \in [Egresses -> Nat] /\ told' \in [Egresses -> Nat]
      BY <2>1, <2>3 DEF TypeOK, Later
    <2>5. throttled' \in [Egresses -> SUBSET Workers]
      BY <2>1, <2>3 DEF TypeOK
    <2>6. until' \in Nat /\ halted' \in [Egresses -> Nat \cup {None}]
      BY <2>1, <2>3 DEF TypeOK, Later
    <2> QED BY <2>2, <2>3, <2>4, <2>5, <2>6, RecentType, DroppedKey
            DEF TypeOK, KeyFits, timeVars
  <1> QED BY <1>1, <1>2, <1>3, <1>4, <1>5, <1>6, <1>7, <1>8, <1>9 DEF Step

\* So do the start of a round and time.
LEMMA TypeStep == TypeOK /\ [Next]_vars => TypeOK'
  <1> SUFFICES ASSUME TypeOK, [Next]_vars
               PROVE  TypeOK'
    OBVIOUS
  <1>1. CASE Begin
    <2>1. now + Budget \in Nat
      BY GateAssumption DEF TypeOK
    <2>2. permits' \in [Keys -> [worker : Workers \cup {None}, at : Nat]]
      BY <1>1 DEF Begin, NoPermit
    <2> QED BY <1>1, <2>1, <2>2 DEF Begin, PauseKept, TypeOK
  <1>2. CASE Tick
    BY <1>2 DEF Tick, TypeOK, gateVars, workerVars
  <1>3. CASE UNCHANGED vars
    BY <1>3 DEF vars, timeVars, gateVars, workerVars, TypeOK
  <1> QED BY <1>1, <1>2, <1>3, StepType DEF Next

\* The tables of the gate stay typed: no pause, permit time or 429 record is
\* anything but a tick, and a thread has a request key exactly while it has a
\* request (726-817).
THEOREM GateTypes == Spec => []TypeOK
  <1>1. Init => TypeOK
    BY GateAssumption DEF Init, TypeOK, NoPermit
  <1> QED BY <1>1, TypeStep, PTL DEF Spec

-----------------------------------------------------------------------------
(* What happens to permits.                                                *)

\* A permit is only ever given by a grant; everything else keeps permits or
\* takes them away.
LEMMA PermitSteps ==
    ASSUME TypeOK, [Next]_vars, NEW k \in Keys
    PROVE  \/ permits'[k] = permits[k]
           \/ permits'[k] = NoPermit
           \/ \E w \in Workers, lost \in BOOLEAN :
                 /\ PermitGrant(w, lost)
                 /\ k = key[w]
                 /\ permits'[k] = [worker |-> w, at |-> now]
  <1>1. ASSUME NEW w \in Workers, NEW lost \in BOOLEAN, PermitGrant(w, lost)
        PROVE  \/ permits'[k] = permits[k]
               \/ k = key[w] /\ permits'[k] = [worker |-> w, at |-> now]
    <2>1. phase[w] = "asking"
      BY <1>1 DEF PermitGrant, Heard
    <2> QED BY <1>1, <2>1, PermitType DEF PermitGrant, TypeOK
  <1>2. ASSUME NEW w \in Workers, phase[w] = "fetching", permits' = Returned(w)
        PROVE  permits'[k] = permits[k] \/ permits'[k] = NoPermit
    BY <1>2, PermitType
  <1>3. CASE Begin
    BY <1>3 DEF Begin
  <1>4. CASE Tick \/ UNCHANGED vars
    BY <1>4 DEF Tick, vars, gateVars
  <1>5. ASSUME NEW w \in Workers,
               \/ Claim(w) \/ Ask(w) \/ PermitStop(w) \/ PermitWait(w)
               \/ Refused(w) \/ BodyFails(w)
        PROVE  permits'[k] = permits[k]
    BY <1>5 DEF Claim, Ask, PermitStop, PermitWait, Refused, BodyFails, gateVars
  <1>6. ASSUME NEW w \in Workers,
               \/ Answer(w) \/ FetchFails(w)
               \/ \E retryAfter \in RetryAfters : Throttled(w, retryAfter)
        PROVE  permits'[k] = permits[k] \/ permits'[k] = NoPermit
    BY <1>2, <1>6 DEF Answer, FetchFails, Throttled
  <1> QED BY <1>1, <1>3, <1>4, <1>5, <1>6 DEF Next, Step

\* A permit given in this step was asked for by a thread that was heard, at a
\* moment when the gate was open to its egress (738-776).
LEMMA GrantWasOpen ==
    ASSUME TypeOK, [Next]_vars, NEW k \in Keys, GrantedNow(k)
    PROVE  \E w \in Workers :
              /\ permits'[k].worker = w
              /\ Heard(w) /\ Open(w)
  <1>1. PICK w \in Workers, lost \in BOOLEAN :
          PermitGrant(w, lost) /\ permits'[k] = [worker |-> w, at |-> now]
    BY PermitSteps DEF GrantedNow
  <1>2. Heard(w) /\ Open(w)
    BY <1>1 DEF PermitGrant
  <1> QED BY <1>1, <1>2

-----------------------------------------------------------------------------
(* Retry-After and the pause of all nodes.                                 *)

\* The gate closes an egress for at least as long as the provider asked for.
ClosedAsTold == \A n \in Egresses : told[n] <= nodeUntil[n]

\* Neither a grant, nor a late 429 with a shorter wait, nor a new round opens
\* an egress before that.
LEMMA ClosedAsToldStep == TypeOK /\ ClosedAsTold /\ [Next]_vars => ClosedAsTold'
  <1> SUFFICES ASSUME TypeOK, ClosedAsTold, [Next]_vars
               PROVE  ClosedAsTold'
    OBVIOUS
  <1>1. CASE UNCHANGED <<nodeUntil, told>>
    BY <1>1 DEF ClosedAsTold
  <1>2. CASE Begin
    BY <1>2 DEF Begin, ClosedAsTold
  <1>3. ASSUME NEW w \in Workers, NEW lost \in BOOLEAN, PermitGrant(w, lost)
        PROVE  ClosedAsTold'
    <2>1. now + Spacing \in Nat
      BY GateAssumption DEF TypeOK
    <2>2. \A n \in Egresses : nodeUntil'[n] >= nodeUntil[n] /\ told'[n] = told[n]
      BY <1>3, <2>1, EgressType DEF PermitGrant, TypeOK, Later
    <2> QED BY <2>2, TypeStep DEF ClosedAsTold, TypeOK
  <1>4. ASSUME NEW w \in Workers, NEW retryAfter \in RetryAfters, Throttled(w, retryAfter)
        PROVE  ClosedAsTold'
    <2> DEFINE n == Egress(w)
               end == now + Wait(retryAfter)
    <2>1. /\ n \in Egresses /\ end \in Nat
          /\ now + retryAfter \in Nat /\ now + retryAfter <= end
      BY EgressType, WaitFacts DEF TypeOK
    <2>2. /\ nodeUntil' = [nodeUntil EXCEPT ![n] = Later(nodeUntil[n], end)]
          /\ told' = [told EXCEPT ![n] = Later(told[n], now + retryAfter)]
      BY <1>4, <2>1 DEF Throttled, ClosedUntil, TypeOK
    <2> HIDE DEF n, end
    <2>3. nodeUntil[n] \in Nat /\ told[n] \in Nat /\ told[n] <= nodeUntil[n]
      BY <2>1 DEF TypeOK, ClosedAsTold
    <2>4. Later(told[n], now + retryAfter) <= Later(nodeUntil[n], end)
      BY <2>1, <2>3 DEF Later
    <2> QED BY <2>1, <2>2, <2>4 DEF ClosedAsTold, TypeOK
  <1>5. ASSUME NEW w \in Workers,
               \/ Claim(w) \/ Ask(w) \/ PermitStop(w) \/ PermitWait(w) \/ Refused(w)
               \/ Answer(w) \/ FetchFails(w) \/ BodyFails(w)
        PROVE  UNCHANGED <<nodeUntil, told>>
    BY <1>5 DEF Claim, Ask, PermitStop, PermitWait, Refused, Answer, FetchFails, BodyFails,
                gateVars
  <1>6. Tick \/ UNCHANGED vars => UNCHANGED <<nodeUntil, told>>
    BY DEF Tick, vars, gateVars
  <1> QED BY <1>1, <1>2, <1>3, <1>4, <1>5, <1>6 DEF Next, Step

\* While the provider has told an egress to stay away no thread behind it gets
\* a permit: for any number of threads whose 429 answers arrive in any order,
\* and whatever each of them asks for (797-801, 762-765).
THEOREM RetryAfterIsHonoured == Spec => RetryAfterHonoured
  <1>1. Init => ClosedAsTold
    BY DEF Init, ClosedAsTold
  <1>2. Spec => []ClosedAsTold
    BY <1>1, ClosedAsToldStep, GateTypes, PTL DEF Spec
  <1>3. TypeOK /\ ClosedAsTold /\ [Next]_vars =>
          [\A k \in Keys : GrantedNow(k) => now >= told[Egress(permits'[k].worker)]]_vars
    <2> SUFFICES ASSUME TypeOK, ClosedAsTold, [Next]_vars, NEW k \in Keys, GrantedNow(k)
                 PROVE  now >= told[Egress(permits'[k].worker)]
      OBVIOUS
    <2>1. PICK w \in Workers : permits'[k].worker = w /\ Open(w)
      BY GrantWasOpen
    <2>2. now >= nodeUntil[Egress(w)] /\ told[Egress(w)] <= nodeUntil[Egress(w)]
      BY <2>1, EgressType DEF Open, ClosedAsTold
    <2> QED BY <2>1, <2>2, EgressType DEF TypeOK
  <1> QED BY <1>2, <1>3, GateTypes, PTL DEF Spec, RetryAfterHonoured

\* A pause of all nodes only ever grows, over any number of rounds, and while
\* it lasts no thread of any node gets a permit (432, 740-746, 803-808).
THEOREM PauseIsHonoured == Spec => PauseHonoured
  <1>1. ASSUME TypeOK, [Next]_vars
        PROVE  until' >= until
    <2>2. ASSUME NEW w \in Workers, NEW retryAfter \in RetryAfters, Throttled(w, retryAfter)
          PROVE  until' >= until
      <3> DEFINE end == now + Wait(retryAfter)
      <3>1. until' = Later(until, end) \/ until' = until
        BY <2>2 DEF Throttled
      <3>2. until \in Nat /\ end \in Nat
        BY <1>1, WaitFacts DEF TypeOK
      <3> HIDE DEF end
      <3> QED BY <3>1, <3>2 DEF Later
    <2>3. ASSUME NEW w \in Workers,
                 \/ Claim(w) \/ Ask(w) \/ PermitStop(w) \/ PermitWait(w) \/ Refused(w)
                 \/ Answer(w) \/ FetchFails(w) \/ BodyFails(w)
                 \/ \E lost \in BOOLEAN : PermitGrant(w, lost)
          PROVE  until' = until
      BY <2>3 DEF Claim, Ask, PermitStop, PermitWait, PermitGrant, Refused, Answer,
                  FetchFails, BodyFails, gateVars
    <2>4. Begin \/ Tick \/ UNCHANGED vars => until' = until
      BY DEF Begin, PauseKept, Tick, vars, gateVars
    <2> QED BY <1>1, <2>2, <2>3, <2>4 DEF Next, Step, TypeOK
  <1>2. ASSUME TypeOK, [Next]_vars, NEW k \in Keys, GrantedNow(k)
        PROVE  now >= until
    BY <1>2, GrantWasOpen DEF Heard
  <1>3. TypeOK /\ [Next]_vars =>
          [until' >= until /\ \A k \in Keys : GrantedNow(k) => now >= until]_vars
    BY <1>1, <1>2
  <1> QED BY <1>3, GateTypes, PTL DEF Spec, PauseHonoured

-----------------------------------------------------------------------------
(* A fused egress.                                                         *)

\* Permits name a thread and are not from the future.
PermitsPast == \A k \in Taken : permits[k].worker \in Workers /\ permits[k].at <= now

FuseInv == PermitsPast /\ FusedGetsNoPermit

\* The egress of a thread is one of the two places its halt is looked up.
LEMMA HaltedEgress == \A w \in Workers : ~Halted(w) => halted[Egress(w)] = None
  BY DEF Halted, Egress

\* A step fuses the egress of one thread now, or keeps what is fused, or begins
\* a round without permits.
LEMMA HaltSteps ==
    ASSUME TypeOK, [Next]_vars
    PROVE  /\ now' >= now
           /\ \/ halted' = halted
              \/ \E n \in Egresses : halted' = [halted EXCEPT ![n] = now]
              \/ Begin
  <1>1. ASSUME NEW w \in Workers, Step(w)
        PROVE  /\ now' = now
               /\ \/ halted' = halted
                  \/ \E n \in Egresses : halted' = [halted EXCEPT ![n] = now]
    <2>1. ASSUME NEW retryAfter \in RetryAfters, Throttled(w, retryAfter)
          PROVE  /\ now' = now
                 /\ \/ halted' = halted
                    \/ halted' = [halted EXCEPT ![Egress(w)] = now]
      BY <2>1 DEF Throttled, timeVars
    <2>2. CASE \/ Claim(w) \/ Ask(w) \/ PermitStop(w) \/ PermitWait(w) \/ Refused(w)
               \/ Answer(w) \/ FetchFails(w) \/ BodyFails(w)
               \/ \E lost \in BOOLEAN : PermitGrant(w, lost)
      BY <2>2 DEF Claim, Ask, PermitStop, PermitWait, PermitGrant, Refused, Answer,
                  FetchFails, BodyFails, gateVars, timeVars
    <2> QED BY <1>1, <2>1, <2>2, EgressType DEF Step
  <1>2. CASE Begin
    BY <1>2 DEF Begin, TypeOK
  <1>3. CASE Tick \/ UNCHANGED vars
    BY <1>3 DEF Tick, vars, gateVars, timeVars, TypeOK
  <1> QED BY <1>1, <1>2, <1>3 DEF Next, TypeOK

\* Neither a grant nor a second fuse leaves a permit younger than the fuse.
LEMMA FuseStep == TypeOK /\ FuseInv /\ [Next]_vars => FuseInv'
  <1> SUFFICES ASSUME TypeOK, FuseInv, [Next]_vars, NEW k \in Keys, permits'[k] # NoPermit
               PROVE  /\ permits'[k].worker \in Workers /\ permits'[k].at <= now'
                      /\ LET n == Egress(permits'[k].worker)
                         IN  halted'[n] # None => permits'[k].at <= halted'[n]
    BY DEF FuseInv, PermitsPast, FusedGetsNoPermit, Taken, Egress
  <1>0. now \in Nat /\ now' \in Nat /\ permits[k].at \in Nat
    BY TypeStep DEF TypeOK
  <1>1. CASE permits'[k] = permits[k]
    <2>1. k \in Taken
      BY <1>1 DEF Taken
    <2> DEFINE n == Egress(permits[k].worker)
    <2>2. permits[k].worker \in Workers /\ permits[k].at <= now /\ n \in Egresses
      BY <2>1, EgressType DEF FuseInv, PermitsPast
    <2>3. halted[n] # None => permits[k].at <= halted[n]
      BY <2>1 DEF FuseInv, FusedGetsNoPermit
    <2>4. ~Begin
      BY DEF Begin
    <2> HIDE DEF n
    <2>5. halted'[n] # None => permits[k].at <= halted'[n]
      BY <2>2, <2>3, <2>4, HaltSteps DEF TypeOK
    <2> QED BY <1>0, <1>1, <2>2, <2>5, HaltSteps DEF n
  <1>2. ASSUME NEW w \in Workers, NEW lost \in BOOLEAN, PermitGrant(w, lost),
               permits'[k] = [worker |-> w, at |-> now]
        PROVE  /\ permits'[k].worker \in Workers /\ permits'[k].at <= now'
               /\ LET n == Egress(permits'[k].worker)
                  IN  halted'[n] # None => permits'[k].at <= halted'[n]
    <2>1. halted[Egress(w)] = None /\ halted' = halted /\ now' = now
      BY <1>2, HaltedEgress DEF PermitGrant, Heard, timeVars
    <2> QED BY <1>0, <1>2, <2>1
  <1> QED BY <1>1, <1>2, PermitSteps

\* From the moment an egress is fused until the next round no thread behind it
\* gets a permit, also none that was already waiting for one (485-488, 738-739).
THEOREM FusedStaysSilent == Spec => []FusedGetsNoPermit
  <1>1. Init => FuseInv
    BY DEF Init, FuseInv, PermitsPast, FusedGetsNoPermit, Taken
  <1>2. FuseInv => FusedGetsNoPermit
    BY DEF FuseInv
  <1> QED BY <1>1, <1>2, FuseStep, GateTypes, PTL DEF Spec

-----------------------------------------------------------------------------
(* The capacity.                                                           *)

\* A permit that is out belongs to the request its thread has at the provider,
\* or to a thread that has left for the round; no thread has two.
Owned(k) ==
    LET v == permits[k].worker IN
    /\ v \in Workers
    /\ phase[v] = "gone" \/ (phase[v] = "fetching" /\ key[v] = k)

CapacityInv ==
    /\ \A w \in Workers : phase[w] = "gone" => w \notin holds
    /\ \A k \in Taken : Owned(k)
    /\ \A k, j \in Taken : permits[k].worker = permits[j].worker => k = j

\* With one permit for each thread, no failure of a body or of a reply, no
\* step leaves a permit behind that its thread could not give back.
LEMMA CapacityStep ==
    ASSUME Failures \subseteq {"fetch"}
    PROVE  TypeOK /\ CapacityInv /\ [Next]_vars => CapacityInv'
  <1> SUFFICES ASSUME TypeOK, CapacityInv, [Next]_vars
               PROVE  CapacityInv'
    OBVIOUS
  <1>1. ASSUME NEW w \in Workers,
               phase' = [phase EXCEPT ![w] = phase'[w]],
               key' = [key EXCEPT ![w] = key'[w]],
               holds' \subseteq holds \cup {w},
               phase'[w] = "gone" => w \notin holds',
               \A k \in Keys : permits'[k] # NoPermit =>
                  permits'[k] = permits[k] /\ (permits[k].worker # w \/ phase'[w] = "gone")
        PROVE  CapacityInv'
    <2>1. \A v \in Workers \ {w} : /\ phase'[v] = phase[v] /\ key'[v] = key[v]
                                   /\ v \in holds' => v \in holds
      BY <1>1 DEF TypeOK
    <2>2. \A k \in Taken' : k \in Taken /\ permits'[k] = permits[k]
      BY <1>1 DEF Taken
    <2>3. \A v \in Workers : phase'[v] = "gone" => v \notin holds'
      BY <1>1, <2>1 DEF CapacityInv
    <2>4. \A k, j \in Taken' : permits'[k].worker = permits'[j].worker => k = j
      BY <2>2 DEF CapacityInv
    <2>5. ASSUME NEW k \in Taken'
          PROVE  Owned(k)'
      <3>1. k \in Keys /\ permits'[k] # NoPermit /\ Owned(k)
        BY <2>2 DEF Taken, CapacityInv
      <3> QED BY <1>1, <2>1, <2>2, <3>1 DEF Owned
    <2> QED BY <2>3, <2>4, <2>5 DEF CapacityInv
  <1>2. ASSUME NEW w \in Workers, phase[w] \in {"idle", "asking"}, NEW k \in Keys
        PROVE  permits[k] # NoPermit => permits[k].worker # w
    BY <1>2 DEF CapacityInv, Owned, Taken
  <1>3. ASSUME NEW w \in Workers, phase[w] = "fetching", NEW k \in Keys,
               Returned(w)[k] # NoPermit
        PROVE  Returned(w)[k] = permits[k] /\ permits[k].worker # w
    <2>1. k # key[w] /\ Returned(w)[k] = permits[k]
      BY <1>3, PermitType
    <2>2. Owned(k)
      BY <1>3, <2>1 DEF CapacityInv, Taken
    <2> QED BY <1>3, <2>1, <2>2 DEF Owned
  <1>4. ASSUME NEW w \in Workers, Claim(w) \/ Ask(w) \/ PermitStop(w) \/ PermitWait(w)
        PROVE  CapacityInv'
    <2>1. phase[w] \in {"idle", "asking"} /\ permits' = permits
      BY <1>4 DEF Claim, Ask, PermitStop, PermitWait, Heard, gateVars
    <2>2. /\ phase' = [phase EXCEPT ![w] = phase'[w]]
          /\ key' = [key EXCEPT ![w] = key'[w]]
          /\ holds' \subseteq holds \cup {w}
          /\ phase'[w] = "gone" => w \notin holds'
      BY <1>4 DEF Claim, Ask, PermitStop, PermitWait, Heard, Leave, workerVars, TypeOK
    <2> QED BY <1>1, <1>2, <2>1, <2>2
  <1>5. ASSUME NEW w \in Workers, Refused(w)
        PROVE  CapacityInv'
    <2>1. /\ phase' = [phase EXCEPT ![w] = "gone"] /\ phase'[w] = "gone"
          /\ key' = [key EXCEPT ![w] = None] /\ key'[w] = None
          /\ holds' = holds \ {w} /\ permits' = permits
      BY <1>5 DEF Refused, Leave, gateVars, TypeOK
    <2> QED BY <1>1, <2>1
  <1>6. ASSUME NEW w \in Workers,
               \/ Answer(w) \/ FetchFails(w)
               \/ \E retryAfter \in RetryAfters : Throttled(w, retryAfter)
        PROVE  CapacityInv'
    <2>1. phase[w] = "fetching" /\ permits' = Returned(w)
      BY <1>6 DEF Answer, FetchFails, Throttled
    <2>2. /\ \/ phase' = [phase EXCEPT ![w] = "gone"] /\ w \notin holds'
             \/ phase' = [phase EXCEPT ![w] = "idle"]
          /\ key' = [key EXCEPT ![w] = None]
          /\ holds' \subseteq holds
      BY <1>6 DEF Answer, FetchFails, Throttled, Leave, Resume
    <2>3. /\ phase' = [phase EXCEPT ![w] = phase'[w]]
          /\ key' = [key EXCEPT ![w] = key'[w]]
          /\ phase'[w] = "gone" => w \notin holds'
      BY <2>2 DEF TypeOK
    <2>4. \A k \in Keys : permits'[k] # NoPermit =>
             permits'[k] = permits[k] /\ permits[k].worker # w
      BY <1>3, <2>1
    <2> QED BY <1>1, <2>2, <2>3, <2>4
  <1>7. ASSUME NEW w \in Workers, BodyFails(w)
        PROVE  FALSE
    BY <1>7 DEF BodyFails
  <1>8. ASSUME NEW w \in Workers, NEW lost \in BOOLEAN, PermitGrant(w, lost)
        PROVE  CapacityInv'
    <2>1. /\ ~lost
          /\ phase[w] = "asking"
          /\ phase' = [phase EXCEPT ![w] = "fetching"]
          /\ permits' = [permits EXCEPT ![key[w]] = [worker |-> w, at |-> now]]
          /\ UNCHANGED <<holds, key>>
      BY <1>8 DEF PermitGrant, Heard
    <2>2. key[w] \in Keys
      BY <2>1, PermitType
    <2>3. \A k \in Taken : permits[k].worker # w
      BY <1>2, <2>1 DEF Taken
    <2>4. /\ permits'[key[w]].worker = w
          /\ \A k \in Keys \ {key[w]} : permits'[k] = permits[k]
      BY <2>1, <2>2 DEF TypeOK
    <2>5. /\ phase'[w] = "fetching"
          /\ \A v \in Workers \ {w} : phase'[v] = phase[v]
      BY <2>1 DEF TypeOK
    <2>6. \A k \in Taken' : Owned(k)'
      BY <2>1, <2>2, <2>4, <2>5 DEF CapacityInv, Owned, Taken
    <2>7. \A k, j \in Taken' : permits'[k].worker = permits'[j].worker => k = j
      BY <2>3, <2>4 DEF CapacityInv, Taken
    <2>8. \A v \in Workers : phase'[v] = "gone" => v \notin holds'
      BY <2>1, <2>5 DEF CapacityInv
    <2> QED BY <2>6, <2>7, <2>8 DEF CapacityInv
  <1>9. CASE Begin
    BY <1>9 DEF Begin, CapacityInv, Taken
  <1>10. CASE Tick \/ UNCHANGED vars
    BY <1>10 DEF Tick, vars, gateVars, workerVars, CapacityInv, Taken, Owned
  <1> QED BY <1>4, <1>5, <1>6, <1>7, <1>8, <1>9, <1>10 DEF Next, Step

\* No more permits are out than there are other threads.
LEMMA OwnersAreOthers ==
    ASSUME CapacityInv, IsFiniteSet(Workers), NEW w \in holds, w \in Workers,
           phase[w] # "fetching"
    PROVE  /\ Cardinality(Taken) < Cardinality(Workers)
           /\ Cardinality(Taken) \in Nat /\ Cardinality(Workers) \in Nat
  <1> DEFINE owner == [k \in Taken |-> permits[k].worker]
             others == Workers \ {w}
  <1>1. \A k \in Taken : permits[k].worker \in others
    BY DEF CapacityInv, Owned
  <1>2. owner \in Injection(Taken, others)
    BY <1>1 DEF CapacityInv, Injection, IsInjective
  <1>3. /\ IsFiniteSet(others)
        /\ Cardinality(others) = Cardinality(Workers) - 1
        /\ Cardinality(Workers) \in Nat
    BY FS_RemoveElement, FS_CardinalityType
  <1>4. IsFiniteSet(Taken) /\ Cardinality(Taken) <= Cardinality(others)
    BY <1>2, <1>3, FS_Injection DEF ExistsInjection
  <1> QED BY <1>3, <1>4, FS_CardinalityType

\* With a permit per thread the capacity never refuses a thread that has no
\* request at the provider, whatever the other threads have failed at, as long
\* as every failure is reported (760-761; worker.ts 236-262 and 581).  For the
\* failures that are not the property is false (run gate_leak).
THEOREM CapacityIsForIdle ==
    ASSUME Failures \subseteq {"fetch"}, IsFiniteSet(Workers),
           MaxInFlight >= Cardinality(Workers)
    PROVE  Spec => []CapacityForIdle
  <1>1. Init => CapacityInv
    BY DEF Init, CapacityInv, Taken
  <1>2. TypeOK /\ CapacityInv => CapacityForIdle
    <2> SUFFICES ASSUME TypeOK, CapacityInv, NEW w \in holds, phase[w] # "fetching"
                 PROVE  Cardinality(Taken) < MaxInFlight
      BY DEF CapacityForIdle
    <2>1. /\ Cardinality(Taken) < Cardinality(Workers)
          /\ Cardinality(Taken) \in Nat /\ Cardinality(Workers) \in Nat
      BY OwnersAreOthers DEF TypeOK
    <2> QED BY <2>1, GateAssumption
  <1> QED BY <1>1, <1>2, CapacityStep, GateTypes, PTL DEF Spec

=============================================================================

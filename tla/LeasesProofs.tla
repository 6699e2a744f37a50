---------------------------- MODULE LeasesProofs ----------------------------
(* Theorems about the lease scheduler, for every number of threads, nodes,  *)
(* games and purchase modes, and for both values of each topology switch,   *)
(* and that it implements a lock per game (module GameLock).                *)
EXTENDS Leases, FiniteSetTheorems, TLAPS

-----------------------------------------------------------------------------
(* The records and tables the actions build.                               *)

\* The records the scheduler writes are leases (claims entries, 369-374 and 522).
LEMMA LeaseRecords ==
    /\ Absent \in Lease
    /\ AlreadyAccepted \in Lease
    /\ \A w \in Workers, special \in BOOLEAN : Granted(w, special) \in Lease
    /\ \A l \in Lease, status \in Reports : Closed(l, status) \in Lease
  <1>1. Absent \in Lease
    BY ConstantsAssumption DEF Absent, Lease, Statuses
  <1>4. AlreadyAccepted \in Lease
    <2>1. "already-accepted" \in Statuses
      BY DEF Statuses
    <2> QED BY <1>1, <2>1 DEF AlreadyAccepted, Lease
  <1>2. ASSUME NEW w \in Workers, NEW special \in BOOLEAN
        PROVE  Granted(w, special) \in Lease
    BY ConstantsAssumption DEF Granted, Lease, Statuses
  <1>3. ASSUME NEW l \in Lease, NEW status \in Reports
        PROVE  Closed(l, status) \in Lease
    <2>1. status \in Statuses
      BY ConstantsAssumption DEF Statuses
    <2>2. (IF status = "retryable" /\ l.retries < MaxRetries
           THEN l.retries + 1 ELSE l.retries) \in 0..MaxRetries
      BY ConstantsAssumption DEF Lease
    <2> QED BY <2>1, <2>2 DEF Closed, Lease
  <1> QED BY <1>1, <1>2, <1>3, <1>4

\* The fields of those records, for provers that need not expand them.
LEMMA LeaseFields ==
    /\ Absent.status = "none" /\ Absent.worker = None
    /\ AlreadyAccepted.status = "already-accepted" /\ AlreadyAccepted.worker = None
    /\ \A w, special : /\ Granted(w, special).status = "running"
                      /\ Granted(w, special).worker = w
                      /\ Granted(w, special).special = special
  BY DEF Absent, AlreadyAccepted, Granted

\* The round order only needs Games to be finite to consist of numbers.
LEMMA RoundOrderType ==
    ASSUME NEW r \in Rosters
    PROVE  RoundOrder(r) \in [Games -> Nat]
  <1>1. ASSUME NEW g \in Games, g \in r.allowed
        PROVE  Cardinality({h \in r.allowed : Precedes(h, g, r)}) \in Nat
    <2>1. r.allowed \subseteq Games
      BY ConstantsAssumption
    <2>2. IsFiniteSet({h \in r.allowed : Precedes(h, g, r)})
      <3>1. {h \in r.allowed : Precedes(h, g, r)} \subseteq Games
        BY <2>1
      <3> QED BY <3>1, FS_Subset, ConstantsAssumption
    <2> QED BY <2>2, FS_CardinalityType
  <1> QED BY <1>1 DEF RoundOrder

\* Marking accepted games keeps the table typed and touches main keys only (566-568).
LEMMA MarkedType ==
    ASSUME TypeOK, NEW S
    PROVE  /\ Marked(S) \in [Games -> [Slots -> Lease]]
           /\ \A g \in Games, s \in Slots :
                 Marked(S)[g][s] = lease[g][s] \/ Marked(S)[g][s] = AlreadyAccepted
  BY LeaseRecords DEF TypeOK, Marked

\* What a grant does to the table: the granted key runs, every other key is
\* as it was or marked already-accepted.
LEMMA GrantEffect ==
    ASSUME TypeOK, NEW w \in Workers, NEW g \in Games, NEW s \in Slots,
           NEW special \in BOOLEAN, NEW passed, Grant(w, g, s, special, passed)
    PROVE  /\ lease' \in [Games -> [Slots -> Lease]]
           /\ lease'[g][s] = Granted(w, special)
           /\ \A h \in Games, t \in Slots :
                 (h # g \/ t # s) => \/ lease'[h][t] = lease[h][t]
                                     \/ lease'[h][t] = AlreadyAccepted
           /\ cursor' \in Games
           /\ UNCHANGED <<open, rank, halted, closing, accepted>>
  <1> DEFINE m == Marked(passed)
  <1>1. /\ m \in [Games -> [Slots -> Lease]]
        /\ \A h \in Games, t \in Slots :
              m[h][t] = lease[h][t] \/ m[h][t] = AlreadyAccepted
    BY MarkedType
  <1>2. Granted(w, special) \in Lease
    BY LeaseRecords
  <1>3. lease' = [m EXCEPT ![g][s] = Granted(w, special)]
    BY DEF Grant
  <1>4. cursor' \in Games
    BY DEF Grant, TypeOK
  <1>5. UNCHANGED <<open, rank, halted, closing, accepted>>
    BY DEF Grant
  <1> HIDE DEF m
  <1>6. lease' = [m EXCEPT ![g] = [m[g] EXCEPT ![s] = Granted(w, special)]]
    BY <1>1, <1>3
  <1>7. m[g] \in [Slots -> Lease]
    BY <1>1
  <1>8. [m[g] EXCEPT ![s] = Granted(w, special)] \in [Slots -> Lease]
    BY <1>2, <1>7
  <1>9. lease' \in [Games -> [Slots -> Lease]] /\ lease'[g][s] = Granted(w, special)
    BY <1>1, <1>6, <1>7, <1>8
  <1>10. ASSUME NEW h \in Games, NEW t \in Slots, h # g \/ t # s
         PROVE  lease'[h][t] = m[h][t]
    BY <1>1, <1>6, <1>7, <1>10
  <1> QED BY <1>1, <1>4, <1>5, <1>9, <1>10

\* The same, for the two keys of the granted game.
LEMMA GrantOwnGame ==
    ASSUME TypeOK, NEW w \in Workers, NEW g \in Games, NEW s \in Slots,
           NEW special \in BOOLEAN, NEW passed, Grant(w, g, s, special, passed)
    PROVE  /\ lease'[g][s].status = "running"
           /\ lease'[g][s].special = special
           /\ accepted' = accepted
           /\ complete \subseteq complete'
           /\ \A t \in Slots : t # s => \/ lease'[g][t] = lease[g][t]
                                       \/ lease'[g][t].status = "already-accepted"
  <1>1. lease'[g][s] = Granted(w, special)
    BY GrantEffect
  <1>2. \A t \in Slots : t # s => lease'[g][t] = lease[g][t] \/ lease'[g][t] = AlreadyAccepted
    BY GrantEffect
  <1>3. accepted' = accepted
    BY DEF Grant
  <1>4. complete \subseteq complete'
    BY DEF Grant, MarkQuotas
  <1> QED BY <1>1, <1>2, <1>3, <1>4, LeaseFields

\* Replacing the quota of an accepted game keeps quotas typed (521-524).
LEMMA MarkQuotasType ==
    ASSUME TypeOK, MarkQuotas
    PROVE  complete' \subseteq Games /\ down' \in [Games -> SUBSET Nodes]
  BY DEF TypeOK, MarkQuotas, Passed, SpecialTurns, Scheduled

-----------------------------------------------------------------------------
(* Type correctness.                                                       *)

\* A release or an expired timer only rewrites leases it may rewrite.
LEMMA ReleasedType ==
    ASSUME TypeOK, NEW n \in Nodes
    PROVE  /\ Released(n) \in [Games -> [Slots -> Lease]]
           /\ \A g \in Games, s \in Slots :
                 \/ Released(n)[g][s] = lease[g][s] /\ ~HeldOn(n, g, s)
                 \/ /\ Running(g, s) /\ Released(n)[g][s].status = "released"
                    /\ Released(n)[g][s].worker = None
                    /\ Released(n)[g][s].special = lease[g][s].special
  <1>1. ASSUME NEW g \in Games, NEW s \in Slots
        PROVE  LET l == [lease[g][s] EXCEPT !.status = "released", !.worker = None, !.fresh = FALSE]
               IN  /\ l \in Lease /\ l.status = "released" /\ l.worker = None
                   /\ l.special = lease[g][s].special
    <2>1. lease[g][s] \in Lease
      BY DEF TypeOK
    <2>2. "released" \in Statuses
      BY DEF Statuses
    <2> QED BY <2>1, <2>2 DEF Lease
  <1>2. \A g \in Games, s \in Slots : lease[g][s] \in Lease
    BY DEF TypeOK
  <1>3. Released(n) \in [Games -> [Slots -> Lease]]
    BY <1>1, <1>2 DEF Released
  <1>4. ASSUME NEW g \in Games, NEW s \in Slots
        PROVE  \/ Released(n)[g][s] = lease[g][s] /\ ~HeldOn(n, g, s)
               \/ /\ Running(g, s) /\ Released(n)[g][s].status = "released"
                  /\ Released(n)[g][s].worker = None
                  /\ Released(n)[g][s].special = lease[g][s].special
    BY <1>1 DEF Released, HeldOn
  <1> QED BY <1>3, <1>4

\* "done" rewrites one key of the thread that reports.
LEMMA DoneEffect ==
    ASSUME TypeOK, NEW w \in Workers, NEW g \in Games, NEW status \in Reports,
           Done(w, g, status)
    PROVE  \E s \in Slots :
              /\ lease[g][s].worker = w
              /\ lease[g][s].status = "running" \/ lease[g][s].status = status
              /\ lease' = [lease EXCEPT ![g] = [lease[g] EXCEPT ![s] = Closed(lease[g][s], status)]]
              /\ lease' \in [Games -> [Slots -> Lease]]
              /\ lease'[g][s].status = status
              /\ lease'[g][s].worker = w
              /\ lease'[g][s].special = lease[g][s].special
              /\ \A h \in Games, t \in Slots :
                    (h # g \/ t # s) => lease'[h][t] = lease[h][t]
              /\ down' \in [Games -> SUBSET Nodes]
  <1>1. PICK s \in ClaimKey(w, g) :
          /\ \/ lease[g][s].status = "running" /\ status \in Outcomes(g, lease[g][s].special)
             \/ Resend /\ lease[g][s].status = status
          /\ lease' = [lease EXCEPT ![g][s] = Closed(lease[g][s], status)]
          /\ down' = IF lease[g][s].special /\ status = "unavailable"
                     THEN [down EXCEPT ![g] = @ \cup {NodeOf[w]}] ELSE down
    BY DEF Done
  <1>2. s \in Slots /\ lease[g][s].worker = w
    BY <1>1 DEF ClaimKey, Slots
  <1>3. lease \in [Games -> [Slots -> Lease]] /\ lease[g] \in [Slots -> Lease]
        /\ lease[g][s] \in Lease
    BY <1>2 DEF TypeOK
  <1>4. Closed(lease[g][s], status) \in Lease
    BY <1>3, LeaseRecords
  <1>5. /\ Closed(lease[g][s], status).status = status
        /\ Closed(lease[g][s], status).worker = lease[g][s].worker
        /\ Closed(lease[g][s], status).special = lease[g][s].special
    BY <1>3 DEF Closed, Lease
  <1>6. lease' = [lease EXCEPT ![g] = [lease[g] EXCEPT ![s] = Closed(lease[g][s], status)]]
    BY <1>1, <1>3
  <1>7. [lease[g] EXCEPT ![s] = Closed(lease[g][s], status)] \in [Slots -> Lease]
    BY <1>3, <1>4
  <1>8. /\ lease' \in [Games -> [Slots -> Lease]]
        /\ lease'[g][s] = Closed(lease[g][s], status)
    BY <1>2, <1>3, <1>6, <1>7
  <1>9. ASSUME NEW h \in Games, NEW t \in Slots, h # g \/ t # s
        PROVE  lease'[h][t] = lease[h][t]
    BY <1>2, <1>3, <1>6, <1>9
  <1>10. down' \in [Games -> SUBSET Nodes]
    BY <1>1, ConstantsAssumption DEF TypeOK
  <1> QED BY <1>1, <1>2, <1>5, <1>6, <1>8, <1>9, <1>10

\* CoolDown and Settle change a flag of one lease and nothing the scheduler's
\* promises speak of.
LEMMA TimerEffect ==
    ASSUME TypeOK, NEW g \in Games, NEW s \in Slots,
           CoolDown(g, s) \/ Settle(g, s)
    PROVE  /\ lease' \in [Games -> [Slots -> Lease]]
           /\ \A h \in Games, t \in Slots :
                 /\ lease'[h][t].status = lease[h][t].status
                 /\ lease'[h][t].worker = lease[h][t].worker
                 /\ lease'[h][t].special = lease[h][t].special
           /\ UNCHANGED <<open, rank, complete, down, halted, closing, accepted, cursor>>
  <1>1. PICK l \in Lease :
          /\ lease' = [lease EXCEPT ![g] = [lease[g] EXCEPT ![s] = l]]
          /\ l.status = lease[g][s].status
          /\ l.worker = lease[g][s].worker
          /\ l.special = lease[g][s].special
    <2>1. lease[g][s] \in Lease /\ lease[g] \in [Slots -> Lease]
      BY DEF TypeOK
    <2>2. CASE CoolDown(g, s)
      <3> DEFINE l == [lease[g][s] EXCEPT !.cooling = FALSE]
      <3>1. l \in Lease /\ l.status = lease[g][s].status
            /\ l.worker = lease[g][s].worker /\ l.special = lease[g][s].special
        BY <2>1 DEF Lease
      <3>2. lease' = [lease EXCEPT ![g] = [lease[g] EXCEPT ![s] = l]]
        BY <2>2, <2>1 DEF CoolDown, TypeOK
      <3> QED BY <3>1, <3>2
    <2>3. CASE Settle(g, s)
      <3> DEFINE l == [lease[g][s] EXCEPT !.fresh = FALSE]
      <3>1. l \in Lease /\ l.status = lease[g][s].status
            /\ l.worker = lease[g][s].worker /\ l.special = lease[g][s].special
        BY <2>1 DEF Lease
      <3>2. lease' = [lease EXCEPT ![g] = [lease[g] EXCEPT ![s] = l]]
        BY <2>3, <2>1 DEF Settle, TypeOK
      <3> QED BY <3>1, <3>2
    <2> QED BY <2>2, <2>3
  <1>2. UNCHANGED <<open, rank, complete, down, halted, closing, accepted, cursor>>
    BY DEF CoolDown, Settle
  <1> QED BY <1>1, <1>2 DEF TypeOK

\* Every step keeps the state well typed, and a running lease names a thread.
LEMMA TypeStep == ConstantsAssumption /\ TypeOK /\ [Next]_vars => TypeOK'
  <1> SUFFICES ASSUME TypeOK, [Next]_vars
               PROVE  TypeOK'
    OBVIOUS
  <1> DEFINE Holders == \A g \in Games, s \in Slots : Running(g, s) => lease[g][s].worker \in Workers
  <1>1. CASE UNCHANGED vars
    BY <1>1 DEF vars, TypeOK, Running
  <1>2. ASSUME NEW r \in Rosters, Begin(r)
        PROVE  TypeOK'
    <2>1. rank' \in [Games -> Nat]
      BY <1>2, RoundOrderType DEF Begin
    <2>2. lease' \in [Games -> [Slots -> Lease]]
      BY <1>2, LeaseRecords DEF Begin
    <2>3. Holders'
      BY <1>2 DEF Begin, Running, Absent
    <2> QED BY <1>2, <2>1, <2>2, <2>3 DEF Begin, TypeOK
  <1>3. CASE End
    BY <1>3 DEF End, TypeOK, Running
  <1>4. ASSUME NEW w \in Workers, NEW g \in Games, NEW s \in Slots,
               NEW special \in BOOLEAN, NEW passed, Grant(w, g, s, special, passed)
        PROVE  TypeOK'
    <2>1. ASSUME NEW h \in Games, NEW t \in Slots, lease'[h][t].status = "running"
          PROVE  lease'[h][t].worker \in Workers
      <3>1. CASE h = g /\ t = s
        BY <1>4, <3>1, GrantEffect, LeaseFields
      <3>2. CASE h # g \/ t # s
        BY <1>4, <2>1, <3>2, GrantEffect, LeaseFields DEF Running, TypeOK
      <3> QED BY <3>1, <3>2
    <2>2. complete' \subseteq Games /\ down' \in [Games -> SUBSET Nodes]
      BY <1>4, MarkQuotasType DEF Grant
    <2> QED BY <1>4, <2>1, <2>2, GrantEffect DEF TypeOK, Running
  <1>5. ASSUME NEW w \in Workers, ClaimNothing(w)
        PROVE  TypeOK'
    <2>1. PICK S : lease' = Marked(S)
      BY <1>5 DEF ClaimNothing
    <2>2. lease' \in [Games -> [Slots -> Lease]]
      BY <2>1, MarkedType
    <2>3. Holders'
      BY <2>1, MarkedType DEF Running, AlreadyAccepted, Absent, TypeOK
    <2>4. complete' \subseteq Games /\ down' \in [Games -> SUBSET Nodes]
      BY <1>5, MarkQuotasType DEF ClaimNothing
    <2> QED BY <1>5, <2>2, <2>3, <2>4 DEF ClaimNothing, TypeOK
  <1>6. ASSUME NEW w \in Workers, NEW g \in Games, NEW status \in Reports, Done(w, g, status)
        PROVE  TypeOK'
    <2>1. ASSUME NEW h \in Games, NEW t \in Slots, lease'[h][t].status = "running"
          PROVE  lease'[h][t].worker \in Workers
      <3>1. PICK s \in Slots : /\ lease'[g][s].worker = w
                               /\ \A i \in Games, j \in Slots :
                                     (i # g \/ j # s) => lease'[i][j] = lease[i][j]
        BY <1>6, DoneEffect
      <3>2. CASE h = g /\ t = s
        BY <3>1, <3>2
      <3>3. CASE h # g \/ t # s
        BY <2>1, <3>1, <3>3 DEF Running, TypeOK
      <3> QED BY <3>2, <3>3
    <2>2. /\ lease' \in [Games -> [Slots -> Lease]]
          /\ down' \in [Games -> SUBSET Nodes]
      BY <1>6, DoneEffect
    <2> QED BY <1>6, <2>1, <2>2 DEF Done, TypeOK, Running
  <1>7. ASSUME NEW g \in Games, FillQuota(g) \/ Accept(g)
        PROVE  TypeOK'
    BY <1>7 DEF FillQuota, Accept, TypeOK, Running
  <1>8. ASSUME NEW n \in Nodes, HaltNode(n)
        PROVE  TypeOK'
    <2>1. Holders' /\ lease' \in [Games -> [Slots -> Lease]]
      BY <1>8, ReleasedType DEF HaltNode, Running, TypeOK
    <2> QED BY <1>8, <2>1 DEF HaltNode, TypeOK
  <1>9. CASE Close
    BY <1>9 DEF Close, TypeOK, Running
  <1>10. ASSUME NEW g \in Games, NEW s \in Slots, CoolDown(g, s) \/ Settle(g, s)
         PROVE  TypeOK'
    BY <1>10, TimerEffect DEF TypeOK, Running
  <1>11. ASSUME NEW w \in Workers, NEW g \in Games,
                ClaimSpecial(w, g) \/ ClaimSecond(w, g) \/ ClaimNormal(w, g)
         PROVE  TypeOK'
    BY <1>4, <1>11 DEF ClaimSpecial, ClaimSecond, ClaimNormal, Slots
  <1> QED BY <1>1, <1>2, <1>3, <1>5, <1>6, <1>7, <1>8, <1>9, <1>10, <1>11 DEF Next, RoundStep

\* The state before the first "begin" is well typed.
LEMMA TypeInit == Init => TypeOK
  <1> SUFFICES ASSUME Init PROVE TypeOK
    OBVIOUS
  <1>1. lease \in [Games -> [Slots -> Lease]]
    BY LeaseRecords DEF Init
  <1>2. \A g \in Games, s \in Slots : lease[g][s].status = "none"
    BY LeaseFields DEF Init
  <1> QED BY <1>1, <1>2 DEF Init, TypeOK, Running

\* The state of the scheduler is always well typed; in particular no running
\* lease is ever without a thread, although release_node and begin clear them.
THEOREM TypeCorrect == Spec => []TypeOK
  <1>1. TypeOK /\ [Next]_vars => TypeOK'
    BY TypeStep, ConstantsAssumption
  <1> QED BY TypeInit, <1>1, PTL DEF Spec

-----------------------------------------------------------------------------
(* A fused node holds nothing.                                             *)

\* No step gives a fused node a lease: claims are refused (485-488), the rest takes back.
LEMMA HaltedStep == TypeOK /\ TypeOK' /\ HaltedHoldsNothing /\ [Next]_vars => HaltedHoldsNothing'
  <1> SUFFICES ASSUME TypeOK, TypeOK', HaltedHoldsNothing, [Next]_vars,
                      NEW n \in Nodes, n \in halted', NEW g \in Games, NEW s \in Slots,
                      Running(g, s)'
               PROVE  NodeOf[lease'[g][s].worker] # n
    BY DEF HaltedHoldsNothing, HeldOn, TypeOK
  <1> DEFINE Kept == /\ n \in halted
                     /\ Running(g, s)
                     /\ lease'[g][s].worker = lease[g][s].worker
  <1>0. Kept => NodeOf[lease'[g][s].worker] # n
    BY DEF HaltedHoldsNothing, HeldOn
  <1>1. CASE UNCHANGED vars
    BY <1>0, <1>1 DEF vars, Running
  <1>2. ASSUME NEW r \in Rosters, Begin(r)
        PROVE  FALSE
    BY <1>2 DEF Begin
  <1>3. CASE End
    BY <1>0, <1>3 DEF End, Running
  <1>4. ASSUME NEW w \in Workers, NEW h \in Games, NEW t \in Slots,
               NEW special \in BOOLEAN, NEW passed, Admitted(w),
               Grant(w, h, t, special, passed)
        PROVE  NodeOf[lease'[g][s].worker] # n
    <2>1. n \in halted
      BY <1>4, GrantEffect
    <2>2. CASE g = h /\ s = t
      <3>1. lease'[h][t] = Granted(w, special)
        BY <1>4, GrantEffect
      <3>2. lease'[g][s].worker = w
        BY <2>2, <3>1, LeaseFields
      <3>3. NodeOf[w] \notin halted
        BY <1>4 DEF Admitted
      <3> QED BY <2>1, <3>2, <3>3
    <2>3. CASE g # h \/ s # t
      BY <1>0, <1>4, <2>1, <2>3, GrantEffect, LeaseFields DEF Running
    <2> QED BY <2>2, <2>3
  <1>5. ASSUME NEW w \in Workers, ClaimNothing(w)
        PROVE  NodeOf[lease'[g][s].worker] # n
    <2>1. PICK S : lease' = Marked(S)
      BY <1>5 DEF ClaimNothing
    <2>2. n \in halted
      BY <1>5 DEF ClaimNothing
    <2> QED BY <1>0, <2>1, <2>2, MarkedType, LeaseFields DEF Running
  <1>6. ASSUME NEW w \in Workers, NEW h \in Games, NEW status \in Reports, Done(w, h, status)
        PROVE  NodeOf[lease'[g][s].worker] # n
    <2>1. PICK t \in Slots : /\ lease[h][t].worker = w
                             /\ lease[h][t].status = "running" \/ lease[h][t].status = status
                             /\ lease'[h][t].status = status
                             /\ lease'[h][t].worker = w
                             /\ \A i \in Games, j \in Slots :
                                   (i # h \/ j # t) => lease'[i][j] = lease[i][j]
      BY <1>6, DoneEffect
    <2>2. status # "running"
      BY ConstantsAssumption
    <2>3. g # h \/ s # t
      BY <2>1, <2>2 DEF Running
    <2> QED BY <1>0, <1>6, <2>1, <2>3 DEF Done, Running
  <1>7. ASSUME NEW h \in Games, FillQuota(h) \/ Accept(h)
        PROVE  NodeOf[lease'[g][s].worker] # n
    BY <1>0, <1>7 DEF FillQuota, Accept, Running
  <1>8. ASSUME NEW m \in Nodes, HaltNode(m)
        PROVE  NodeOf[lease'[g][s].worker] # n
    <2>1. /\ lease'[g][s] = lease[g][s]
          /\ ~HeldOn(m, g, s)
      BY <1>8, ReleasedType DEF HaltNode, Running
    <2>2. Running(g, s)
      BY <2>1 DEF Running
    <2>3. CASE n \in halted
      BY <1>0, <2>1, <2>2, <2>3
    <2>4. CASE n = m
      BY <2>1, <2>2, <2>4 DEF HeldOn
    <2> QED BY <1>8, <2>3, <2>4 DEF HaltNode
  <1>9. CASE Close
    BY <1>0, <1>9 DEF Close, Running
  <1>10. ASSUME NEW h \in Games, NEW t \in Slots, CoolDown(h, t) \/ Settle(h, t)
         PROVE  NodeOf[lease'[g][s].worker] # n
    BY <1>0, <1>10, TimerEffect DEF Running
  <1>11. ASSUME NEW w \in Workers, NEW h \in Games,
                ClaimSpecial(w, h) \/ ClaimSecond(w, h) \/ ClaimNormal(w, h)
         PROVE  NodeOf[lease'[g][s].worker] # n
    BY <1>4, <1>11 DEF ClaimSpecial, ClaimSecond, ClaimNormal, Slots
  <1> QED BY <1>1, <1>2, <1>3, <1>5, <1>6, <1>7, <1>8, <1>9, <1>10, <1>11 DEF Next, RoundStep

\* Once a node is fused none of its threads holds a lease until the next
\* round, whatever they claim, re-send or report meanwhile.
THEOREM HaltedSafe == Spec => []HaltedHoldsNothing
  <1>1. Init => HaltedHoldsNothing
    BY DEF Init, HaltedHoldsNothing
  <1> QED BY <1>1, TypeCorrect, HaltedStep, PTL DEF Spec

-----------------------------------------------------------------------------
(* A normal lease is alone, and accepted games stay closed.                *)

\* NormalIsAlone is not inductive by itself: loop 4 only looks for running
\* special shards, so one must know that the second key holds no other kind;
\* and loop 2 never looks at the acceptance files, so one must know that a
\* leased game is not accepted before its mode quota is complete.
GameInv(g) ==
    /\ Running(g, "second") => lease[g]["second"].special
    /\ Running(g, "main") /\ ~lease[g]["main"].special =>
          /\ ~Running(g, "second")
          /\ g \in ModeGames => g \in complete
    /\ /\ g \in ModeGames \cap accepted
       /\ lease[g]["main"].status \notin {"none", "already-accepted"}
       => g \in complete

LeaseInv == \A g \in Games : GameInv(g)

\* A game keeps the invariant when its leases keep their status and kind, are
\* marked already-accepted, or are closed after having been held.
LEMMA QuietGame ==
    ASSUME NEW g \in Games, GameInv(g),
           complete \subseteq complete', accepted' = accepted,
           \A s \in Slots :
              \/ /\ lease'[g][s].status = lease[g][s].status
                 /\ lease'[g][s].special = lease[g][s].special
              \/ lease'[g][s].status = "already-accepted"
              \/ /\ lease'[g][s].status # "running"
                 /\ lease[g][s].status \notin {"none", "already-accepted"}
    PROVE  GameInv(g)'
  <1>1. "main" \in Slots /\ "second" \in Slots
    BY DEF Slots
  <1> QED BY <1>1 DEF GameInv, Running

\* A grant does not disturb any other game.
LEMMA GrantElsewhere ==
    ASSUME TypeOK, NEW w \in Workers, NEW h \in Games, NEW t \in Slots,
           NEW special \in BOOLEAN, NEW passed, Grant(w, h, t, special, passed),
           NEW g \in Games, g # h, GameInv(g)
    PROVE  GameInv(g)'
  <1>1. complete \subseteq complete'
    BY DEF Grant, MarkQuotas
  <1>2. \A s \in Slots : \/ lease'[g][s] = lease[g][s]
                        \/ lease'[g][s].status = "already-accepted"
    BY GrantEffect, LeaseFields
  <1>3. accepted' = accepted
    BY GrantEffect
  <1> QED BY <1>1, <1>2, <1>3, QuietGame

\* The three grants establish the invariant for the game they grant.
LEMMA GrantHere ==
    ASSUME TypeOK, NEW w \in Workers, NEW g \in Games, GameInv(g),
           ClaimSpecial(w, g) \/ ClaimSecond(w, g) \/ ClaimNormal(w, g)
    PROVE  GameInv(g)'
  <1>0. "main" \in Slots /\ "second" \in Slots /\ "main" # "second"
    BY DEF Slots
  <1>1. CASE ClaimSpecial(w, g)
    <2>1. PICK passed : Grant(w, g, "main", TRUE, passed)
      BY <1>1 DEF ClaimSpecial
    <2>2. g \notin accepted
      BY <1>1 DEF ClaimSpecial, FirstOf
    <2>3. /\ lease'[g]["main"].special
          /\ accepted' = accepted
          /\ \/ lease'[g]["second"] = lease[g]["second"]
             \/ lease'[g]["second"].status = "already-accepted"
      BY <1>0, <2>1, GrantOwnGame
    <2> QED BY <2>2, <2>3 DEF GameInv, Running
  <1>2. CASE ClaimSecond(w, g)
    <2>1. PICK passed : Grant(w, g, "second", TRUE, passed)
      BY <1>2 DEF ClaimSecond
    <2>2. /\ g \in ModeGames /\ g \notin complete
          /\ lease[g]["main"].status \in {"running", "unavailable"}
      BY <1>2 DEF ClaimSecond, FirstOf, SecondTurns
    <2>3. g \notin accepted /\ (Running(g, "main") => lease[g]["main"].special)
      BY <2>2 DEF GameInv, Running
    <2>4. /\ lease'[g]["second"].special
          /\ accepted' = accepted
          /\ \/ lease'[g]["main"] = lease[g]["main"]
             \/ lease'[g]["main"].status = "already-accepted"
      BY <1>0, <2>1, GrantOwnGame
    <2> QED BY <2>3, <2>4 DEF GameInv, Running
  <1>3. CASE ClaimNormal(w, g)
    <2>1. PICK passed : Grant(w, g, "main", FALSE, passed)
      BY <1>3 DEF ClaimNormal
    <2>2. /\ g \in ModeGames => g \in complete
          /\ ~SpecialRunning(g)
      BY <1>3 DEF ClaimNormal, FirstOf, NormalTurns
    <2>3. ~Running(g, "second")
      BY <1>0, <2>2 DEF GameInv, SpecialRunning
    <2>4. /\ complete \subseteq complete'
          /\ \/ lease'[g]["second"] = lease[g]["second"]
             \/ lease'[g]["second"].status = "already-accepted"
      BY <1>0, <2>1, GrantOwnGame
    <2> QED BY <2>2, <2>3, <2>4 DEF GameInv, Running
  <1> QED BY <1>1, <1>2, <1>3

\* The lease invariant is preserved by every operation of the coordinator.
LEMMA LeaseInvStep == TypeOK /\ LeaseInv /\ [Next]_vars => LeaseInv'
  <1> SUFFICES ASSUME TypeOK, LeaseInv, [Next]_vars, NEW g \in Games
               PROVE  GameInv(g)'
    BY DEF LeaseInv
  <1>0. GameInv(g)
    BY DEF LeaseInv
  <1>1. CASE UNCHANGED vars
    BY <1>0, <1>1, QuietGame DEF vars
  <1>2. ASSUME NEW r \in Rosters, Begin(r)
        PROVE  GameInv(g)'
    BY <1>2, LeaseFields DEF Begin, GameInv, Running, Slots
  <1>3. CASE End \/ Close
    BY <1>0, <1>3, QuietGame DEF End, Close
  <1>4. ASSUME NEW w \in Workers, NEW h \in Games,
               ClaimSpecial(w, h) \/ ClaimSecond(w, h) \/ ClaimNormal(w, h)
        PROVE  GameInv(g)'
    <2>1. CASE g = h
      BY <1>0, <1>4, <2>1, GrantHere
    <2>2. CASE g # h
      <3>1. PICK t \in Slots, special \in BOOLEAN : \E passed : Grant(w, h, t, special, passed)
        BY <1>4 DEF ClaimSpecial, ClaimSecond, ClaimNormal, Slots
      <3> QED BY <1>0, <2>2, <3>1, GrantElsewhere
    <2> QED BY <2>1, <2>2
  <1>5. ASSUME NEW w \in Workers, ClaimNothing(w)
        PROVE  GameInv(g)'
    <2>1. PICK S : lease' = Marked(S)
      BY <1>5 DEF ClaimNothing
    <2>2. complete \subseteq complete' /\ accepted' = accepted
      BY <1>5 DEF ClaimNothing, MarkQuotas
    <2>3. \A s \in Slots : \/ lease'[g][s] = lease[g][s]
                          \/ lease'[g][s].status = "already-accepted"
      BY <2>1, MarkedType, LeaseFields
    <2> QED BY <1>0, <2>2, <2>3, QuietGame
  <1>6. ASSUME NEW w \in Workers, NEW h \in Games, NEW status \in Reports, Done(w, h, status)
        PROVE  GameInv(g)'
    <2>1. PICK t \in Slots : /\ lease[h][t].status = "running" \/ lease[h][t].status = status
                             /\ lease'[h][t].status = status
                             /\ lease'[h][t].special = lease[h][t].special
                             /\ \A i \in Games, j \in Slots :
                                   (i # h \/ j # t) => lease'[i][j] = lease[i][j]
      BY <1>6, DoneEffect
    <2>2. status # "running"
      BY ConstantsAssumption
    <2>3. complete' = complete /\ accepted' = accepted
      BY <1>6 DEF Done
    <2>4. \A s \in Slots :
             \/ /\ lease'[g][s].status = lease[g][s].status
                /\ lease'[g][s].special = lease[g][s].special
             \/ /\ lease'[g][s].status # "running"
                /\ lease[g][s].status \notin {"none", "already-accepted"}
      BY <2>1, <2>2
    <2> QED BY <1>0, <2>3, <2>4, QuietGame
  <1>7. ASSUME NEW h \in Games, FillQuota(h)
        PROVE  GameInv(g)'
    BY <1>0, <1>7, QuietGame DEF FillQuota
  <1>8. ASSUME NEW h \in Games, Accept(h)
        PROVE  GameInv(g)'
    BY <1>0, <1>8 DEF Accept, GameInv, Running
  <1>9. ASSUME NEW n \in Nodes, HaltNode(n)
        PROVE  GameInv(g)'
    <2>1. complete' = complete /\ accepted' = accepted
      BY <1>9 DEF HaltNode
    <2>2. \A s \in Slots :
             \/ lease'[g][s] = lease[g][s]
             \/ lease'[g][s].status = "released" /\ lease[g][s].status = "running"
      BY <1>9, ReleasedType DEF HaltNode, Running
    <2> QED BY <1>0, <2>1, <2>2, QuietGame
  <1>10. ASSUME NEW h \in Games, NEW t \in Slots, CoolDown(h, t) \/ Settle(h, t)
         PROVE  GameInv(g)'
    BY <1>0, <1>10, TimerEffect, QuietGame
  <1> QED BY <1>1, <1>2, <1>3, <1>4, <1>5, <1>6, <1>7, <1>8, <1>9, <1>10 DEF Next, RoundStep

\* The lease invariant holds of an empty claims table.
LEMMA LeaseInvInit == Init => LeaseInv
  BY LeaseFields DEF Init, LeaseInv, GameInv, Running, Slots

\* The lease invariant holds always.
LEMMA LeaseInvHolds == Spec => []LeaseInv
  BY LeaseInvInit, LeaseInvStep, TypeCorrect, PTL DEF Spec

\* The normal lease of a game never overlaps another lease of it, and a game
\* with purchase modes gets it only once its mode quota is complete.
THEOREM NormalLeaseIsExclusive == Spec => []NormalIsAlone
  <1>1. LeaseInv => NormalIsAlone
    BY DEF LeaseInv, GameInv, NormalIsAlone
  <1> QED BY <1>1, LeaseInvHolds, PTL

\* No grant, on either key, re-opens a game whose acceptance is on disk.
LEMMA GrantsSpareAccepted ==
    ASSUME TypeOK, LeaseInv, [Next]_vars, NEW g \in Games, NEW s \in Slots,
           ~Running(g, s), Running(g, s)'
    PROVE  g \notin accepted
  <1> USE DEF Running
  <1>1. CASE UNCHANGED vars
    BY <1>1 DEF vars
  <1>2. ASSUME NEW r \in Rosters, Begin(r)
        PROVE  FALSE
    BY <1>2, LeaseFields DEF Begin
  <1>3. CASE End \/ Close
    BY <1>3 DEF End, Close
  <1>4. ASSUME NEW w \in Workers, NEW h \in Games,
               ClaimSpecial(w, h) \/ ClaimSecond(w, h) \/ ClaimNormal(w, h)
        PROVE  g \notin accepted
    <2>1. PICK t \in Slots, special \in BOOLEAN : \E passed : Grant(w, h, t, special, passed)
      BY <1>4 DEF ClaimSpecial, ClaimSecond, ClaimNormal, Slots
    <2>2. g = h
      BY <2>1, GrantEffect, LeaseFields
    <2>3. CASE ClaimSpecial(w, g) \/ ClaimNormal(w, g)
      BY <2>3 DEF ClaimSpecial, ClaimNormal, FirstOf
    <2>4. CASE ClaimSecond(w, g)
      <3>1. /\ g \in ModeGames /\ g \notin complete
            /\ lease[g]["main"].status \in {"running", "unavailable"}
        BY <2>4 DEF ClaimSecond, FirstOf, SecondTurns
      <3> QED BY <3>1 DEF LeaseInv, GameInv
    <2> QED BY <1>4, <2>2, <2>3, <2>4
  <1>5. ASSUME NEW w \in Workers, ClaimNothing(w)
        PROVE  FALSE
    <2>1. PICK S : lease' = Marked(S)
      BY <1>5 DEF ClaimNothing
    <2> QED BY <2>1, MarkedType, LeaseFields
  <1>6. ASSUME NEW w \in Workers, NEW h \in Games, NEW status \in Reports, Done(w, h, status)
        PROVE  FALSE
    <2>1. PICK t \in Slots : /\ lease'[h][t].status = status
                             /\ \A i \in Games, j \in Slots :
                                   (i # h \/ j # t) => lease'[i][j] = lease[i][j]
      BY <1>6, DoneEffect
    <2>2. status # "running"
      BY ConstantsAssumption
    <2> QED BY <2>1, <2>2
  <1>7. ASSUME NEW h \in Games, FillQuota(h) \/ Accept(h)
        PROVE  FALSE
    BY <1>7 DEF FillQuota, Accept
  <1>8. ASSUME NEW n \in Nodes, HaltNode(n)
        PROVE  FALSE
    BY <1>8, ReleasedType DEF HaltNode
  <1>9. ASSUME NEW h \in Games, NEW t \in Slots, CoolDown(h, t) \/ Settle(h, t)
        PROVE  FALSE
    BY <1>9, TimerEffect
  <1> QED BY <1>1, <1>2, <1>3, <1>4, <1>5, <1>6, <1>7, <1>8, <1>9 DEF Next, RoundStep

\* No step of a claim, on either key and in any loop, opens a lease of a game
\* whose acceptance files are on disk (521-524, 527-540, 566-568).
THEOREM AcceptedGamesStayClosed == Spec => AcceptedStaysClosed
  <1>1. TypeOK /\ LeaseInv /\ [Next]_vars =>
          [\A g \in Games, s \in Slots :
             Running(g, s)' /\ lease'[g][s] # lease[g][s] /\ ~Running(g, s)
                => g \notin accepted]_vars
    BY GrantsSpareAccepted
  <1> QED BY <1>1, TypeCorrect, LeaseInvHolds, PTL DEF Spec, AcceptedStaysClosed

-----------------------------------------------------------------------------
(* What a step does to the keys in use.                                    *)

\* A key keeps or loses its thread, and if it runs afterwards it ran before,
\* for the same thread and with the same kind of lease.
Kept(g, s) ==
    /\ lease'[g][s].worker \in {lease[g][s].worker, None}
    /\ Running(g, s)' =>
          /\ Running(g, s)
          /\ lease'[g][s].worker = lease[g][s].worker
          /\ lease'[g][s].special = lease[g][s].special

SomeClaim(w, g) == ClaimSpecial(w, g) \/ ClaimSecond(w, g) \/ ClaimNormal(w, g)

\* Only a granted claim makes a key run: every other operation, begin
\* included, keeps or ends what runs.
LEMMA OnlyClaimsStart ==
    ASSUME TypeOK, [Next]_vars
    PROVE  \/ \A g \in Games, s \in Slots : Kept(g, s)
           \/ \E w \in Workers, g \in Games : SomeClaim(w, g)
  <1> SUFFICES ASSUME NEW g \in Games, NEW s \in Slots,
                      ~\E w \in Workers, h \in Games : SomeClaim(w, h)
               PROVE  Kept(g, s)
    OBVIOUS
  <1>1. CASE UNCHANGED vars
    BY <1>1 DEF vars, Kept, Running
  <1>2. ASSUME NEW r \in Rosters, Begin(r)
        PROVE  Kept(g, s)
    BY <1>2, LeaseFields DEF Begin, Kept, Running
  <1>3. CASE End \/ Close
    BY <1>3 DEF End, Close, Kept, Running
  <1>4. ASSUME NEW w \in Workers, ClaimNothing(w)
        PROVE  Kept(g, s)
    <2>1. PICK S : lease' = Marked(S)
      BY <1>4 DEF ClaimNothing
    <2> QED BY <2>1, MarkedType, LeaseFields DEF Kept, Running
  <1>5. ASSUME NEW w \in Workers, NEW h \in Games, NEW status \in Reports, Done(w, h, status)
        PROVE  Kept(g, s)
    <2>1. PICK t \in Slots : /\ lease[h][t].worker = w
                             /\ lease'[h][t].status = status
                             /\ lease'[h][t].worker = w
                             /\ \A i \in Games, j \in Slots :
                                   (i # h \/ j # t) => lease'[i][j] = lease[i][j]
      BY <1>5, DoneEffect
    <2>2. status # "running"
      BY ConstantsAssumption
    <2> QED BY <2>1, <2>2 DEF Kept, Running
  <1>6. ASSUME NEW h \in Games, FillQuota(h) \/ Accept(h)
        PROVE  Kept(g, s)
    BY <1>6 DEF FillQuota, Accept, Kept, Running
  <1>7. ASSUME NEW n \in Nodes, HaltNode(n)
        PROVE  Kept(g, s)
    BY <1>7, ReleasedType DEF HaltNode, Kept, Running
  <1>8. ASSUME NEW h \in Games, NEW t \in Slots, CoolDown(h, t) \/ Settle(h, t)
        PROVE  Kept(g, s)
    BY <1>8, TimerEffect DEF Kept, Running
  <1> QED BY <1>1, <1>2, <1>3, <1>4, <1>5, <1>6, <1>7, <1>8 DEF Next, RoundStep, SomeClaim

\* A granted claim starts one key for one thread, on a node that is not
\* crowded, and keeps every other key (grant_claim, 346-379).
LEMMA ClaimStartsOne ==
    ASSUME TypeOK, NEW w \in Workers, NEW g \in Games, SomeClaim(w, g)
    PROVE  \E s \in Slots, special \in BOOLEAN :
              /\ s = "second" <=> ClaimSecond(w, g)
              /\ ~special <=> ClaimNormal(w, g)
              /\ Admitted(w)
              /\ ~Crowded(NodeOf[w], special)
              /\ lease'[g][s] = Granted(w, special)
              /\ \A h \in Games, t \in Slots : (h # g \/ t # s) => Kept(h, t)
  <1>1. ASSUME NEW s \in Slots, NEW special \in BOOLEAN, NEW passed,
               Grant(w, g, s, special, passed)
        PROVE  /\ ~Crowded(NodeOf[w], special)
               /\ lease'[g][s] = Granted(w, special)
               /\ \A h \in Games, t \in Slots : (h # g \/ t # s) => Kept(h, t)
    <2>1. ~Crowded(NodeOf[w], special)
      BY <1>1 DEF Grant
    <2> QED BY <1>1, <2>1, GrantEffect, LeaseFields DEF Kept, Running
  <1>2. "main" \in Slots /\ "second" \in Slots /\ "main" # "second"
    BY DEF Slots
  <1>3. CASE ClaimSpecial(w, g)
    <2>1. AnsweringLoop(NodeOf[w]) = "special"
      BY <1>3 DEF ClaimSpecial
    <2>2. ~ClaimSecond(w, g) /\ ~ClaimNormal(w, g)
      BY <2>1 DEF ClaimSecond, ClaimNormal
    <2>3. Admitted(w) /\ Grant(w, g, "main", TRUE, Passed(SpecialTurns))
      BY <1>3 DEF ClaimSpecial
    <2> QED BY <1>1, <1>2, <2>2, <2>3
  <1>4. CASE ClaimSecond(w, g)
    <2>1. AnsweringLoop(NodeOf[w]) = "second"
      BY <1>4 DEF ClaimSecond
    <2>2. ~ClaimNormal(w, g)
      BY <2>1 DEF ClaimNormal
    <2>3. Admitted(w) /\ Grant(w, g, "second", TRUE, Passed(SpecialTurns))
      BY <1>4 DEF ClaimSecond
    <2> QED BY <1>1, <1>2, <1>4, <2>2, <2>3
  <1>5. CASE ClaimNormal(w, g)
    <2>1. AnsweringLoop(NodeOf[w]) = "normal"
      BY <1>5 DEF ClaimNormal
    <2>2. ~ClaimSecond(w, g)
      BY <2>1 DEF ClaimSecond
    <2>3. Admitted(w)
          /\ Grant(w, g, "main", FALSE, Passed(SpecialTurns) \cup Passed(NormalTurns))
      BY <1>5 DEF ClaimNormal
    <2> QED BY <1>1, <1>2, <1>5, <2>2, <2>3
  <1> QED BY <1>3, <1>4, <1>5 DEF SomeClaim

-----------------------------------------------------------------------------
(* A special shard has its node to itself.                                 *)

\* The promise about two keys in use, by game and key.
Apart(g, s, h, t) ==
    /\ Running(g, s) /\ Running(h, t)
    /\ NodeOf[lease[g][s].worker] = NodeOf[lease[h][t].worker]
    => ~lease[g][s].special

NodesApart ==
    FillIdle => \A g, h \in Games, s, t \in Slots :
                   (g # h \/ s # t) => Apart(g, s, h, t)

\* Pairs of keys or keys by game and slot: the same promise.
LEMMA ApartIsOwning == NodesApart <=> SpecialOwnsNode
  <1>1. ASSUME NodesApart PROVE SpecialOwnsNode
    <2> SUFFICES ASSUME FillIdle, NEW k \in RunningKeys, NEW j \in RunningKeys, k # j,
                        NodeOf[lease[k[1]][k[2]].worker] = NodeOf[lease[j[1]][j[2]].worker]
                 PROVE  ~lease[k[1]][k[2]].special
      BY DEF SpecialOwnsNode
    <2>1. /\ k[1] \in Games /\ k[2] \in Slots /\ j[1] \in Games /\ j[2] \in Slots
          /\ k = <<k[1], k[2]>> /\ j = <<j[1], j[2]>>
          /\ Running(k[1], k[2]) /\ Running(j[1], j[2])
      BY DEF RunningKeys
    <2>2. k[1] # j[1] \/ k[2] # j[2]
      BY <2>1
    <2> QED BY <1>1, <2>1, <2>2 DEF NodesApart, Apart
  <1>2. ASSUME SpecialOwnsNode PROVE NodesApart
    <2> SUFFICES ASSUME FillIdle, NEW g \in Games, NEW h \in Games, NEW s \in Slots,
                        NEW t \in Slots, g # h \/ s # t, Running(g, s), Running(h, t),
                        NodeOf[lease[g][s].worker] = NodeOf[lease[h][t].worker]
                 PROVE  ~lease[g][s].special
      BY DEF NodesApart, Apart
    <2> DEFINE k == <<g, s>>
               j == <<h, t>>
    <2>1. k \in RunningKeys /\ j \in RunningKeys /\ k # j
      BY DEF RunningKeys
    <2>2. k[1] = g /\ k[2] = s /\ j[1] = h /\ j[2] = t
      OBVIOUS
    <2> HIDE DEF k, j
    <2> QED BY <1>2, <2>1, <2>2 DEF SpecialOwnsNode
  <1> QED BY <1>1, <1>2

\* A crowded node, by game and key: any lease on it keeps special shards
\* away, a special one keeps every lease away (354-358).
LEMMA NotCrowded ==
    ASSUME FillIdle, NEW w \in Workers, NEW special \in BOOLEAN,
           ~Crowded(NodeOf[w], special),
           NEW g \in Games, NEW s \in Slots, Running(g, s),
           NodeOf[lease[g][s].worker] = NodeOf[w]
    PROVE  ~special /\ ~lease[g][s].special
  <1>1. <<g, s>> \in RunningKeys /\ HeldOn(NodeOf[w], g, s)
    BY DEF RunningKeys, HeldOn
  <1>2. \A k \in RunningKeys :
           HeldOn(NodeOf[w], k[1], k[2]) => ~special /\ ~lease[k[1]][k[2]].special
    BY DEF Crowded
  <1>3. HeldOn(NodeOf[w], <<g, s>>[1], <<g, s>>[2])
           => ~special /\ ~lease[<<g, s>>[1]][<<g, s>>[2]].special
    BY <1>1, <1>2
  <1> QED BY <1>1, <1>3

\* No operation brings a second lease to the node of a special shard.
LEMMA NodesApartStep == TypeOK /\ NodesApart /\ [Next]_vars => NodesApart'
  <1> SUFFICES ASSUME TypeOK, NodesApart, [Next]_vars, FillIdle,
                      NEW g \in Games, NEW h \in Games, NEW s \in Slots, NEW t \in Slots,
                      g # h \/ s # t
               PROVE  Apart(g, s, h, t)'
    BY DEF NodesApart
  <1>1. Kept(g, s) /\ Kept(h, t) => Apart(g, s, h, t)'
    BY DEF NodesApart, Apart, Kept
  <1>2. ASSUME NEW w \in Workers, NEW i \in Games, SomeClaim(w, i)
        PROVE  Apart(g, s, h, t)'
    <2>1. PICK j \in Slots, special \in BOOLEAN :
            /\ ~Crowded(NodeOf[w], special)
            /\ lease'[i][j] = Granted(w, special)
            /\ \A x \in Games, y \in Slots : (x # i \/ y # j) => Kept(x, y)
      BY <1>2, ClaimStartsOne
    <2>2. CASE g = i /\ s = j
      <3>1. Kept(h, t)
        BY <2>1, <2>2
      <3> QED BY <2>1, <2>2, <3>1, NotCrowded, LeaseFields DEF Kept, Apart
    <2>3. CASE h = i /\ t = j
      <3>1. Kept(g, s)
        BY <2>1, <2>3
      <3> QED BY <2>1, <2>3, <3>1, NotCrowded, LeaseFields DEF Kept, Apart
    <2>4. CASE (g # i \/ s # j) /\ (h # i \/ t # j)
      BY <1>1, <2>1, <2>4
    <2> QED BY <2>2, <2>3, <2>4
  <1> QED BY <1>1, <1>2, OnlyClaimsStart

\* Under fillIdleNormal no two leases share a node if one of them is a special
\* shard, for any number of nodes, threads per node and games, and although a
\* node is asked only when it is granted something (grant_claim, 354-358).
THEOREM SpecialShardsOwnTheirNode == Spec => []SpecialOwnsNode
  <1>1. Init => NodesApart
    BY LeaseFields DEF Init, NodesApart, Apart, Running
  <1>2. Spec => []NodesApart
    BY <1>1, NodesApartStep, TypeCorrect, PTL DEF Spec
  <1> QED BY <1>2, ApartIsOwning, PTL

-----------------------------------------------------------------------------
(* The holder of a lease finds it.                                         *)

\* While the second key of a game runs, the entry of the main key, running or
\* not, names another thread.
DistinctHolders ==
    \A g \in Games :
        Running(g, "second") => lease[g]["main"].worker # lease[g]["second"].worker

\* What keeps a thread from getting the second key of a game whose main key it
\* is about to get: it asks only when it holds nothing, or its node is crowded.
LEMMA NoThirdHand ==
    ASSUME ~Resend \/ FillIdle, TypeOK, NEW w \in Workers, NEW g \in Games,
           ClaimSpecial(w, g) \/ (ClaimNormal(w, g) /\ GameInv(g)),
           Running(g, "second")
    PROVE  lease[g]["second"].worker # w
  <1>0. "second" \in Slots
    BY DEF Slots
  <1>1. CASE ClaimNormal(w, g) /\ GameInv(g)
    <2>1. ~SpecialRunning(g)
      BY <1>1 DEF ClaimNormal, FirstOf, NormalTurns
    <2> QED BY <1>0, <1>1, <2>1 DEF GameInv, SpecialRunning
  <1>2. CASE ClaimSpecial(w, g)
    <2>1. Admitted(w) /\ ~Crowded(NodeOf[w], TRUE)
      BY <1>2 DEF ClaimSpecial, Grant
    <2>2. CASE FillIdle
      <3>1. \A x \in Workers : lease[g]["second"].worker = x => NodeOf[x] # NodeOf[w]
        BY <1>0, <2>1, <2>2, NotCrowded
      <3> QED BY <3>1
    <2>3. CASE ~Resend
      <3>1. <<g, "second">> \in RunningKeys
        BY <1>0 DEF RunningKeys
      <3>2. \A k \in RunningKeys : lease[k[1]][k[2]].worker # w
        BY <2>1, <2>3 DEF Admitted
      <3>3. lease[<<g, "second">>[1]][<<g, "second">>[2]].worker # w
        BY <3>1, <3>2
      <3> QED BY <3>3
    <2> QED BY <2>2, <2>3
  <1> QED BY <1>1, <1>2

\* No step makes the two entries of a game name one thread while the second runs.
LEMMA DistinctHoldersStep ==
    ASSUME ~Resend \/ FillIdle
    PROVE  TypeOK /\ LeaseInv /\ DistinctHolders /\ [Next]_vars => DistinctHolders'
  <1> SUFFICES ASSUME TypeOK, LeaseInv, DistinctHolders, [Next]_vars,
                      NEW g \in Games, Running(g, "second")'
               PROVE  lease'[g]["main"].worker # lease'[g]["second"].worker
    BY DEF DistinctHolders
  <1>0. "main" \in Slots /\ "second" \in Slots /\ "main" # "second"
    BY DEF Slots
  <1>1. Kept(g, "second") => /\ Running(g, "second")
                             /\ lease'[g]["second"].worker = lease[g]["second"].worker
                             /\ lease[g]["second"].worker # lease[g]["main"].worker
                             /\ lease[g]["second"].worker # None
    BY <1>0, ConstantsAssumption DEF Kept, DistinctHolders, TypeOK
  <1>2. CASE Kept(g, "main") /\ Kept(g, "second")
    BY <1>1, <1>2 DEF Kept
  <1>3. ASSUME NEW w \in Workers, NEW h \in Games, SomeClaim(w, h)
        PROVE  lease'[g]["main"].worker # lease'[g]["second"].worker
    <2>1. PICK s \in Slots, special \in BOOLEAN :
            /\ s = "second" <=> ClaimSecond(w, h)
            /\ ~special <=> ClaimNormal(w, h)
            /\ lease'[h][s] = Granted(w, special)
            /\ \A x \in Games, y \in Slots : (x # h \/ y # s) => Kept(x, y)
      BY <1>3, ClaimStartsOne
    <2>2. CASE g # h
      BY <1>0, <1>2, <2>1, <2>2
    <2>3. CASE g = h /\ s = "second"
      <3>1. NodeOf[lease[g]["main"].worker] # NodeOf[w]
        BY <2>1, <2>3 DEF ClaimSecond, FirstOf, SecondTurns
      <3>2. lease'[g]["main"].worker \in {lease[g]["main"].worker, None}
        BY <1>0, <2>1, <2>3 DEF Kept
      <3>3. lease'[g]["second"].worker = w /\ w # None
        BY <2>1, <2>3, LeaseFields, ConstantsAssumption
      <3> QED BY <3>1, <3>2, <3>3
    <2>4. CASE g = h /\ s = "main"
      <3>1. Kept(g, "second")
        BY <1>0, <2>1, <2>4
      <3>2. lease'[g]["main"].worker = w
        BY <2>1, <2>4, LeaseFields
      <3>3. ClaimSpecial(w, g) \/ ClaimNormal(w, g)
        BY <1>0, <1>3, <2>1, <2>4 DEF SomeClaim
      <3>4. GameInv(g)
        BY DEF LeaseInv
      <3>5. lease[g]["second"].worker # w
        BY <1>1, <3>1, <3>3, <3>4, NoThirdHand
      <3> QED BY <1>1, <3>1, <3>2, <3>5
    <2> QED BY <2>2, <2>3, <2>4 DEF Slots
  <1> QED BY <1>0, <1>2, <1>3, OnlyClaimsStart

\* Every thread that holds a lease can close it by "done": worker_claim, which
\* goes by the thread's name and not by the status, finds the running entry
\* and no stale one.  It takes that requests are not delivered twice, or that
\* fillIdleNormal keeps a node to a special shard: otherwise a claim that is
\* re-sent may give one thread both keys of a game (340-345, 485-549).
THEOREM EveryHolderCanFinish ==
    ASSUME ~Resend \/ FillIdle
    PROVE  Spec => []HolderCanFinish
  <1>1. Init => DistinctHolders
    BY LeaseFields DEF Init, DistinctHolders, Running, Slots
  <1>2. TypeOK /\ DistinctHolders => HolderCanFinish
    BY DEF DistinctHolders, HolderCanFinish, ClaimKey, Slots
  <1> QED BY <1>1, <1>2, DistinctHoldersStep, TypeCorrect, LeaseInvHolds, PTL DEF Spec

-----------------------------------------------------------------------------
(* How the table of leases is seen as a lock.                              *)

Holder == [g \in Games |-> [s \in Slots |-> HolderOf(g, s)]]

Alone == {g \in Games : Running(g, "main") /\ ~lease[g]["main"].special}

LockView == <<Holder, Alone, halted, accepted>>

\* A running lease is held by a node and no other key is.
LEMMA HolderFacts ==
    ASSUME TypeOK
    PROVE  \A g \in Games, s \in Slots :
              /\ HolderOf(g, s) # None <=> Running(g, s)
              /\ \A n \in Nodes : HolderOf(g, s) = n <=> HeldOn(n, g, s)
              /\ Holder[g][s] = HolderOf(g, s)
  BY ConstantsAssumption DEF TypeOK, HolderOf, HeldOn, Holder

\* The keys the lock counts are the running leases the budgets count (485-492).
LEMMA SameKeys ==
    ASSUME TypeOK
    PROVE  /\ {k \in Games \X Slots : Holder[k[1]][k[2]] # None} = RunningKeys
           /\ \A n \in Nodes : {k \in Games \X Slots : Holder[k[1]][k[2]] = n}
                                = {k \in RunningKeys : HeldOn(n, k[1], k[2])}
  BY HolderFacts DEF RunningKeys, HeldOn

\* A step after which the same leases run, for the same threads, is not seen.
LEMMA Unseen ==
    ASSUME halted' = halted, accepted' = accepted,
           \A g \in Games, s \in Slots :
              \/ ~Running(g, s) /\ ~Running(g, s)'
              \/ /\ Running(g, s) /\ Running(g, s)'
                 /\ lease'[g][s].worker = lease[g][s].worker
                 /\ lease'[g][s].special = lease[g][s].special
    PROVE  LockView' = LockView
  <1>1. \A g \in Games, s \in Slots : HolderOf(g, s)' = HolderOf(g, s)
    BY DEF HolderOf
  <1>2. Holder' = Holder
    BY <1>1 DEF Holder
  <1>3. \A g \in Games : g \in Alone' <=> g \in Alone
    BY DEF Alone, Slots
  <1>4. Alone' = Alone
    BY <1>3 DEF Alone
  <1> QED BY <1>2, <1>4 DEF LockView

\* The games a claim marks in passing have a free main key (511-524, 556-569).
LEMMA PassedAreFree ==
    /\ Passed(SpecialTurns) \cup Passed(NormalTurns) \in SUBSET Games
    /\ \A g \in Passed(SpecialTurns) \cup Passed(NormalTurns) : ~Running(g, "main")
  BY DEF Passed, SpecialTurns, NormalTurns, Scheduled, Free, Reclaimable, Running

\* Marking them ends no running lease and starts none.
LEMMA MarkedRunning ==
    ASSUME TypeOK, NEW S, \A g \in S : ~Running(g, "main"),
           NEW g \in Games, NEW s \in Slots
    PROVE  \/ Marked(S)[g][s] = lease[g][s]
           \/ ~Running(g, s) /\ Marked(S)[g][s] = AlreadyAccepted
  BY DEF Marked

\* A grant takes one key that was free, and is seen in nothing else.
LEMMA GrantSeen ==
    ASSUME TypeOK, NEW w \in Workers, NEW g \in Games, NEW s \in Slots,
           NEW special \in BOOLEAN, NEW passed, Grant(w, g, s, special, passed),
           ~Running(g, s), \A h \in passed : ~Running(h, "main")
    PROVE  /\ Holder' = [Holder EXCEPT ![g][s] = NodeOf[w]]
           /\ Alone' = IF s = "main" /\ ~special THEN Alone \cup {g} ELSE Alone
           /\ halted' = halted /\ accepted' = accepted
  <1> DEFINE m == Marked(passed)
  <1>1. m \in [Games -> [Slots -> Lease]]
    BY MarkedType
  <1>2. lease' = [m EXCEPT ![g] = [m[g] EXCEPT ![s] = Granted(w, special)]]
    BY <1>1 DEF Grant
  <1>3. \A h \in Games, t \in Slots :
           \/ m[h][t] = lease[h][t]
           \/ ~Running(h, t) /\ m[h][t] = AlreadyAccepted
    BY MarkedRunning
  <1> HIDE DEF m
  <1>4. lease'[g][s] = Granted(w, special)
    BY GrantEffect
  <1>5. ASSUME NEW h \in Games, NEW t \in Slots, h # g \/ t # s
        PROVE  /\ HolderOf(h, t)' = HolderOf(h, t)
               /\ Running(h, t)' <=> Running(h, t)
               /\ Running(h, t) => lease'[h][t] = lease[h][t]
    <2>1. lease'[h][t] = m[h][t]
      BY <1>1, <1>2, <1>5
    <2> QED BY <1>3, <2>1, LeaseFields DEF HolderOf, Running
  <1>6. HolderOf(g, s)' = NodeOf[w] /\ Running(g, s)'
    BY <1>4, LeaseFields DEF HolderOf, Running
  <1>7. Holder' = [Holder EXCEPT ![g] = [Holder[g] EXCEPT ![s] = NodeOf[w]]]
    <2>1. /\ Holder = [h \in Games |-> [t \in Slots |-> HolderOf(h, t)]]
          /\ Holder' = [h \in Games |-> [t \in Slots |-> HolderOf(h, t)']]
      BY DEF Holder
    <2> QED BY <1>5, <1>6, <2>1
  <1>8. Holder' = [Holder EXCEPT ![g][s] = NodeOf[w]]
    BY <1>7 DEF Holder
  <1>9. \A h \in Games : h \in Alone' <=> h \in Alone \/ (h = g /\ s = "main" /\ ~special)
    <2>1. ASSUME NEW h \in Games, h # g \/ s # "main"
          PROVE  h \in Alone' <=> h \in Alone
      BY <1>5, <2>1 DEF Alone, Slots
    <2>2. ASSUME s = "main"
          PROVE  g \notin Alone /\ (g \in Alone' <=> ~special)
      BY <1>4, <1>6, <2>2, LeaseFields DEF Alone
    <2> QED BY <2>1, <2>2
  <1>10. Alone' = IF s = "main" /\ ~special THEN Alone \cup {g} ELSE Alone
    BY <1>9 DEF Alone
  <1> QED BY <1>8, <1>10 DEF Grant

-----------------------------------------------------------------------------
(* Every operation is a step of the lock, or is not seen.                  *)

\* The lock counts as the scheduler does.
LEMMA SameCount == \A S : Locks!Cardinality(S) = Cardinality(S)
  BY DEF Locks!Cardinality, Cardinality

\* The budgets of claim() are the bounds of the lock (485-492).
LEMMA AdmittedFits ==
    ASSUME TypeOK, NEW w \in Workers, Admitted(w)
    PROVE  /\ Cardinality({k \in Games \X Slots : Holder[k[1]][k[2]] # None}) < MaxClaims
           /\ Cardinality({k \in Games \X Slots : Holder[k[1]][k[2]] = NodeOf[w]}) < PerNode
           /\ NodeOf[w] \notin halted
  <1>1. NodeOf[w] \in Nodes
    BY ConstantsAssumption
  <1> QED BY <1>1, SameKeys DEF Admitted

\* The three loops of claim() that grant take a key: a shard shares the game
\* with at most another shard, a normal lease finds the game free.
LEMMA ClaimTakes ==
    ASSUME TypeOK, LeaseInv, NEW w \in Workers, NEW g \in Games,
           ClaimSpecial(w, g) \/ ClaimSecond(w, g) \/ ClaimNormal(w, g)
    PROVE  \E s \in Slots : Locks!Take(g, s, NodeOf[w])
  <1>1. PICK s \in Slots, special \in BOOLEAN, passed \in SUBSET Games :
          /\ Admitted(w)
          /\ Grant(w, g, s, special, passed)
          /\ ~Running(g, s) /\ g \notin accepted
          /\ \A h \in passed : ~Running(h, "main")
          /\ \/ s = "main" /\ special
             \/ s = "second" /\ special /\ g \notin Alone
             \/ s = "main" /\ ~special /\ ~Running(g, "second")
    <2>1. GameInv(g)
      BY DEF LeaseInv
    <2>2. CASE ClaimSpecial(w, g)
      <3>1. ~Running(g, "main") /\ g \notin accepted
        BY <2>2 DEF ClaimSpecial, FirstOf, SpecialTurns, Free, Reclaimable, Running
      <3> QED BY <2>2, <3>1, PassedAreFree DEF ClaimSpecial, Slots
    <2>3. CASE ClaimSecond(w, g)
      <3>1. /\ g \in ModeGames /\ g \notin complete /\ ~Running(g, "second")
            /\ lease[g]["main"].status \in {"running", "unavailable"}
        BY <2>3 DEF ClaimSecond, FirstOf, SecondTurns, Free, Reclaimable, Running
      <3>2. g \notin accepted /\ g \notin Alone
        BY <2>1, <3>1 DEF GameInv, Alone
      <3> QED BY <2>3, <3>1, <3>2, PassedAreFree DEF ClaimSecond, Slots
    <2>4. CASE ClaimNormal(w, g)
      <3>1. ~Running(g, "main") /\ g \notin accepted /\ ~SpecialRunning(g)
        BY <2>4 DEF ClaimNormal, FirstOf, NormalTurns, Free, Reclaimable, Running
      <3>2. ~Running(g, "second")
        BY <2>1, <3>1 DEF GameInv, SpecialRunning, Slots
      <3> QED BY <2>4, <3>1, <3>2, PassedAreFree DEF ClaimNormal, Slots
    <2> QED BY <2>2, <2>3, <2>4
  <1>2. /\ Holder' = [Holder EXCEPT ![g][s] = NodeOf[w]]
        /\ Alone' = IF s = "main" /\ ~special THEN Alone \cup {g} ELSE Alone
        /\ halted' = halted /\ accepted' = accepted
    BY <1>1, GrantSeen
  <1>3. Holder[g][s] = None
    BY <1>1, HolderFacts
  <1>4. \/ g \notin Alone /\ Alone' = Alone
        \/ (\A t \in Slots : Holder[g][t] = None) /\ Alone' = Alone \cup {g}
    <2>1. CASE s = "main" /\ ~special
      BY <1>1, <1>2, <2>1, HolderFacts DEF Slots
    <2>2. CASE ~(s = "main" /\ ~special)
      BY <1>1, <1>2, <2>2 DEF Alone
    <2> QED BY <2>1, <2>2
  <1> QED
    BY <1>1, <1>2, <1>3, <1>4, AdmittedFits, SameCount
    DEF Locks!Take, Locks!Taken, Locks!TakenBy, Locks!Free, Holder, Alone

\* A claim that is told to wait may mark games, but no lease begins or ends.
LEMMA WaitUnseen ==
    ASSUME TypeOK, NEW w \in Workers, ClaimNothing(w)
    PROVE  LockView' = LockView
  <1>1. PICK S : lease' = Marked(S) /\ \A g \in S : ~Running(g, "main")
    BY PassedAreFree DEF ClaimNothing
  <1>2. halted' = halted /\ accepted' = accepted
    BY DEF ClaimNothing
  <1>3. \A g \in Games, s \in Slots :
           \/ lease'[g][s] = lease[g][s]
           \/ ~Running(g, s) /\ lease'[g][s] = AlreadyAccepted
    BY <1>1, MarkedRunning
  <1> QED BY <1>2, <1>3, LeaseFields, Unseen DEF Running

\* "done" returns the key it closes; delivered again, it is not seen (701-725).
LEMMA DoneReturns ==
    ASSUME TypeOK, LeaseInv, NEW w \in Workers, NEW g \in Games,
           NEW status \in Reports, Done(w, g, status)
    PROVE  LockView' = LockView \/ \E s \in Slots : Locks!Return(g, s)
  <1>1. PICK s \in Slots :
          /\ lease'[g][s].status = status
          /\ \A h \in Games, t \in Slots :
                (h # g \/ t # s) => lease'[h][t] = lease[h][t]
    BY DoneEffect
  <1>2. ~Running(g, s)'
    <2>1. status # "running"
      BY ConstantsAssumption
    <2> QED BY <1>1, <2>1 DEF Running
  <1>3. halted' = halted /\ accepted' = accepted
    BY DEF Done
  <1>4. CASE ~Running(g, s)
    BY <1>1, <1>2, <1>3, <1>4, Unseen DEF Running
  <1>5. CASE Running(g, s)
    <2>1. Holder[g][s] # None
      BY <1>5, HolderFacts
    <2>2. \A h \in Games, t \in Slots :
             HolderOf(h, t)' = IF h = g /\ t = s THEN None ELSE HolderOf(h, t)
      BY <1>1, <1>2 DEF HolderOf, Running
    <2>3. Holder' = [Holder EXCEPT ![g] = [Holder[g] EXCEPT ![s] = None]]
      <3>1. /\ Holder = [h \in Games |-> [t \in Slots |-> HolderOf(h, t)]]
            /\ Holder' = [h \in Games |-> [t \in Slots |-> HolderOf(h, t)']]
        BY DEF Holder
      <3> QED BY <2>2, <3>1
    <2>4. Holder' = [Holder EXCEPT ![g][s] = None]
      BY <2>3 DEF Holder
    <2>5. \A h \in Games : h \in Alone' <=> h \in Alone /\ h # g
      <3>1. ASSUME NEW h \in Games, h # g
            PROVE  h \in Alone' <=> h \in Alone
        BY <1>1, <3>1 DEF Alone, Running, Slots
      <3>2. g \notin Alone'
        <4>1. CASE s = "main"
          BY <1>2, <4>1 DEF Alone
        <4>2. CASE s = "second"
          <5>1. lease'[g]["main"] = lease[g]["main"]
            BY <1>1, <4>2 DEF Slots
          <5>2. g \notin Alone
            BY <1>5, <4>2 DEF LeaseInv, GameInv, Alone
          <5> QED BY <5>1, <5>2 DEF Alone, Running
        <4> QED BY <4>1, <4>2 DEF Slots
      <3> QED BY <3>1, <3>2
    <2>6. Alone' = Alone \ {g}
      BY <2>5 DEF Alone
    <2> QED BY <1>3, <2>1, <2>4, <2>6 DEF Locks!Return, Holder, Alone
  <1> QED BY <1>4, <1>5

\* A fused node loses all its keys at once and is barred (329-338, 811-814).
LEMMA HaltBars ==
    ASSUME TypeOK, LeaseInv, NEW n \in Nodes, HaltNode(n)
    PROVE  Locks!Bar(n)
  <1>1. /\ lease' = Released(n)
        /\ halted' = halted \cup {n} /\ accepted' = accepted
    BY DEF HaltNode
  <1>2. \A g \in Games, s \in Slots :
           /\ HeldOn(n, g, s) => ~Running(g, s)'
           /\ ~HeldOn(n, g, s) => lease'[g][s] = lease[g][s]
    BY <1>1, ReleasedType DEF Released, HeldOn, Running
  <1>3. \A g \in Games, s \in Slots :
           HolderOf(g, s)' = IF Holder[g][s] = n THEN None ELSE Holder[g][s]
    BY <1>2, HolderFacts DEF HolderOf, Running
  <1>4. Holder' = [g \in Games |-> [s \in Slots |->
                     IF Holder[g][s] = n THEN None ELSE Holder[g][s]]]
    BY <1>3 DEF Holder
  <1>5. ASSUME NEW g \in Games
        PROVE  g \in Alone' <=> g \in Alone /\ \E s \in Slots : Holder[g][s] \notin {n, None}
    <2>1. "main" \in Slots /\ \A s \in Slots : s \in {"main", "second"}
      BY DEF Slots
    <2>2. CASE HeldOn(n, g, "main")
      <3>1. g \notin Alone'
        BY <1>2, <2>1, <2>2 DEF Alone
      <3>2. g \in Alone => Holder[g]["second"] = None
        BY HolderFacts DEF LeaseInv, GameInv, Alone, Slots
      <3>3. Holder[g]["main"] = n
        BY <2>1, <2>2, HolderFacts
      <3> QED BY <2>1, <3>1, <3>2, <3>3
    <2>3. CASE ~HeldOn(n, g, "main")
      <3>1. g \in Alone' <=> g \in Alone
        BY <1>2, <2>1, <2>3 DEF Alone, Running
      <3>2. g \in Alone => Holder[g]["main"] \notin {n, None}
        BY <2>1, <2>3, HolderFacts DEF Alone
      <3> QED BY <2>1, <3>1, <3>2
    <2> QED BY <2>2, <2>3
  <1>6. Alone' = {g \in Alone : \E s \in Slots : Holder[g][s] \notin {n, None}}
    BY <1>5 DEF Alone
  <1> QED BY <1>1, <1>4, <1>6 DEF Locks!Bar, Holder, Alone

\* A new round returns every key and forgets the fused nodes.
LEMMA BeginResets ==
    ASSUME NEW r \in Rosters, Begin(r)
    PROVE  Locks!Reset
  <1>1. \A g \in Games, s \in Slots : lease'[g][s] = Absent
    BY DEF Begin
  <1>2. \A g \in Games, s \in Slots : HolderOf(g, s)' = None
    BY <1>1, LeaseFields DEF HolderOf, Running
  <1>3. Holder' = [g \in Games |-> [s \in Slots |-> None]]
    BY <1>2 DEF Holder
  <1>4. Alone' = {}
    BY <1>1, LeaseFields DEF Alone, Running, Slots
  <1> QED BY <1>3, <1>4 DEF Begin, Locks!Reset, Holder, Alone

\* Every step of the scheduler is a step of the lock or leaves it alone.
LEMMA StepsMap ==
    TypeOK /\ LeaseInv /\ [Next]_vars => [Locks!Next]_(Locks!lockvars)
  <1> SUFFICES ASSUME TypeOK, LeaseInv, [Next]_vars
               PROVE  Locks!Next \/ LockView' = LockView
    BY DEF Locks!lockvars, LockView, Holder, Alone
  <1>1. CASE UNCHANGED vars
    BY <1>1, Unseen DEF vars, Running
  <1>2. ASSUME NEW r \in Rosters, Begin(r)
        PROVE  Locks!Next
    BY <1>2, BeginResets DEF Locks!Next
  <1>3. CASE End \/ Close
    BY <1>3, Unseen DEF End, Close, Running
  <1>4. ASSUME NEW w \in Workers, NEW g \in Games,
               ClaimSpecial(w, g) \/ ClaimSecond(w, g) \/ ClaimNormal(w, g)
        PROVE  Locks!Next
    BY <1>4, ClaimTakes, ConstantsAssumption DEF Locks!Next
  <1>5. ASSUME NEW w \in Workers, ClaimNothing(w)
        PROVE  LockView' = LockView
    BY <1>5, WaitUnseen
  <1>6. ASSUME NEW w \in Workers, NEW g \in Games, NEW status \in Reports, Done(w, g, status)
        PROVE  Locks!Next \/ LockView' = LockView
    BY <1>6, DoneReturns DEF Locks!Next
  <1>7. ASSUME NEW g \in Games, FillQuota(g)
        PROVE  LockView' = LockView
    BY <1>7, Unseen DEF FillQuota, Running
  <1>8. ASSUME NEW g \in Games, Accept(g)
        PROVE  Locks!Next
    <2>1. g \in Alone /\ accepted' = accepted \cup {g} /\ halted' = halted
      BY <1>8 DEF Accept, Alone
    <2>2. lease' = lease
      BY <1>8 DEF Accept
    <2>3. Holder' = Holder /\ Alone' = Alone
      BY <2>2 DEF Holder, HolderOf, Alone, Running
    <2> QED BY <2>1, <2>3 DEF Locks!Next, Locks!Seal, Holder, Alone
  <1>9. ASSUME NEW n \in Nodes, HaltNode(n)
        PROVE  Locks!Next
    BY <1>9, HaltBars DEF Locks!Next
  <1>10. ASSUME NEW g \in Games, NEW s \in Slots, CoolDown(g, s) \/ Settle(g, s)
         PROVE  LockView' = LockView
    BY <1>10, TimerEffect, Unseen DEF Running
  <1> QED BY <1>1, <1>2, <1>3, <1>4, <1>5, <1>6, <1>7, <1>8, <1>9, <1>10 DEF Next, RoundStep

\* The claims table starts empty, whatever is accepted on disk.
LEMMA InitMaps == Init => Locks!Init
  BY LeaseFields DEF Init, Locks!Init, HolderOf, Running, Slots

\* The lease scheduler implements a lock per game: whatever threads claim,
\* report, lose or re-send, shards share a game and a normal lease has it to
\* itself, nothing goes to a fused node or an accepted game, and the budgets
\* bound the keys that are out (execute and claim, 329-388 and 485-725).
THEOREM SchedulerIsALock == Spec => ImplementsGameLock
  BY InitMaps, StepsMap, TypeCorrect, LeaseInvHolds, PTL
  DEF Spec, ImplementsGameLock, Locks!Spec

=============================================================================

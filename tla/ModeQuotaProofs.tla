--------------------------- MODULE ModeQuotaProofs --------------------------
(***************************************************************************)
(* Proofs about ModeQuota, for every target, batch size and bound.         *)
(*                                                                         *)
(* Two facts make the split safe.  A reservation is computed from a count  *)
(* that is at least what the NDJSON holds (Counted, Untouched), and the    *)
(* holder never has more in hand than its reservation still promises       *)
(* (Promised), so that storing rounds only moves them from the promise to  *)
(* the store.                                                              *)
(***************************************************************************)
EXTENDS ModeQuota, TLAPS

\* A frozen quota counts at least what is stored.
Counted == frozen => counts >= stored

\* Before the first reservation of a run nothing is counted, reserved or
\* captured, and what a holder restored is what is stored.
Untouched ==
    ~frozen => /\ counts = 0
               /\ \A s \in Shards :
                     /\ ~reserved[s]
                     /\ phase[s] # "capturing"
                     /\ phase[s] = "loaded" => loaded[s] = stored

\* A reservation starts with reserve_modes and ends with the lease; only a dead
\* worker leaves one behind.  Only a capturing shard buffers rounds.
Reserved ==
    \A s \in Shards :
        /\ phase[s] = "capturing" => reserved[s]
        /\ phase[s] \in {"free", "loaded"} => ~reserved[s]
        /\ phase[s] # "capturing" => buffer[s] = 0

Promised == \A s \in Shards : phase[s] = "capturing" => left[s] + buffer[s] <= want[s] - done[s]

Inv ==
    /\ TypeOK
    /\ Counted
    /\ Untouched
    /\ Reserved
    /\ Promised
    /\ NeverOverTarget

-----------------------------------------------------------------------------

\* The two keys of a game.
LEMMA ShardsAre == /\ \A s \in Shards : Other(s) \in Shards /\ Other(s) # s
                   /\ \A s \in Shards : Shards = {s, Other(s)}
BY DEF Shards, Other

\* What a reservation still promises is never negative (606-607).
LEMMA OutstandingNat == TypeOK => \A s \in Shards : Outstanding(s) \in Nat
BY DEF TypeOK, Outstanding, Larger

\* A share is a natural number and, with the promise of the other shard, fits
\* in what is missing.
LEMMA ShareFits ==
    ASSUME TypeOK, NEW s \in Shards, NEW counted \in Nat
    PROVE  /\ Share(s, counted) \in Nat
           /\ \/ Share(s, counted) = 0
              \/ counted + Outstanding(Other(s)) + Share(s, counted) <= Target
<1> DEFINE other == Outstanding(Other(s))
           missing == Larger(0, Target - counted - other)
           slots == Larger(1, MaxShards - (IF reserved[Other(s)] THEN 1 ELSE 0))
<1>1. other \in Nat
  BY ShardsAre, OutstandingNat
<1>2. /\ missing \in Nat
      /\ missing = 0 \/ missing = Target - counted - other
  BY <1>1, QuotaAssumption DEF Larger
<1>3. slots \in {1, 2}
  BY QuotaAssumption DEF Larger
<1>4. Share(s, counted) = (missing + slots - 1) \div slots
  BY DEF Share
<1> HIDE DEF missing, slots, other
<1>5. (missing + slots - 1) \div slots \in 0..missing
  BY <1>2, <1>3
<1>6. missing + other + counted <= Target \/ missing = 0
  BY <1>1, <1>2, QuotaAssumption
<1> QED
  BY <1>1, <1>2, <1>4, <1>5, <1>6, QuotaAssumption DEF other

-----------------------------------------------------------------------------
(* Every step preserves the invariant.                                     *)

\* Before the first reserve_modes nothing is counted or promised.
LEMMA InitInv == Init => Inv
<1> SUFFICES ASSUME Init PROVE Inv
  OBVIOUS
<1>1. TypeOK
  BY DEF Init, TypeOK
<1>2. NeverOverTarget
  BY QuotaAssumption DEF Init, NeverOverTarget, Outstanding, Shards
<1> QED
  BY <1>1, <1>2 DEF Init, Inv, Counted, Untouched, Reserved, Promised

\* Restoring the NDJSON reads it only.
LEMMA LoadInv ==
    ASSUME Inv, NEW s \in Shards, Load(s)
    PROVE  Inv'
BY DEF Inv, TypeOK, Counted, Untouched, Reserved, Promised, NeverOverTarget,
   Outstanding, Load, quotaVars

\* A reservation is cut from what nobody else has promised (reserve_modes, 581-618).
LEMMA ReserveInv ==
    ASSUME Inv, NEW s \in Shards, NEW report \in Reports(s), Reserve(s, report)
    PROVE  Inv'
<1> DEFINE counted == Larger(counts, report)
<1>1. /\ report \in Nat
      /\ report >= loaded[s]
  BY DEF Inv, TypeOK, Reports, Larger, Shards
<1>2. /\ counted \in Nat
      /\ counted >= stored
  BY <1>1 DEF Inv, TypeOK, Counted, Untouched, Larger, Reserve
<1>3. ~reserved[s]
  BY DEF Inv, Reserved, Reserve
<1> DEFINE share == Share(s, counted)
<1>4. /\ share \in Nat
      /\ share = 0 \/ counted + Outstanding(Other(s)) + share <= Target
  BY <1>2, ShareFits DEF Inv
<1>5. /\ frozen' = TRUE
      /\ counts' = counted
      /\ want' = [want EXCEPT ![s] = share]
      /\ left' = [left EXCEPT ![s] = share]
      /\ complete' = (counted >= Target)
      /\ done' = [done EXCEPT ![s] = 0]
      /\ reserved' = [reserved EXCEPT ![s] = TRUE]
      /\ phase' = [phase EXCEPT ![s] = "capturing"]
      /\ UNCHANGED <<loaded, buffer, stored, stranded>>
  BY <1>3 DEF Reserve
<1> HIDE DEF counted, share
<1>6. TypeOK'
  BY <1>2, <1>4, <1>5, QuotaAssumption DEF Inv, TypeOK
<1>7. NeverOverTarget'
  <2>1. Outstanding(Other(s))' = Outstanding(Other(s))
    BY <1>5, ShardsAre DEF Outstanding, Inv, TypeOK
  <2>2. Outstanding(s)' = share
    BY <1>4, <1>5 DEF Outstanding, Inv, TypeOK, Larger
  <2>3. Outstanding(s) = 0
    BY <1>3 DEF Outstanding
  <2>4. stored + Outstanding(s) + Outstanding(Other(s)) <= Target
    BY OutstandingNat DEF Inv, NeverOverTarget, Other, Shards, TypeOK
  <2>5. stored + share + Outstanding(Other(s)) <= Target
    BY <1>2, <1>4, <2>3, <2>4, OutstandingNat, ShardsAre, QuotaAssumption DEF Inv, TypeOK
  <2>6. CASE s = "main"
    BY <1>4, <1>5, <2>1, <2>2, <2>5, <2>6, OutstandingNat
       DEF NeverOverTarget, Other, Shards, Inv, TypeOK
  <2>7. CASE s = "second"
    BY <1>4, <1>5, <2>1, <2>2, <2>5, <2>7, OutstandingNat
       DEF NeverOverTarget, Other, Shards, Inv, TypeOK
  <2> QED
    BY <2>6, <2>7 DEF Shards
<1>8. Promised'
  <2>1. buffer[s] = 0
    BY DEF Inv, Reserved, Reserve
  <2>2. left'[s] + buffer'[s] <= want'[s] - done'[s]
    BY <1>4, <1>5, <2>1 DEF Inv, TypeOK
  <2>3. \A t \in Shards \ {s} : phase'[t] = "capturing" => left'[t] + buffer'[t] <= want'[t] - done'[t]
    BY <1>5 DEF Inv, TypeOK, Promised
  <2> QED
    BY <2>2, <2>3 DEF Promised
<1> QED
  BY <1>2, <1>5, <1>6, <1>7, <1>8 DEF Inv, TypeOK, Counted, Untouched, Reserved

\* A captured round moves from the rounds left into the buffer.
LEMMA CaptureInv ==
    ASSUME Inv, NEW s \in Shards, Capture(s)
    PROVE  Inv'
<1>1. TypeOK'
  BY DEF Inv, TypeOK, Capture, quotaVars
<1>2. NeverOverTarget'
  BY DEF Inv, NeverOverTarget, Outstanding, Capture, quotaVars
<1>3. Promised'
  BY DEF Inv, TypeOK, Promised, Capture, quotaVars
<1> QED
  BY <1>1, <1>2, <1>3 DEF Inv, TypeOK, Counted, Untouched, Reserved, Capture, quotaVars

\* What is stored was promised: the promise shrinks by as much.
LEMMA AppendBatchInv ==
    ASSUME Inv, NEW s \in Shards, NEW fresh \in Fresh(s), AppendBatch(s, fresh)
    PROVE  Inv'
<1>1. /\ fresh \in Nat
      /\ fresh <= buffer[s]
  BY DEF Inv, TypeOK, Fresh
<1>2. /\ reserved[s]
      /\ left[s] + buffer[s] <= want[s] - done[s]
      /\ phase[s] = "capturing"
  BY DEF Inv, Reserved, Promised, AppendBatch
<1>3. /\ done' = [done EXCEPT ![s] = done[s] + fresh]
      /\ stored' = stored + fresh
      /\ counts' = counts + fresh
      /\ complete' = (counts + fresh >= Target)
      /\ buffer' = [buffer EXCEPT ![s] = 0]
      /\ UNCHANGED <<phase, loaded, left, frozen, reserved, want, stranded>>
  BY <1>2 DEF AppendBatch, Inv, TypeOK
<1>4. TypeOK'
  BY <1>1, <1>3 DEF Inv, TypeOK
<1>5. Promised'
  BY <1>1, <1>2, <1>3 DEF Inv, TypeOK, Promised
<1>6. NeverOverTarget'
  <2>1. Outstanding(s)' = Outstanding(s) - fresh
    BY <1>1, <1>2, <1>3 DEF Outstanding, Inv, TypeOK, Larger
  <2>2. Outstanding(Other(s))' = Outstanding(Other(s))
    BY <1>3, ShardsAre DEF Outstanding, Inv, TypeOK
  <2>3. CASE s = "main"
    BY <1>1, <1>3, <2>1, <2>2, <2>3, OutstandingNat, QuotaAssumption
       DEF NeverOverTarget, Other, Shards, Inv, TypeOK
  <2>4. CASE s = "second"
    BY <1>1, <1>3, <2>1, <2>2, <2>4, OutstandingNat, QuotaAssumption
       DEF NeverOverTarget, Other, Shards, Inv, TypeOK
  <2> QED
    BY <2>3, <2>4 DEF Shards
<1> QED
  BY <1>1, <1>2, <1>3, <1>4, <1>5, <1>6 DEF Inv, TypeOK, Counted, Untouched, Reserved

\* Giving a reservation back only lowers what is promised.
LEMMA GiveBackInv ==
    ASSUME Inv, NEW s \in Shards, GiveBack(s),
           UNCHANGED <<loaded, frozen, counts, complete, stored>>,
           phase' = [phase EXCEPT ![s] = "free"],
           left' = [left EXCEPT ![s] = 0],
           buffer' = [buffer EXCEPT ![s] = 0],
           stranded' \in Nat
    PROVE  Inv'
<1>1. TypeOK'
  BY DEF Inv, TypeOK, GiveBack
<1>2. NeverOverTarget'
  <2>1. Outstanding(s)' = 0
    BY DEF Outstanding, Inv, TypeOK, GiveBack
  <2>2. Outstanding(Other(s))' = Outstanding(Other(s))
    BY ShardsAre DEF Outstanding, Inv, TypeOK, GiveBack
  <2>3. CASE s = "main"
    BY <2>1, <2>2, <2>3, OutstandingNat, QuotaAssumption
       DEF NeverOverTarget, Other, Shards, Inv, TypeOK
  <2>4. CASE s = "second"
    BY <2>1, <2>2, <2>4, OutstandingNat, QuotaAssumption
       DEF NeverOverTarget, Other, Shards, Inv, TypeOK
  <2> QED
    BY <2>3, <2>4 DEF Shards
<1> QED
  BY <1>1, <1>2 DEF Inv, TypeOK, Counted, Untouched, Reserved, Promised, GiveBack

\* Rounds lost to the NDJSON are counted in natural numbers.
LEMMA StrandNat ==
    ASSUME TypeOK, NEW n \in Nat, Strand(n)
    PROVE  stranded' \in Nat
BY DEF TypeOK, Strand

\* "done" gives back a reservation and leaves the rest (717-725).
LEMMA FinishInv ==
    ASSUME Inv, NEW s \in Shards, Finish(s)
    PROVE  Inv'
<1>1. /\ buffer' = [buffer EXCEPT ![s] = 0]
      /\ stranded' \in Nat
  BY DEF Finish, Inv, TypeOK
<1> QED
  BY <1>1, GiveBackInv DEF Finish

\* A fused shard loses its buffer and its reservation (329-338).
LEMMA FuseInv ==
    ASSUME Inv, NEW s \in Shards, Fuse(s)
    PROVE  Inv'
<1>1. buffer[s] \in Nat
  BY DEF Inv, TypeOK
<1>2. stranded' \in Nat
  BY <1>1, StrandNat DEF Fuse, Inv
<1> QED
  BY <1>2, GiveBackInv DEF Fuse

\* A dead shard keeps its reservation, which promises too much but never too little.
LEMMA DieInv ==
    ASSUME Inv, NEW s \in Shards, Die(s)
    PROVE  Inv'
<1>1. stranded' \in Nat
  <2>1. buffer[s] \in Nat
    BY DEF Inv, TypeOK
  <2> QED
    BY <2>1, StrandNat DEF Die, Inv
<1>2. TypeOK'
  BY <1>1 DEF Inv, TypeOK, Die, quotaVars
<1>3. NeverOverTarget'
  BY DEF Inv, NeverOverTarget, Outstanding, Die, quotaVars
<1> QED
  BY <1>2, <1>3 DEF Inv, TypeOK, Counted, Untouched, Reserved, Promised, Die, quotaVars

\* "begin" forgets every reservation, the store stays (472-476).
LEMMA NewRoundInv ==
    ASSUME Inv, NewRound
    PROVE  Inv'
<1>1. stranded' \in Nat
  <2>1. buffer["main"] + buffer["second"] \in Nat
    BY DEF Inv, TypeOK, Shards
  <2> QED
    BY <2>1, StrandNat DEF NewRound, Inv
<1>2. TypeOK'
  BY <1>1 DEF Inv, TypeOK, NewRound
<1>3. NeverOverTarget'
  <2>1. stored <= Target
    BY OutstandingNat, QuotaAssumption DEF Inv, NeverOverTarget, Shards, TypeOK
  <2>2. /\ Outstanding("main")' = 0
        /\ Outstanding("second")' = 0
    BY DEF Outstanding, NewRound, Shards
  <2> QED
    BY <2>1, <2>2, QuotaAssumption DEF NeverOverTarget, NewRound, Inv, TypeOK
<1> QED
  BY <1>2, <1>3 DEF Inv, TypeOK, Counted, Untouched, Reserved, Promised, NewRound

-----------------------------------------------------------------------------

\* Every reachable state satisfies the invariant: the reservations are
\* computed from counts that cover the store, and what shards hold in hand is
\* covered by their reservations (reserve_modes 581-618, append_batch 684-693).
THEOREM QuotaInvariant == Spec => []Inv
<1>1. Inv /\ [Next]_vars => Inv'
  <2> SUFFICES ASSUME Inv, [Next]_vars PROVE Inv'
    OBVIOUS
  <2>1. CASE UNCHANGED vars
    BY <2>1 DEF vars, shardVars, quotaVars, Inv, TypeOK, Counted, Untouched, Reserved,
       Promised, NeverOverTarget, Outstanding
  <2>2. CASE NewRound
    BY <2>2, NewRoundInv
  <2>3. ASSUME NEW s \in Shards, ShardStep(s) \/ Fuse(s) \/ Die(s)
        PROVE  Inv'
    BY <2>3, LoadInv, ReserveInv, CaptureInv, AppendBatchInv, FinishInv, FuseInv, DieInv
       DEF ShardStep
  <2> QED
    BY <2>1, <2>2, <2>3 DEF Next
<1> QED
  BY <1>1, InitInv, PTL DEF Spec

\* The quota and the copies of it that threads hold stay well typed: no count,
\* share or buffer ever becomes negative (reserve_modes 600-617).
THEOREM QuotaTypes == Spec => []TypeOK
<1>1. Inv => TypeOK
  BY DEF Inv
<1> QED
  BY <1>1, QuotaInvariant, PTL

\* The shards of a mode together never store more rounds than its target, for
\* every target and batch, however shards die, are fused or over-report
\* (reserve_modes 600-617).
THEOREM SplitNeverOverTarget == Spec => []NeverOverTarget
<1>1. Inv => NeverOverTarget
  BY DEF Inv
<1> QED
  BY <1>1, QuotaInvariant, PTL

\* A holder's work in hand stays within its own reservation (reserve_modes
\* 606-615, append_batch 686-691).
THEOREM WorkStaysPromised == Spec => []PromiseCoversWork
<1>1. Inv => PromiseCoversWork
  BY DEF Inv, PromiseCoversWork, Promised, Reserved, Outstanding, Larger, TypeOK
<1> QED
  BY <1>1, QuotaInvariant, PTL

-----------------------------------------------------------------------------
(* Completeness, when Mongo does not run ahead.                            *)

Exact ==
    /\ \A s \in Shards : loaded[s] <= stored
    /\ frozen => counts = stored
    /\ complete => frozen /\ counts >= Target

\* Without a Mongo lead the count a shard reports is one the store really had.
LEMMA ReserveExact ==
    ASSUME ~MongoLeads, Inv, Exact, NEW s \in Shards, NEW report \in Reports(s), Reserve(s, report)
    PROVE  Exact'
<1>1. report = loaded[s]
  BY DEF Reports
<1>2. Larger(counts, report) = stored
  <2>1. CASE frozen
    BY <1>1, <2>1 DEF Exact, Larger, Inv, TypeOK
  <2>2. CASE ~frozen
    BY <1>1, <2>2 DEF Inv, Untouched, Larger, TypeOK, Reserve
  <2> QED
    BY <2>1, <2>2
<1> QED
  BY <1>2 DEF Exact, Reserve, Inv, TypeOK

\* Unless Mongo runs ahead of the NDJSON, a mode is declared complete only with
\* its target stored (616-617, 692-693).
THEOREM CompleteMeansStored == ASSUME ~MongoLeads PROVE Spec => []CompleteIsStored
<1>1. Init => Exact
  BY DEF Init, Exact
<1>2. Inv /\ Exact /\ [Next]_vars => Exact'
  <2> SUFFICES ASSUME Inv, Exact, [Next]_vars PROVE Exact'
    OBVIOUS
  <2>1. CASE UNCHANGED vars
    BY <2>1 DEF vars, shardVars, quotaVars, Exact
  <2>2. CASE NewRound
    BY <2>2 DEF NewRound, Exact
  <2>3. ASSUME NEW s \in Shards, Load(s) PROVE Exact'
    BY <2>3 DEF Load, quotaVars, Exact, Inv, TypeOK
  <2>4. ASSUME NEW s \in Shards, NEW report \in Reports(s), Reserve(s, report) PROVE Exact'
    BY <2>4, ReserveExact
  <2>5. ASSUME NEW s \in Shards, NEW fresh \in Fresh(s), AppendBatch(s, fresh) PROVE Exact'
    <3>1. /\ fresh \in Nat
          /\ frozen
      BY <2>5 DEF Fresh, Inv, TypeOK, AppendBatch, Untouched
    <3>2. /\ stored' = stored + fresh /\ counts' = counts + fresh
          /\ complete' = (counts + fresh >= Target)
          /\ UNCHANGED <<loaded, frozen>>
      BY <2>5 DEF AppendBatch
    <3>3. /\ stored \in Nat /\ counts \in Nat
          /\ \A t \in Shards : loaded[t] \in Nat
      BY DEF Inv, TypeOK
    <3>4. \A t \in Shards : loaded'[t] <= stored'
      BY <3>1, <3>2, <3>3 DEF Exact
    <3>5. counts' = stored'
      BY <3>1, <3>2 DEF Exact
    <3>6. frozen' /\ (complete' => counts' >= Target)
      BY <3>1, <3>2
    <3> QED
      BY <3>4, <3>5, <3>6 DEF Exact
  <2>6. ASSUME NEW s \in Shards, Capture(s) \/ Finish(s) \/ Fuse(s) \/ Die(s) PROVE Exact'
    BY <2>6 DEF Capture, Finish, Fuse, Die, GiveBack, quotaVars, Exact
  <2> QED
    BY <2>1, <2>2, <2>3, <2>4, <2>5, <2>6 DEF Next, ShardStep
<1>3. Exact => CompleteIsStored
  BY DEF Exact, CompleteIsStored
<1> QED
  BY <1>1, <1>2, <1>3, QuotaInvariant, PTL DEF Spec
=============================================================================

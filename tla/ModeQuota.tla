----------------------------- MODULE ModeQuota ------------------------------
(***************************************************************************)
(* How two special shards share the target of one purchase mode of one     *)
(* game: reserve_modes splits what is missing, append counts what arrives, *)
(* done and release_node give a reservation back (actions/coordinator.py), *)
(* while each shard captures up to its local target in batches (oaks.ts,   *)
(* actions/worker.ts).                                                     *)
(*                                                                         *)
(* A shard is named by its lease key.  The coordinator's operations are    *)
(* atomic (one lock); the shards run concurrently between them.            *)
(***************************************************************************)
EXTENDS Integers

CONSTANTS
    Target,       \* --target-per-mode
    MaxShards,    \* topology.maxShards
    Batch,        \* documents a shard buffers before append_batch (25)
    MongoLeads,   \* Mongo may hold rounds the NDJSON on the server lacks
    MaxStranded,  \* bound: rounds only Mongo has
    Collisions    \* two shards may capture the same round hash

ASSUME QuotaAssumption ==
    /\ Target \in Nat \ {0}
    /\ MaxShards \in 1..2
    /\ Batch \in Nat \ {0}
    /\ MongoLeads \in BOOLEAN
    /\ MaxStranded \in Nat
    /\ Collisions \in BOOLEAN

VARIABLES
    phase,      \* what the holder of each key is doing
    loaded,     \* the NDJSON count the holder restored
    left,       \* rounds the holder still has to capture for its local target
    buffer,     \* captured rounds not yet appended
    frozen,     \* the quota entry has its targets (first reserve_modes)
    counts,     \* quota['counts'] of the mode
    reserved,   \* quota['reservations'] has an entry for the holder
    want,       \* its size
    done,       \* its _done_ counter
    complete,   \* quota['specialComplete']
    stored,     \* rounds of the mode in the NDJSON on the server
    stranded    \* rounds only Mongo has, whose holder lost its lease

shardVars == <<phase, loaded, left, buffer>>
quotaVars == <<frozen, counts, reserved, want, done, complete>>
vars == <<shardVars, quotaVars, stored, stranded>>

Shards == {"main", "second"}

Other(s) == IF s = "main" THEN "second" ELSE "main"

Init ==
    /\ phase = [s \in Shards |-> "free"]
    /\ loaded = [s \in Shards |-> 0]
    /\ left = [s \in Shards |-> 0]
    /\ buffer = [s \in Shards |-> 0]
    /\ frozen = FALSE
    /\ counts = 0
    /\ reserved = [s \in Shards |-> FALSE]
    /\ want = [s \in Shards |-> 0]
    /\ done = [s \in Shards |-> 0]
    /\ complete = FALSE
    /\ stored = 0
    /\ stranded = 0

-----------------------------------------------------------------------------
(* The split.                                                              *)

Larger(a, b) == IF a >= b THEN a ELSE b

\* What a reservation still promises.
Outstanding(s) == IF reserved[s] THEN Larger(0, want[s] - done[s]) ELSE 0

\* Slip: the share is rounded down.
ShareRoundedDown(s, counted) ==
    LET missing == Larger(0, Target - counted - Outstanding(Other(s)))
        slots == Larger(1, MaxShards - (IF reserved[Other(s)] THEN 1 ELSE 0))
    IN  missing \div slots

\* Slip: what others have reserved is forgotten.
ShareIgnoringOthers(s, counted) ==
    LET missing == Larger(0, Target - counted)
        slots == Larger(1, MaxShards - (IF reserved[Other(s)] THEN 1 ELSE 0))
    IN  (missing + slots - 1) \div slots

\* Slip: what is missing is not kept from going negative.
ShareUnclamped(s, counted) ==
    LET missing == Target - counted - Outstanding(Other(s))
        slots == Larger(1, MaxShards - (IF reserved[Other(s)] THEN 1 ELSE 0))
    IN  (missing + slots - 1) \div slots

\* The share of a new reservation once the mode counts "counted": what is
\* missing after the other shard's promise, divided by the shards to come.
Share(s, counted) ==
    LET missing == Larger(0, Target - counted - Outstanding(Other(s)))
        slots == Larger(1, MaxShards - (IF reserved[Other(s)] THEN 1 ELSE 0))
    IN  (missing + slots - 1) \div slots

\* The mode count a shard reports: its restored NDJSON, or Mongo if that has
\* more (syncModeCountsFromMongo).
Reports(s) ==
    IF MongoLeads
    THEN loaded[s]..Larger(loaded[s], stored + stranded + buffer["main"] + buffer["second"])
    ELSE {loaded[s]}

-----------------------------------------------------------------------------
(* A shard.                                                                *)

\* The key is granted and the worker restores the NDJSON as it is now.
Load(s) ==
    /\ ~complete
    /\ phase[s] = "free"
    /\ s = "second" => MaxShards = 2 /\ phase["main"] # "free"
    /\ phase' = [phase EXCEPT ![s] = "loaded"]
    /\ loaded' = [loaded EXCEPT ![s] = stored]
    /\ UNCHANGED <<left, buffer, quotaVars, stored, stranded>>

\* Slip: the local target is kept as the count of the mode.
ReserveCountingShare(s, report) ==
    /\ phase[s] = "loaded"
    /\ LET counted == Larger(counts, report)
           share == IF reserved[s] THEN want[s] ELSE Share(s, counted)
       IN  /\ frozen' = TRUE
           /\ counts' = counted + share
           /\ want' = [want EXCEPT ![s] = share]
           /\ left' = [left EXCEPT ![s] = share]
           /\ complete' = (counted + share >= Target)
    /\ done' = IF reserved[s] THEN done ELSE [done EXCEPT ![s] = 0]
    /\ reserved' = [reserved EXCEPT ![s] = TRUE]
    /\ phase' = [phase EXCEPT ![s] = "capturing"]
    /\ UNCHANGED <<loaded, buffer, stored, stranded>>

\* reserve_modes.  The local target is the report plus the reservation, so the
\* shard is left with exactly the reservation to capture.
Reserve(s, report) ==
    /\ phase[s] = "loaded"
    /\ LET counted == Larger(counts, report)
           share == IF reserved[s] THEN want[s] ELSE Share(s, counted)
       IN  /\ frozen' = TRUE
           /\ counts' = counted
           /\ want' = [want EXCEPT ![s] = share]
           /\ left' = [left EXCEPT ![s] = share]
           /\ complete' = (counted >= Target)
    /\ done' = IF reserved[s] THEN done ELSE [done EXCEPT ![s] = 0]
    /\ reserved' = [reserved EXCEPT ![s] = TRUE]
    /\ phase' = [phase EXCEPT ![s] = "capturing"]
    /\ UNCHANGED <<loaded, buffer, stored, stranded>>

\* One complete round is captured; a full buffer is flushed before the next.
Capture(s) ==
    /\ phase[s] = "capturing" /\ left[s] > 0 /\ buffer[s] < Batch
    /\ left' = [left EXCEPT ![s] = @ - 1]
    /\ buffer' = [buffer EXCEPT ![s] = @ + 1]
    /\ UNCHANGED <<phase, loaded, quotaVars, stored, stranded>>

\* append_batch: "fresh" of the buffered rounds are not yet in the NDJSON.
AppendBatch(s, fresh) ==
    /\ phase[s] = "capturing" /\ buffer[s] > 0
    /\ stored' = stored + fresh
    /\ counts' = counts + fresh
    /\ done' = [done EXCEPT ![s] = IF reserved[s] THEN @ + fresh ELSE @]
    /\ complete' = (counts + fresh >= Target)
    /\ buffer' = [buffer EXCEPT ![s] = 0]
    /\ UNCHANGED <<phase, loaded, left, frozen, reserved, want, stranded>>

\* Slip: the reservations of the whole game are dropped.
GiveBackAll(s) ==
    /\ reserved' = [t \in Shards |-> FALSE]
    /\ want' = [t \in Shards |-> 0]
    /\ done' = [t \in Shards |-> 0]

\* release_mode_reservation.
GiveBack(s) ==
    /\ reserved' = [reserved EXCEPT ![s] = FALSE]
    /\ want' = [want EXCEPT ![s] = 0]
    /\ done' = [done EXCEPT ![s] = 0]

\* "done": the share is captured, or the attempt ended early; the buffer was
\* flushed first (syncFiles).
Finish(s) ==
    /\ phase[s] \in {"loaded", "capturing"} /\ buffer[s] = 0
    /\ GiveBack(s)
    /\ phase' = [phase EXCEPT ![s] = "free"]
    /\ left' = [left EXCEPT ![s] = 0]
    /\ UNCHANGED <<loaded, buffer, frozen, counts, complete, stored, stranded>>

\* Rounds n leave a buffer without reaching the NDJSON; Mongo may have them.
Strand(n) ==
    /\ stranded' = IF MongoLeads THEN stranded + n ELSE stranded
    /\ stranded' <= MaxStranded

\* The node of the shard is fused: release_node takes the lease back, and what
\* the thread still buffers is refused.
Fuse(s) ==
    /\ phase[s] \in {"loaded", "capturing"}
    /\ GiveBack(s)
    /\ phase' = [phase EXCEPT ![s] = "free"]
    /\ left' = [left EXCEPT ![s] = 0]
    /\ buffer' = [buffer EXCEPT ![s] = 0]
    /\ Strand(buffer[s])
    /\ UNCHANGED <<loaded, frozen, counts, complete, stored>>

\* The worker process dies without "done": its lease and its reservation stay.
Die(s) ==
    /\ phase[s] \in {"loaded", "capturing"}
    /\ phase' = [phase EXCEPT ![s] = "dead"]
    /\ left' = [left EXCEPT ![s] = 0]
    /\ buffer' = [buffer EXCEPT ![s] = 0]
    /\ Strand(buffer[s])
    /\ UNCHANGED <<loaded, quotaVars, stored>>

\* The next run begins: every worker of the last one is gone, the quota with it.
NewRound ==
    /\ phase' = [s \in Shards |-> "free"]
    /\ left' = [s \in Shards |-> 0]
    /\ buffer' = [s \in Shards |-> 0]
    /\ Strand(buffer["main"] + buffer["second"])
    /\ frozen' = FALSE
    /\ counts' = 0
    /\ reserved' = [s \in Shards |-> FALSE]
    /\ want' = [s \in Shards |-> 0]
    /\ done' = [s \in Shards |-> 0]
    /\ complete' = FALSE
    /\ UNCHANGED <<loaded, stored>>

Fresh(s) == IF Collisions THEN 0..buffer[s] ELSE {buffer[s]}

ShardStep(s) ==
    \/ Load(s)
    \/ \E report \in Reports(s) : Reserve(s, report)
    \/ Capture(s)
    \/ \E fresh \in Fresh(s) : AppendBatch(s, fresh)
    \/ Finish(s)

Next ==
    \/ \E s \in Shards : ShardStep(s) \/ Fuse(s) \/ Die(s)
    \/ NewRound

Spec == Init /\ [][Next]_vars

\* Runs keep being dispatched and keys keep being granted.  Sessions may fail,
\* workers die, nodes be fused and rounds repeat known ones time and again, but
\* not so that no shard ever gets to reserve, to capture or to append a batch
\* of new rounds any more although some shard could.
FairSpec ==
    /\ Spec
    /\ WF_vars(NewRound)
    /\ \A s \in Shards : WF_vars(Load(s))
    /\ SF_vars(\E s \in Shards : \E report \in Reports(s) : Reserve(s, report))
    /\ SF_vars(\E s \in Shards : Capture(s))
    /\ SF_vars(\E s \in Shards : AppendBatch(s, buffer[s]))

-----------------------------------------------------------------------------

TypeOK ==
    /\ phase \in [Shards -> {"free", "loaded", "capturing", "dead"}]
    /\ loaded \in [Shards -> Nat]
    /\ left \in [Shards -> Nat]
    /\ buffer \in [Shards -> Nat]
    /\ frozen \in BOOLEAN
    /\ counts \in Nat
    /\ reserved \in [Shards -> BOOLEAN]
    /\ want \in [Shards -> Nat]
    /\ done \in [Shards -> Nat]
    /\ complete \in BOOLEAN
    /\ stored \in Nat
    /\ stranded \in Nat

\* The shards of a mode together never store more rounds than its target: the
\* NDJSON and everything the current reservations may still add stay within
\* it, although shards come, die, are fused and report stale counts (README:
\* the coordinator splits the remaining quota atomically; 600-617).
NeverOverTarget ==
    stored + Outstanding("main") + Outstanding("second") <= Target

\* A reservation still covers whatever its holder captures or buffers, so the
\* other shard can rely on it when the rest is split again.
PromiseCoversWork ==
    \A s \in Shards : phase[s] = "capturing" => left[s] + buffer[s] <= Outstanding(s)

\* As long as Mongo never runs ahead of the NDJSON, a mode is declared complete
\* only with its target stored (specialComplete, 616-617 and 692-693).
CompleteIsStored == complete => stored >= Target

\* The mode is filled eventually, over as many leases and rounds as it takes:
\* whatever is missing, some shard's share of it is not zero.
QuotaFills == <>(stored >= Target)

=============================================================================

------------------------------ MODULE GameFiles ------------------------------
(***************************************************************************)
(* The files the server keeps for one game (actions/coordinator.py): the   *)
(* captured rounds, one per line of <slug>.ndjson, and hashes.txt, the     *)
(* index that recognises a round that was sent before.                     *)
(*                                                                         *)
(* While the daemon is up it caches the index and syncs the lines to disk  *)
(* in groups of DATA_FSYNC_EVERY.  While it is down the client executes    *)
(* each request in a process of its own, which syncs every append.  A      *)
(* daemon may be killed, also in the middle of an append, and the host may *)
(* go down and lose what was never synced.                                 *)
(***************************************************************************)
EXTENDS Integers, Sequences, FiniteSets, Functions

CONSTANTS
    Rounds,      \* complete rounds, by sourceRoundHash
    FsyncEvery,  \* DATA_FSYNC_EVERY
    MaxFaults,   \* bound: how often the daemon is stopped or killed or the host goes down
    None

ASSUME FilesAssumption ==
    /\ FsyncEvery \in Nat \ {0}
    /\ MaxFaults \in Nat

VARIABLES
    lines,     \* the lines of <slug>.ndjson
    durable,   \* how many of them are on disk for certain
    index,     \* the lines of hashes.txt, or None
    up,        \* the daemon runs
    known,     \* Store.hash_cache[slug] of the daemon, or None
    unsynced,  \* Store.unsynced[slug] of the daemon
    faults,    \* how often the daemon was stopped or killed or the host went down
    lost,      \* history: rounds whose line was lost with the host
    forgotten, \* history: a daemon was killed before it synced all lines
    damaged    \* history: an append was cut in two, or a file with the host

fileVars == <<lines, durable, index, up, known, unsynced, faults, lost, forgotten, damaged>>

-----------------------------------------------------------------------------
\* hashes.txt as hashes() leaves it: written from the lines when it is missing.
HashesFile == IF index = None THEN lines ELSE index

\* What hashes() returns.
Hashes == IF known # None THEN known ELSE Range(HashesFile)

\* Slip: the rounds are not looked up.
FreshAll(batch) == batch

\* The rounds of a batch that are neither in the index nor twice in the batch.
Fresh(batch) ==
    LET kept[i \in 0..Len(batch)] ==
          IF i = 0 THEN <<>>
          ELSE LET before == kept[i - 1] IN
               IF batch[i] \in Hashes \cup Range(before) THEN before
               ELSE Append(before, batch[i])
    IN  kept[Len(batch)]

FilesInit ==
    /\ \E r \in Rounds : lines \in {<<>>, <<r>>}
    /\ durable = Len(lines)
    /\ index = None
    /\ up = TRUE
    /\ known = None
    /\ unsynced = 0
    /\ faults = 0
    /\ lost = {}
    /\ forgotten = FALSE
    /\ damaged = FALSE

\* Slip: the counter starts again with each batch.
GroupedByBatch(fresh) ==
    LET full == Len(fresh) >= FsyncEvery IN
    /\ unsynced' = IF full THEN 0 ELSE Len(fresh)
    /\ durable' = IF full THEN Len(lines) + Len(fresh) ELSE durable

\* The daemon counts the lines it has not synced yet and syncs full groups.
Grouped(fresh) ==
    LET count == unsynced + Len(fresh)
        full == count >= FsyncEvery IN
    /\ unsynced' = IF full THEN 0 ELSE count
    /\ durable' = IF full THEN Len(lines) + Len(fresh) ELSE durable

\* "append_batch": rounds seen before are skipped, the others are written to
\* the NDJSON first and to the index second.
AppendBatch(batch) ==
    LET fresh == Fresh(batch) IN
    /\ lines' = lines \o fresh
    /\ index' = HashesFile \o fresh
    /\ IF up
       THEN known' = Hashes \cup Range(fresh) /\ Grouped(fresh)
       ELSE /\ durable' = IF fresh = <<>> THEN durable ELSE Len(lines) + Len(fresh)
            /\ UNCHANGED <<known, unsynced>>
    /\ UNCHANGED <<up, faults, lost, forgotten, damaged>>

\* sync_game: nothing to do when the counter is zero.
SyncGame ==
    /\ durable' = IF unsynced > 0 THEN Len(lines) ELSE durable
    /\ unsynced' = 0
    /\ UNCHANGED <<lines, index, up, known, faults, lost, forgotten, damaged>>

-----------------------------------------------------------------------------
(* Processes and hosts.                                                    *)

\* start.sh: the counters of the new daemon are empty.
Start ==
    /\ ~up
    /\ up' = TRUE
    /\ UNCHANGED <<lines, durable, index, known, unsynced, faults, lost, forgotten, damaged>>

\* stop.sh: SIGTERM makes the daemon sync every game before it exits.
Stop ==
    /\ up
    /\ faults < MaxFaults
    /\ faults' = faults + 1
    /\ up' = FALSE
    /\ durable' = IF unsynced > 0 THEN Len(lines) ELSE durable
    /\ known' = None
    /\ unsynced' = 0
    /\ UNCHANGED <<lines, index, lost, forgotten, damaged>>

\* The process is gone with its memory; what it wrote stays in the page cache.
Gone ==
    /\ up
    /\ faults < MaxFaults
    /\ up' = FALSE
    /\ faults' = faults + 1
    /\ known' = None
    /\ unsynced' = 0

\* The daemon is killed between two requests, or an append was executed after
\* sync_all by a handler thread while stop.sh brought the daemon down.
Kill ==
    /\ Gone
    /\ forgotten' = (forgotten \/ unsynced > 0)
    /\ UNCHANGED <<lines, durable, index, lost, damaged>>

\* The daemon is killed after it wrote the lines and before it wrote the index.
CutAppend(batch) ==
    /\ Gone
    /\ Fresh(batch) # <<>>
    /\ lines' = lines \o Fresh(batch)
    /\ index' = HashesFile
    /\ forgotten' = TRUE
    /\ damaged' = TRUE
    /\ UNCHANGED <<durable, lost>>

\* The host goes down and takes lines with it: of either file only a prefix
\* survives, of the lines at least those that were synced.  (When it takes none
\* with it, it is like a Kill.)
Outage ==
    /\ faults < MaxFaults
    /\ faults' = faults + 1
    /\ \E n \in durable..(Len(lines) - 1) :
         /\ lines' = SubSeq(lines, 1, n)
         /\ durable' = n
    /\ IF index = None THEN index' = None
       ELSE \E m \in 0..Len(index) : index' = SubSeq(index, 1, m)
    /\ up' = FALSE
    /\ known' = None
    /\ unsynced' = 0
    /\ lost' = lost \cup (Range(lines) \ Range(lines'))
    /\ damaged' = TRUE
    /\ UNCHANGED forgotten

-----------------------------------------------------------------------------
FilesTypeOK ==
    /\ lines \in Seq(Rounds)
    /\ durable \in 0..Len(lines)
    /\ index = None \/ index \in Seq(Rounds)
    /\ up \in BOOLEAN
    /\ known = None \/ known \subseteq Rounds
    /\ unsynced \in 0..(FsyncEvery - 1)
    /\ faults \in 0..MaxFaults
    /\ lost \subseteq Rounds
    /\ forgotten \in BOOLEAN /\ damaged \in BOOLEAN
    /\ ~up => known = None /\ unsynced = 0

\* Unless a daemon was killed over unsynced lines its counter of them is exact,
\* so "done" and the exit of the daemon sync everything there is to sync and an
\* outage costs a game less than one group of rounds: over batches of any size,
\* restarts, outages and requests executed while the daemon is down (comment at
\* coordinator.py 57-60; sync_game, sync_all and append_batch 225-238, 699-702).
UnsyncedIsExact ==
    ~forgotten => Len(lines) - durable = unsynced

\* Unless an append was cut or a file with the host, the index says exactly what
\* the file holds and no round is in the file twice, however often a batch is
\* sent again, by whichever shard, to whichever process (hashes, 293-313; 666-690).
\* Acceptance counts on it: a line that is there twice can never be accepted.
IndexMatchesLines ==
    ~damaged =>
        /\ IsInjective(lines)
        /\ index # None => index = lines
        /\ known # None => known = Range(lines)

=============================================================================

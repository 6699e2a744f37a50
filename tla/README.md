# A TLA+ model of the capture coordinator

This directory specifies, model-checks and partly proves the capture system: a
coordinator on one server that decides which runner thread captures which game, how
many rounds each may add, and when it may talk to the provider; the threads that
capture; and the tools that turn what they captured into a released service.
The modules are translated from the code; the documentation is only quoted where
the code turned out to say something else.

## 1. Inventory

### The system

A GitHub workflow dispatches a *run*: `begin`, then up to 20 nodes (runners), each
forking two threads, then `end`. Every thread loops: `claim` a game, restore its
history, reserve its share of the mode quota, capture rounds (each official
request behind a `permit` and followed by a `response`), upload the rounds in
batches, `done`. All coordinator operations are JSON lines over an SSH pipe to one
daemon, which executes them one at a time under a lock on a dictionary in memory
and saves it to `output/.actions/queue.json`.

| Part | Code | State | Operations | Hard behaviour |
|---|---|---|---|---|
| Lease scheduler | `actions/coordinator.py` `execute`, `grant_claim`, `release_node`, `worker_claim`, `reclaimable` | `claims`, `games`, `modeGames`, `cursor`, `halted`, the acceptance files | begin, end, claim, done, files, and the fuse inside response | many threads, re-sent requests, leases taken back while in use, starvation over rounds |
| Mode quota | `reserve_modes`, the quota half of append and done; `oaks.ts` `syncModeCountsFromMongo`, `captureGame` | `modeQuotas[slug]`: counts, reservations, specialComplete | reserve_modes, append_batch, done, release_node | stale counts, Mongo ahead of the file, dead threads |
| Request gate | permit, response; `actions/worker.ts` fetch wrapper | `permits`, `nodeUntil`, `until`, `nodeThrottle`, `rateNodes`, `halted` | permit, response | late and interleaved 429 answers, lost replies, leaked permits, capacity |
| Game files | append_batch, `hashes`, `sync_game`, ack, load | NDJSON, hashes.txt, `hash_cache`, `unsynced` | append, append_batch, ack, load, done | crash between two writes, lost fsync groups |
| Daemon | `actions/coordinator_daemon.py` | memory, queue.json, dirty flag, lock file, socket | handle, flush, persist_loop, health_loop, serve, stop | snapshots written outside the lock, restart, hand-over |
| Channel and client | `src/coordinator-channel.ts`, `actions/coordinator-client.py` | one pipe per thread | call, exchange, oneShot | timeout after the request took effect: it is sent again |
| Capture loop | `oaks.ts`, `actions/worker.ts` `runThread` | two buffers of 25, session, counters | capture, flush, retry, close the lease | double write, partial failure, session retries |
| Mongo | `src/mongo-store.ts`, audits | collection `simulate` | upserts, counts | equal totals taken for equal contents |
| Acceptance | `validate-data.ts`, `audit-mongo.ts`, `finalize-data.ts`, `src/data-finalizer.ts` | three report files | validate, audit, finalize | files of different ages accepted together |
| History restore | `src/restore-data.ts`, `actions/restore-archived.py` | the NDJSON copy of a runner | stream, gunzip, rename | truncated streams, stop in between |
| Resources | `src/resource-graph.ts`, `src/static-downloader.ts` | worklist, manifest | discover, download, audit | closure of a graph that is discovered while it is downloaded |
| Deployment | `src/deploy-plan.ts`, `deploy-batches.ts` | plan, report file | plan, execute batch, resume | crash between the request and its record; several processes without a lock over one report |
| Catalogue | `src/catalog.ts`, `catalog-sync.ts` | `games/registry.json` | merge | entries removed and coming back |
| Rounds and forms | `src/protocol.ts`, `src/shop.ts`, `src/features.ts`, `src/mode-target.ts`, `src/game-definition.ts` | none | which mode, feature and form | one classification, four places that apply it |
| Launch variants | `src/wx-launch.ts`, `src/ggx-launch.ts`, `src/browser-transport.ts` | a session | log in, scrape | failures of every step |
| Code generation, seeds, status, scripts | `src/codegen.ts`, ... | none shared | text output | not concurrent; not modelled |

### What must be right

* **Leases.** At most `maxClaims` sessions, and no node above its share. A shard of a
  game has its node to itself on the production topology. The normal lease of a game,
  whose holder validates and audits exact totals, is the only one of that game. A fused
  node holds nothing. Whoever holds a lease can close it. Accepted games are not leased
  again. Every game gets its turn over the rounds.
* **Quota.** The shards of a mode never store more than its target, whatever they report
  and whenever they die; a reservation covers its holder's work; *complete* means stored;
  the mode is filled in the end.
* **Data.** A round a thread counts is with the server or still in its batch, and in Mongo or
  its batch; the index of a game says what its file holds; acceptance is never ahead of the data.
* **Daemon and channel.** A call takes its own answer and ends; what was saved survives a restart;
  what is in memory is saved while requests keep coming.
* **Capture.** What is stored is what was played and all of it; no answer of an old request stands
  in for a new one; the counts of capture, validation and audit agree; a lease ends.
* **Resources and releases.** A tree called complete is closed under what its files name; ids stay with
  their game; what is planned was accepted with every document the file had when it was hashed; a noted operation
  is not repeated by who has read the note; batches are posted in their order.
* **Gate.** In-flight budget, spacing per egress, Retry-After of an egress, pause of all
  egresses across rounds, no permit behind a fused egress, no capacity lost.

## 2. The modules

| Module | Models | Code it stands for |
|---|---|---|
| `GameLock` | what the scheduler promises for one game | - (abstract) |
| `Leases` | the lease scheduler; implements `GameLock` | coordinator.py 69-73, 329-388, 419-572, 642-648, 707-725, 811-814; worker.ts 412-443 |
| `LeasesProofs` | theorems about `Leases`, among them that it implements `GameLock` | - |
| `ModeQuota` | the split of one mode's quota between two shards | coordinator.py 347-350, 581-618, 649-698; oaks.ts 284-298, 429-511 |
| `ModeQuotaProofs` | theorems about `ModeQuota` | - |
| `RateGate` | permits and the reaction to 429 | coordinator.py 485-497, 726-817; worker.ts 163-281 |
| `RateGateProofs` | theorems about `RateGate` | - |
| `Daemon` | the channel of a thread, the client, the daemon with its saves, starts and stops | coordinator-channel.ts; coordinator-client.py; coordinator_daemon.py 34-42, 103-196; coordinator.py 157-200, 258-275; start.sh, stop.sh |
| `DaemonProofs` | theorems about `Daemon` | - |
| `GameFiles` | the NDJSON of a game, its index, the fsync groups | coordinator.py 225-238, 293-313, 649-698; coordinator_daemon.py 169-180 |
| `DualWrite` | two threads writing the rounds of one game to the NDJSON (`GameFiles`) and to Mongo, and its acceptance | worker.ts 60-98, 172-176, 376-475; oaks.ts 353-392, 456-511, 585-590; mongo-store.ts 59-74; mongo-target.ts 81-116 |
| `DualWriteProofs` | theorems about `GameFiles` and `DualWrite` together | - |
| `Rounds` | what a round is: its mode, features, forms, what is missing | protocol.ts 190-399; features.ts 45-154; shop.ts 22-91; mode-target.ts 10-46; game-definition.ts 63-106; validate-data.ts 44-132 |
| `Capture` | one thread capturing a game over several leases (`Rounds`), and the provider | oaks.ts 53-586; protocol.ts 80-186; worker.ts 20-477; wx-launch.ts 13-62 |
| `CaptureProofs` | theorems about `Rounds` and `Capture` | - |
| `Resources` | crawls, network captures and audits of the files of games | resource-graph.ts 63-305; static-downloader.ts 41-202; network-matrix.ts 68-175; audit-resources.ts 50-106; download-static.ts; capture-network.ts; resource-status.ts |
| `ResourcesProofs` | theorems about `Resources` | - |
| `Publish` | catalogue, registry, reports, deployment plan and its execution | catalog.ts 100-178; catalog-sync.ts; discover-games.ts; batch.ts; data-finalizer.ts 28-84; deploy-plan.ts 60-141; deploy-batches.ts 23-118 |
| `PublishProofs` | theorems about `Publish` | - |
| `MC...` | instances for TLC | - |

### Leases

`lease[g][s]` is the entry of `state['claims']` for game `g` under its main key (`slug`) or
its second key (`slug#2`); `Absent` is a missing entry. `complete` and `down` are the two
facts claim() reads of a mode quota (`specialComplete`, `unavailableNodes`); `FillQuota`
is the moment reserve_modes or append makes a quota complete, of which `ModeQuota` has
the arithmetic. `accepted` is on disk and survives rounds, and so does the cursor.

One claim() is one action: `Admitted` are its gates, `SpecialTurns`, `SecondTurns` and
`NormalTurns` the games its loops would grant, `Passed` the accepted games a loop marks on
its way, `Crowded` the refusal of grant_claim, `AnsweringLoop` the loop that answers. The
four outcomes are `ClaimSpecial`, `ClaimSecond`, `ClaimNormal`, `ClaimNothing`; the last
one still marks the games it passed over.

Time is a flag that may switch whenever the comparison in the code could: `cooling`
(retryAt), `fresh` (claimed less than 120 s ago), `closing` (deadline or serverHalt).
`Resend` lets a request be executed twice, as the channel does after a lost reply: a
thread that already holds a lease claims again, a closed lease is closed again. The waits of `claim_backoff` and `nextClaimAt` delay an
answer and change nothing else, so here they are just claims that have not happened yet.

`ImplementsGameLock` maps the leases to a lock per game: a running lease is a taken key, a
normal one has the game alone, fused nodes are barred and accepted games sealed.

### ModeQuota

One purchase mode of one game (modes do not influence each other) and its two shards,
named by lease key. `stored` counts the NDJSON on the server. `left` is what the shard
still captures for its local target, `buffer` its unsent rounds. `Reports` is the count it
sends with reserve_modes: what it restored, or what Mongo has, if that is more.
`stranded` counts rounds that reached Mongo only.

### RateGate

Requests have random keys; `permits` is state['permits']; `told` is a history variable, the
time until which the provider told an egress to stay away. Ticks stand for any duration.
`waiters` is kept because the code keeps it, as a set, because nothing reads its order. The 60 s expiry of
waiters and the replay of journals for runners of an older version are left out. Leases
are a set of threads here; `ReleasedBy` is the part of release_node the gate can see.

### GameFiles and DualWrite

`lines` and `index` are the two files of a game, `durable` how much of the first is certainly
on disk, `known` and `unsynced` the daemon's cache and counter. While the daemon is down
(`up`), each request is executed by a process of its own (coordinator-client.py `fallback`):
no cache, every append synced. `Fresh` picks what append_batch writes: the rounds of a batch that are
not in the index, each once. `Kill` takes the memory, `CutAppend` does so between the two
writes of one append, `Outage` takes whatever was not synced. Lines are whole: a line cut in
two is left out. Mongo keeps what it acknowledged.

A thread's lease in `DualWrite` is a walk over `phase`: load, restore, connect (the repair of
Mongo), play, and from there out through audit, close (the last batch), report and leave
(done). `docs` and `buf` are its two buffers. `Grantable` is what `Leases` allows: a second
shard beside a main one, or one normal lease. `TakeBack` is the fuse or the end of the round;
from then on the server refuses the thread, Mongo does not. A request may be executed and
answered, executed and not answered, or not executed. `SendAgain` is
the retry of the channel: the batch meets `AppendBatch` a second time, perhaps in another process.

### Daemon

`jobs` are requests between a thread and the state: in a pipe or sent once (`line`), still waited
for or given up (`wanted`), and on their way to the daemon, to a client that works alone, or to
nobody any more (`route`). A client looks for the socket once (`Connect`); one that works alone
meets a daemon that has come up since by its lock and forwards (`Forward`). Of the state one
change is followed: memory, file and every save under way have it or not, which is enough to
see it lost, because saves copy the whole state and never undo a part of it. `Copy` and
`Replace` are the save of an urgent operation outside the lock, `Flush` and `ClearDirty` the
two halves of flush(), `Load` and `Listen` the two halves of a start, with whatever the others
do in between. Operations on the files of a game (load, files, ack) take another lock and do
not write the state; the health loop is `Leases!Close`; two daemons at once, which the
scripts exclude, are left out.

### Rounds and Capture

`Rounds` has the pure rules as operators over frames: an answer of the provider reduced to the
action, the mode it echoes, the state, the free spins, the win, the actions offered and the end.
`RemainingModes` and `Candidates` are the sets the code's lists hold; their order matters only
where the first one is taken, which `First` does along `Ascending` or `Available`.
`Capture` is the loop: `phase` is the place in runThread and captureGame, `journal` whether the
next request carries a key and an answer is kept under it, `forms`, `tried` and `refusals` how
purchases are re-shaped, `counts`, `targets` and `inventory` what the next action is chosen by.
The provider sells, answers, fails and leaves rounds unfinished as it likes. `Restore` is all that comes
between the file and the first login: it counts the rounds of the file and then, as
syncModeCountsFromMongo does (oaks.ts 284-298, 384), raises the count of every special mode to what Mongo
has, if that is more. `lead` is how much more that was, one of `Leads`; how Mongo comes to be ahead is
what `DualWrite` models. Left out: OAKS_SINGLE_GAME, --mode-types, --require, the delays of the
throttle, claims answered by wait or stop.

### Resources

Files have versions, texts name other files, `served` is the provider, `disk` the tree; `job` is a
process with its queue. Requests, texts and processes may fail. Which names a text contains is
a function of the instance (`Site`), where the code has regular expressions. Paths that leave the
tree and the retries of the browser are left out.

### Publish

`Place` is the page a game counts on: the first that shows it (`seen` of a tool).
Every tool is a process that reads the registry and files, works and writes; `ops` and `up` are the
agent. `blind` is a history variable: some tool has overwritten a registry it had not read.

`release` are the processes of deploy-batches.ts (`Deployers`), as many at a time as somebody starts: the
code has no lock. One reads the registry (`StartRelease`), asks the agent what is deployed
(`AskServices`), then goes through the games by id and reads the reports of each (`ReadReports`) and hashes its
file (`HashFile`), reads the report of who came before (`ReadPrior`), writes the merged plan over it
(`WritePlan`), and executes a batch of the plan in its memory: `Refuse`, `Post`, `Record` after the post and after
every poll of --wait, `Leave` without --wait or by force. Between any two of these the tools, the other
releases and the agent take theirs. `judged` remembers how many documents the file of a game had when it was
hashed and found ready. Left out: the reports of one game are read in one step (they only grow), a temporary file
and its renaming are one write, and the files batch-NN.json, which are written and never read.

## 3. The runs

Bounds are in the .cfg files.

| Run | Checks | Instance, and why it is enough |
|---|---|---|
| `leases_round` | TypeOK, SpecialOwnsNode, NormalIsAlone, HolderCanFinish, ImplementsGameLock | three threads on two nodes: the smallest system in which two threads of an egress meet each other and one of another egress. One game with modes and one without, fillIdleNormal as in production, every request possibly sent twice. `MaxClaims` 3 gives a node two sessions, so a shard can meet company. 340 thousand states |
| `leases_turns` | EveryModeGameServed | three mode games, one session: the round ends before the others had a turn, only the cursor helps |
| `quota_split` | TypeOK, NeverOverTarget, PromiseCoversWork | target 4, buffers of 2, Mongo ahead by up to 2 stranded rounds, colliding rounds: a mode needs at least two batches per shard |
| `quota_fills` | CompleteIsStored, QuotaFills | target 3 (odd, so that the split rounds), no Mongo lead, any failure repeated any number of times |
| `gate_gate` | FusedGetsNoPermit, PauseHonoured | two permits for three threads, five points in time, all failures |
| `gate_capacity` | CapacityForIdle, RetryAfterHonoured | one permit per thread as deployed; network failures but no broken bodies |
| `daemon_channel` | ReplyIsOwn, SettledSurvives, EveryCallEnds, SavedUnderTraffic | one thread with two given-up requests on their way: three handlers in the daemon at once, two of which save. Any number of calls, stops, kills and starts. 119 thousand states |
| `data_writes` | UnsyncedIsExact, IndexMatchesLines, BuffersCover, AcceptedIsStored | two threads, two rounds, buffers and fsync groups of 2, two leases in a row or side by side, one stop, kill, cut append or outage at any moment, any number of lost replies, failed writes and deaths. 2.2 million states. No deadlock check: when both leases are over nothing is left to do |
| `capture_session` | FormsExplored, CountsAgree, CompleteIsAccepted, InventoryCoversHistory, RecordedIsWhole, NothingReplayed, QuietAfterSignal, LeaseEnds | two leases of two rounds with three retries, by quota and by coverage, each source, an old history of a sample or an unfinished round. Mongo is level with the file or ahead by the purchase the quota asks for. Three retries let a purchase go through all its forms; one frame more than a free game needs lets it overrun. 212 thousand states. It stops after its leases: no deadlock check |
| `tree_crawl` | CompleteServes, RecordedIsServed, EntriesFailHard, TakenOnce | two processes at a time, three in all (a download, a capture and the audit of both), one failure or replaced page, two fetches at a time; a page, a script, a loader under two names, a missing sheet and an advertisement. 830 thousand states; it stops after its runs: no deadlock check |
| `publish_release` | IdsStayOwn, KnownIsKept, PlannedIsAccepted, RecordedIsNotRepeated, PostedInOrder | two accepted games and two the catalogue may still list, three ids, pages of two, batches of one, two tools and two release processes at a time, four beginnings (of a tool, a release, a report or a change of the catalogue), one failure. Two releases make a plan of two batches each and write over each other's report, with two beginnings left for what comes in between. 1.95 million states; it stops after four: no deadlock check |

The type invariants of `RateGate`, `DualWrite`, `GameFiles`, `Capture`, `Resources`, `Publish` and `Daemon` are
definitions for the reader; they hold on the same instances (add `INVARIANT TypeOK` to the .cfg).

One run finds a disagreement with what the repository says of itself:

| Run | Property | What the code does instead |
|---|---|---|
| `gate_leak` | CapacityForIdle | a body that breaks is not reported; its permit stays until the round ends (Node transport) |

### Disagreements and observations without a run

Scheduler and gate:

* grant_claim writes a new record without retryCount: the bound of two retries per round
  (coordinator.py 50) is never reached.
* worker_claim ignores the status, so a fused thread with an older, finished entry of the same game
  is still served through that entry (docstrings at coordinator.py 332 and 340; README 21).
* A mode game whose lease ended as paused, halted or incomplete is neither leased again nor
  resolved: without fillIdleNormal it holds back every normal lease until the round ends.
* With a shared egress release_node is called with a name no lease has.
* The pause of all nodes needs `max(2, (nodes + 1) / 2)` limited egresses, not two (README 19).
* Permits are not given in order of arrival (README), which a comment in the code explains; a
  re-sent response finds its permit gone and fails the session of its thread.
* Without fillIdleNormal (single game mode) the two shards of a game can meet on one node, because
  loop 1 of claim() does not compare nodes (README: two different runners).
* The health loop counts unhealthy samples across rounds.

Quota and data:

* A round another shard has buffered may be counted by Mongo first and by append again, so a mode
  can be complete before its rounds are stored.
* The rest of the Mongo buffer is written before the rest of the rounds is sent to the NDJSON (README
  31: NDJSON first); when the latter is refused the game can never be accepted.
* `done` after a killed daemon syncs nothing, because the counter of unsynced rounds died with it
  (comment, coordinator.py 708).
* A game accepted by an old manifest is judged by the files, not by their age.

Daemon (restart.sh 2: saved first, so that no queue state is lost; coordinator_daemon.py 11: saved
every second or at once). What `SettledSurvives` and `SavedUnderTraffic` leave open is what happens:

* a change made between the save and the clearing of dirty is saved with the next ordinary
  request, not within a second;
* a save of an urgent operation runs outside the lock and may put an older state back, also after
  the last flush; the answered operation is then missing from queue.json until the next save;
* ordinary requests executed between the last flush and the end of the process are lost;
* queue.json is read before the lock is asked for, so what a client did alone in between is lost;
* a save that fails answers "no" to an operation that was executed.

Capture:

* ggx puts bet_factor back, so its purchases never change their form.
* Completing the quota does not ask for the win and loss of base rounds, which validation requires.
* A stopped thread discards a round that is just finished (oaks.ts 237 before 239).
* nextAction takes "buy_spin" as a continuation.
* In coverage mode validation counts features without the directed one.
* A game without the mode still to be captured (oaks.ts 448 asks for another login) ends its lease instead.
* GAME_DATA_UNAVAILABLE (protocol.ts 171) is final there and retried by openSessionWithRetry.
* A 429 or 503 while preparing (game-definition.ts 145 and 218; worker.ts 390-398) and a wrapped network
  failure end the thread as "failed".
* With Mongo ahead a lease reaches its quota by rounds the file does not have (oaks.ts 288-298; the comment at 289
  expects the lead), and the acceptance, which reads the file, refuses it. `CompleteIsAccepted` says that
  nothing but this lead is missing of a mode; a later lease starts with the same counts.

Resources:

* A text that cannot be fetched counts as empty; what only it names is left out, or its 404 is
  excused once and an error the next time.
* A text without an extension is read for names only by the process that fetched it.
* Two crawls that both saw a file absent may write it one after the other, the second after an audit.
* The download report is not replaced atomically; `.part` files stay.

Releases:

* A new plan numbers its batches anew and forgets running and failed operations of batches that
  changed; a stop between the call and the report forgets the operation (deploy-batches.ts 67).
* Two release processes that planned the same pending batch both post it, because each goes by the plan in
  its memory (deploy-batches.ts 58-67), and a poll of --wait (81) writes an older plan over a newer report.
  `RecordedIsNotRepeated` is therefore claimed for a process as long as no other has written the report since it
  read or wrote it; `PostedInOrder` needs no such condition.
* The file of a game may grow between its hash and the plan or the post (deploy-batches.ts 31-34, 103-116): it is
  then released with documents no report has counted. `PlannedIsAccepted` speaks of the file as it was hashed.
* Sync and discover may overwrite each other's registry; a game may slip between two pages and be
  deactivated; writers share the name of the temporary file.
* sanitize-output keeps the counts, so reports of the old edition still match (data-finalizer.ts 40).

### Fairness

`Leases!FairSpec`: runs keep being dispatched (weak fairness of `Begin`; the supervisor
dispatches them), and it is not so that threads could be granted a game again and again and
never are (strong fairness of the grants together, because deadlines, waits and rounds keep
disabling them). Which game is granted is not assumed: that is what the cursor has to do.
`ModeQuota!FairSpec`: the same for reserving, capturing and appending new rounds, over both
shards together; failures, deaths and fuses remain possible for ever.
`Daemon!FairSpec`: a thread goes on with its call (its 45 s do pass), the loop of the daemon wakes
up every second, and a daemon told to stop ends; nothing makes it start, listen or answer.
`Capture!Spec`: the thread goes on; the provider may refuse for ever, and no deadline need come.

## 4. The proofs

Every theorem holds for all constants that satisfy the ASSUME of the module, not only for the
instances of the runs; a stronger hypothesis is part of the statement and named below. Each proof
has the same shape: an inductive invariant, one step per action, the property from the invariant.

| Module | Properties of the runs that are theorems | From |
|---|---|---|
| `LeasesProofs` | TypeOK, NormalIsAlone, SpecialOwnsNode, HolderCanFinish, ImplementsGameLock | TypeOK, LeaseInv, NodesApart, DistinctHolders |
| `ModeQuotaProofs` | TypeOK, NeverOverTarget, PromiseCoversWork, CompleteIsStored | Inv |
| `RateGateProofs` | RetryAfterHonoured, PauseHonoured, FusedGetsNoPermit, CapacityForIdle | ClosedAsTold, FuseInv, CapacityInv |
| `DaemonProofs` | ReplyIsOwn, SettledSurvives | Tables, Channels, Staged |
| `DualWriteProofs` | UnsyncedIsExact, IndexMatchesLines, BuffersCover, AcceptedIsStored | Inv |
| `CaptureProofs` | QuietAfterSignal, NothingReplayed, RecordedIsWhole, InventoryCoversHistory, CountsAgree, CompleteIsAccepted, FormsExplored | Heard, Fresh, InSession, Stocked, Covering, Tallied, Clean, Exploring |
| `ResourcesProofs` | CompleteServes, RecordedIsServed, EntriesFailHard, TakenOnce | Inv |
| `PublishProofs` | IdsStayOwn, KnownIsKept, PlannedIsAccepted, RecordedIsNotRepeated, PostedInOrder | Good, IdsOwned |

### The scheduler

`LeasesProofs` (any games, nodes, threads, rosters and topologies):

* `TypeCorrect`. The last conjunct of TypeOK, a running lease names a thread, is
  what makes it more than typing: release_node and begin clear threads.
* `HaltedSafe`: HaltedHoldsNothing; inductive together with TypeOK.
* `NormalLeaseIsExclusive`. NormalIsAlone is not inductive: loop 4
  only looks for running special shards, so one must know that whatever runs on the second
  key is special, and loop 2 does not look at the acceptance files, so one must know that a
  leased game is not accepted before its quota is complete. `LeaseInv` adds both.
* `AcceptedGamesStayClosed`: Spec => AcceptedStaysClosed, from the same invariant.
* `SpecialShardsOwnTheirNode`. Whether a node is free is asked when it is granted something, so the
  property speaks of pairs of leases of which only the later one was checked. `NodesApart` says it key by
  key, which turns a step into: no lease starts, or one does and its claim saw the others.
* `EveryHolderCanFinish`, for ~Resend \/ FillIdle. `DistinctHolders` is stronger than the property: the
  main key names another thread than a running second one also after it has ended, because an
  ended entry is looked at first. Without fillIdleNormal a thread whose claim is delivered twice can get
  both keys of a game; its `done` then closes only one, so the hypothesis is needed.

`SchedulerIsALock`: Spec => ImplementsGameLock. Init
maps to the initial lock, and there is one lemma per kind of step: the three grants take a
key (`ClaimTakes`; the gates of claim() are the bounds of the lock because the keys it
counts are the running leases, `SameKeys`), a done returns one or, delivered again, is not
seen (`DoneReturns`), the fuse bars a node and takes all its keys (`HaltBars`), begin
resets (`BeginResets`), the acceptance seals; everything else leaves the lock alone
(`Unseen`). The marks a claim leaves end no running lease because the games it passes over
have a free main key (`PassedAreFree`).

### The quota

`ModeQuotaProofs` (every target, batch size, bound and either setting of MongoLeads and
Collisions): `QuotaInvariant` establishes `Inv`, whose parts say that the counts cover the
store, that a holder without a reservation holds nothing, that reservations cover the
work in hand, and that counts and promises together fit into the target or nothing is
promised; `SplitNeverOverTarget` and `WorkStaysPromised` follow. `CompleteMeansStored`
assumes ~MongoLeads and adds that the counts are exact. `QuotaTypes` is its first part.

### The gate

`RateGateProofs` (any threads, egresses, permits, limits):

* `RetryAfterIsHonoured` from `ClosedAsTold`: no egress opens before the longest time it was told, since a 429
  only ever moves `nodeUntil` forward, whatever order answers arrive in.
* `PauseIsHonoured` needs only the types (`GateTypes`): no step takes `until` back, a new round keeps it.
* `FusedStaysSilent` from `FuseInv`: permits are of threads and from the past, so what an egress holds when it
  is fused is older than the fuse.
* `CapacityIsForIdle`, for Failures \subseteq {"fetch"}, finitely many threads and MaxInFlight at least their
  number. `CapacityInv` says whose every permit is: of the request its thread has under way, or of a thread that has
  left; no thread has two. The first hypothesis is what the run `gate_leak` shows to be necessary.

### The daemon

`DaemonProofs` (any threads, number of turns and of orphans):

* `RepliesAreOwn` from `Channels`: a thread awaits one request, and what lies in its pipe is the answer
  of the present call. Requests it has given up may still be executed; close() has forgotten the pipe they answer in.
* `SettledChangesSurvive` from `Tables` and `Staged`: requests are in execution only while a daemon runs, so
  none of the copies it is about to write is older than one that is settled.
* `ChannelTypes` from these and `Attempted`.

### The data

`DualWriteProofs` (any threads, rounds, batch and group sizes, bounds): one invariant `Inv`. Its parts hold each
other up, which is why they are proved together. A round is skipped as known, so what is known has to be in the
file or down with the host (`KnownIsThere`); a batch of the server is empty where the thread goes on (`Held`),
so that the report of a lease speaks of rounds that are stored (`Covered`); an acceptance compares what was
reported with the file, which only an outage takes lines from.

* `SyncCountIsExact`, `IndexIsTheFile`: the counter of unsynced rounds and hashes.txt against the file.
* `NothingFallsBetween`: BuffersCover, through lost replies, repeated batches, kills and outages.
* `AcceptanceIsBacked`: an accepted game stays stored although threads whose lease was taken back go on.
* `WriteTypes`: the types, with the limit of a batch.

### The capture

`CaptureProofs` (any price lists, answers, kinds of errors, histories, ways to start, targets and bounds):

* `SignalsEndTheLease` from `Heard`; `RoundsAreNotReplayed` from `Fresh`: while a round is played its session
  has answered everything and was opened by the provider, and no request of an older round is kept.
* `RoundsAreRecordedWhole` from `InSession`: what is offered, bought, echoed and pending are of one session. The lemmas
  before it are about the order of modes (`Ranks`: the k-th of a finite set of numbers exists).
* `HistoryIsRequired` from `Stocked` and `Covering`: relogins may change the price list and with it the
  inventory; what the file shows is added to whatever is loaded.
* `CountsAreTheFiles` from `Tallied`: what a lease counts, a restart restores and the acceptance finds grow together,
  and whatever Mongo had ahead when the lease began stays on top of the first. `QuotaIsAccepted` from `Clean` too: what
  is missing is the lead, never a line. Both for every lead and under `NoneTwice`: the history a lease starts with holds no round twice. `IndexMatchesLines` of `GameFiles` is that fact for the files this
  server writes; a file of other origin with a round twice is counted differently by restore and audit.
* `EveryFormIsTried` from `Exploring`, under `SoldIsDeclared`: the forms of a purchase are remembered per declared
  mode, so nothing can be said of one outside the registry. `Ladder` says which forms have been sent when a
  purchase has been refused so and so often, `Noted` that the one being played has the form of the moment.

### The trees

`ResourcesProofs` (any files, texts, games, processes and concurrency). `Taken` stands for a loop over the
queue; `TakenFacts` says what it leaves: the batch is what was not taken, each URL once, and nothing
before the cut is lost. For every crawl `Inv` holds (`Walked`, `Real`):

* every URL taken is in the batch, outside the hosts, or in the result (`Settled`);
* every name of a recorded text was taken, waits, or is still to come with the batch (`Followed`);
* an entry that was not taken waits as an entry, in front of whatever else names it (`Ahead`);
* what is recorded was served, and is in the tree (`Real`): a tree only grows, so other crawls cannot undo it.

With an empty batch and queue the first two make a report closed (`CrawlCloses`), and closed it stays
(`ClosedStays`). From this:

* `CompleteTreesServe`: an audit without failures and mismatches reads the versions the report speaks of.
* `ReportsAreOfTheProvider`, `EntriesAreNotExcused`: what reports list, and what they excuse.
* `CrawlsEnd`: `Fresh` goes through the same step lemmas; `CrawlTypes` are the types.

The assumptions are those of `Resources`: finitely many URLs with distinct places in an order, texts that name
URLs, no URL written "entry", and a game with at least one entry on its static host.

### The releases

`PublishProofs` (any catalogue, page and batch size, ids, tools and release processes): `Good` says what the files,
tools, plans and the report refer to; its longest part is that ranks give ids and batch numbers without a clash (new
ids are next to the highest one). `GoodProcess` follows a release from step to step, and holds while
everybody else writes:

* `Judged`: no report of a game, once it was found ready, falls behind the documents it was found ready with. A digest is
  of the file as it was or is, so the manifest that has it counted them all; documents and reports only grow.
* `Served`: what a plan or the report calls completed has come up, and services stay up. This needs no order among the writers.
* `Keeps`: the plan about to be written has the operations of the report it was merged with.

The theorems:

* `IdsAreNeverShared` from `IdsOwned`, `KnownGamesAreKept`: as long as no tool has overwritten a registry
  it had not read. The condition is part of the properties; without it they are false (section 3).
* `OnlyAcceptedIsPlanned` from `Judged`, for the whole time the process lives.
* `OperationsAreNotRepeated` from `Keeps`, as long as the report is the one the process has seen; that others write
  in between is allowed, and ends the claim (section 3).
* `BatchesGoInOrder` from `Served`, whoever wrote the report.

### Only model-checked

* Everything about liveness (EveryModeGameServed, QuotaFills, EveryCallEnds, SavedUnderTraffic, LeaseEnds):
  fairness and ENABLED are beyond the prover.

## 5. Plan

Done: all modules of section 2, the refinement of `GameLock`, and the safety properties of all runs as
theorems. Left: `Daemon` composed with the counts of `ModeQuota`, where a kill takes counts the NDJSON
still has.

## 6. Not modelled

* Code generation, seeds, status output, merge-special, the command line and the manual audits
  (audit-test, audit-local): sequential tools that read, or write files nobody else writes.
* Parsing pages (catalogue, launch pages, shop of the site) and the plumbing of the browser: text.
* Rules of single games (`src/validators`): numbers of that game, no state.
* The workflow, SSH setup and the supervisor: their effects (runs dispatched, cancelled, restarted) are
  the Begin, Die and NewRound actions. The restore of archived games by hand.
* Requests of runners of an older version (journals, cached responses, load_chunk).

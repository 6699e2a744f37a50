------------------------------ MODULE Publish ------------------------------
(***************************************************************************)
(* From the provider's catalogue to a released service: the registry and   *)
(* the tools that write it (catalog-sync.ts, discover-games.ts, batch.ts), *)
(* the reports a game is accepted by (validate-data.ts, audit-mongo.ts,    *)
(* finalize-data.ts, audit-resources.ts), the deployment plan              *)
(* (src/deploy-plan.ts) and its execution (deploy-batches.ts).             *)
(*                                                                         *)
(* Everything is a process that reads files, works and writes files, and   *)
(* may be stopped in between. The registry is written by several of them.  *)
(***************************************************************************)
EXTENDS Integers, Sequences, FiniteSets, SequencesExt

CONSTANTS
  Slugs, Tools,
  Deployers,    \* processes of deploy-batches.ts, which takes no lock
  FirstListed,  \* what the provider lists at first, in its order
  PageSize,     \* games on a page of the catalogue
  FirstId, LastId,
  BatchSize,
  MaxDocs,      \* bound: documents of a game
  MaxBegun,     \* bound: tools and releases started, and changes of the catalogue
  MaxFaults     \* bound: processes that die, pages that fail, operations that fail

ASSUME PublishAssumption ==
  /\ {PageSize, BatchSize} \subseteq Nat \ {0}
  /\ {LastId, MaxDocs, MaxBegun, MaxFaults} \subseteq Nat
  /\ FirstId \in Nat \ {0}
  /\ IsFiniteSet(Slugs) /\ FirstListed \in Seq(Slugs)

VARIABLES
  listed,    \* the provider's catalogue
  registry,  \* games/registry.json
  tool,      \* processes that read the registry and write something
  files,     \* output and reports of every game
  report,    \* deployment-report.json
  release,   \* processes that plan a release and post a batch of it
  ops,       \* operations of the agent
  up,        \* services that run
  blind,     \* a tool has written over a registry it had not read
  spent      \* what the bounds have left behind

vars == <<listed, registry, tool, files, report, release, ops, up, blind, spent>>
sources == <<listed, registry, tool, files>>
rollout == <<report, release, ops, up>>

None == 0
Idle == [at |-> "idle"]
Content(g) == <<files[g].docs, files[g].edition>>

\* The reports of a game that was accepted under an id.
Accepted(id, docs) ==
  [docs |-> docs, edition |-> 1, validated |-> docs, stored |-> [id |-> id, docs |-> docs],
   manifest |-> [id |-> id, digest |-> <<docs, 1>>, docs |-> docs], resource |-> id, service |-> id]
Untouched == Accepted(None, 0)

NoPlan == [made |-> FALSE, batches |-> <<>>]

\* A directory in which the games listed at first are known and accepted.
Init ==
  /\ listed = FirstListed
  /\ registry = [g \in ToSet(FirstListed) |->
       [id |-> FirstId - 1 + (CHOOSE i \in DOMAIN FirstListed : FirstListed[i] = g), active |-> TRUE, found |-> TRUE]]
  /\ files = [g \in Slugs |-> IF g \in DOMAIN registry THEN Accepted(registry[g].id, 1) ELSE Untouched]
  /\ tool = [t \in Tools |-> Idle] /\ release = [d \in Deployers |-> Idle]
  /\ report = NoPlan /\ ops = <<>> /\ up = {} /\ blind = FALSE
  /\ spent = [begun |-> 0, faults |-> 0]

Spend(what, bound) == spent[what] < bound /\ spent' = [spent EXCEPT ![what] = @ + 1]

-----------------------------------------------------------------------------
(* The catalogue and the registry.                                         *)

Relist ==
  /\ Spend("begun", MaxBegun)
  /\ \/ \E i \in DOMAIN listed : listed' = RemoveAt(listed, i)
     \/ \E g \in Slugs \ ToSet(listed) : listed' = Append(listed, g)
  /\ UNCHANGED <<registry, tool, files, rollout, blind>>

\* Every tool reads the registry when it starts, and works on that copy.
Started(t, process) ==
  /\ tool[t] = Idle /\ t = CHOOSE i \in Tools : tool[i] = Idle
  /\ Spend("begun", MaxBegun) /\ tool' = [tool EXCEPT ![t] = process]
  /\ UNCHANGED <<listed, registry, files, rollout, blind>>

Active == {g \in DOMAIN registry : registry[g].active}

Sync(t) == Started(t, [at |-> "fetch", copy |-> registry, page |-> 1, seen |-> <<>>])

\* A page shows what is listed when it is asked for; the answer tells how many there are.
FetchPage(t) ==
  LET last == tool[t].page * PageSize >= Len(listed)
      shown == SubSeq(listed, (tool[t].page - 1) * PageSize + 1, IF last THEN Len(listed) ELSE tool[t].page * PageSize)
  IN  /\ tool[t].at = "fetch"
      /\ tool' = [tool EXCEPT ![t] = [at |-> IF last THEN "synced" ELSE "fetch", copy |-> @.copy,
                                      page |-> @.page + 1, seen |-> @.seen \o shown]]
      /\ UNCHANGED <<listed, registry, files, rollout, blind, spent>>

ForgottenIds(known) == {known[g].id : g \in {h \in DOMAIN known : known[h].active}}
KnownIds(known) == {known[g].id : g \in DOMAIN known}

Free(known) == (FirstId..LastId) \ KnownIds(known)
NewOf(known, seen) == ToSet(seen) \ DOMAIN known

\* A game that was on two pages counts where it was shown first.
Place(seen, g) == CHOOSE i \in DOMAIN seen : seen[i] = g /\ \A j \in 1..(i - 1) : seen[j] # g

SyncedAnew(known, seen) ==
  [g \in ToSet(seen) |->
     [id |-> FirstId - 1 + (CHOOSE i \in DOMAIN seen : seen[i] = g), active |-> TRUE, found |-> FALSE]]

\* syncCatalog: known games keep what they have, new ones get the lowest free ids.
Synced(known, seen) ==
  LET ahead(g) == {h \in NewOf(known, seen) : Place(seen, h) < Place(seen, g)}
      idOf(g) == CHOOSE id \in Free(known) : Cardinality({i \in Free(known) : i < id}) = Cardinality(ahead(g))
  IN  [g \in DOMAIN known \cup ToSet(seen) |->
         IF g \in DOMAIN known THEN [known[g] EXCEPT !.active = g \in ToSet(seen)]
         ELSE [id |-> idOf(g), active |-> TRUE, found |-> FALSE]]

Written(t, games) == registry' = games /\ blind' = (blind \/ registry # tool[t].copy)

WriteSynced(t) ==
  /\ tool[t].at = "synced" /\ tool' = [tool EXCEPT ![t] = Idle]
  /\ \/ /\ Cardinality(NewOf(tool[t].copy, tool[t].seen)) <= Cardinality(Free(tool[t].copy))
        /\ Written(t, Synced(tool[t].copy, tool[t].seen))
     \/ /\ Cardinality(NewOf(tool[t].copy, tool[t].seen)) > Cardinality(Free(tool[t].copy))
        /\ UNCHANGED <<registry, blind>>
  /\ UNCHANGED <<listed, files, rollout, spent>>

\* discover-games.ts --all and batch.ts --stage discover.
Discover(t) == Started(t, [at |-> "discover", copy |-> registry, left |-> Active])

\* One game after the other; the whole registry is written after each, but for one that fails.
DiscoverGame(t) ==
  /\ tool[t].at = "discover"
  /\ \E g \in tool[t].left :
       LET left == tool[t].left \ {g}
           GoesOn(games) == tool' = [tool EXCEPT ![t] = IF left = {} THEN Idle ELSE [@ EXCEPT !.copy = games, !.left = left]]
           games == [tool[t].copy EXCEPT ![g].found = TRUE]
       IN  \/ Written(t, games) /\ GoesOn(games) /\ UNCHANGED spent
           \/ GoesOn(tool[t].copy) /\ Spend("faults", MaxFaults) /\ UNCHANGED <<registry, blind>>
  /\ UNCHANGED <<listed, files, rollout>>

-----------------------------------------------------------------------------
(* The reports of a game.                                                  *)

Noted(g, noted) ==
  /\ Spend("begun", MaxBegun) /\ files' = [files EXCEPT ![g] = noted]
  /\ UNCHANGED <<listed, registry, tool, rollout, blind>>

Capture(g) == g \in Active /\ registry[g].found /\ files[g].docs < MaxDocs /\ Noted(g, [files[g] EXCEPT !.docs = @ + 1])

\* sanitize-output.ts writes the same documents in another form.
Sanitize(g) == g \in Active /\ files[g].docs > 0 /\ files[g].edition = 1 /\ Noted(g, [files[g] EXCEPT !.edition = 2])

Validate(g) == g \in Active /\ files[g].docs > 0 /\ Noted(g, [files[g] EXCEPT !.validated = files[g].docs])
AuditMongo(g) ==
  g \in Active /\ files[g].docs > 0 /\ Noted(g, [files[g] EXCEPT !.stored = [id |-> registry[g].id, docs |-> files[g].docs]])
AuditResources(g) == g \in Active /\ registry[g].found /\ Noted(g, [files[g] EXCEPT !.resource = registry[g].id])
GenerateService(g) == g \in Active /\ registry[g].found /\ Noted(g, [files[g] EXCEPT !.service = registry[g].id])

\* finalize-data.ts reads the file twice, first for its digest.
Finalize(t, g) ==
  /\ g \in Active /\ files[g].docs > 0
  /\ Started(t, [at |-> "finalize", game |-> g, id |-> registry[g].id, digest |-> Content(g)])

\* buildDataManifest: the reports count as many documents as the file has.
FinalizeEnds(t) ==
  LET g == tool[t].game
      docs == files[g].docs
      matching == files[g].validated = docs /\ files[g].stored.docs = docs
  IN  /\ tool[t].at = "finalize" /\ tool' = [tool EXCEPT ![t] = Idle]
      /\ files' = IF matching
                  THEN [files EXCEPT ![g].manifest = [id |-> tool[t].id, digest |-> tool[t].digest, docs |-> docs]]
                  ELSE files
      /\ UNCHANGED <<listed, registry, rollout, blind, spent>>

-----------------------------------------------------------------------------
(* The plan.                                                               *)

AnyFile(reports, g) == TRUE
SameFile(reports, g) == reports.manifest.digest = Content(g)

\* readiness: the reports as they were read, the file and the configuration as they are.
Ready(reports, g, id) ==
  /\ reports.manifest.docs > 0 /\ {reports.validated, reports.stored.docs} = {reports.manifest.docs}
  /\ SameFile(reports, g)
  /\ {reports.manifest.id, reports.stored.id, reports.resource, files[g].service} = {id}

Ids(games) == {x.id : x \in games}

\* buildDeployPlan: the games that were found ready and not deployed, by id, in batches.
Plan(games, judged, deployed) ==
  LET eligible == {g \in DOMAIN games : judged[g] > 0 /\ games[g].id \notin deployed}
      rank(g) == Cardinality({h \in eligible : games[h].id < games[g].id})
      batch(n) == {[id |-> games[g].id, slug |-> g] : g \in {h \in eligible : rank(h) \div BatchSize = n - 1}}
  IN  [made |-> TRUE, batches |->
         [n \in 1..((Cardinality(eligible) + BatchSize - 1) \div BatchSize) |->
            [games |-> batch(n), status |-> "pending", op |-> None]]]

NothingMerged(plan, prior) == plan

\* mergeDeploymentProgress: a batch keeps its operation as long as it has the same services.
Merged(plan, prior) ==
  [plan EXCEPT !.batches =
     [n \in DOMAIN plan.batches |->
        IF n \in DOMAIN prior.batches /\ Ids(prior.batches[n].games) = Ids(plan.batches[n].games)
        THEN [plan.batches[n] EXCEPT !.status = prior.batches[n].status, !.op = prior.batches[n].op]
        ELSE plan.batches[n]]]

Goes(d, process) == release' = [release EXCEPT ![d] = process]

StartRelease(d) ==
  /\ release[d] = Idle /\ d = CHOOSE i \in Deployers : release[i] = Idle
  /\ Spend("begun", MaxBegun) /\ Goes(d, [at |-> "services", games |-> [g \in Active |-> registry[g]]])
  /\ UNCHANGED <<sources, report, ops, up, blind>>

\* The agent tells what is deployed before the games are looked at. judged is how many documents
\* the file of a game had when it was found ready.
AskServices(d) ==
  LET games == release[d].games IN
  /\ release[d].at = "services"
  /\ Goes(d, [at |-> "read", games |-> games, deployed |-> up,
              left |-> DOMAIN games, judged |-> [g \in DOMAIN games |-> 0]])
  /\ UNCHANGED <<sources, report, ops, up, blind, spent>>

\* The game of the least id that is still to be looked at.
NextGame(d) ==
  CHOOSE g \in release[d].left : \A h \in release[d].left : release[d].games[g].id <= release[d].games[h].id

ReadReports(d) ==
  /\ release[d].at = "read" /\ release[d].left # {}
  /\ Goes(d, [at |-> "hash", games |-> release[d].games, deployed |-> release[d].deployed,
              left |-> release[d].left, judged |-> release[d].judged, reports |-> files[NextGame(d)]])
  /\ UNCHANGED <<sources, report, ops, up, blind, spent>>

HashFile(d) ==
  LET g == NextGame(d)
      ready == Ready(release[d].reports, g, release[d].games[g].id)
  IN  /\ release[d].at = "hash"
      /\ Goes(d, [at |-> "read", games |-> release[d].games, deployed |-> release[d].deployed,
                  left |-> release[d].left \ {g},
                  judged |-> [release[d].judged EXCEPT ![g] = IF ready THEN files[g].docs ELSE 0]])
      /\ UNCHANGED <<sources, report, ops, up, blind, spent>>

ReadPrior(d) ==
  /\ release[d].at = "read" /\ release[d].left = {}
  /\ Goes(d, [at |-> "write", judged |-> release[d].judged, prior |-> report,
              plan |-> Merged(Plan(release[d].games, release[d].judged, release[d].deployed), report)])
  /\ UNCHANGED <<sources, report, ops, up, blind, spent>>

-----------------------------------------------------------------------------
(* Its execution. The process goes by its own plan to the end, whatever    *)
(* another writes to the report.                                           *)

\* The plan is written before anything is done, with or without a batch to execute.
WritePlan(d) ==
  /\ release[d].at = "write" /\ report' = release[d].plan
  /\ \E n \in 0..Cardinality(Slugs) :
       Goes(d, IF n = 0 THEN Idle
               ELSE [at |-> "execute", judged |-> release[d].judged, plan |-> release[d].plan, batch |-> n])
  /\ UNCHANGED <<sources, ops, up, blind, spent>>

AnyOrder(plan, n) == FALSE
EarlierOpen(plan, n) == \E k \in DOMAIN plan.batches : k < n /\ plan.batches[k].status # "completed"

Refused(plan, n) ==
  \/ plan.batches = <<>> \/ n \notin DOMAIN plan.batches
  \/ EarlierOpen(plan, n)
  \/ n \in DOMAIN plan.batches /\ plan.batches[n].status \in {"running", "failed", "completed"}

Refuse(d) ==
  /\ release[d].at = "execute" /\ Refused(release[d].plan, release[d].batch) /\ Goes(d, Idle)
  /\ UNCHANGED <<sources, report, ops, up, blind, spent>>

Post(d) ==
  LET n == release[d].batch IN
  /\ release[d].at = "execute" /\ ~Refused(release[d].plan, n)
  /\ ops' = Append(ops, [items |-> release[d].plan.batches[n].games, status |-> "running"])
  /\ Goes(d, [at |-> "posted", judged |-> release[d].judged, plan |-> release[d].plan, batch |-> n,
              op |-> Len(ops) + 1])
  /\ UNCHANGED <<sources, report, up, blind, spent>>

\* The number and the state of the operation go to the report.
Recorded(plan, n, op) == [plan EXCEPT !.batches[n].status = ops[op].status, !.batches[n].op = op]

Record(d) ==
  LET op == release[d].op
      plan == Recorded(release[d].plan, release[d].batch, op)
  IN  /\ release[d].at \in {"posted", "wait"} /\ report' = plan
      /\ Goes(d, IF release[d].at = "wait" /\ ops[op].status # "running" THEN Idle
                 ELSE [release[d] EXCEPT !.at = "wait", !.plan = plan])
      /\ UNCHANGED <<sources, ops, up, blind, spent>>

\* No --wait, the deadline of 30 minutes, a full disk on the server, or the process dies.
Leave(d) ==
  /\ release[d] # Idle /\ Spend("faults", MaxFaults) /\ Goes(d, Idle)
  /\ UNCHANGED <<sources, report, ops, up, blind>>

Die(t) ==
  /\ tool[t] # Idle /\ Spend("faults", MaxFaults) /\ tool' = [tool EXCEPT ![t] = Idle]
  /\ UNCHANGED <<listed, registry, files, rollout, blind>>

-----------------------------------------------------------------------------
(* The agent: services of an operation come up one by one.                 *)

ComeUp(o) ==
  /\ ops[o].status = "running"
  /\ \E x \in ops[o].items : x.id \notin up /\ up' = up \cup {x.id}
  /\ UNCHANGED <<sources, report, release, ops, blind, spent>>

Complete(o) ==
  /\ ops[o].status = "running" /\ {x.id : x \in ops[o].items} \subseteq up
  /\ ops' = [ops EXCEPT ![o].status = "completed"]
  /\ UNCHANGED <<sources, report, release, up, blind, spent>>

Fail(o) ==
  /\ ops[o].status = "running" /\ Spend("faults", MaxFaults) /\ ops' = [ops EXCEPT ![o].status = "failed"]
  /\ UNCHANGED <<sources, report, release, up, blind>>

-----------------------------------------------------------------------------
Next ==
  \/ Relist
  \/ \E d \in Deployers :
       \/ StartRelease(d) \/ AskServices(d) \/ ReadReports(d) \/ HashFile(d) \/ ReadPrior(d)
       \/ WritePlan(d) \/ Refuse(d) \/ Post(d) \/ Record(d) \/ Leave(d)
  \/ \E t \in Tools : Sync(t) \/ FetchPage(t) \/ WriteSynced(t) \/ Discover(t) \/ DiscoverGame(t) \/ FinalizeEnds(t) \/ Die(t)
  \/ \E t \in Tools, g \in Slugs : Finalize(t, g)
  \/ \E g \in Slugs : Capture(g) \/ Sanitize(g) \/ Validate(g) \/ AuditMongo(g) \/ AuditResources(g) \/ GenerateService(g)
  \/ \E o \in DOMAIN ops : ComeUp(o) \/ Complete(o) \/ Fail(o)
Spec == Init /\ [][Next]_vars

-----------------------------------------------------------------------------
(* Properties.                                                             *)

TypeOK ==
  /\ DOMAIN registry \subseteq Slugs /\ \A g \in DOMAIN registry : registry[g].id \in (FirstId..LastId)
  /\ \A g \in Slugs : files[g].docs \in 0..MaxDocs /\ {files[g].resource, files[g].service} \subseteq {None} \cup (FirstId..LastId)
  /\ \A n \in DOMAIN report.batches : report.batches[n].op \in 0..Len(ops)
  /\ \A n \in DOMAIN report.batches : Cardinality(report.batches[n].games) \in 1..BatchSize

\* An id belongs to one game for good, over games that leave the catalogue and come back: nothing
\* another game was built, accepted or released under carries it. The tools keep this as long as
\* none of them writes over a registry it has not read.
IdsStayOwn ==
  ~blind => \A g \in DOMAIN registry : \A h \in Slugs \ {g} :
    /\ h \in DOMAIN registry => registry[h].id # registry[g].id
    /\ registry[g].id \notin {files[h].service, files[h].resource, files[h].stored.id, files[h].manifest.id}
    /\ \A o \in DOMAIN ops : [id |-> registry[g].id, slug |-> h] \notin ops[o].items

\* Under the same condition no tool takes from the registry what another has put there.
KnownIsKept ==
  [][~blind' => \A g \in DOMAIN registry :
       /\ g \in DOMAIN registry' /\ registry'[g].id = registry[g].id
       /\ registry[g].found => registry'[g].found]_vars

Planned == {"write", "execute", "posted", "wait"}

\* A game gets into the plan of a process only if as many documents as its file had when the
\* process hashed it were validated, in the manifest and found in Mongo, although the reports come
\* from other tools and earlier times. The file may grow from then on, also before the plan is
\* written or posted, and its reports with it; none ever falls behind what was judged.
PlannedIsAccepted ==
  \A d \in Deployers : release[d].at \in Planned =>
    \A n \in DOMAIN release[d].plan.batches : \A x \in release[d].plan.batches[n].games :
      LET docs == release[d].judged[x.slug] IN
      /\ docs > 0
      /\ {files[x.slug].validated, files[x.slug].stored.docs, files[x.slug].manifest.docs}
           \subseteq docs..files[x.slug].docs

\* The report as a process knows it: what it has read, then what it has written.
LastSeen(process) == IF process.at = "write" THEN process.prior ELSE process.plan

\* As long as no other process has written the report since this one read or wrote it, and a batch
\* keeps its number and its services, no step of the process makes the report forget the operation
\* the batch was posted with, or posts it again: not while the operation runs, not after it failed.
RecordedIsNotRepeated ==
  [][\A d \in Deployers :
       release'[d] # release[d] /\ release[d].at \in Planned /\ report = LastSeen(release[d])
         => \A n \in DOMAIN report.batches : report.batches[n].op # None =>
              /\ n \in DOMAIN report'.batches /\ Ids(report'.batches[n].games) = Ids(report.batches[n].games)
                 => report'.batches[n].op = report.batches[n].op
              /\ Len(ops') > Len(ops) => Ids(report.batches[n].games) # Ids(ops'[Len(ops')].items)]_vars

\* However many processes write the one report, a batch is posted only when every service of the
\* earlier batches of the plan has come up.
PostedInOrder ==
  [][\A d \in Deployers :
       release[d].at = "execute" /\ release'[d].at = "posted"
         => \A k \in DOMAIN release[d].plan.batches :
              k < release[d].batch => Ids(release[d].plan.batches[k].games) \subseteq up]_vars
=============================================================================

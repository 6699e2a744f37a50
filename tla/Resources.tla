----------------------------- MODULE Resources -----------------------------
(***************************************************************************)
(* The static files of the games: crawls that mirror them into one tree    *)
(* (src/src/resource-graph.ts) for the downloader (static-downloader.ts,   *)
(* download-static.ts) and for the browser matrix (network-matrix.ts,      *)
(* capture-network.ts), and the audit that decides if the tree of a game   *)
(* is complete (audit-resources.ts, resource-status.ts).                   *)
(*                                                                         *)
(* Several processes work on the tree at a time, games share the files of  *)
(* the runner, a batch of requests runs concurrently. A file is known by   *)
(* its version: 0 while it is absent.                                      *)
(***************************************************************************)
EXTENDS Integers, Sequences, FiniteSets, SequencesExt

CONSTANTS
  Games, Jobs,
  Urls,
  Site,        \* [order, path, canonical, host, owner, kind, kendoo, pack, gone, names, empty, broken] of a URL:
               \* its place among the names, where its file belongs and what the provider serves, by version
  EntryOf,     \* the URLs every download of a game starts from
  TextOf,      \* those of them the downloader reads for further ones
  Locales,     \* locales of a game, of which "en" is the base
  Profiles,    \* devices of the matrix, of which "desktop" runs every locale
  Loads,       \* sets of URLs the browser may load in a cold start
  Concurrency, \* requests of a crawl at a time
  MaxFaults,   \* bound: processes that die and requests that fail although the file is there
  MaxRuns      \* bound: tools started

ASSUME ResourcesAssumption ==
  /\ Concurrency \in Nat \ {0} /\ {MaxFaults, MaxRuns} \subseteq Nat
  /\ IsFiniteSet(Urls) /\ "entry" \notin Urls /\ IsFiniteSet(Locales) /\ IsFiniteSet(Profiles)
  /\ \A u \in Urls : Site[u].order \in Nat /\ \A v \in Urls : Site[u].order = Site[v].order => u = v
  /\ \A u \in Urls : Site[u].names \in Seq(SUBSET [form : {"path", "bare", "up"}, to : Urls]) \ {<<>>}
  /\ \A g \in Games : TextOf[g] \subseteq EntryOf[g] /\ EntryOf[g] \subseteq Urls
  /\ \A g \in Games : \E u \in EntryOf[g] : Site[u].host = "static"
  /\ Loads \subseteq SUBSET Urls

VARIABLES
  served,   \* the version the provider has of every file, 0 where it has none
  disk,     \* the version in the tree
  job,      \* the process: a crawl, an audit or nothing
  download, matrix, audit,  \* the last report of each kind
  faults, started

vars == <<served, disk, job, download, matrix, audit, faults, started>>

Paths == {Site[u].path : u \in Urls}
PathOf(u) == Site[u].path
Torn == -1

Runs == ({"en"} \X Profiles) \cup {<<l, "desktop">> : l \in Locales \ {"en"}}

NoJob == [at |-> "idle"]
NoReport == [made |-> FALSE]

Init ==
  /\ served = [p \in Paths |-> 1] /\ disk = [p \in Paths |-> 0]
  /\ job = [j \in Jobs |-> NoJob]
  /\ download = [g \in Games |-> NoReport] /\ matrix = download /\ audit = download
  /\ faults = 0 /\ started = 0

-----------------------------------------------------------------------------
(* What a text names.                                                      *)

\* Scripts name files relative to the root of their client: neither bare names nor ../ are
\* followed, and of a Kendoo client nothing but its resource map is read.
Extracted(u, version) ==
  {n.to : n \in {x \in Site[u].names[version] :
    CASE Site[u].kendoo /\ Site[u].kind = "script" -> FALSE
      [] ~Site[u].kendoo /\ Site[u].kind = "script" -> x.form = "path"
      [] OTHER -> TRUE}}

\* A file without an extension is a text only as long as the provider says so.
References(u, version, fetched) ==
  IF version < 1 \/ version \in Site[u].broken \/ Site[u].kind = "data" \/ (Site[u].kind = "bare" /\ ~fetched)
  THEN {} ELSE Extracted(u, version)

\* collectStaticUrls follows bare names as well, in the texts it was able to read.
Hinted(texts) ==
  UNION {{n.to : n \in {x \in Site[u].names[served[PathOf(u)]] : x.form # "up"}} :
           u \in {t \in texts : ~Site[t].kendoo}}

ExistingUrls(g) ==
  {u \in Urls : Site[u].owner \in {g, "shared"} /\ Site[u].canonical /\ disk[PathOf(u)] # 0}

-----------------------------------------------------------------------------
(* crawlResourceGraph.                                                     *)

Item(u, from) == [url |-> u, from |-> from, stage |-> "look", version |-> 0, fetched |-> FALSE]
Items(urls, from) ==
  [i \in 1..Cardinality(urls) |->
     Item(CHOOSE u \in urls : Cardinality({v \in urls : Site[v].order < Site[u].order}) = i - 1, from)]

\* The next requests: the first URLs of the queue that were not yet taken.
TakenUnseen(queue, seen) ==
  LET n == IF Len(queue) < Concurrency THEN Len(queue) ELSE Concurrency
      batch == SubSeq(queue, 1, n)
  IN  [batch |-> batch, queue |-> SubSeq(queue, n + 1, Len(queue)), seen |-> seen \cup {batch[i].url : i \in DOMAIN batch}]

New(queue, seen) ==
  {i \in DOMAIN queue : queue[i].url \notin seen /\ \A k \in 1..(i - 1) : queue[k].url # queue[i].url}

Taken(queue, seen) ==
  LET new == New(queue, seen)
      size == IF Cardinality(new) < Concurrency THEN Cardinality(new) ELSE Concurrency
      nth(n) == CHOOSE i \in new : Cardinality({k \in new : k < i}) = n - 1
      end == IF size < Concurrency THEN Len(queue) ELSE nth(size)
  IN  [batch |-> [n \in 1..size |-> queue[nth(n)]], queue |-> SubSeq(queue, end + 1, Len(queue)),
       seen |-> seen \cup {queue[nth(n)].url : n \in 1..size}]

Crawl(tool, g, entries, hosts, runs) ==
  LET first == Taken(Items(entries, "entry"), {})
  IN  [at |-> "crawl", tool |-> tool, game |-> g, entries |-> entries, hosts |-> hosts, runs |-> runs,
       batch |-> first.batch, queue |-> first.queue, seen |-> first.seen, files |-> {}, failed |-> {}]

Unseen(seen, urls) == urls \ seen

Found(j, item) == Items(Unseen(job[j].seen, References(item.url, item.version, item.fetched)), item.url)
InFront(queue, items) == items \o queue
Behind(queue, items) == queue \o items

\* All requests of the batch are back: what they name goes to the end of the queue.
NextBatch(j) ==
  LET done == job[j].batch
      found == FlattenSeq([i \in DOMAIN done |-> Found(j, done[i])])
      next == Taken(Behind(job[j].queue, found), job[j].seen)
  IN  /\ job[j].at = "crawl" /\ \A i \in DOMAIN done : done[i].stage = "done"
      /\ job' = [job EXCEPT ![j].batch = next.batch, ![j].queue = next.queue, ![j].seen = next.seen,
                            ![j].at = IF next.batch = <<>> THEN "report" ELSE "crawl"]
      /\ UNCHANGED <<served, disk, download, matrix, audit, faults, started>>

Existing(u) == disk[PathOf(u)] # 0 /\ disk[PathOf(u)] \notin Site[u].empty

Failure(item, status) == {[url |-> item.url, from |-> item.from, status |-> status]}

\* A resource map that cannot be parsed is recorded as a file and as a failure.
Recorded(j, i, version, fetched) ==
  LET item == job[j].batch[i] IN
  [job EXCEPT ![j].batch[i] = [item EXCEPT !.stage = "done", !.version = version, !.fetched = fetched],
              ![j].files = @ \cup {[url |-> item.url, version |-> version]},
              ![j].failed = IF version \in Site[item.url].broken THEN @ \cup Failure(item, 0) ELSE @]

Missed(j, i, status) ==
  [job EXCEPT ![j].batch[i].stage = "done", ![j].failed = @ \cup Failure(job[j].batch[i], status)]

\* processOne, up to its request: a file that is there is not asked for again, and what is on
\* another host is nobody's business unless the crawl was started with it.
Look(j, i) ==
  LET item == job[j].batch[i]
      inside == Site[item.url].host \in job[j].hosts
  IN  /\ item.stage = "look"
      /\ job' = CASE ~inside /\ item.from = "entry" -> Missed(j, i, 0)
                  [] ~inside /\ item.from # "entry" -> [job EXCEPT ![j].batch[i].stage = "done"]
                  [] inside /\ Existing(item.url) -> Recorded(j, i, disk[PathOf(item.url)], FALSE)
                  [] OTHER -> [job EXCEPT ![j].batch[i].stage = "fetch"]
      /\ UNCHANGED <<served, disk, download, matrix, audit, faults, started>>

InPlace(p) == [disk EXCEPT ![p] = Torn]

\* atomicWrite fills a file of another name first.
Beside(p) == disk

Fetch(j, i) ==
  LET item == job[j].batch[i]
      p == PathOf(item.url)
  IN  /\ item.stage = "fetch" /\ ~Site[item.url].gone
      /\ job' = [job EXCEPT ![j].batch[i].stage = "write", ![j].batch[i].version = served[p]]
      /\ disk' = Beside(p)
      /\ UNCHANGED <<served, download, matrix, audit, faults, started>>

FetchFails(j, i) ==
  LET gone == Site[job[j].batch[i].url].gone IN
  /\ job[j].batch[i].stage = "fetch" /\ (gone \/ faults < MaxFaults)
  /\ faults' = IF gone THEN faults ELSE faults + 1
  /\ job' = Missed(j, i, IF gone THEN 404 ELSE 503)
  /\ UNCHANGED <<served, disk, download, matrix, audit, started>>

Write(j, i) ==
  LET item == job[j].batch[i] IN
  /\ item.stage = "write" /\ disk' = [disk EXCEPT ![PathOf(item.url)] = item.version]
  /\ job' = Recorded(j, i, item.version, TRUE)
  /\ UNCHANGED <<served, download, matrix, audit, faults, started>>

ProcessOne(j) ==
  job[j].at = "crawl" /\ \E i \in DOMAIN job[j].batch :
    Look(j, i) \/ Fetch(j, i) \/ FetchFails(j, i) \/ Write(j, i)

-----------------------------------------------------------------------------
(* The tools.                                                              *)

\* Entries that the declared packs no longer have are no failure, whatever else is one.
Unavailable(failures) ==
  {f \in failures : f.from # "entry" /\ f.status = 404 /\ Site[f.url].pack}

\* A tool that starts is the first of those that do not run.
Started(j, crawl) ==
  /\ job[j].at = "idle" /\ j = CHOOSE i \in Jobs : job[i].at = "idle"
  /\ started < MaxRuns /\ started' = started + 1
  /\ job' = [job EXCEPT ![j] = crawl]
  /\ UNCHANGED <<served, disk, download, matrix, audit>>

\* downloadGameStatic. A text that cannot be read just names nothing.
Download(j, g) ==
  \E lost \in SUBSET TextOf[g] :
    LET entries == EntryOf[g] \cup Hinted(TextOf[g] \ lost) \cup ExistingUrls(g)
    IN  /\ faults + Cardinality(lost) <= MaxFaults /\ faults' = faults + Cardinality(lost)
        /\ Started(j, Crawl("download", g, entries, {Site[u].host : u \in entries}, {}))

\* captureNetworkMatrix: cold starts in every locale and on every device.
CaptureNetwork(j, g) ==
  \E loaded \in Loads, failing \in SUBSET Runs :
    /\ faults + Cardinality(failing) <= MaxFaults /\ faults' = faults + Cardinality(failing)
    /\ Started(j, Crawl("network", g, loaded, {"static"}, Runs \ failing))

\* capture-network.ts --mirror-only.
Mirror(j, g) ==
  /\ matrix[g].made
  /\ Started(j, Crawl("network", g, matrix[g].loaded, {"static"}, matrix[g].clean))
  /\ UNCHANGED faults

Report(j) ==
  LET unavailable == Unavailable(job[j].failed)
      failed == job[j].failed \ unavailable
      report == [made |-> TRUE, files |-> job[j].files, failed |-> failed, unavailable |-> unavailable,
                 entries |-> job[j].entries]
  IN  /\ job[j].at = "report"
      /\ IF job[j].tool = "download"
         THEN download' = [download EXCEPT ![job[j].game] = report] /\ UNCHANGED matrix
         ELSE /\ matrix' = [matrix EXCEPT ![job[j].game] =
                   [made |-> TRUE, loaded |-> job[j].entries, clean |-> job[j].runs, mirrorFailed |-> failed]]
              /\ UNCHANGED download
      /\ job' = [job EXCEPT ![j] = NoJob]
      /\ UNCHANGED <<served, disk, audit, faults, started>>

Mishap == faults < MaxFaults /\ faults' = faults + 1

\* The download report is not written atomically: a process that dies here leaves half of it.
CutReport(j) ==
  /\ job[j].at = "report" /\ job[j].tool = "download"
  /\ download' = [download EXCEPT ![job[j].game] = NoReport]
  /\ job' = [job EXCEPT ![j] = NoJob] /\ Mishap
  /\ UNCHANGED <<served, disk, matrix, audit, started>>

Crash(j) ==
  /\ job[j].at # "idle" /\ job' = [job EXCEPT ![j] = NoJob] /\ Mishap
  /\ UNCHANGED <<served, disk, download, matrix, audit, started>>

-----------------------------------------------------------------------------
(* The audit.                                                              *)

\* It reads the two reports, a half one is an error, and then every file.
Audit(j, g) ==
  /\ download[g].made /\ matrix[g].made
  /\ Started(j, [at |-> "audit", game |-> g, download |-> download[g], matrix |-> matrix[g]])
  /\ UNCHANGED faults

OnlyMirrorFailed(reports) == reports.matrix.mirrorFailed

ClosureFailed(reports) == reports.download.failed \cup reports.matrix.mirrorFailed
MissingRuns(reports) ==
  {l \in Locales : ~\E r \in reports.matrix.clean : r[1] = l}
  \cup {p \in Profiles : ~\E r \in reports.matrix.clean : r[2] = p}
MissingFiles(reports) ==
  {u \in {f.url : f \in reports.download.files} \cup reports.matrix.loaded : disk[PathOf(u)] = 0}
EmptyFiles(reports) ==
  {u \in reports.matrix.loaded \ {f.url : f \in reports.download.files} : disk[PathOf(u)] \in Site[u].empty}
HashMismatches(reports) ==
  {f \in reports.download.files : disk[PathOf(f.url)] # f.version}

Complete(reports) ==
  /\ ClosureFailed(reports) = {} /\ reports.matrix.clean = Runs /\ MissingRuns(reports) = {}
  /\ MissingFiles(reports) = {} /\ EmptyFiles(reports) = {} /\ HashMismatches(reports) = {}

AuditEnds(j) ==
  /\ job[j].at = "audit"
  /\ audit' = [audit EXCEPT ![job[j].game] = [made |-> TRUE, complete |-> Complete(job[j])]]
  /\ job' = [job EXCEPT ![j] = NoJob]
  /\ UNCHANGED <<served, disk, download, matrix, faults, started>>

\* The provider replaces a file.
Republish(p) ==
  /\ \A u \in Urls : PathOf(u) = p => served[p] + 1 \in DOMAIN Site[u].names
  /\ served' = [served EXCEPT ![p] = @ + 1]
  /\ UNCHANGED <<disk, job, download, matrix, audit, faults, started>>

JobStep(j) == ProcessOne(j) \/ NextBatch(j) \/ Report(j) \/ AuditEnds(j)
Next ==
  \/ \E j \in Jobs : JobStep(j) \/ CutReport(j) \/ Crash(j)
  \/ \E j \in Jobs, g \in Games : Download(j, g) \/ CaptureNetwork(j, g) \/ Mirror(j, g) \/ Audit(j, g)
  \/ \E p \in Paths : Republish(p)
Spec == Init /\ [][Next]_vars

-----------------------------------------------------------------------------
(* Properties.                                                             *)

\* What the variables range over, and how many requests a crawl has out at a time.
TypeOK ==
  /\ \A p \in Paths : disk[p] \in {Torn} \cup 0..served[p]
  /\ \A j \in Jobs : job[j].at \in {"idle", "crawl", "report", "audit"}
  /\ \A j \in Jobs : job[j].at = "crawl" =>
       /\ Len(job[j].batch) <= Concurrency /\ job[j].seen \subseteq Urls
       /\ \A i \in DOMAIN job[j].batch : job[j].batch[i].stage \in {"look", "fetch", "write", "done"}
  /\ faults \in 0..MaxFaults /\ started \in 0..MaxRuns

\* A tree the audit is about to call complete serves the game: what its texts name, as they are
\* on disk now, is there as well or was declared by a pack that no longer has it.
CompleteServes ==
  \A j \in Jobs : job[j].at = "audit" /\ Complete(job[j]) =>
    LET report == job[j].download IN
    \A f \in report.files : \A u \in References(f.url, disk[PathOf(f.url)], FALSE) :
      Site[u].host = "static" => disk[PathOf(u)] # 0 \/ \E x \in report.unavailable : x.url = u

\* Reports record whole files of the provider only, though other processes write the same files
\* at the same time and die while they do.
RecordedIsServed ==
  \A g \in Games : download[g].made => \A f \in download[g].files : f.version \in 1..served[PathOf(f.url)]

\* A file the game starts from is never excused, even if a pack declares it as well.
EntriesFailHard ==
  \A g \in Games : download[g].made => {f.url : f \in download[g].unavailable} \cap download[g].entries = {}

\* Texts name each other, the same file twice, and files another crawl has already asked for: a
\* crawl still takes no URL a second time, so it ends.
TakenOnce ==
  [][\A j \in Jobs :
       /\ job[j].at = "crawl" /\ job'[j].at = "crawl"
       /\ \A i \in DOMAIN job[j].batch : job[j].batch[i].stage = "done"
       => \A i \in DOMAIN job'[j].batch : job'[j].batch[i].stage = "look" => job'[j].batch[i].url \notin job[j].seen]_vars
=============================================================================

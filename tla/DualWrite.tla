------------------------------ MODULE DualWrite ------------------------------
(***************************************************************************)
(* The rounds of one game on their way to the two places that keep them,   *)
(* the NDJSON of the server (GameFiles) and the Mongo collection: what the *)
(* threads of actions/worker.ts and captureGame of oaks.ts do during a     *)
(* lease, from the restored copy to the accepted reports.                  *)
(*                                                                         *)
(* A thread buffers rounds twice, for the NDJSON and for Mongo, and flushes *)
(* either buffer when it is full.  A lease may be taken back at any moment *)
(* and the thread notices when the server next refuses a request; nothing  *)
(* refuses its writes to Mongo.  Every write may fail, be executed with    *)
(* its reply lost, or find the daemon gone.  A thread may die.             *)
(***************************************************************************)
EXTENDS GameFiles

CONSTANTS
    Threads,   \* runner threads
    MaxLeases, \* bound: how many leases of the game are granted
    Batch      \* the size of both buffers, 25 in oaks.ts and worker.ts

ASSUME WriteAssumption ==
    /\ Batch \in Nat \ {0}
    /\ MaxLeases \in Nat

VARIABLES
    phase,     \* where a thread is in its lease
    role,      \* what it works as: "main" or "second" shard, "normal", or "none"
    lease,     \* the lease it holds for the coordinator: the same, or "none"
    size,      \* dataBytes of "load", in lines
    local,     \* its local NDJSON
    docs,      \* documentBatch: rounds not sent to the server yet
    buf,       \* mongoBatch: rounds not written to Mongo yet
    passed,    \* validate-data, audit-mongo and finalize-data succeeded
    mongo,     \* the rounds in Mongo
    accepted,  \* the rounds counted by the acceptance reports of the server
    granted    \* the number of leases granted so far

threadVars == <<phase, role, lease, size, local, docs, buf, passed>>

vars == <<fileVars, threadVars, mongo, accepted, granted>>

Phases == {"idle", "loading", "connect", "play", "send", "mongo", "fail",
           "audit", "close", "report", "leave"}

Roles == {"main", "second", "normal"}

-----------------------------------------------------------------------------
Init ==
    /\ FilesInit
    /\ phase = [t \in Threads |-> "idle"]
    /\ role = [t \in Threads |-> "none"]
    /\ lease = [t \in Threads |-> "none"]
    /\ size = [t \in Threads |-> 0]
    /\ local = [t \in Threads |-> <<>>]
    /\ docs = [t \in Threads |-> <<>>]
    /\ buf = [t \in Threads |-> {}]
    /\ passed = [t \in Threads |-> FALSE]
    /\ mongo \in {{}, Range(lines)}
    /\ accepted = {}
    /\ granted = 0

Goto(t, p) == phase' = [phase EXCEPT ![t] = p]

\* The leases of the game the coordinator may hand out next to the others.
Grantable(r) ==
    LET held == {lease[u] : u \in Threads} \ {"none"} IN
    CASE r = "normal" -> held = {}
      [] r = "main"   -> held \subseteq {"second"}
      [] r = "second" -> held = {"main"}

\* "load": a thread that was granted the game learns how much to restore.
Load(t, r) ==
    /\ phase[t] = "idle" /\ lease[t] = "none"
    /\ accepted = {}
    /\ granted < MaxLeases
    /\ granted' = granted + 1
    /\ Grantable(r)
    /\ Goto(t, "loading")
    /\ role' = [role EXCEPT ![t] = r]
    /\ lease' = [lease EXCEPT ![t] = r]
    /\ size' = [size EXCEPT ![t] = Len(lines)]
    /\ UNCHANGED <<fileVars, local, docs, buf, passed, mongo, accepted>>

\* restoreHistory streams the file past the coordinator.  It is kept only when
\* it is as long as "load" said: another shard may have appended meanwhile.
Restore(t) ==
    /\ phase[t] = "loading"
    /\ \/ /\ Len(lines) = size[t]
          /\ Goto(t, "connect")
          /\ local' = [local EXCEPT ![t] = lines]
       \/ /\ Goto(t, "leave")
          /\ UNCHANGED local
    /\ UNCHANGED <<fileVars, role, lease, size, docs, buf, passed, mongo, accepted, granted>>

\* The rounds captureGame writes to Mongo before it plays.  Equal counts are
\* taken for equal contents, and only the last round is written then.
Repair(t) ==
    IF role[t] = "second" THEN {}
    ELSE IF Cardinality(mongo) = Cardinality(Range(local[t]))
    THEN {local[t][i] : i \in {Len(local[t])} \ {0}}
    ELSE Range(local[t])

Connect(t) ==
    /\ phase[t] = "connect"
    /\ \/ /\ mongo' = mongo \cup Repair(t)
          /\ Goto(t, "play")
       \/ /\ \E S \in SUBSET Repair(t) : mongo' = mongo \cup S
          /\ Goto(t, "close")
    /\ UNCHANGED <<fileVars, role, lease, size, local, docs, buf, passed, accepted, granted>>

-----------------------------------------------------------------------------
(* A round.                                                                *)

\* The round is in the hands of the server, or buffered: it is added to the
\* local file and to the Mongo buffer.
Record(t, r) ==
    /\ local' = [local EXCEPT ![t] = Append(@, r)]
    /\ buf' = [buf EXCEPT ![t] = @ \cup {r}]
    /\ Goto(t, IF Cardinality(buf'[t]) >= Batch THEN "mongo" ELSE "play")

\* A complete round the thread has not seen before goes to writeDocument.
Play(t, r) ==
    /\ phase[t] = "play"
    /\ r \notin Range(local[t])
    /\ docs' = [docs EXCEPT ![t] = Append(@, r)]
    /\ IF Len(docs'[t]) >= Batch
       THEN Goto(t, "send") /\ UNCHANGED <<local, buf>>
       ELSE Record(t, r)
    /\ UNCHANGED <<fileVars, role, lease, size, passed, mongo, accepted, granted>>

\* The server executed the append and the reply arrived.
Sent(t) ==
    /\ lease[t] # "none"
    /\ AppendBatch(docs[t])
    /\ docs' = [docs EXCEPT ![t] = <<>>]

\* Slip: a batch that was not confirmed is dropped.
NotSentDropped(t) ==
    /\ \/ lease[t] # "none" /\ AppendBatch(docs[t])
       \/ UNCHANGED fileVars
    /\ docs' = [docs EXCEPT ![t] = <<>>]

\* The append was executed and its reply lost, or it was refused or never
\* arrived: the batch is put back.
NotSent(t) ==
    /\ \/ lease[t] # "none" /\ AppendBatch(docs[t])
       \/ UNCHANGED fileVars
    /\ UNCHANGED docs

\* flushDocuments of a full batch.
Send(t) ==
    /\ phase[t] = "send"
    /\ \/ Sent(t) /\ Record(t, docs[t][Len(docs[t])])
       \/ NotSent(t) /\ Goto(t, "fail") /\ UNCHANGED <<local, buf>>
    /\ UNCHANGED <<role, lease, size, passed, mongo, accepted, granted>>

\* A round that shows a new feature makes captureGame call syncFiles before the
\* batch is full.
SendEarly(t) ==
    /\ phase[t] = "play"
    /\ docs[t] # <<>>
    /\ \/ Sent(t) /\ UNCHANGED phase
       \/ NotSent(t) /\ Goto(t, "fail")
    /\ UNCHANGED <<role, lease, size, local, buf, passed, mongo, accepted, granted>>

\* The reply to a batch is lost, or the daemon dies over it; the channel sends
\* the batch a second time.
SendAgain(t) ==
    /\ phase[t] \in {"send", "close"}
    /\ docs[t] # <<>>
    /\ lease[t] # "none"
    /\ AppendBatch(docs[t]) \/ CutAppend(docs[t])
    /\ UNCHANGED <<threadVars, mongo, accepted, granted>>

\* bulkWrite is unordered: of a failed one any part may be there.
Written(t) ==
    /\ mongo' = mongo \cup buf[t]
    /\ buf' = [buf EXCEPT ![t] = {}]

NotWritten(t) ==
    /\ \E S \in SUBSET buf[t] : mongo' = mongo \cup S
    /\ UNCHANGED buf

\* flushMongoBatch of a full batch.
WriteMongo(t) ==
    /\ phase[t] = "mongo"
    /\ \/ Written(t) /\ Goto(t, "play")
       \/ NotWritten(t) /\ Goto(t, "fail")
    /\ UNCHANGED <<fileVars, role, lease, size, local, docs, passed, accepted, granted>>

-----------------------------------------------------------------------------
(* The end of a lease.                                                     *)

\* captureGame returns, its quota reached, or throws; either way it writes
\* the rest of its Mongo buffer first.
LeaveCapture(t) ==
    /\ phase[t] \in {"play", "fail"}
    /\ \/ /\ phase[t] = "play" /\ role[t] = "normal"
          /\ Written(t)
          /\ Goto(t, "audit")
       \/ (Written(t) \/ NotWritten(t)) /\ Goto(t, "close")
    /\ UNCHANGED <<fileVars, role, lease, size, local, docs, passed, accepted, granted>>

\* What audit-mongo.ts compares: the local file and Mongo hold the same rounds,
\* each once.
CountsMatch(t) ==
    /\ local[t] # <<>>
    /\ IsInjective(local[t])
    /\ Range(local[t]) = mongo

\* validate-data, audit-mongo and finalize-data, which may also fail otherwise.
Audit(t) ==
    /\ phase[t] = "audit"
    /\ \/ CountsMatch(t) /\ passed' = [passed EXCEPT ![t] = TRUE]
       \/ UNCHANGED passed
    /\ Goto(t, "close")
    /\ UNCHANGED <<fileVars, role, lease, size, local, docs, buf, mongo, accepted, granted>>

\* Slip: the reports are sent whether the last batch was stored or not.
SendRestAnyway(t) ==
    /\ phase[t] = "close"
    /\ Sent(t) \/ NotSent(t)
    /\ Goto(t, "report")
    /\ UNCHANGED <<role, lease, size, local, buf, passed, mongo, accepted, granted>>

\* syncFiles sends the rest of the rounds first.
SendRest(t) ==
    /\ phase[t] = "close"
    /\ \/ docs[t] = <<>> /\ Goto(t, "report") /\ UNCHANGED <<fileVars, docs>>
       \/ docs[t] # <<>> /\ Sent(t) /\ Goto(t, "report")
       \/ docs[t] # <<>> /\ NotSent(t) /\ Goto(t, "leave")
    /\ UNCHANGED <<role, lease, size, local, buf, passed, mongo, accepted, granted>>

\* "files": the reports become those of the game, if the lease still stands.
Report(t) ==
    /\ phase[t] = "report"
    /\ \/ lease[t] # "none" /\ passed[t] /\ accepted' = Range(local[t])
       \/ UNCHANGED accepted
    /\ Goto(t, "leave")
    /\ UNCHANGED <<fileVars, role, lease, size, local, docs, buf, passed, mongo, granted>>

\* The thread forgets the lease: the next one starts from the server's files.
Forget(t) ==
    /\ Goto(t, "idle")
    /\ role' = [role EXCEPT ![t] = "none"]
    /\ size' = [size EXCEPT ![t] = 0]
    /\ local' = [local EXCEPT ![t] = <<>>]
    /\ docs' = [docs EXCEPT ![t] = <<>>]
    /\ buf' = [buf EXCEPT ![t] = {}]
    /\ passed' = [passed EXCEPT ![t] = FALSE]

\* "done" syncs the last group of rounds and ends the lease, if it arrives.
Done(t) ==
    /\ phase[t] = "leave"
    /\ Forget(t)
    /\ \/ lease[t] # "none" /\ SyncGame /\ lease' = [lease EXCEPT ![t] = "none"]
       \/ UNCHANGED <<fileVars, lease>>
    /\ UNCHANGED <<mongo, accepted, granted>>

\* The runner disappears with its buffers.
Die(t) ==
    /\ phase[t] # "idle"
    /\ Forget(t)
    /\ UNCHANGED <<fileVars, lease, mongo, accepted, granted>>

\* The node is fused, or the round ends: the coordinator takes the lease back.
TakeBack(t) ==
    /\ lease[t] # "none"
    /\ lease' = [lease EXCEPT ![t] = "none"]
    /\ UNCHANGED <<fileVars, phase, role, size, local, docs, buf, passed, mongo, accepted, granted>>

\* What happens to the server, and to no thread.
ServerStep ==
    /\ Start \/ Stop \/ Kill \/ Outage
    /\ UNCHANGED <<threadVars, mongo, accepted, granted>>

Next ==
    \/ ServerStep
    \/ \E t \in Threads, r \in Roles : Load(t, r)
    \/ \E t \in Threads, r \in Rounds : Play(t, r)
    \/ \E t \in Threads :
          \/ Restore(t) \/ Connect(t)
          \/ Send(t) \/ SendEarly(t) \/ SendAgain(t) \/ WriteMongo(t)
          \/ LeaveCapture(t) \/ Audit(t) \/ SendRest(t) \/ Report(t) \/ Done(t)
          \/ Die(t) \/ TakeBack(t)

Spec == Init /\ [][Next]_vars

-----------------------------------------------------------------------------
(* What the two copies promise.                                            *)

TypeOK ==
    /\ FilesTypeOK
    /\ phase \in [Threads -> Phases]
    /\ role \in [Threads -> Roles \cup {"none"}]
    /\ lease \in [Threads -> Roles \cup {"none"}]
    /\ size \in [Threads -> Nat]
    /\ local \in [Threads -> Seq(Rounds)]
    /\ docs \in [Threads -> Seq(Rounds)]
    /\ \A t \in Threads : Len(docs[t]) <= Batch
    /\ buf \in [Threads -> SUBSET Rounds]
    /\ passed \in [Threads -> BOOLEAN]
    /\ mongo \subseteq Rounds
    /\ accepted \subseteq Rounds
    /\ granted \in 0..MaxLeases

\* Nothing falls between the buffers: every round a thread counts is in the
\* file of the server, or still in the batch for it, or went down with the
\* host; and every round it captured is in Mongo or in the batch for it.
\* Through lost replies, refusals, retries and failed flushes (worker.ts 60-71,
\* 170-175; oaks.ts 354-365, 480-511).
BuffersCover ==
    \A t \in Threads :
        /\ Range(local[t]) \subseteq Range(lines) \cup lost \cup Range(docs[t])
        /\ {local[t][i] : i \in (size[t] + 1)..Len(local[t])} \subseteq mongo \cup buf[t]

\* Acceptance is never ahead of the data: when the reports of a game are on the
\* server, every round they count is in its NDJSON (unless lost with the host
\* since) and in Mongo, although they are made from the copy of one runner whose
\* lease may be taken back at any moment (worker.ts 73-82, 424-433, 456-468).
AcceptedIsStored ==
    /\ accepted \subseteq mongo
    /\ accepted \subseteq Range(lines) \cup lost

=============================================================================

------------------------------- MODULE Daemon -------------------------------
(***************************************************************************)
(* How a request of a runner thread reaches the queue state and how that   *)
(* state reaches queue.json.                                               *)
(*                                                                         *)
(* A thread (src/coordinator-channel.ts) writes a JSON line into the pipe  *)
(* of a child process, ssh to actions/coordinator-client.py, and reads one *)
(* line back.  When the pipe ends or 45 s pass it drops the pipe and sends *)
(* the same line once more with a process of its own ("once").  A client   *)
(* that finds the socket of the daemon forwards its lines to it; one that  *)
(* does not executes them itself (Store.call), under the lock file and     *)
(* straight on queue.json, unless a daemon holds that lock by now.         *)
(*                                                                         *)
(* The daemon (actions/coordinator_daemon.py) executes requests under a    *)
(* lock in memory.  begin, end, claim and done ("urgent") are saved before *)
(* they are answered, but outside the lock; all others only mark the       *)
(* memory dirty, and a loop saves it once a second.                        *)
(*                                                                         *)
(* Of the state only one change is followed: "mem" and "disk" say whether  *)
(* the memory and queue.json contain it, "copy" whether a save under way   *)
(* does.  Requests may make it, and nothing but its loss undoes it.        *)
(***************************************************************************)
EXTENDS Integers, Sequences, FiniteSets

CONSTANTS
    Callers,     \* runner threads, one channel each
    Turns,       \* the numbers by which the calls of a thread are told apart
    MayOrphan    \* how many given-up requests of a thread may be on their way

ASSUME ConstantsAssumption ==
    /\ Turns \in Nat /\ Turns > 1
    /\ MayOrphan \in Nat

VARIABLES
    life,     \* the daemon: down, loading (queue.json read, lock awaited), up, leaving
    mem,      \* the change is in Daemon.store.memory
    disk,     \* the change is in queue.json
    dirty,    \* Daemon.dirty
    saved,    \* flush() has written queue.json and has not cleared dirty yet
    jobs,     \* the requests on their way or being executed
    pipe,     \* per thread: the child process and the lines not yet read
    caller    \* per thread: what call() is doing

vars == <<life, mem, disk, dirty, saved, jobs, pipe, caller>>

TurnNumbers == 0..(Turns - 1)

\* No answer yet, or call() threw.
NoAnswer == Turns

\* What the client process of a pipe or of a single request talks to: "new", it
\* has not looked for the socket yet; "daemon"; "alone", there was no socket;
\* "cut", the daemon it is connected to is gone.
Routes == {"new", "daemon", "alone", "cut"}

Job == [caller : Callers, turn : TurnNumbers, line : {"pipe", "once"},
        wanted : BOOLEAN,     \* somebody still waits for the answer
        urgent : BOOLEAN,     \* op in URGENT_OPS
        route  : Routes,
        stage  : {"sent", "executed", "copied"},
        copy   : BOOLEAN]

Pipe == [child : Routes \cup {"none", "ended"}, lines : Seq(TurnNumbers)]

Caller == [at : {"idle", "piped", "once"}, turn : TurnNumbers, urgent : BOOLEAN,
           got : TurnNumbers \cup {NoAnswer}]

NoPipe == [child |-> "none", lines |-> <<>>]

Init ==
    /\ life = "down"
    /\ mem = FALSE /\ disk = FALSE
    /\ dirty = FALSE /\ saved = FALSE
    /\ jobs = {}
    /\ pipe = [c \in Callers |-> NoPipe]
    /\ caller = [c \in Callers |->
                   [at |-> "idle", turn |-> 0, urgent |-> FALSE, got |-> NoAnswer]]

-----------------------------------------------------------------------------
(* The channel of a thread.                                                *)

Request(c, turn, line, urgent, route) ==
    [caller |-> c, turn |-> turn, line |-> line, wanted |-> TRUE, urgent |-> urgent,
     route |-> route, stage |-> "sent", copy |-> FALSE]

\* call(): the line goes into the pipe; without a child one is started first.
\* Into a pipe that has ended the line is lost, and read() will notice.
Call(c, urgent) ==
    LET turn  == (caller[c].turn + 1) % Turns
        child == IF pipe[c].child = "none" THEN "new" ELSE pipe[c].child
    IN  /\ caller[c].at = "idle"
        /\ caller' = [caller EXCEPT ![c] = [at |-> "piped", turn |-> turn,
                                            urgent |-> urgent, got |-> NoAnswer]]
        /\ pipe' = [pipe EXCEPT ![c] =
                      IF @.child = "none" THEN [child |-> "new", lines |-> <<>>] ELSE @]
        /\ jobs' = IF child = "ended" THEN jobs
                   ELSE jobs \cup {Request(c, turn, "pipe", urgent, child)}
        /\ UNCHANGED <<life, mem, disk, dirty, saved>>

\* read(): the first line of the buffer is the answer.
Take(c) ==
    /\ caller[c].at = "piped"
    /\ pipe[c].lines # <<>>
    /\ caller' = [caller EXCEPT ![c].at = "idle", ![c].got = Head(pipe[c].lines)]
    /\ pipe' = [pipe EXCEPT ![c].lines = Tail(@)]
    /\ UNCHANGED <<life, mem, disk, dirty, saved, jobs>>

\* Slip: a blocking read, which only notices the end of the pipe.
FailsAtTheEnd(c) == pipe[c].lines = <<>> /\ pipe[c].child = "ended"

\* exchange() throws: the pipe has ended, or 45 s have passed without a line.
Fails(c) == pipe[c].lines = <<>>

Awaited(c) == {j \in jobs : j.caller = c /\ j.wanted}

Orphans(c) == {j \in jobs : j.caller = c /\ ~j.wanted}

\* What may become of the requests when c stops waiting: its own is still on
\* its way, with nobody to read the answer, or it is lost.
Forsaken(c) ==
    LET others == jobs \ Awaited(c)
        late   == {[j EXCEPT !.wanted = FALSE, !.line = "once", !.turn = 0] : j \in Awaited(c)}
    IN  {others} \cup (IF Cardinality(Orphans(c)) < MayOrphan THEN {others \cup late} ELSE {})

\* Slip: child and buffer stay for the next call.
CloseLater(c, next) ==
    /\ jobs' = jobs \cup {next}
    /\ UNCHANGED pipe

\* close(): child and buffer are forgotten; the client of the old pipe may go on.
Close(c, next) ==
    /\ pipe' = [pipe EXCEPT ![c] = NoPipe]
    /\ \E left \in Forsaken(c) : jobs' = left \cup {next}

\* The same line is sent again by a process of its own.
SendOnce(c) ==
    /\ caller[c].at = "piped"
    /\ Fails(c)
    /\ Close(c, Request(c, caller[c].turn, "once", caller[c].urgent, "new"))
    /\ caller' = [caller EXCEPT ![c].at = "once"]
    /\ UNCHANGED <<life, mem, disk, dirty, saved>>

\* spawnSync fails or times out: call() throws.
Throw(c) ==
    /\ caller[c].at = "once"
    /\ jobs' \in Forsaken(c)
    /\ caller' = [caller EXCEPT ![c].at = "idle"]
    /\ UNCHANGED <<life, mem, disk, dirty, saved, pipe>>

\* The exit event of the child, handled between two calls.
SeeExit(c) ==
    /\ caller[c].at = "idle"
    /\ pipe[c].child = "ended"
    /\ pipe' = [pipe EXCEPT ![c].child = "none"]
    /\ UNCHANGED <<life, mem, disk, dirty, saved, jobs, caller>>

-----------------------------------------------------------------------------
(* The client process and the answer.                                      *)

\* The client of j looks for the socket, once in its life.
Connect(j) ==
    LET route == IF life = "up" THEN "daemon" ELSE "alone" IN
    /\ j.route = "new"
    /\ jobs' = (jobs \ {j}) \cup {[j EXCEPT !.route = route]}
    /\ pipe' = IF j.wanted /\ j.line = "pipe"
               THEN [pipe EXCEPT ![j.caller].child = route] ELSE pipe
    /\ UNCHANGED <<life, mem, disk, dirty, saved, caller>>

\* A line comes back for j: into its pipe, or as the output of its process.
Answer(j) ==
    IF ~j.wanted THEN UNCHANGED <<pipe, caller>>
    ELSE IF j.line = "pipe"
    THEN /\ pipe' = [pipe EXCEPT ![j.caller].lines = Append(@, j.turn)]
         /\ UNCHANGED caller
    ELSE /\ caller' = [caller EXCEPT ![j.caller].at = "idle", ![j.caller].got = j.turn]
         /\ UNCHANGED pipe

\* The client of j ends, with a last line ("disconnected") or without: its daemon
\* is gone, or another process holds the lock and no socket is there.
Break(j) ==
    /\ j.route \in {"cut", "alone"}
    /\ jobs' = jobs \ {j}
    /\ IF ~j.wanted THEN UNCHANGED <<pipe, caller>>
       ELSE \E last \in {<<>>, <<j.turn>>} :
          IF j.line = "pipe"
          THEN /\ pipe' = [pipe EXCEPT ![j.caller] =
                             [child |-> "ended", lines |-> @.lines \o last]]
               /\ UNCHANGED caller
          ELSE /\ caller' = [caller EXCEPT ![j.caller].at = "idle",
                               ![j.caller].got = IF last = <<>> THEN NoAnswer ELSE j.turn]
               /\ UNCHANGED pipe
    /\ UNCHANGED <<life, mem, disk, dirty, saved>>

\* flock without waiting: nobody but a daemon keeps queue.lock.
Unlocked == life \in {"down", "loading"}

\* Store.call in a process of its own: queue.json read, changed and replaced
\* under the lock.
ExecuteAlone(j) ==
    /\ j.route = "alone" /\ Unlocked
    /\ disk' \in {disk, TRUE}
    /\ jobs' = jobs \ {j}
    /\ Answer(j)
    /\ UNCHANGED <<life, mem, dirty, saved>>

\* forward_to_daemon.
Forward(j) ==
    /\ j.route = "alone" /\ life = "up"
    /\ jobs' = (jobs \ {j}) \cup {[j EXCEPT !.route = "daemon"]}
    /\ UNCHANGED <<life, mem, disk, dirty, saved, pipe, caller>>

-----------------------------------------------------------------------------
(* The handlers and loops of the daemon.                                   *)

Serving == life \in {"up", "leaving"}

\* Slip: only urgent operations are remembered to be saved.
StaysClean == dirty

\* dirty.set().
GetsDirty == TRUE

\* handle(): store.execute under the lock.
ExecuteOrdinary(j) ==
    /\ Serving /\ j.route = "daemon" /\ j.stage = "sent" /\ ~j.urgent
    /\ mem' \in {mem, TRUE}
    /\ dirty' = GetsDirty
    /\ jobs' = jobs \ {j}
    /\ Answer(j)
    /\ UNCHANGED <<life, disk, saved>>

ExecuteUrgent(j) ==
    /\ Serving /\ j.route = "daemon" /\ j.stage = "sent" /\ j.urgent
    /\ mem' \in {mem, TRUE}
    /\ jobs' = (jobs \ {j}) \cup {[j EXCEPT !.stage = "executed"]}
    /\ UNCHANGED <<life, disk, dirty, saved, pipe, caller>>

\* execute() refuses the request.
Refuse(j) ==
    /\ Serving /\ j.route = "daemon" /\ j.stage = "sent"
    /\ jobs' = jobs \ {j}
    /\ Answer(j)
    /\ UNCHANGED <<life, mem, disk, dirty, saved>>

\* persist() of an urgent operation, outside the lock: json.dump reaches the
\* change ...
Copy(j) ==
    /\ Serving /\ j.stage = "executed"
    /\ jobs' = (jobs \ {j}) \cup {[j EXCEPT !.stage = "copied", !.copy = mem]}
    /\ UNCHANGED <<life, mem, disk, dirty, saved, pipe, caller>>

\* ... and os.replace puts the new file in place.
Replace(j) ==
    /\ Serving /\ j.stage = "copied"
    /\ disk' = j.copy
    /\ jobs' = jobs \ {j}
    /\ Answer(j)
    /\ UNCHANGED <<life, mem, dirty, saved>>

\* persist() raises: the dictionary has grown under json.dump, or the disk
\* fails.  The operation is executed and its answer says it was not.
FailToSave(j) ==
    /\ Serving /\ j.stage \in {"executed", "copied"}
    /\ jobs' = jobs \ {j}
    /\ Answer(j)
    /\ UNCHANGED <<life, mem, disk, dirty, saved>>

\* flush() in persist_loop.  When it fails nothing changes and it is tried
\* again a second later.
Flush ==
    /\ Serving /\ dirty /\ ~saved
    /\ disk' = mem
    /\ saved' = TRUE
    /\ UNCHANGED <<life, mem, dirty, jobs, pipe, caller>>

\* dirty.clear(), after the lock has been released.
ClearDirty ==
    /\ saved
    /\ dirty' = FALSE
    /\ saved' = FALSE
    /\ UNCHANGED <<life, mem, disk, jobs, pipe, caller>>

-----------------------------------------------------------------------------
(* Start, stop and death.                                                  *)

\* start.sh: nothing with the recorded pid is alive.  Daemon.__init__ reads
\* queue.json before serve() waits for the lock.
Load ==
    /\ life = "down"
    /\ life' = "loading"
    /\ mem' = disk
    /\ dirty' = FALSE
    /\ saved' = FALSE
    /\ UNCHANGED <<disk, jobs, pipe, caller>>

Listen ==
    /\ life = "loading"
    /\ life' = "up"
    /\ UNCHANGED <<mem, disk, dirty, saved, jobs, pipe, caller>>

\* Slip: the last flush only happens if dirty says so.
LastFlushIfDirty == IF dirty THEN mem ELSE disk

LastFlush == mem

\* stop() on SIGTERM: the last flush; the handlers go on until the process ends.
Stop ==
    /\ life = "up"
    /\ life' = "leaving"
    /\ disk' = LastFlush
    /\ dirty' = FALSE
    /\ UNCHANGED <<mem, saved, jobs, pipe, caller>>

\* The process is gone, and with it every handler and every connection.
Gone ==
    /\ life' = "down"
    /\ mem' = FALSE
    /\ dirty' = FALSE
    /\ saved' = FALSE
    /\ jobs' = {[j EXCEPT !.route = IF @ = "daemon" THEN "cut" ELSE @,
                          !.stage = "sent", !.copy = FALSE] : j \in jobs}
    /\ pipe' = [c \in Callers |->
                  IF pipe[c].child = "daemon" THEN [pipe[c] EXCEPT !.child = "cut"] ELSE pipe[c]]
    /\ UNCHANGED <<disk, caller>>

Exit == life = "leaving" /\ Gone

\* SIGKILL, after stop.sh has waited 5 s or out of memory.
Kill == life \in {"loading", "up"} /\ Gone

-----------------------------------------------------------------------------
ChannelStep(c) == Take(c) \/ SendOnce(c) \/ Throw(c)

Next ==
    \/ \E c \in Callers, urgent \in BOOLEAN : Call(c, urgent)
    \/ \E c \in Callers : Take(c) \/ SendOnce(c) \/ Throw(c) \/ SeeExit(c)
    \/ \E j \in jobs :
          \/ Connect(j) \/ Break(j) \/ ExecuteAlone(j) \/ Forward(j)
          \/ ExecuteOrdinary(j) \/ ExecuteUrgent(j) \/ Refuse(j)
          \/ Copy(j) \/ Replace(j) \/ FailToSave(j)
    \/ Flush \/ ClearDirty
    \/ Load \/ Listen \/ Stop \/ Exit \/ Kill

Spec == Init /\ [][Next]_vars

\* A thread does not stop in the middle of a call, 45 s pass, and the loop of
\* the daemon wakes up once a second; a daemon that is stopped does end.
FairSpec ==
    /\ Spec
    /\ \A c \in Callers : WF_vars(ChannelStep(c))
    /\ WF_vars(Flush) /\ WF_vars(ClearDirty) /\ WF_vars(Exit)

-----------------------------------------------------------------------------
(* What channel and daemon promise.                                        *)

TypeOK ==
    /\ life \in {"down", "loading", "up", "leaving"}
    /\ mem \in BOOLEAN /\ disk \in BOOLEAN /\ dirty \in BOOLEAN /\ saved \in BOOLEAN
    /\ jobs \subseteq Job
    /\ pipe \in [Callers -> Pipe]
    /\ caller \in [Callers -> Caller]
    /\ \A j \in jobs : j.stage # "sent" => j.route = "daemon" /\ Serving
    /\ \A c \in Callers : caller[c].at = "once" => Awaited(c) # {}

\* A call never takes the answer of an earlier one: a request that was given up
\* may be executed and answered at any later time, while its thread already waits
\* for another answer (close, 47-58; comment 24: a pipe only ever holds
\* requests and their answers in order).
ReplyIsOwn ==
    \A c \in Callers : caller[c].got \in {caller[c].turn, NoAnswer}

\* Whatever happens to the daemon, the clients and the connections, every call
\* returns or throws (comment 62 of the channel: a read without a limit would hold
\* the thread for ever).
EveryCallEnds ==
    \A c \in Callers : caller[c].at # "idle" ~> caller[c].at = "idle"

\* A change made in memory reaches queue.json, although it may be made between a
\* save and the clearing of dirty, be overwritten by an older copy, or belong to
\* an urgent operation whose save failed, provided the daemon lives and ordinary
\* requests keep coming (flush, persist_loop and handle, 103-148).
SavedUnderTraffic ==
    []<><<\E j \in jobs : ExecuteOrdinary(j)>>_vars => (mem ~> (disk \/ ~mem))

\* The memory and every save under way contain the change.
NothingOlder ==
    /\ life # "down" => mem
    /\ \A j \in jobs : j.stage = "copied" => j.copy

\* A change that nothing under way is older than survives a stop, and once it is
\* in queue.json whatever else happens: late saves of urgent operations, kills,
\* starts, clients that work beside a daemon (stop, 169-178; restart.sh 2: save
\* first, then start, so that no queue state is lost).
SettledSurvives ==
    [][NothingOlder /\ (disk \/ (life = "up" /\ life' = "leaving"))
         => disk' /\ NothingOlder']_vars

=============================================================================

---------------------------- MODULE DaemonProofs ----------------------------
(* Theorems about the channel of a runner thread and the saves of the      *)
(* coordinator daemon, for every number of threads, of calls and of given- *)
(* up requests still on their way.                                         *)
EXTENDS Daemon, SequenceTheorems, TLAPS

-----------------------------------------------------------------------------
(* What a step does to requests, pipes and calls.                          *)

\* The same request further on its way: for the same thread and call, awaited
\* or not as before.
SameRequest(i, j) ==
    i.caller = j.caller /\ i.turn = j.turn /\ i.line = j.line /\ i.wanted = j.wanted

\* Requests only move on: i is what became of j, nothing is read or answered.
Moves(j, i) ==
    /\ jobs' = (jobs \ {j}) \cup {i}
    /\ SameRequest(i, j)
    /\ \A c \in Callers : pipe'[c].lines = pipe[c].lines
    /\ caller' = caller

\* The request j is gone, and if somebody waited for it the line he waits for
\* has come, or the end of its process.
Ends(j) ==
    /\ jobs' = jobs \ {j}
    /\ \/ ~j.wanted /\ UNCHANGED <<pipe, caller>>
       \/ /\ j.wanted /\ j.line = "pipe" /\ caller' = caller
          /\ \/ pipe'[j.caller].lines = pipe[j.caller].lines
             \/ pipe'[j.caller].lines = Append(pipe[j.caller].lines, j.turn)
          /\ \A c \in Callers \ {j.caller} : pipe'[c] = pipe[c]
       \/ /\ j.wanted /\ j.line = "once" /\ pipe' = pipe
          /\ \E got \in {j.turn, NoAnswer} :
                caller' = [caller EXCEPT ![j.caller].at = "idle", ![j.caller].got = got]

\* What the daemon process, its loops and its end leave of requests and pipes.
Unread ==
    /\ caller' = caller
    /\ \A c \in Callers : pipe'[c].lines = pipe[c].lines
    /\ \/ jobs' = jobs
       \/ jobs' = {[j EXCEPT !.route = IF @ = "daemon" THEN "cut" ELSE @,
                             !.stage = "sent", !.copy = FALSE] : j \in jobs}

\* The fields a job has.
LEMMA JobFields ==
    ASSUME NEW j \in Job
    PROVE  /\ j.caller \in Callers /\ j.turn \in TurnNumbers
           /\ j.line \in {"pipe", "once"} /\ j.wanted \in BOOLEAN
           /\ j.urgent \in BOOLEAN /\ j.route \in Routes
           /\ j.stage \in {"sent", "executed", "copied"} /\ j.copy \in BOOLEAN
  BY DEF Job

\* Everything the types say of the tables, without what links them.
Tables ==
    /\ life \in {"down", "loading", "up", "leaving"}
    /\ mem \in BOOLEAN /\ disk \in BOOLEAN /\ dirty \in BOOLEAN /\ saved \in BOOLEAN
    /\ jobs \subseteq Job
    /\ pipe \in [Callers -> Pipe]
    /\ caller \in [Callers -> Caller]

LEMMA AnswerEnds ==
    ASSUME Tables, NEW j \in jobs, jobs' = jobs \ {j}, Answer(j)
    PROVE  /\ Ends(j)
           /\ pipe' \in [Callers -> Pipe] /\ caller' \in [Callers -> Caller]
  <1>1. j \in Job
    BY DEF Tables
  <1>2. CASE ~j.wanted
    BY <1>2 DEF Answer, Ends, Tables
  <1>3. CASE j.wanted /\ j.line = "pipe"
    <2>1. /\ pipe' = [pipe EXCEPT ![j.caller].lines = Append(pipe[j.caller].lines, j.turn)]
          /\ caller' = caller
      BY <1>3 DEF Answer
    <2>2. pipe[j.caller] \in Pipe /\ j.caller \in Callers /\ j.turn \in TurnNumbers
      BY <1>1, JobFields DEF Tables
    <2>3. [pipe[j.caller] EXCEPT !.lines = Append(pipe[j.caller].lines, j.turn)] \in Pipe
      <3>1. pipe[j.caller].lines \in Seq(TurnNumbers)
        BY <2>2 DEF Pipe
      <3>2. Append(pipe[j.caller].lines, j.turn) \in Seq(TurnNumbers)
        BY <2>2, <3>1, AppendProperties
      <3> QED BY <2>2, <3>2 DEF Pipe
    <2> QED BY <1>3, <2>1, <2>2, <2>3 DEF Ends, Tables, Pipe
  <1>4. CASE j.wanted /\ j.line # "pipe"
    <2>1. /\ caller' = [caller EXCEPT ![j.caller].at = "idle", ![j.caller].got = j.turn]
          /\ pipe' = pipe
      BY <1>4 DEF Answer
    <2>2. caller' \in [Callers -> Caller]
      BY <1>1, <2>1, JobFields DEF Tables, Caller
    <2> QED BY <1>1, <1>4, <2>1, <2>2, JobFields DEF Ends, Tables
  <1> QED BY <1>2, <1>3, <1>4

LEMMA BreakEnds ==
    ASSUME Tables, NEW j \in jobs, Break(j)
    PROVE  /\ Ends(j)
           /\ pipe' \in [Callers -> Pipe] /\ caller' \in [Callers -> Caller]
  <1>1. j \in Job
    BY DEF Tables
  <1>2. CASE ~j.wanted
    BY <1>2 DEF Break, Ends, Tables
  <1>3. CASE j.wanted
    <2>1. PICK last \in {<<>>, <<j.turn>>} :
            IF j.line = "pipe"
            THEN /\ pipe' = [pipe EXCEPT ![j.caller] =
                               [child |-> "ended", lines |-> pipe[j.caller].lines \o last]]
                 /\ UNCHANGED caller
            ELSE /\ caller' = [caller EXCEPT ![j.caller].at = "idle",
                                 ![j.caller].got = IF last = <<>> THEN NoAnswer ELSE j.turn]
                 /\ UNCHANGED pipe
      BY <1>3 DEF Break
    <2>2. /\ pipe[j.caller] \in Pipe /\ j.caller \in Callers /\ j.turn \in TurnNumbers
          /\ pipe[j.caller].lines \in Seq(TurnNumbers)
      BY <1>1, JobFields DEF Tables, Pipe
    <2>5. /\ pipe[j.caller].lines \o <<>> = pipe[j.caller].lines
          /\ pipe[j.caller].lines \o <<j.turn>> = Append(pipe[j.caller].lines, j.turn)
          /\ Append(pipe[j.caller].lines, j.turn) \in Seq(TurnNumbers)
      BY <2>2, ConcatEmptySeq, AppendIsConcat, AppendProperties
    <2>3. CASE j.line = "pipe"
      <3>1. /\ pipe[j.caller].lines \o last \in Seq(TurnNumbers)
            /\ \/ pipe[j.caller].lines \o last = pipe[j.caller].lines
               \/ pipe[j.caller].lines \o last = Append(pipe[j.caller].lines, j.turn)
        BY <2>1, <2>2, <2>5
      <3>2. /\ pipe' = [pipe EXCEPT ![j.caller] =
                          [child |-> "ended", lines |-> pipe[j.caller].lines \o last]]
            /\ caller' = caller
        BY <2>1, <2>3
      <3>3. [child |-> "ended", lines |-> pipe[j.caller].lines \o last] \in Pipe
        BY <3>1 DEF Pipe
      <3>4. pipe' \in [Callers -> Pipe] /\ caller' \in [Callers -> Caller]
        BY <3>2, <3>3 DEF Tables
      <3>5. /\ pipe'[j.caller].lines = pipe[j.caller].lines \o last
            /\ \A c \in Callers \ {j.caller} : pipe'[c] = pipe[c]
        BY <2>2, <3>2 DEF Tables
      <3> QED BY <1>3, <2>3, <3>1, <3>2, <3>4, <3>5 DEF Ends, Break
    <2>4. CASE j.line # "pipe"
      <3>1. PICK got \in {j.turn, NoAnswer} :
              caller' = [caller EXCEPT ![j.caller].at = "idle", ![j.caller].got = got]
        BY <2>1, <2>4
      <3>2. pipe' = pipe /\ j.line = "once"
        BY <1>1, <2>1, <2>4, JobFields
      <3>3. caller' \in [Callers -> Caller]
        BY <2>2, <3>1 DEF Tables, Caller
      <3> QED BY <1>3, <3>1, <3>2, <3>3 DEF Ends, Break, Tables
    <2> QED BY <2>3, <2>4
  <1> QED BY <1>2, <1>3

\* What a thread that stops waiting leaves behind: the requests of others and
\* given-up ones, and perhaps its own as given up.
LEMMA ForsakenFacts ==
    ASSUME Tables, NEW c \in Callers, NEW left \in Forsaken(c)
    PROVE  /\ left \subseteq Job
           /\ \A i \in left : i.wanted => i.caller # c /\ i \in jobs
           /\ \A i \in jobs : i.caller # c => i \in left
           /\ \A i \in left : \E j \in jobs : i.stage = j.stage /\ i.copy = j.copy
                                              /\ i.route = j.route
  <1> DEFINE Late(j) == [j EXCEPT !.wanted = FALSE, !.line = "once", !.turn = 0]
  <1>1. \A j \in jobs : /\ Late(j) \in Job /\ ~Late(j).wanted
                        /\ Late(j).stage = j.stage /\ Late(j).copy = j.copy
                        /\ Late(j).route = j.route
    <2> SUFFICES ASSUME NEW j \in jobs
                 PROVE  /\ Late(j) \in Job /\ ~Late(j).wanted
                        /\ Late(j).stage = j.stage /\ Late(j).copy = j.copy
                        /\ Late(j).route = j.route
      OBVIOUS
    <2>1. j \in Job /\ 0 \in TurnNumbers
      BY ConstantsAssumption DEF Tables, TurnNumbers
    <2> QED BY <2>1 DEF Job
  <1>2. \A i \in left : \/ i \in jobs /\ i \notin Awaited(c)
                        \/ \E j \in Awaited(c) : i = Late(j)
    BY DEF Forsaken
  <1>3. jobs \ Awaited(c) \subseteq left
    BY DEF Forsaken
  <1>4. jobs \subseteq Job /\ Awaited(c) \subseteq jobs
    BY DEF Tables, Awaited
  <1> HIDE DEF Late
  <1>5. \A i \in left : i \in Job /\ \E j \in jobs : i.stage = j.stage /\ i.copy = j.copy
                                                    /\ i.route = j.route
    BY <1>1, <1>2, <1>4
  <1>6. \A i \in left : i.wanted => i.caller # c /\ i \in jobs
    BY <1>1, <1>2, <1>4 DEF Awaited
  <1>7. \A i \in jobs : i.caller # c => i \in left
    BY <1>3 DEF Awaited
  <1> QED BY <1>5, <1>6, <1>7

\* A request further on its way keeps what it is, and the types.
LEMMA JobMoves ==
    ASSUME Tables, NEW j \in jobs
    PROVE  /\ \A r \in Routes : [j EXCEPT !.route = r] \in Job
                                /\ SameRequest([j EXCEPT !.route = r], j)
           /\ [j EXCEPT !.stage = "executed"] \in Job
           /\ SameRequest([j EXCEPT !.stage = "executed"], j)
           /\ [j EXCEPT !.stage = "copied", !.copy = mem] \in Job
           /\ SameRequest([j EXCEPT !.stage = "copied", !.copy = mem], j)
           /\ LET cut == [j EXCEPT !.route = IF @ = "daemon" THEN "cut" ELSE @,
                                   !.stage = "sent", !.copy = FALSE]
              IN  cut \in Job /\ SameRequest(cut, j) /\ cut.stage = "sent"
  <1>1. j \in Job /\ mem \in BOOLEAN
    BY DEF Tables
  <1>2. (IF j.route = "daemon" THEN "cut" ELSE j.route) \in Routes
    BY <1>1, JobFields DEF Routes
  <1> QED BY <1>1, <1>2 DEF Job, SameRequest

\* Every step is a call, the reading of a line, a request that is sent again or
\* given up, a request that moves on or ends, or none of a thread's business.
LEMMA ChannelSteps ==
    ASSUME Tables, [Next]_vars
    PROVE  /\ Tables'
           /\ \/ \E c \in Callers, urgent \in BOOLEAN : Call(c, urgent)
              \/ \E c \in Callers : Take(c) \/ SendOnce(c) \/ Throw(c)
              \/ \E j \in jobs : Ends(j) \/ \E i \in Job : Moves(j, i)
              \/ Unread
  <1>1. ASSUME NEW c \in Callers, NEW urgent \in BOOLEAN, Call(c, urgent)
        PROVE  Tables'
    <2> DEFINE turn == (caller[c].turn + 1) % Turns
               child == IF pipe[c].child = "none" THEN "new" ELSE pipe[c].child
    <2>1. turn \in TurnNumbers
      BY ConstantsAssumption DEF Tables, Caller, TurnNumbers
    <2>2. child = "ended" \/ child \in Routes
      BY DEF Tables, Pipe, Routes
    <2>3. child # "ended" => Request(c, turn, "pipe", urgent, child) \in Job
      BY <1>1, <2>1, <2>2 DEF Request, Job
    <2>4. jobs' \subseteq Job
      BY <1>1, <2>3 DEF Call, Tables
    <2>5. [at |-> "piped", turn |-> turn, urgent |-> urgent, got |-> NoAnswer] \in Caller
      BY <2>1 DEF Caller
    <2>6. caller' \in [Callers -> Caller]
      BY <1>1, <2>5 DEF Call, Tables
    <2>7. [child |-> "new", lines |-> <<>>] \in Pipe
      BY EmptySeq DEF Pipe, Routes
    <2>8. pipe' \in [Callers -> Pipe]
      BY <1>1, <2>7 DEF Call, Tables
    <2> QED BY <1>1, <2>4, <2>6, <2>8 DEF Call, Tables
  <1>2. ASSUME NEW c \in Callers, Take(c)
        PROVE  Tables'
    <2>1. /\ pipe[c] \in Pipe /\ pipe[c].lines \in Seq(TurnNumbers)
          /\ pipe[c].lines # <<>>
      BY <1>2 DEF Take, Tables, Pipe
    <2>2. Head(pipe[c].lines) \in TurnNumbers /\ Tail(pipe[c].lines) \in Seq(TurnNumbers)
      BY <2>1, HeadTailProperties
    <2>3. [pipe[c] EXCEPT !.lines = Tail(pipe[c].lines)] \in Pipe
      BY <2>1, <2>2 DEF Pipe
    <2>4. pipe' \in [Callers -> Pipe]
      BY <1>2, <2>3 DEF Take, Tables
    <2>5. caller' \in [Callers -> Caller]
      BY <1>2, <2>2 DEF Take, Tables, Caller
    <2> QED BY <1>2, <2>4, <2>5 DEF Take, Tables
  <1>3. ASSUME NEW c \in Callers, SendOnce(c)
        PROVE  Tables'
    <2> DEFINE next == Request(c, caller[c].turn, "once", caller[c].urgent, "new")
    <2>1. next \in Job
      BY DEF Request, Job, Tables, Caller, Routes
    <2>2. PICK left \in Forsaken(c) : jobs' = left \cup {next}
      BY <1>3 DEF SendOnce, Close
    <2>3. jobs' \subseteq Job
      BY <2>1, <2>2, ForsakenFacts
    <2>4. NoPipe \in Pipe
      BY EmptySeq DEF NoPipe, Pipe
    <2>5. pipe' \in [Callers -> Pipe]
      BY <1>3, <2>4 DEF SendOnce, Close, Tables
    <2>6. caller' \in [Callers -> Caller]
      BY <1>3 DEF SendOnce, Tables, Caller
    <2> QED BY <1>3, <2>3, <2>5, <2>6 DEF SendOnce, Tables
  <1>4. ASSUME NEW c \in Callers, Throw(c)
        PROVE  Tables'
    <2>1. jobs' \subseteq Job
      BY <1>4, ForsakenFacts DEF Throw
    <2>2. caller' \in [Callers -> Caller]
      BY <1>4 DEF Throw, Tables, Caller
    <2> QED BY <1>4, <2>1, <2>2 DEF Throw, Tables
  <1>5. ASSUME NEW c \in Callers, SeeExit(c)
        PROVE  Tables' /\ Unread
    BY <1>5 DEF SeeExit, Tables, Unread, Pipe
  <1>6. ASSUME NEW j \in jobs, Connect(j)
        PROVE  Tables' /\ \E i \in Job : Moves(j, i)
    <2> DEFINE route == IF life = "up" THEN "daemon" ELSE "alone"
    <2>1. route \in Routes /\ j \in Job
      BY DEF Routes, Tables
    <2>2. /\ [j EXCEPT !.route = route] \in Job
          /\ SameRequest([j EXCEPT !.route = route], j)
      BY <2>1, JobMoves
    <2>3. pipe' \in [Callers -> Pipe] /\ \A c \in Callers : pipe'[c].lines = pipe[c].lines
      BY <1>6, <2>1, JobFields DEF Connect, Tables, Pipe
    <2>4. jobs' = (jobs \ {j}) \cup {[j EXCEPT !.route = route]}
          /\ UNCHANGED <<life, mem, disk, dirty, saved, caller>>
      BY <1>6 DEF Connect
    <2> HIDE DEF route
    <2> QED BY <2>2, <2>3, <2>4 DEF Moves, Tables
  <1>7. ASSUME NEW j \in jobs, NEW i \in Job, SameRequest(i, j),
               jobs' = (jobs \ {j}) \cup {i}, UNCHANGED <<life, pipe, caller>>,
               mem' \in BOOLEAN, disk' \in BOOLEAN, dirty' \in BOOLEAN, saved' \in BOOLEAN
        PROVE  Tables' /\ Moves(j, i)
    BY <1>7 DEF Moves, Tables
  <1>8. ASSUME NEW j \in jobs, Forward(j) \/ ExecuteUrgent(j) \/ Copy(j)
        PROVE  Tables' /\ \E i \in Job : Moves(j, i)
    <2>1. CASE Forward(j)
      <3>1. "daemon" \in Routes
        BY DEF Routes
      <3> QED BY <1>7, <2>1, <3>1, JobMoves DEF Forward, Tables
    <2>2. CASE ExecuteUrgent(j)
      BY <1>7, <2>2, JobMoves DEF ExecuteUrgent, Tables
    <2>3. CASE Copy(j)
      BY <1>7, <2>3, JobMoves DEF Copy, Tables
    <2> QED BY <1>8, <2>1, <2>2, <2>3
  <1>9. ASSUME NEW j \in jobs, Ends(j),
               pipe' \in [Callers -> Pipe], caller' \in [Callers -> Caller], life' = life,
               mem' \in BOOLEAN, disk' \in BOOLEAN, dirty' \in BOOLEAN, saved' \in BOOLEAN
        PROVE  Tables'
    BY <1>9 DEF Ends, Tables
  <1>10. ASSUME NEW j \in jobs,
                \/ Break(j) \/ ExecuteAlone(j) \/ ExecuteOrdinary(j) \/ Refuse(j)
                \/ Replace(j) \/ FailToSave(j)
         PROVE  Tables' /\ Ends(j)
    <2>1. CASE Break(j)
      BY <1>9, <2>1, BreakEnds DEF Break, Tables
    <2>2. CASE ExecuteAlone(j)
      BY <1>9, <2>2, AnswerEnds DEF ExecuteAlone, Tables
    <2>3. CASE ExecuteOrdinary(j)
      BY <1>9, <2>3, AnswerEnds DEF ExecuteOrdinary, GetsDirty, Tables
    <2>4. CASE Refuse(j) \/ FailToSave(j)
      BY <1>9, <2>4, AnswerEnds DEF Refuse, FailToSave, Tables
    <2>5. CASE Replace(j)
      <3>1. j.copy \in BOOLEAN
        BY JobFields DEF Tables
      <3> QED BY <1>9, <2>5, <3>1, AnswerEnds DEF Replace, Tables
    <2> QED BY <1>10, <2>1, <2>2, <2>3, <2>4, <2>5
  <1>11. ASSUME Flush \/ ClearDirty \/ Load \/ Listen \/ Stop \/ UNCHANGED vars
         PROVE  Tables' /\ Unread
    BY <1>11 DEF Flush, ClearDirty, Load, Listen, Stop, LastFlush, vars, Tables, Unread
  <1>12. ASSUME Exit \/ Kill
         PROVE  Tables' /\ Unread
    <2>1. Gone
      BY <1>12 DEF Exit, Kill
    <2>2. jobs' \subseteq Job
      BY <2>1, JobMoves DEF Gone
    <2>3. pipe' \in [Callers -> Pipe] /\ \A c \in Callers : pipe'[c].lines = pipe[c].lines
      BY <2>1 DEF Gone, Tables, Pipe, Routes
    <2> QED BY <2>1, <2>2, <2>3 DEF Gone, Tables, Unread
  <1> QED BY <1>1, <1>2, <1>3, <1>4, <1>5, <1>6, <1>8, <1>10, <1>11, <1>12 DEF Next

-----------------------------------------------------------------------------
(* A call never takes the answer of an earlier one.                        *)

\* What a channel holds.  A thread awaits at most one request, that of its
\* present call, and only while it is in a call.  A line it has not read yet
\* is the answer of that call: the pipe was empty when the call was made, and
\* close() forgets a pipe whose line is still to come.
Channel(c) ==
    /\ \A i, j \in Awaited(c) : i = j
    /\ \A j \in Awaited(c) :
          /\ j.turn = caller[c].turn
          /\ \/ caller[c].at = "piped" /\ j.line = "pipe"
             \/ caller[c].at = "once" /\ j.line = "once"
          /\ pipe[c].lines = <<>>
    /\ pipe[c].lines # <<>> =>
          caller[c].at = "piped" /\ pipe[c].lines = <<caller[c].turn>>
    /\ caller[c].got \in {caller[c].turn, NoAnswer}

Channels == \A c \in Callers : Channel(c)

\* The channel of c is as it was when c awaits the same requests.
LEMMA SameChannel ==
    ASSUME NEW c \in Callers, Channel(c),
           \A i \in Awaited(c)' : \E j \in Awaited(c) : SameRequest(i, j),
           \A i, j \in Awaited(c)' : i = j,
           pipe'[c].lines = pipe[c].lines, caller'[c] = caller[c]
    PROVE  Channel(c)'
  BY DEF Channel, SameRequest

LEMMA OthersChannel ==
    ASSUME NEW c \in Callers, Channel(c),
           \A i \in jobs' : i.caller = c /\ i.wanted => i \in jobs,
           pipe'[c].lines = pipe[c].lines, caller'[c] = caller[c]
    PROVE  Channel(c)'
  BY DEF Channel, Awaited

\* A call starts with an empty pipe and nothing awaited.
LEMMA CallChannel ==
    ASSUME Tables, Channels, NEW c \in Callers, NEW urgent \in BOOLEAN, Call(c, urgent)
    PROVE  Channels'
  <1> DEFINE turn == (caller[c].turn + 1) % Turns
             child == IF pipe[c].child = "none" THEN "new" ELSE pipe[c].child
             new == Request(c, turn, "pipe", urgent, child)
  <1>1. jobs' \subseteq jobs \cup {new}
    BY DEF Call
  <1>2. new.caller = c /\ new.turn = turn /\ new.line = "pipe"
    BY DEF Request
  <1>3. Awaited(c) = {} /\ pipe[c].lines = <<>>
    BY DEF Call, Channels, Channel
  <1>4. /\ caller'[c].at = "piped" /\ caller'[c].turn = turn /\ caller'[c].got = NoAnswer
        /\ pipe'[c].lines = <<>>
    BY <1>3 DEF Call, Tables
  <1>5. \A d \in Callers \ {c} : caller'[d] = caller[d] /\ pipe'[d] = pipe[d]
    BY DEF Call, Tables
  <1> HIDE DEF turn, child, new
  <1>6. Channel(c)'
    <2>1. Awaited(c)' \subseteq {new}
      BY <1>1, <1>3 DEF Awaited
    <2> QED BY <1>2, <1>4, <2>1 DEF Channel
  <1>7. ASSUME NEW d \in Callers, d # c
        PROVE  Channel(d)'
    BY <1>1, <1>2, <1>5, <1>7, OthersChannel DEF Channels
  <1> QED BY <1>6, <1>7 DEF Channels

\* The line that is read is the answer of the call.
LEMMA TakeChannel ==
    ASSUME Tables, Channels, NEW c \in Callers, Take(c)
    PROVE  Channels'
  <1>1. /\ pipe[c].lines = <<caller[c].turn>> /\ Awaited(c) = {}
        /\ caller[c].turn \in TurnNumbers
    BY DEF Take, Channels, Channel, Tables, Caller
  <1>2. Head(pipe[c].lines) = caller[c].turn /\ Tail(pipe[c].lines) = <<>>
    BY <1>1
  <1>3. /\ caller'[c].at = "idle" /\ caller'[c].got = caller[c].turn
        /\ caller'[c].turn = caller[c].turn
        /\ pipe'[c].lines = <<>>
    BY <1>2 DEF Take, Tables, Caller, Pipe
  <1>4. \A d \in Callers \ {c} : caller'[d] = caller[d] /\ pipe'[d] = pipe[d]
    BY DEF Take, Tables
  <1>5. jobs' = jobs
    BY DEF Take
  <1>6. Channel(c)'
    BY <1>1, <1>3, <1>5 DEF Channel, Awaited
  <1> QED BY <1>4, <1>5, <1>6, OthersChannel DEF Channels

\* A request that is sent again replaces the one given up; a call that throws
\* awaits nothing.
LEMMA GiveUpChannel ==
    ASSUME Tables, Channels, NEW c \in Callers, SendOnce(c) \/ Throw(c)
    PROVE  Channels'
  <1> DEFINE next == Request(c, caller[c].turn, "once", caller[c].urgent, "new")
  <1>1. next.caller = c /\ next.turn = caller[c].turn /\ next.line = "once"
    BY DEF Request
  <1>2. PICK left \in Forsaken(c) : jobs' = left \cup {next} \/ (Throw(c) /\ jobs' = left)
    BY DEF SendOnce, Close, Throw
  <1>3. /\ \A i \in left : i.wanted => i.caller # c /\ i \in jobs
    BY ForsakenFacts
  <1> HIDE DEF next
  <1>4. Channel(c)'
    <2>1. CASE SendOnce(c)
      <3>1. Awaited(c)' \subseteq {next}
        BY <1>2, <1>3 DEF Awaited
      <3>2. /\ caller'[c].at = "once" /\ caller'[c].turn = caller[c].turn
            /\ caller'[c].got = caller[c].got
            /\ pipe'[c].lines = <<>>
        BY <2>1 DEF SendOnce, Close, NoPipe, Tables, Caller
      <3> QED BY <1>1, <3>1, <3>2 DEF Channels, Channel
    <2>2. CASE Throw(c)
      <3>1. jobs' \in Forsaken(c)
        BY <2>2 DEF Throw
      <3>2. Awaited(c)' = {}
        BY <3>1, ForsakenFacts DEF Awaited
      <3>3. /\ caller'[c].turn = caller[c].turn /\ caller'[c].got = caller[c].got
            /\ pipe'[c].lines = pipe[c].lines
            /\ caller[c].at = "once"
        BY <2>2 DEF Throw, Tables, Caller
      <3> QED BY <3>2, <3>3 DEF Channels, Channel
    <2> QED BY <2>1, <2>2
  <1>5. \A d \in Callers \ {c} : caller'[d] = caller[d] /\ pipe'[d] = pipe[d]
    BY DEF SendOnce, Close, Throw, Tables
  <1>6. ASSUME NEW d \in Callers, d # c
        PROVE  Channel(d)'
    <2>1. \A i \in jobs' : i.caller = d /\ i.wanted => i \in jobs
      BY <1>1, <1>2, <1>3, <1>6
    <2> QED BY <1>5, <1>6, <2>1, OthersChannel DEF Channels
  <1> QED BY <1>4, <1>6 DEF Channels

\* A request that ends takes the wait of its thread with it.
LEMMA EndChannel ==
    ASSUME Tables, Channels, NEW j \in jobs, Ends(j)
    PROVE  Channels'
  <1>1. j \in Job /\ j.caller \in Callers /\ j.turn \in TurnNumbers
    BY JobFields DEF Tables
  <1>2. jobs' \subseteq jobs
    BY DEF Ends
  <1>3. CASE ~j.wanted
    BY <1>2, <1>3, OthersChannel DEF Ends, Channels
  <1>4. CASE j.wanted
    <2> DEFINE c == j.caller
    <2>1. j \in Awaited(c) /\ c \in Callers
      BY <1>1, <1>4 DEF Awaited
    <2>2. /\ j.turn = caller[c].turn /\ pipe[c].lines = <<>>
          /\ \A i \in Awaited(c) : i = j
          /\ j.line = "pipe" <=> caller[c].at = "piped"
      BY <2>1 DEF Channels, Channel
    <2>3. Awaited(c)' = {}
      BY <2>2 DEF Ends, Awaited
    <2>4. Channel(c)'
      <3>1. CASE j.line = "pipe"
        <4>1. Append(<<>>, j.turn) = <<j.turn>>
          OBVIOUS
        <4>2. /\ caller' = caller
              /\ pipe'[c].lines = pipe[c].lines \/ pipe'[c].lines = Append(pipe[c].lines, j.turn)
          BY <1>4, <3>1 DEF Ends
        <4> QED BY <2>1, <2>2, <2>3, <3>1, <4>1, <4>2 DEF Channels, Channel
      <3>2. CASE j.line = "once"
        <4>1. PICK got \in {j.turn, NoAnswer} :
                caller' = [caller EXCEPT ![c].at = "idle", ![c].got = got]
          BY <1>4, <3>2 DEF Ends
        <4>2. pipe' = pipe
          BY <1>4, <3>2 DEF Ends
        <4>3. caller'[c].turn = caller[c].turn /\ caller'[c].got = got
          BY <2>1, <4>1 DEF Tables, Caller
        <4> QED BY <2>2, <2>3, <4>1, <4>2, <4>3 DEF Channel
      <3> QED BY <1>1, <3>1, <3>2, JobFields
    <2>5. \A d \in Callers \ {c} : caller'[d] = caller[d] /\ pipe'[d].lines = pipe[d].lines
      BY <1>4, <2>1 DEF Ends, Tables
    <2> HIDE DEF c
    <2>6. \A d \in Callers \ {c} : Channel(d)'
      BY <1>2, <2>5, OthersChannel DEF Channels
    <2> QED BY <2>4, <2>6 DEF Channels
  <1> QED BY <1>3, <1>4

\* A request on its way, and the end of the daemon, change no wait.
LEMMA QuietChannel ==
    ASSUME Tables, Channels, Unread \/ \E j \in jobs, i \in Job : Moves(j, i)
    PROVE  Channels'
  <1> SUFFICES ASSUME NEW c \in Callers
               PROVE  Channel(c)'
    BY DEF Channels
  <1>1. Channel(c)
    BY DEF Channels
  <1>2. ASSUME NEW j \in jobs, NEW i \in Job, Moves(j, i)
        PROVE  Channel(c)'
    <2>1. \A k \in Awaited(c)' : (k \in Awaited(c) /\ k # j) \/ (k = i /\ j \in Awaited(c))
      BY <1>2 DEF Moves, SameRequest, Awaited
    <2>2. \A k \in Awaited(c)' : \E l \in Awaited(c) : SameRequest(k, l)
      BY <1>2, <2>1 DEF Moves, SameRequest
    <2>3. \A k, l \in Awaited(c)' : k = l
      BY <1>1, <2>1 DEF Channel
    <2> QED BY <1>1, <1>2, <2>2, <2>3, SameChannel DEF Moves
  <1>3. CASE Unread
    <2> DEFINE Cut(j) == [j EXCEPT !.route = IF @ = "daemon" THEN "cut" ELSE @,
                                   !.stage = "sent", !.copy = FALSE]
    <2>1. CASE jobs' = jobs
      BY <1>1, <1>3, <2>1, OthersChannel DEF Unread
    <2>2. CASE jobs' = {Cut(j) : j \in jobs}
      <3>1. \A j \in jobs : SameRequest(Cut(j), j)
        BY JobMoves
      <3> HIDE DEF Cut
      <3>2. \A k \in Awaited(c)' : \E j \in Awaited(c) : k = Cut(j)
        BY <2>2, <3>1 DEF SameRequest, Awaited
      <3>3. \A k, l \in Awaited(c)' : k = l
        BY <1>1, <3>2 DEF Channel
      <3>4. \A k \in Awaited(c)' : \E j \in Awaited(c) : SameRequest(k, j)
        BY <3>1, <3>2 DEF Awaited
      <3> QED BY <1>1, <1>3, <3>3, <3>4, SameChannel DEF Unread
    <2> QED BY <1>3, <2>1, <2>2 DEF Unread
  <1> QED BY <1>2, <1>3

LEMMA ChannelsStep == Tables /\ Channels /\ [Next]_vars => Channels'
  BY ChannelSteps, CallChannel, TakeChannel, GiveUpChannel, EndChannel, QuietChannel

LEMMA ChannelsHold == Spec => [](Tables /\ Channels)
  <1>1. Init => Tables /\ Channels
    <2>1. Init => Tables
      <3>1. NoPipe \in Pipe
        BY EmptySeq DEF NoPipe, Pipe
      <3>2. [at |-> "idle", turn |-> 0, urgent |-> FALSE, got |-> NoAnswer] \in Caller
        BY ConstantsAssumption DEF Caller, TurnNumbers
      <3> QED BY <3>1, <3>2 DEF Init, Tables
    <2>2. Init => Channels
      BY DEF Init, Channels, Channel, Awaited, NoPipe
    <2> QED BY <2>1, <2>2
  <1>2. Tables /\ Channels /\ [Next]_vars => (Tables /\ Channels)'
    BY ChannelSteps, ChannelsStep
  <1> QED BY <1>1, <1>2, PTL DEF Spec

\* A call never returns the answer of an earlier call of its thread, although
\* any number of given-up requests may be executed and answered while it waits,
\* for any number of threads and calls (coordinator-channel.ts 24, 47-58, 62-86).
THEOREM RepliesAreOwn == Spec => []ReplyIsOwn
  <1>1. Channels => ReplyIsOwn
    BY DEF Channels, Channel, ReplyIsOwn
  <1> QED BY <1>1, ChannelsHold, PTL

-----------------------------------------------------------------------------
(* Types.                                                                  *)

\* Requests are executed, and saved, only while the daemon runs that took them.
Staged == \A j \in jobs : j.stage # "sent" => j.route = "daemon" /\ Serving

\* A thread in its second attempt has a request on its way.
Attempted == \A c \in Callers : caller[c].at = "once" => Awaited(c) # {}

\* The end of the daemon takes everything with it that was executed and not
\* answered; nothing else starts or stops it while a request is in its hands.
LEMMA StagedStep == Tables /\ Staged /\ [Next]_vars => Staged'
  <1> SUFFICES ASSUME Tables, Staged, [Next]_vars
               PROVE  Staged'
    OBVIOUS
  <1>1. ASSUME life' = life,
               \A i \in jobs' : \/ i.stage = "sent"
                                \/ i.route = "daemon" /\ Serving
        PROVE  Staged'
    BY <1>1 DEF Staged, Serving
  <1>2. \A j \in jobs : \/ j.stage = "sent"
                        \/ j.route = "daemon" /\ Serving
    BY DEF Staged
  <1>3. ASSUME NEW c \in Callers, NEW urgent \in BOOLEAN, Call(c, urgent)
        PROVE  Staged'
    BY <1>1, <1>2, <1>3 DEF Call, Request
  <1>4. ASSUME NEW c \in Callers, SendOnce(c) \/ Throw(c)
        PROVE  Staged'
    <2>1. PICK left \in Forsaken(c) :
            \A i \in jobs' : i \in left \/ i.stage = "sent"
      BY <1>4 DEF SendOnce, Close, Throw, Request
    <2>2. \A i \in left : \E j \in jobs : i.stage = j.stage /\ i.route = j.route
      BY ForsakenFacts
    <2> QED BY <1>1, <1>2, <1>4, <2>1, <2>2 DEF SendOnce, Throw
  <1>5. ASSUME NEW c \in Callers, Take(c) \/ SeeExit(c)
        PROVE  Staged'
    BY <1>1, <1>2, <1>5 DEF Take, SeeExit
  <1>6. ASSUME NEW j \in jobs, Ends(j), life' = life
        PROVE  Staged'
    BY <1>1, <1>2, <1>6 DEF Ends
  <1>7. ASSUME NEW j \in jobs,
               \/ Break(j) \/ ExecuteAlone(j) \/ ExecuteOrdinary(j) \/ Refuse(j)
               \/ Replace(j) \/ FailToSave(j)
        PROVE  Staged'
    <2>1. jobs' = jobs \ {j} /\ life' = life
      BY <1>7 DEF Break, ExecuteAlone, ExecuteOrdinary, Refuse, Replace, FailToSave
    <2> QED BY <1>1, <1>2, <2>1
  <1>8. ASSUME NEW j \in jobs, Connect(j) \/ Forward(j)
        PROVE  Staged'
    <2>1. j \in Job /\ j.stage = "sent"
      BY <1>2, <1>8 DEF Tables, Connect, Forward
    <2>2. PICK r : jobs' = (jobs \ {j}) \cup {[j EXCEPT !.route = r]} /\ life' = life
      BY <1>8 DEF Connect, Forward
    <2>3. [j EXCEPT !.route = r].stage = "sent"
      BY <2>1 DEF Job
    <2> QED BY <1>1, <1>2, <2>2, <2>3
  <1>9. ASSUME NEW j \in jobs, ExecuteUrgent(j) \/ Copy(j)
        PROVE  Staged'
    <2>1. j \in Job /\ j.route = "daemon" /\ Serving
      BY <1>2, <1>9 DEF Tables, ExecuteUrgent, Copy
    <2>2. PICK i \in {[j EXCEPT !.stage = "executed"],
                      [j EXCEPT !.stage = "copied", !.copy = mem]} :
            jobs' = (jobs \ {j}) \cup {i} /\ life' = life
      BY <1>9 DEF ExecuteUrgent, Copy
    <2>3. i.route = "daemon"
      BY <2>1, <2>2 DEF Job
    <2> QED BY <1>1, <1>2, <2>1, <2>2, <2>3
  <1>10. CASE Exit \/ Kill
    <2>1. jobs' = {[j EXCEPT !.route = IF @ = "daemon" THEN "cut" ELSE @,
                             !.stage = "sent", !.copy = FALSE] : j \in jobs}
      BY <1>10 DEF Exit, Kill, Gone
    <2>2. \A i \in jobs' : i.stage = "sent"
      BY <2>1, JobMoves
    <2> QED BY <2>2 DEF Staged
  <1>11. CASE Flush \/ ClearDirty \/ Load \/ Listen \/ Stop \/ UNCHANGED vars
    BY <1>11 DEF Flush, ClearDirty, Load, Listen, Stop, vars, Staged, Serving
  <1> QED BY <1>3, <1>4, <1>5, <1>7, <1>8, <1>9, <1>10, <1>11 DEF Next

\* The second attempt ends with its request.
LEMMA AttemptedStep == Tables /\ Channels /\ Attempted /\ [Next]_vars => Attempted'
  <1> SUFFICES ASSUME Tables, Channels, Attempted, [Next]_vars,
                      NEW c \in Callers, caller'[c].at = "once"
               PROVE  Awaited(c)' # {}
    BY DEF Attempted
  <1>1. ASSUME NEW j \in Awaited(c), j \in jobs' PROVE Awaited(c)' # {}
    BY <1>1 DEF Awaited
  <1>2. ASSUME NEW d \in Callers, NEW urgent \in BOOLEAN, Call(d, urgent)
        PROVE  Awaited(c)' # {}
    <2>1. c # d /\ caller'[c] = caller[c] /\ jobs \subseteq jobs'
      BY <1>2 DEF Call, Tables
    <2> QED BY <1>1, <2>1 DEF Attempted, Awaited
  <1>3. ASSUME NEW d \in Callers, Take(d)
        PROVE  Awaited(c)' # {}
    <2>1. c # d /\ caller'[c] = caller[c] /\ jobs' = jobs
      BY <1>3 DEF Take, Tables, Caller
    <2> QED BY <1>1, <2>1 DEF Attempted, Awaited
  <1>4. ASSUME NEW d \in Callers, SendOnce(d) \/ Throw(d), d # c
        PROVE  Awaited(c)' # {}
    <2>1. caller'[c] = caller[c]
      BY <1>4 DEF SendOnce, Throw, Tables
    <2>2. PICK left \in Forsaken(d) : left \subseteq jobs'
      BY <1>4 DEF SendOnce, Close, Throw
    <2>3. \A i \in Awaited(c) : i \in left
      BY <1>4, ForsakenFacts DEF Awaited
    <2> QED BY <1>1, <2>1, <2>2, <2>3 DEF Attempted
  <1>5. CASE SendOnce(c)
    <2>1. Request(c, caller[c].turn, "once", caller[c].urgent, "new") \in jobs'
      BY <1>5 DEF SendOnce, Close
    <2>2. /\ Request(c, caller[c].turn, "once", caller[c].urgent, "new").caller = c
          /\ Request(c, caller[c].turn, "once", caller[c].urgent, "new").wanted
      BY DEF Request
    <2> QED BY <2>1, <2>2 DEF Awaited
  <1>6. CASE Throw(c)
    BY <1>6 DEF Throw, Tables, Caller
  <1>7. ASSUME NEW j \in jobs, Ends(j)
        PROVE  Awaited(c)' # {}
    <2>1. CASE j \notin Awaited(c)
      <3>1. caller'[c].at = caller[c].at
        BY <1>7, <2>1 DEF Ends, Awaited, Tables
      <3> QED BY <1>1, <1>7, <2>1, <3>1 DEF Ends, Attempted, Awaited
    <2>2. CASE j \in Awaited(c)
      <3>1. CASE j.line = "pipe"
        BY <1>7, <2>2, <3>1 DEF Ends, Awaited, Channels, Channel
      <3>2. CASE j.line # "pipe"
        BY <1>7, <2>2, <3>2 DEF Ends, Awaited, Tables, Caller
      <3> QED BY <3>1, <3>2
    <2> QED BY <2>1, <2>2
  <1>8. ASSUME NEW j \in jobs, NEW i \in Job, Moves(j, i)
        PROVE  Awaited(c)' # {}
    BY <1>8 DEF Moves, SameRequest, Attempted, Awaited
  <1>9. CASE Unread
    <2>1. CASE jobs' = jobs
      BY <1>9, <2>1 DEF Unread, Attempted, Awaited
    <2>2. CASE jobs' = {[j EXCEPT !.route = IF @ = "daemon" THEN "cut" ELSE @,
                                  !.stage = "sent", !.copy = FALSE] : j \in jobs}
      <3>1. PICK j \in jobs : j.caller = c /\ j.wanted
        BY <1>9 DEF Unread, Attempted, Awaited
      <3>2. \E i \in jobs' : SameRequest(i, j)
        BY <2>2, JobMoves
      <3> QED BY <3>1, <3>2 DEF SameRequest, Awaited
    <2> QED BY <1>9, <2>1, <2>2 DEF Unread
  <1> QED BY <1>2, <1>3, <1>4, <1>5, <1>6, <1>7, <1>8, <1>9, ChannelSteps

\* Threads, pipes and requests stay well typed; what was executed and not yet
\* answered is in the hands of a daemon that runs.
THEOREM ChannelTypes == Spec => []TypeOK
  <1>1. Init => Staged /\ Attempted
    BY DEF Init, Staged, Attempted
  <1>2. Tables /\ Staged /\ Attempted => TypeOK
    BY DEF Tables, Staged, Attempted, TypeOK
  <1> QED BY <1>1, <1>2, StagedStep, AttemptedStep, ChannelsHold, PTL DEF Spec

-----------------------------------------------------------------------------
(* What is settled survives.                                               *)

\* A change that nothing under way is older than is lost by no step: not by a
\* late save of an urgent operation, a kill, a start, nor by a client that
\* works beside a daemon, once it is in queue.json; and a daemon that is
\* stopped puts it there (coordinator_daemon.py 103-148 and 169-178).
THEOREM SettledChangesSurvive == Spec => SettledSurvives
  <1>1. ASSUME Tables, Staged, [Next]_vars, NothingOlder,
               disk \/ (life = "up" /\ life' = "leaving")
        PROVE  disk' /\ NothingOlder'
    <2>0. /\ life # "down" => mem
          /\ \A j \in jobs : j.stage = "copied" => j.copy
          /\ Serving => life # "down"
      BY <1>1 DEF NothingOlder, Serving
    <2>1. ASSUME life' # "down" => mem',
                 \A i \in jobs' : \E j \in jobs : i.stage = j.stage /\ i.copy = j.copy
          PROVE  NothingOlder'
      BY <2>0, <2>1 DEF NothingOlder
    <2>2. ASSUME NEW c \in Callers, NEW urgent \in BOOLEAN, Call(c, urgent)
          PROVE  disk' /\ NothingOlder'
      BY <1>1, <2>0, <2>2 DEF Call, Request, NothingOlder
    <2>3. ASSUME NEW c \in Callers, SendOnce(c) \/ Throw(c)
          PROVE  disk' /\ NothingOlder'
      <3>1. PICK left \in Forsaken(c) :
              \A i \in jobs' : i \in left \/ i.stage = "sent"
        BY <2>3 DEF SendOnce, Close, Throw, Request
      <3>2. \A i \in left : \E j \in jobs : i.stage = j.stage /\ i.copy = j.copy
        BY <1>1, ForsakenFacts
      <3> QED BY <1>1, <2>0, <2>3, <3>1, <3>2 DEF SendOnce, Throw, NothingOlder
    <2>4. ASSUME NEW c \in Callers, Take(c) \/ SeeExit(c)
          PROVE  disk' /\ NothingOlder'
      BY <1>1, <2>0, <2>4 DEF Take, SeeExit, NothingOlder
    <2>5. ASSUME NEW j \in jobs, jobs' = jobs \ {j}, life' = life, mem' \in {mem, TRUE}
          PROVE  NothingOlder'
      BY <2>0, <2>5 DEF NothingOlder
    <2>6. ASSUME NEW j \in jobs,
                 \/ Break(j) \/ ExecuteAlone(j) \/ ExecuteOrdinary(j) \/ Refuse(j)
                 \/ FailToSave(j)
          PROVE  disk' /\ NothingOlder'
      <3>1. jobs' = jobs \ {j} /\ life' = life /\ mem' \in {mem, TRUE}
        BY <2>6 DEF Break, ExecuteAlone, ExecuteOrdinary, Refuse, FailToSave
      <3>2. disk' \in {disk, TRUE}
        BY <2>6 DEF Break, ExecuteAlone, ExecuteOrdinary, Refuse, FailToSave
      <3>3. disk
        BY <1>1, <3>1
      <3> QED BY <2>5, <3>1, <3>2, <3>3
    <2>7. ASSUME NEW j \in jobs, Replace(j)
          PROVE  disk' /\ NothingOlder'
      BY <2>0, <2>5, <2>7 DEF Replace
    <2>8. ASSUME NEW j \in jobs, NEW i, jobs' = (jobs \ {j}) \cup {i},
                 i.stage = "copied" => i.copy,
                 life' = life, disk' = disk, mem' \in {mem, TRUE}
          PROVE  disk' /\ NothingOlder'
      <3>1. disk
        BY <1>1, <2>8
      <3>2. mem' \in {mem, TRUE} /\ life' = life
        BY <2>8
      <3>3. life' # "down" => mem'
        BY <2>0, <3>2
      <3>4. \A k \in jobs' : k.stage = "copied" => k.copy
        BY <2>0, <2>8
      <3> QED BY <2>8, <3>1, <3>3, <3>4 DEF NothingOlder
    <2>9. ASSUME NEW j \in jobs, Connect(j) \/ Forward(j)
          PROVE  disk' /\ NothingOlder'
      <3>1. PICK r : jobs' = (jobs \ {j}) \cup {[j EXCEPT !.route = r]}
        BY <2>9 DEF Connect, Forward
      <3>2. /\ [j EXCEPT !.route = r].stage = j.stage
            /\ [j EXCEPT !.route = r].copy = j.copy
        BY <1>1 DEF Tables, Job
      <3>3. life' = life /\ disk' = disk /\ mem' = mem
        BY <2>9 DEF Connect, Forward
      <3> QED BY <2>0, <2>8, <3>1, <3>2, <3>3
    <2>10. ASSUME NEW j \in jobs, ExecuteUrgent(j)
           PROVE  disk' /\ NothingOlder'
      <3>1. [j EXCEPT !.stage = "executed"].stage = "executed"
        BY <1>1 DEF Tables, Job
      <3> QED BY <2>8, <2>10, <3>1 DEF ExecuteUrgent
    <2>11. ASSUME NEW j \in jobs, Copy(j)
           PROVE  disk' /\ NothingOlder'
      <3>1. [j EXCEPT !.stage = "copied", !.copy = mem].copy = mem
        BY <1>1 DEF Tables, Job
      <3>2. mem
        BY <2>0, <2>11 DEF Copy
      <3> QED BY <2>8, <2>11, <3>1, <3>2 DEF Copy
    <2>12. CASE Flush \/ Stop
      BY <1>1, <2>0, <2>12 DEF Flush, Stop, LastFlush, Serving, NothingOlder
    <2>13. CASE ClearDirty \/ Load \/ Listen \/ UNCHANGED vars
      BY <1>1, <2>0, <2>13 DEF ClearDirty, Load, Listen, vars, NothingOlder
    <2>14. CASE Exit \/ Kill
      <3>1. /\ jobs' = {[j EXCEPT !.route = IF @ = "daemon" THEN "cut" ELSE @,
                                  !.stage = "sent", !.copy = FALSE] : j \in jobs}
            /\ life' = "down" /\ disk' = disk
        BY <2>14 DEF Exit, Kill, Gone
      <3>2. \A i \in jobs' : i.stage = "sent"
        BY <1>1, <3>1, JobMoves
      <3> QED BY <1>1, <3>1, <3>2 DEF NothingOlder
    <2> QED BY <1>1, <2>2, <2>3, <2>4, <2>6, <2>7, <2>9, <2>10, <2>11, <2>12, <2>13, <2>14
            DEF Next
  <1>2. Tables /\ Staged /\ [Next]_vars =>
          [NothingOlder /\ (disk \/ (life = "up" /\ life' = "leaving"))
             => disk' /\ NothingOlder']_vars
    BY <1>1
  <1>3. Init => Staged
    BY DEF Init, Staged
  <1> QED BY <1>2, <1>3, StagedStep, ChannelsHold, PTL DEF Spec, SettledSurvives

=============================================================================

------------------------------ MODULE Capture ------------------------------
(***************************************************************************)
(* One capturing thread and the provider it talks to: the lease loop of    *)
(* src/actions/worker.ts (runThread, installDurability), captureGame with  *)
(* openSessionWithRetry and playRound in src/oaks.ts, command in           *)
(* src/src/protocol.ts and, without a runtime, the command line.           *)
(*                                                                         *)
(* The provider is the environment: it sells, answers and fails as it      *)
(* likes, out of the constants. An error is known by its class, the least  *)
(* that the handlers tell apart. file is the history of the game on the    *)
(* server; what Mongo has more (DualWrite models how) is lead.             *)
(***************************************************************************)
EXTENDS Rounds

CONSTANTS
  Setups,       \* how the program is started, and what the price list of the game is like
  Histories,    \* files a game may have
  Offers,       \* [sold, available, boosters, actions, unfinished]: what start may offer
  FirstDraws,   \* [state, granted, win, next, finished, board]: what the frame of a bet may show
  NextDraws,    \* and what the frames after it
  Hints,        \* features the registry declares
  Share,        \* rounds of a mode the coordinator reserves for a lease at most
  Affordable,   \* purchases the trial balance of a ggx session pays for
  Faults,       \* error classes the provider may answer with
  MaxRetries,   \* --max-retries
  MaxNewRounds, \* --rounds
  MaxFrames,    \* 100 in playRound
  Leads,        \* rounds of each mode Mongo may have more than the file
  MaxLeases     \* bound: leases the game is given

Draws == [state : STRING, granted : Int, win : Nat, next : STRING, finished : BOOLEAN, board : Nat]

ASSUME CaptureAssumption ==
  /\ {MaxRetries, MaxLeases, Share} \subseteq Nat
  /\ Leads \subseteq {more \in [DeclaredTypes -> Nat] : more[0] = 0}
  /\ {MaxNewRounds, MaxFrames} \subseteq Nat \ {0}
  /\ FirstDraws \cup NextDraws \subseteq Draws
  /\ \A o \in Offers : IsFiniteSet(o.sold) /\ IsFiniteSet(o.boosters) /\ o.sold \cup o.boosters \subseteq Nat \ {0}
  /\ \A s \in Setups : {s.runtime, s.factor, s.kendoo, s.byMode, s.special} \subseteq BOOLEAN
  /\ IsFiniteSet(Hints) /\ \A h \in Histories : IsFiniteSet(h)

VARIABLES
  setup, phase, leases, stopping,
  file,       \* the documents of the game
  saved,      \* feature-inventory.json as last synchronised
  session,    \* [start, real, failed]: not real when login was answered from the cache,
              \* failed once a play request has failed in it
  round,      \* the frames the provider has played since the last bet
  pending,    \* the unfinished round in memory
  journal,    \* if the next request has a key, and if an answer is kept under it
  restored,   \* the documents this lease has read from the file
  lead,       \* rounds of a mode Mongo had more than the file when the lease began
  counts, targets, inventory, retries, attempt, attempted,
  forms,      \* [omitted, texted]: purchases sent without bet_factor, with the mode as text
  tried,      \* forms each purchase was sent in since the lease began
  refusals,   \* SERVER_ERRORs each purchase met since the lease began, up to 4
  told,       \* the control signal this lease was given
  outcome

book == <<file, saved>>
wire == <<session, round, pending, journal>>
found == <<restored, lead>>
plan == <<counts, targets, inventory>>
tries == <<retries, attempt, attempted>>
shapes == <<forms, tried, refusals>>
vars == <<setup, phase, leases, stopping, book, wire, found, plan, tries, shapes, told, outcome>>

NoRound == [held |-> FALSE, action |-> Spin, frames |-> <<>>]
NoJournal == [key |-> FALSE, cached |-> FALSE]
NoInventory == [print |-> {0}, observed |-> {}, required |-> {}]
NoForms == [omitted |-> {}, texted |-> {}]
NoCounts == [t \in DeclaredTypes |-> 0]
NoSession == [start |-> <<>>, real |-> TRUE, failed |-> FALSE]

Signals == {"ACTIONS_BUDGET", "ACTIONS_RATE_LIMIT", "ACTIONS_HALTED"}
Recoverable(e) ==
  e \in {"SERVER_ERROR", "GAME_REOPENED", "SESSION_UNFINISHED", "HTTP_503", "fetch failed"}
PermanentSession(e) == e \in {"HTTP_404", "HTTP_403"}
RegistrationUnavailable(e) == e \in {"HTTP_404", "GAME_DATA_UNAVAILABLE"}

\* The error "failed n times in a row" quotes the message of the last one and has no class of its own.
Wrapped(e) == IF e \in {"SERVER_ERROR", "GAME_REOPENED"} THEN e ELSE "GAVE_UP"

\* What a request may fail with. The fetch of a thread asks stopped and the gate first and turns
\* a 429 into a signal.
RequestErrors ==
  CASE setup.runtime /\ stopping -> {"ACTIONS_BUDGET"}
    [] setup.runtime /\ ~stopping
         -> (Faults \ {"HTTP_429"}) \cup {"ACTIONS_RATE_LIMIT", "ACTIONS_HALTED"}
    [] OTHER -> Faults
Sends == ~(setup.runtime /\ stopping)
Answered(e) == e \notin {"ACTIONS_BUDGET", "fetch failed"}

Start(offer) ==
  [fields |-> setup.fields, factor |-> setup.factor, kendoo |-> setup.kendoo,
   sold |-> offer.sold, available |-> offer.available, boosters |-> offer.boosters,
   actions |-> offer.actions, unfinished |-> offer.unfinished]

Ggx == setup.source = "ggx"
Required == BaseFeatures \cup inventory.required
Complete == IF setup.byMode THEN RemainingModes(counts, targets) = {}
            ELSE Missing(file, Required) = {}
Playing == phase \in {"loop", "play"}
RoundOpen == pending.frames # <<>> => NextActions(Last(pending.frames)) # {}
\* playRound gives up with the last frame it may ask for, the last of the round or not.
TooLong == Len(pending.frames) > MaxFrames

Init ==
  /\ setup \in Setups /\ file \in Histories /\ saved = NoInventory
  /\ phase = "free" /\ leases = 0 /\ stopping = FALSE /\ told = "none" /\ outcome = "none"
  /\ session = NoSession /\ round = <<>> /\ pending = NoRound /\ journal = NoJournal
  /\ restored = {} /\ lead = NoCounts
  /\ counts = NoCounts /\ targets = NoCounts /\ inventory = NoInventory
  /\ retries = 0 /\ attempt = 0 /\ attempted = 0
  /\ forms = NoForms
  /\ tried = [m \in BuyTypes |-> {}] /\ refusals = [m \in BuyTypes |-> 0]

-----------------------------------------------------------------------------
(* How a lease ends (worker.ts 433-443).                                   *)

Status(e) ==
  CASE e = "ACTIONS_RATE_LIMIT" -> "waiting"
    [] e = "ACTIONS_HALTED" -> "halted"
    [] e = "ACTIONS_BUDGET" -> "paused"
    [] e = "REFUSED" -> "released"
    [] RegistrationUnavailable(e) -> "unavailable"
    [] Recoverable(e) -> "retryable"
    [] e = "LIMIT" -> "incomplete"
    [] OTHER -> "failed"

Leave(status) ==
  /\ phase' = "over" /\ outcome' = status
  /\ stopping' = (stopping \/ ~setup.runtime
                  \/ status \in {"halted", "paused", "released", "failed", "rejected"})

\* The thread keeps going after these, a command that has ended does not.
Told(e) == told' = IF e \in Signals THEN e ELSE told

\* captureGame is left by an error.
LeaveBy(e) == Leave(Status(e)) /\ Told(e)

-----------------------------------------------------------------------------
(* Taking a game.                                                          *)

KeepsRound == journal' = NoJournal /\ UNCHANGED pending
KeepsKey == pending' = NoRound /\ UNCHANGED journal

\* discardPending, acknowledge, and the reset of a new lease.
ClearRequests == pending' = NoRound /\ journal' = NoJournal

Claim ==
  /\ phase = "free" /\ ~stopping /\ leases < MaxLeases
  /\ leases' = leases + 1 /\ phase' = "prepare" /\ told' = "none" /\ outcome' = "none"
  /\ ClearRequests /\ attempt' = 1
  /\ UNCHANGED <<setup, stopping, book, session, round, found, plan, retries, attempted, shapes>>

\* A lease that is given back before captureGame, by done with nothing to synchronise.
GiveBack(status, on, e) ==
  /\ outcome' = status /\ Told(e)
  /\ phase' = IF on THEN "free" ELSE "gone"
  /\ stopping' = (stopping \/ ~on)
  /\ UNCHANGED <<setup, leases, book, wire, found, plan, tries, shapes>>

\* The official entry of the game and its history: what goes wrong here ends the thread unless it
\* is recoverable (worker.ts 390-398); the status of a page is not looked at there.
PrepareFails ==
  /\ phase = "prepare" /\ setup.runtime
  /\ \E e \in RequestErrors :
       LET status == CASE stopping -> "paused"
                       [] ~stopping /\ Recoverable(e) /\ e # "HTTP_503" -> "retryable"
                       [] OTHER -> "failed"
       IN  GiveBack(status, status = "retryable", e)

\* What the link of the old site may fail with, and the page it names.
WxLinkErrors == {"WX_LINK_HTTP_503", "WX_SOURCE_UNAVAILABLE"}
WxPageErrors == {"WX_PAGE_CLOSED", "WX_LAUNCH_HTTP_404"}

\* The link is asked for before the history is read and again after it (handleWxLaunchFailure). A
\* game the site does not have any more does not end the thread, a page that fails or a signal does.
WxFails ==
  /\ setup.source = "wx" /\ phase \in {"prepare", "launch"}
  /\ \E e \in WxLinkErrors \cup (IF phase = "launch" THEN WxPageErrors ELSE {})
              \cup (RequestErrors \cap Signals) :
       LET retryable == e \in {"WX_LINK_HTTP_503", "WX_PAGE_CLOSED"}
       IN  GiveBack(IF retryable THEN "retryable" ELSE "failed",
                    retryable \/ e = "WX_SOURCE_UNAVAILABLE", e)

WxLaunch ==
  /\ phase = "launch" /\ Sends /\ phase' = "login"
  /\ UNCHANGED <<setup, leases, stopping, book, wire, found, plan, tries, shapes, told, outcome>>

\* syncModeCountsFromMongo: the larger of both counts, so what the file has and what Mongo has
\* more, after a flush the server refused. Special modes only.
Synced(known, more) == [t \in DeclaredTypes |-> known[t] + more[t]]

\* captureGame reads the whole file, which must hold nothing but complete rounds of the game, and
\* connects to Mongo, which only the plain command line can do without.
Restore ==
  /\ phase = "prepare" /\ Sends
  /\ restored' = file /\ lead' \in (IF setup.byMode /\ setup.runtime THEN Leads ELSE {NoCounts})
  /\ counts' = Synced(RestoredCounts(file), lead')
  /\ inventory' = saved /\ targets' = NoCounts
  /\ IF setup.byMode /\ \E d \in file : ~ValidRound(d.data)
     THEN LeaveBy("INVALID")
     ELSE \/ /\ phase' = IF setup.source = "wx" THEN "launch" ELSE "login"
             /\ UNCHANGED <<stopping, outcome, told>>
          \/ (setup.runtime \/ Ggx) /\ LeaveBy("MONGO")
  /\ UNCHANGED <<setup, leases, book, wire, tries, shapes>>

-----------------------------------------------------------------------------
(* openSessionWithRetry, before the first round and after a failed one.    *)

LoggingIn == phase \in {"login", "relogin"}

GivesUpOnErrors(e) ==
  e = "SESSION_UNFINISHED" \/ PermanentSession(e) \/ attempt > MaxRetries
\* What another login would not help against, and one login too many.
GivesUp(e) ==
  e \in Signals \cup {"SESSION_UNFINISHED"} \/ PermanentSession(e) \/ attempt > MaxRetries

LoginFails(e) ==
  /\ Told(e)
  /\ IF GivesUp(e) THEN Leave(Status(e)) /\ attempt' = attempt
     ELSE attempt' = attempt + 1 /\ UNCHANGED <<phase, stopping, outcome>>
  /\ UNCHANGED <<setup, leases, book, wire, found, plan, retries, attempted, shapes>>

\* A round that is still held is continued in its own session.
LoggedIn(offer, real) ==
  /\ phase' = IF phase = "login" THEN "enter" ELSE "loop"
  /\ IF pending.held THEN UNCHANGED <<session, round>>
     ELSE /\ session' = [start |-> Start(offer), real |-> real, failed |-> FALSE]
          /\ round' = <<>>
  /\ UNCHANGED <<setup, leases, stopping, book, pending, journal, found, plan, tries, shapes, told, outcome>>

\* A login under the key of a kept answer never reaches the provider.
Login ==
  /\ LoggingIn
  /\ IF journal.cached THEN \E offer \in Offers : LoggedIn(offer, FALSE)
     ELSE \/ \E e \in RequestErrors : LoginFails(e)
          \/ /\ Sends
             /\ \E offer \in Offers :
                  IF offer.unfinished /\ setup.source = "wx" THEN LoginFails("SESSION_UNFINISHED")
                  ELSE LoggedIn(offer, TRUE)

\* From the first session to the first round: the inventory of the game, completed by its
\* history, and the modes of the quota, frozen (oaks.ts 395-428).
NothingRecovered(stock, documents) == stock

Recovered(stock, documents) ==
  LET seen == UNION {Evidence(d.data) : d \in documents}
  IN  [stock EXCEPT !.observed = @ \cup seen, !.required = @ \cup (seen \ {<<"bonus-buy", 0>>})]

Loaded == IF saved.print = Fingerprint(session.start) THEN saved
          ELSE DiscoveredInventory(Hints, session.start)

OfferedTypes ==
  {SpinType(a) : a \in Range(PlayableActions(session.start, Ggx, {}, {}))}

\* reserve_modes: a special lease has no normal rounds to play and a share of the purchases.
Reserved(share) ==
  [t \in DeclaredTypes |-> IF t = 0 THEN counts[t] ELSE Max({counts[t], Min({Targets[t], counts[t] + share})})]

Enter ==
  /\ phase = "enter"
  /\ IF Conflicting(session.start)
     THEN LeaveBy("CONFLICT") /\ UNCHANGED <<book, plan>>
     ELSE /\ inventory' = Recovered(Loaded, file) /\ saved' = inventory'
          /\ UNCHANGED <<file, counts>>
          /\ IF setup.byMode /\ ~(DeclaredTypes \subseteq OfferedTypes)
             THEN LeaveBy("MISSING_DECLARED") /\ UNCHANGED targets
             ELSE /\ targets' \in IF setup.special THEN {Reserved(n) : n \in 0..Share} ELSE {Targets}
                  /\ phase' = "loop" /\ UNCHANGED <<stopping, outcome, told>>
  /\ UNCHANGED <<setup, leases, wire, found, tries, shapes>>

\* syncFiles, reserve_modes or append_batch finds that the lease is gone.
Refused ==
  /\ setup.runtime /\ (phase = "enter" \/ (phase = "play" /\ ~RoundOpen /\ ~TooLong))
  /\ LeaveBy("REFUSED")
  /\ UNCHANGED <<setup, leases, book, wire, found, plan, tries, shapes>>

-----------------------------------------------------------------------------
(* The rounds of a lease (oaks.ts 431-555).                                *)

ReshapedOnce(action) == [forms EXCEPT !.omitted = @ \cup {action.type}]

\* How the purchases are sent after a SERVER_ERROR to one of them.
Reshaped(action) ==
  CASE action.factor -> [forms EXCEPT !.omitted = @ \cup {action.type}]
    [] ~action.factor /\ ~action.text -> [forms EXCEPT !.texted = @ \cup {action.type}]
    [] OTHER -> IF session.start.kendoo THEN forms
                ELSE [forms EXCEPT !.omitted = @ \ {action.type}]

SameRetry == retries
NextRetry == retries + 1

\* The catch block. The command line holds no round in memory, so it drops it in any case.
Fail(e, action, next) ==
  LET bought == e = "SERVER_ERROR" /\ action.name = "buy_spin"
      leaves == e \in Signals \cup {"UNAFFORDABLE"} \/ (Ggx /\ e = "CLIENT_ERROR")
      drops == ~leaves /\ (~setup.runtime \/ Recoverable(e))
      gives == drops /\ NextRetry > MaxRetries
  IN  /\ forms' = IF bought THEN Reshaped(action) ELSE forms
      /\ refusals' = IF bought THEN [refusals EXCEPT ![action.type] = Min({4, @ + 1})] ELSE refusals
      /\ IF drops THEN ClearRequests /\ retries' = NextRetry
         ELSE pending' = next.pending /\ journal' = next.journal /\ retries' = retries
      /\ Told(e)
      /\ CASE gives -> Leave(Status(Wrapped(e))) /\ attempt' = attempt
           [] drops /\ ~gives -> phase' = "relogin" /\ attempt' = 1 /\ UNCHANGED <<stopping, outcome>>
           [] OTHER -> Leave(Status(e)) /\ attempt' = attempt

Here == [pending |-> pending, journal |-> journal]

Available == PlayableActions(session.start, Ggx, forms.omitted, forms.texted)

\* The action of the next round: of the first mode that is missing, or what covers most.
Candidates ==
  IF setup.byMode
  THEN LET next == First(ModeOrder, RemainingModes(counts, targets))
       IN  {a \in Range(Available) : SpinType(a) = next}
  ELSE {ChosenAction(Available, file, restored, Required, Cardinality(file))}
Candidate == First(Available, Candidates)

\* No login makes the trial balance pay for this purchase.
Unaffordable(action) == Ggx /\ action.name = "buy_spin" /\ action.type \notin Affordable

Choose ==
  /\ phase = "loop" /\ (pending.held \/ ~Complete) /\ attempted < MaxNewRounds
  /\ LET error == CASE ~Sends -> "ACTIONS_BUDGET"
                    [] Sends /\ Available = <<>> -> "NO_ACTIONS"
                    [] Sends /\ Available # <<>> /\ ~pending.held /\ Candidates = {} -> "MISSING_MODE"
                    [] OTHER -> IF Unaffordable(Candidate) THEN "UNAFFORDABLE" ELSE "none"
     IN  IF error # "none"
         THEN Fail(error, Spin, Here) /\ UNCHANGED tried
         ELSE /\ phase' = "play"
              /\ pending' = IF pending.held THEN pending
                            ELSE [held |-> TRUE, action |-> Candidate, frames |-> <<>>]
              /\ tried' = IF pending'.action.name = "buy_spin"
                          THEN [tried EXCEPT ![pending'.action.type] =
                                  @ \cup {[factor |-> pending'.action.factor, text |-> pending'.action.text]}]
                          ELSE tried
              /\ UNCHANGED <<stopping, journal, retries, attempt, forms, refusals, told, outcome>>
  /\ UNCHANGED <<setup, leases, book, session, round, found, plan, attempted>>

\* What the provider plays: the bet first, then whatever it offers.
Echo(action) == CASE setup.echo = "none" -> None
                  [] setup.echo = "from zero" /\ action.name = "buy_spin" -> action.mode - 1
                  [] OTHER -> action.mode
Played(draw) ==
  LET frames == pending.frames
      first == frames = <<>>
  IN  [action |-> IF first THEN pending.action.name ELSE CHOOSE a \in NextActions(Last(frames)) : TRUE,
       mode |-> IF first THEN Echo(pending.action) ELSE None,
       ante |-> first /\ pending.action.ante,
       state |-> draw.state, granted |-> draw.granted, board |-> IF first THEN draw.board ELSE 0,
       win |-> draw.win + (IF first THEN 0 ELSE Last(frames).win),
       offers |-> IF draw.next = "none" THEN {"spin", "buy_spin"} ELSE {draw.next},
       finished |-> draw.finished]

\* playRound asks for the next frame; the limit only counts the frames after the first.
Ask ==
  /\ phase = "play" /\ RoundOpen /\ ~TooLong /\ Sends
  /\ \E draw \in IF pending.frames = <<>> THEN FirstDraws ELSE NextDraws :
       /\ round' = IF pending.frames = <<>> THEN <<Played(draw)>> ELSE Append(round, Played(draw))
       /\ pending' = [pending EXCEPT !.frames = Append(@, Played(draw))]
  /\ journal' = [key |-> setup.runtime, cached |-> setup.runtime]
  /\ UNCHANGED <<setup, phase, leases, stopping, book, session, found, plan, tries, shapes, told, outcome>>

\* A stopped thread drops even a round that has just ended: it looks at the clock first.
AskFails ==
  /\ phase = "play" /\ (RoundOpen \/ TooLong \/ ~Sends)
  /\ \E e \in IF TooLong THEN {"TOO_LONG"} ELSE RequestErrors :
       /\ session' = [session EXCEPT !.failed = e # "TOO_LONG"]
       /\ Fail(e, pending.action,
               [pending |-> pending, journal |-> [key |-> setup.runtime, cached |-> setup.runtime /\ Answered(e)]])
  /\ UNCHANGED <<setup, leases, book, round, found, plan, attempted, tried>>

\* playRound has returned: the round is validated, written unless it is already there, and dropped.
Document ==
  [data |-> pending.frames, buy |-> SpinType(pending.action), testOnly |-> FALSE,
   features |-> RoundFeatures(pending.frames, pending.action)]

Settle ==
  /\ phase = "play" /\ ~RoundOpen /\ ~TooLong
  /\ attempted' = attempted + 1
  /\ IF ~ValidRound(pending.frames)
     THEN Fail("INVALID", pending.action, Here) /\ UNCHANGED <<book, counts, inventory>>
     ELSE /\ inventory' = WithObserved(inventory, pending.frames)
          /\ saved' = IF inventory' # inventory THEN inventory' ELSE saved
          /\ IF \E d \in file : Hash(d) = Hash(Document) THEN UNCHANGED <<file, counts>>
             ELSE /\ file' = file \cup {Document}
                  /\ counts' = [counts EXCEPT ![Document.buy] = @ + 1]
          /\ ClearRequests /\ retries' = 0 /\ phase' = "loop"
          /\ UNCHANGED <<stopping, attempt, forms, refusals, told, outcome>>
  /\ round' = <<>>
  /\ UNCHANGED <<setup, leases, session, found, targets, tried>>

\* Enough rounds, or as many as a run may play. The worker then has the game accepted.
Stop ==
  /\ phase = "loop" /\ ((~pending.held /\ Complete) \/ attempted >= MaxNewRounds)
  /\ CASE ~Complete -> LeaveBy("LIMIT")
       [] Complete /\ setup.special -> Leave("shard-complete") /\ UNCHANGED told
       [] OTHER -> Leave(IF ~setup.byMode \/ Valid(file) THEN "accepted" ELSE "rejected") /\ UNCHANGED told
  /\ UNCHANGED <<setup, leases, book, wire, found, plan, tries, shapes>>

-----------------------------------------------------------------------------
(* After captureGame.                                                      *)

\* The local variables of captureGame.
Forgotten ==
  /\ session' = NoSession /\ round' = <<>>
  /\ restored' = {} /\ counts' = NoCounts /\ targets' = NoCounts /\ inventory' = NoInventory
  /\ retries' = 0 /\ attempt' = 0 /\ attempted' = 0
  /\ forms' = NoForms /\ tried' = [m \in BuyTypes |-> {}] /\ refusals' = [m \in BuyTypes |-> 0]

\* The last syncFiles may fail: then nothing of this lease counts as done and the thread ends.
Finish ==
  /\ phase = "over"
  /\ \/ saved' = inventory /\ UNCHANGED <<stopping, outcome>>
     \/ setup.runtime /\ stopping' = TRUE /\ outcome' = "failed" /\ UNCHANGED saved
  /\ phase' = IF stopping' THEN "gone" ELSE "free"
  /\ Forgotten
  /\ UNCHANGED <<setup, leases, file, pending, journal, lead, told>>

\* SIGTERM or the deadline.
Deadline ==
  /\ setup.runtime /\ phase # "gone" /\ stopping' = TRUE
  /\ UNCHANGED <<setup, phase, leases, book, wire, found, plan, tries, shapes, told, outcome>>

Quit ==
  /\ phase = "free" /\ stopping /\ phase' = "gone"
  /\ UNCHANGED <<setup, leases, stopping, book, wire, found, plan, tries, shapes, told, outcome>>

\* The machine goes away; what the thread held in memory goes with it.
Crash ==
  /\ phase \notin {"free", "gone"} /\ phase' = "gone" /\ stopping' = TRUE
  /\ Forgotten /\ ClearRequests
  /\ UNCHANGED <<setup, leases, book, lead, told, outcome>>

\* The next process.
Restart ==
  /\ phase = "gone" /\ leases < MaxLeases /\ phase' = "free" /\ stopping' = FALSE
  /\ ClearRequests
  /\ UNCHANGED <<setup, leases, book, session, round, found, plan, tries, shapes, told, outcome>>

ThreadStep ==
  \/ Claim \/ PrepareFails \/ WxFails \/ Restore \/ WxLaunch \/ Login \/ Enter \/ Refused
  \/ Choose \/ Ask \/ AskFails \/ Settle \/ Stop \/ Finish \/ Quit
Next == ThreadStep \/ Deadline \/ Crash \/ Restart
Spec == Init /\ [][Next]_vars /\ WF_vars(ThreadStep)

-----------------------------------------------------------------------------
(* Properties.                                                             *)

\* What the variables range over.
TypeOK ==
  /\ phase \in {"free", "prepare", "launch", "login", "relogin", "enter", "loop", "play", "over", "gone"}
  /\ leases \in 0..MaxLeases /\ stopping \in BOOLEAN /\ told \in Signals \cup {"none"}
  /\ {counts, targets, lead} \subseteq [DeclaredTypes -> Nat] /\ restored \subseteq file
  /\ attempt \in 0..MaxRetries + 1 /\ retries \in 0..MaxRetries + 1 /\ attempted \in 0..MaxNewRounds
  /\ Len(pending.frames) <= MaxFrames + 1

\* What is written is the round the provider has played, all of it, under the action that was
\* bet on: no frame of an abandoned round, none missing because its answer was lost.
RecordedIsWhole ==
  [][\A d \in file' \ file :
       d.data = round /\ ~session.failed /\ d.data[1].action = pending.action.name]_vars

\* A round whose outcome is unknown is never continued or repeated in its session: every bet and
\* every continuation goes to a session that has answered all its requests, and that comes from
\* the provider and not from a kept answer to another request ("禁止自动重放").
NothingReplayed ==
  [][round' # round /\ round' # <<>> => ~session.failed /\ session.real]_vars

\* After a control signal (budget, rate limit, halt) the lease sends nothing more to the provider.
QuietAfterSignal ==
  [][told # "none" /\ leases' = leases
       => session' \in {session, NoSession} /\ round' \in {round, <<>>}]_vars

\* A purchase the provider refuses with SERVER_ERROR is sent in another form every time, until
\* all that its price list allows were tried. (A ggx session puts the bet_factor back each time.)
PurchaseForms ==
  [factor : IF setup.factor /\ ~setup.kendoo THEN BOOLEAN ELSE {FALSE},
   text : IF setup.fields = {"array"} THEN {TRUE} ELSE BOOLEAN]
FormsExplored ==
  LET m == pending.action.type IN
  phase = "play" /\ pending.action.name = "buy_spin" /\ ~Ggx
    => Cardinality(tried[m]) >= Min({refusals[m] + 1, Cardinality(PurchaseForms)})

\* Nothing but the lead Mongo had when the lease began ever comes between the counts the lease
\* goes by, those a new process would restore from the file and those the acceptance finds in it,
\* whatever number the provider echoes for a mode.
CountsAgree ==
  Playing => counts = Synced(RestoredCounts(file), lead) /\ RestoredCounts(file) = AuditedCounts(file)

\* What the acceptance refuses of a lease that has reached the whole quota is a base game that
\* lacks a win or a loss, which the quota does not ask for, or a mode of which Mongo had the rest:
\* never a line, and never a mode the lease should have gone on with.
CompleteIsAccepted ==
  outcome = "rejected"
    => LineErrors(file) = {} /\ MissingModes(Synced(AuditedCounts(file), lead)) = {}

\* A capture by coverage never ends on an inventory that forgets what the history shows: a new
\* price list starts a new inventory, which the whole file completes.
InventoryCoversHistory ==
  Playing => \A d \in file : Evidence(d.data) \ {<<"bonus-buy", 0>>} \subseteq Required

\* Every lease ends: logins, rounds in a row without success, rounds of a lease and frames of a
\* round are all limited.
LeaseEnds == phase \notin {"free", "gone"} ~> phase \in {"free", "gone"}
=============================================================================

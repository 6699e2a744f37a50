---------------------------- MODULE CaptureProofs ----------------------------
(* Theorems about the thread that captures a game: what it sends after an  *)
(* error, what it stores and what it counts, for every price list, every   *)
(* answer of the provider and every way to start it.                       *)
EXTENDS Capture, FiniteSetTheorems, FunctionTheorems, SequenceTheorems, WellFoundedInduction, TLAPS

-----------------------------------------------------------------------------
(* The ways through the loop.                                              *)

\* Everything but the exchange with the provider and the end of a round.
Phases == {"free", "prepare", "launch", "login", "relogin", "enter", "loop", "play", "over", "gone"}
Ended == {"over", "free", "gone"}

\* A lease that was told to be silent has left captureGame, and what it asked
\* last is only in the way of a bet while the bet is being played.
Heard ==
  /\ leases \in Nat
  /\ told # "none" => phase \in Ended

\* Before a round is bet on, nothing of another one is kept; while one is, its
\* session has answered everything and is the provider's.
Fresh ==
  /\ phase \in {"prepare", "launch", "login", "relogin", "enter", "loop"} =>
       pending = NoRound /\ journal = NoJournal
  /\ phase \in {"enter", "loop", "play"} => ~session.failed /\ session.real

\* A catch block either leaves the lease or drops the round and logs in anew.
LEMMA FailFacts ==
  ASSUME NEW e, NEW action, NEW next, Fail(e, action, next)
  PROVE  /\ \/ phase' = "over"
            \/ phase' = "relogin" /\ pending' = NoRound /\ journal' = NoJournal
         /\ e \in Signals => phase' = "over" /\ told' = e
         /\ e \notin Signals => told' = told
  <1>1. /\ e \in Signals => told' = e
        /\ e \notin Signals => told' = told
    BY DEF Fail, Told
  <1>2. \/ phase' = "over"
        \/ phase' = "relogin" /\ ClearRequests
    BY DEF Fail, Leave
  <1>3. e \in Signals => phase' = "over"
    BY DEF Fail, Leave
  <1> QED BY <1>1, <1>2, <1>3 DEF ClearRequests

LEMMA HeardStep ==
  Heard /\ [Next]_vars => Heard'
  <1> SUFFICES ASSUME Heard, [Next]_vars
               PROVE  Heard'
    OBVIOUS
  <1> USE DEF Heard, Ended
  <1>1. CASE Claim
    BY <1>1 DEF Claim
  <1>2. CASE PrepareFails
    BY <1>2 DEF PrepareFails, GiveBack, Told
  <1>3. CASE WxFails
    BY <1>3 DEF WxFails, GiveBack, Told
  <1>4. CASE Restore
    BY <1>4 DEF Restore, LeaveBy, Leave, Told, Signals
  <1>5. CASE WxLaunch
    BY <1>5 DEF WxLaunch
  <1>6. CASE Login
    BY <1>6 DEF Login, LoginFails, LoggedIn, LoggingIn, Leave, Told, GivesUp
  <1>7. CASE Enter
    BY <1>7 DEF Enter, LeaveBy, Leave, Told, Signals
  <1>8. CASE Refused
    BY <1>8 DEF Refused, LeaveBy, Leave, Told, Signals
  <1>9. CASE Choose
    BY <1>9, FailFacts DEF Choose, Signals
  <1>10. CASE Ask
    BY <1>10 DEF Ask
  <1>11. CASE AskFails
    BY <1>11, FailFacts DEF AskFails
  <1>12. CASE Settle
    BY <1>12, FailFacts DEF Settle
  <1>13. CASE Stop
    BY <1>13 DEF Stop, LeaveBy, Leave, Told
  <1>14. CASE Finish
    BY <1>14 DEF Finish
  <1>15. CASE Quit \/ Deadline \/ Crash \/ Restart \/ UNCHANGED vars
    BY <1>15 DEF Quit, Deadline, Crash, Restart, vars
  <1> QED BY <1>1, <1>2, <1>3, <1>4, <1>5, <1>6, <1>7, <1>8, <1>9, <1>10, <1>11, <1>12, <1>13,
             <1>14, <1>15 DEF Next, ThreadStep

LEMMA FreshStep ==
  Fresh /\ [Next]_vars => Fresh'
  <1> SUFFICES ASSUME Fresh, [Next]_vars
               PROVE  Fresh'
    OBVIOUS
  <1> USE DEF Fresh
  <1>1. CASE Claim
    BY <1>1 DEF Claim, ClearRequests
  <1>2. CASE PrepareFails
    BY <1>2 DEF PrepareFails, GiveBack, wire
  <1>3. CASE WxFails
    BY <1>3 DEF WxFails, GiveBack, wire
  <1>4. CASE Restore
    BY <1>4 DEF Restore, LeaveBy, Leave, wire
  <1>5. CASE WxLaunch
    BY <1>5 DEF WxLaunch, wire
  <1>6. CASE Login
    <2>1. LoggingIn /\ ~journal.cached /\ ~pending.held
      BY <1>6 DEF Login, LoggingIn, NoJournal, NoRound
    <2>2. \/ \E e \in RequestErrors : LoginFails(e)
          \/ LoginFails("SESSION_UNFINISHED")
          \/ \E offer \in Offers : LoggedIn(offer, TRUE)
      BY <1>6, <2>1 DEF Login
    <2>3. ASSUME NEW e, LoginFails(e)
          PROVE  Fresh'
      BY <2>1, <2>3 DEF LoginFails, Leave, wire, LoggingIn
    <2>4. ASSUME NEW offer \in Offers, LoggedIn(offer, TRUE)
          PROVE  Fresh'
      BY <2>1, <2>4 DEF LoggedIn, LoggingIn
    <2> QED BY <2>2, <2>3, <2>4
  <1>7. CASE Enter
    BY <1>7 DEF Enter, LeaveBy, Leave, wire
  <1>8. CASE Refused
    BY <1>8 DEF Refused, LeaveBy, Leave, wire
  <1>9. CASE Choose
    <2>1. \/ \E e : Fail(e, Spin, Here)
          \/ phase' = "play"
      BY <1>9 DEF Choose
    <2>2. phase = "loop" /\ UNCHANGED session
      BY <1>9 DEF Choose
    <2> QED BY <2>1, <2>2, FailFacts
  <1>10. CASE Ask
    BY <1>10 DEF Ask
  <1>11. CASE AskFails
    BY <1>11, FailFacts DEF AskFails
  <1>12. CASE Settle
    BY <1>12, FailFacts DEF Settle, ClearRequests
  <1>13. CASE Stop
    BY <1>13 DEF Stop, LeaveBy, Leave, wire
  <1>14. CASE Finish
    BY <1>14 DEF Finish
  <1>15. CASE Quit \/ Deadline \/ Crash \/ Restart \/ UNCHANGED vars
    BY <1>15 DEF Quit, Deadline, Crash, Restart, vars, wire
  <1> QED BY <1>1, <1>2, <1>3, <1>4, <1>5, <1>6, <1>7, <1>8, <1>9, <1>10, <1>11, <1>12, <1>13,
             <1>14, <1>15 DEF Next, ThreadStep

LEMMA FirstHeard ==
  Init => Heard /\ Fresh
  BY DEF Init, Heard, Fresh

\* A lease that has met the budget, a rate limit or a halt sends the provider
\* nothing more, whichever request met it and whatever it was in the middle of
\* (worker.ts 433-443; oaks.ts 53-69, 110-127 and 513-522).
THEOREM SignalsEndTheLease == Spec => QuietAfterSignal
  <1> DEFINE Quiet ==
        told # "none" /\ leases' = leases
          => session' \in {session, NoSession} /\ round' \in {round, <<>>}
  <1>1. Heard /\ [Next]_vars => Quiet
    <2> SUFFICES ASSUME Heard, [Next]_vars, told # "none", leases' = leases
                 PROVE  session' \in {session, NoSession} /\ round' \in {round, <<>>}
      OBVIOUS
    <2>1. phase \in Ended /\ leases \in Nat
      BY DEF Heard
    <2>2. \/ Claim \/ Finish \/ Quit \/ Deadline \/ Crash \/ Restart \/ UNCHANGED vars
      BY <2>1 DEF Next, ThreadStep, Ended, PrepareFails, WxFails, Restore, WxLaunch, Login,
                  LoggingIn, Enter, Refused, Choose, Ask, AskFails, Settle, Stop
    <2>3. ~Claim
      BY <2>1 DEF Claim
    <2> QED BY <2>2, <2>3 DEF Finish, Quit, Deadline, Crash, Restart, Forgotten, vars, wire
  <1>2. Spec => []Heard
    BY FirstHeard, HeardStep, PTL DEF Spec
  <1> HIDE DEF Quiet
  <1>3. Spec => [][Quiet]_vars
    BY <1>1, <1>2, PTL DEF Spec
  <1> QED BY <1>3 DEF QuietAfterSignal, Quiet

\* No bet and no continuation goes to a session in which a request has failed,
\* nor to one that was opened by the kept answer to another request: every way
\* on from a failure drops the round with its key and logs in
\* (oaks.ts 513-548; protocol.ts 92-127; worker.ts 163-182).
THEOREM RoundsAreNotReplayed == Spec => NothingReplayed
  <1> DEFINE New == round' # round /\ round' # <<>> => ~session.failed /\ session.real
  <1>1. Fresh /\ [Next]_vars => New
    <2> SUFFICES ASSUME Fresh, [Next]_vars, round' # round, round' # <<>>
                 PROVE  ~session.failed /\ session.real
      OBVIOUS
    <2>1. Ask
      BY DEF Next, ThreadStep, Claim, PrepareFails, GiveBack, WxFails, Restore, WxLaunch, Login,
             LoginFails, LoggedIn, Enter, Refused, Choose, AskFails, Settle, Stop, Finish,
             Forgotten, Quit, Deadline, Crash, Restart, wire, vars
    <2> QED BY <2>1 DEF Ask, Fresh
  <1>2. Spec => []Fresh
    BY FirstHeard, FreshStep, PTL DEF Spec
  <1> HIDE DEF New
  <1>3. Spec => [][New]_vars
    BY <1>1, <1>2, PTL DEF Spec
  <1> QED BY <1>3 DEF NothingReplayed, New

-----------------------------------------------------------------------------
(* Sequences in order.                                                     *)

\* The elements of E that are less than e.
Below(E, e) == {m \in E : m < e}

\* In a finite set of numbers every rank from 0 up is that of an element.
LEMMA Ranks ==
  ASSUME NEW E, IsFiniteSet(E), E \subseteq Nat
  PROVE  /\ Cardinality(E) \in Nat
         /\ \A k \in 0..(Cardinality(E) - 1) : \E e \in E : Cardinality(Below(E, e)) = k
  <1> DEFINE rank == [e \in E |-> Cardinality(Below(E, e))]
             n == Cardinality(E)
  <1>0. n \in Nat
    BY FS_CardinalityType
  <1>1. ASSUME NEW e \in E
        PROVE  /\ IsFiniteSet(Below(E, e))
               /\ Cardinality(Below(E, e)) \in Nat
               /\ Cardinality(Below(E, e)) <= n - 1
    <2>1. IsFiniteSet(E \ {e}) /\ Cardinality(E \ {e}) = n - 1
      BY FS_RemoveElement
    <2>2. Below(E, e) \in SUBSET (E \ {e})
      BY DEF Below
    <2> QED BY <2>1, <2>2, FS_Subset, FS_CardinalityType
  <1>2. ASSUME NEW a \in E, NEW b \in E, a < b
        PROVE  Cardinality(Below(E, a)) < Cardinality(Below(E, b))
    <2>1. IsFiniteSet(Below(E, a) \cup {a})
          /\ Cardinality(Below(E, a) \cup {a}) = Cardinality(Below(E, a)) + 1
      <3>1. a \notin Below(E, a)
        BY DEF Below
      <3> QED BY <1>1, <3>1, FS_AddElement
    <2>2. Below(E, a) \cup {a} \in SUBSET Below(E, b)
      <3>1. \A m \in E : m < a => m < b
        BY <1>2
      <3> QED BY <1>2, <3>1 DEF Below
    <2>3. Cardinality(Below(E, a) \cup {a}) <= Cardinality(Below(E, b))
      BY <1>1, <2>2, FS_Subset
    <2> QED BY <1>1, <2>1, <2>3
  <1>3. ASSUME NEW a \in E, NEW b \in E, Cardinality(Below(E, a)) = Cardinality(Below(E, b))
        PROVE  a = b
    <2>1. ~(a < b) /\ ~(b < a)
      BY <1>1, <1>2, <1>3
    <2>2. a \in Nat /\ b \in Nat
      OBVIOUS
    <2> QED BY <2>1, <2>2
  <1>4. rank \in [E -> 0..(n - 1)]
    BY <1>0, <1>1
  <1>5. \A a, b \in E : rank[a] = rank[b] => a = b
    BY <1>3
  <1>6. rank \in Injection(E, 0..(n - 1))
    <2> HIDE DEF rank
    <2> QED BY <1>4, <1>5, Fun_IsInj
  <1>7. IsFiniteSet(0..(n - 1)) /\ Cardinality(0..(n - 1)) = n
    <2> HIDE DEF n
    <2>1. n - 1 \in Int
      BY <1>0
    <2> QED BY <1>0, <2>1, FS_Interval
  <1>8. rank \in Surjection(E, 0..(n - 1))
    <2> HIDE DEF rank, n
    <2>1. Cardinality(E) = Cardinality(0..(n - 1))
      BY <1>7 DEF n
    <2> QED BY <1>6, <1>7, <2>1, FS_Injection
  <1>9. \A k \in 0..(n - 1) : \E e \in E : rank[e] = k
    <2> HIDE DEF rank, n
    <2> QED BY <1>8, Fun_SurjectionProperties
  <1> QED BY <1>0, <1>9

LEMMA AscendingFacts ==
  ASSUME NEW numbers, IsFiniteSet(numbers), numbers \subseteq Nat
  PROVE  Ascending(numbers) \in Seq(numbers)
  <1> DEFINE up == [i \in 1..Cardinality(numbers) |->
                      CHOOSE n \in numbers : Cardinality(Below(numbers, n)) = i - 1]
  <1>0. Cardinality(numbers) \in Nat
    BY FS_CardinalityType
  <1>1. Ascending(numbers) = up
    BY DEF Ascending, Below
  <1>2. \A i \in 1..Cardinality(numbers) : up[i] \in numbers
    <2> SUFFICES ASSUME NEW i \in 1..Cardinality(numbers)
                 PROVE  up[i] \in numbers
      OBVIOUS
    <2>1. i - 1 \in 0..(Cardinality(numbers) - 1)
      BY <1>0
    <2>2. \E n \in numbers : Cardinality(Below(numbers, n)) = i - 1
      BY <2>1, Ranks
    <2> QED BY <2>2
  <1>3. up = [i \in 1..Cardinality(numbers) |-> up[i]]
    OBVIOUS
  <1> HIDE DEF up
  <1>4. up \in Seq(numbers)
    BY <1>0, <1>2, <1>3
  <1> QED BY <1>1, <1>4

\* A set of natural numbers has a least one.
LEMMA LeastNat ==
  ASSUME NEW T \in SUBSET Nat, T # {}
  PROVE  \E n \in T : \A m \in T : n <= m
  <1> DEFINE R == OpToRel(<, Nat)
  <1>1. IsWellFoundedOn(R, Nat)
    BY NatLessThanWellFounded
  <1>2. \A x, y \in Nat : x < y => <<x, y>> \in R
    BY DEF OpToRel
  <1> HIDE DEF R
  <1>3. PICK n \in T : \A m \in T : ~(<<m, n>> \in R)
    BY <1>1, WFMin
  <1>4. ASSUME NEW m \in T
        PROVE  n <= m
    <2>1. m \in Nat /\ n \in Nat
      OBVIOUS
    <2>2. ~(m < n)
      BY <1>2, <1>3, <2>1
    <2> QED BY <2>1, <2>2
  <1> QED BY <1>4

\* What is found in a sequence is in it and is what was looked for.
LEMMA FirstFacts ==
  ASSUME NEW S, NEW s \in Seq(S), NEW chosen, \E i \in DOMAIN s : s[i] \in chosen
  PROVE  First(s, chosen) \in S \cap chosen
  <1> DEFINE places == {i \in DOMAIN s : s[i] \in chosen}
  <1>1. PICK k \in places : \A i \in places : k <= i
    <2>1. places \in SUBSET Nat /\ places # {}
      OBVIOUS
    <2> HIDE DEF places
    <2> QED BY <2>1, LeastNat
  <1>2. k \in DOMAIN s /\ s[k] \in chosen /\ \A j \in 1..k - 1 : s[j] \notin chosen
    <2>1. k \in DOMAIN s /\ s[k] \in chosen /\ DOMAIN s = 1..Len(s) /\ Len(s) \in Nat
      OBVIOUS
    <2>2. ASSUME NEW j \in 1..k - 1, s[j] \in chosen
          PROVE  FALSE
      <3>1. j \in DOMAIN s /\ ~(k <= j)
        BY <2>1
      <3>2. j \in places
        BY <2>2, <3>1
      <3> QED BY <1>1, <3>1, <3>2
    <2> QED BY <2>1, <2>2
  <1> DEFINE P(i) == s[i] \in chosen /\ \A j \in 1..i - 1 : s[j] \notin chosen
             at == CHOOSE i \in DOMAIN s : P(i)
  <1>3. at \in DOMAIN s /\ P(at)
    <2>1. \E i \in DOMAIN s : P(i)
      BY <1>2
    <2> HIDE DEF P
    <2> QED BY <2>1
  <1>4. First(s, chosen) = s[at]
    BY DEF First
  <1> HIDE DEF at
  <1> QED BY <1>3, <1>4

-----------------------------------------------------------------------------
(* What a session sells.                                                   *)

PlayActions ==
  {Spin} \cup {Boost(b) : b \in Nat \ {0}}
  \cup {Buy(m, f, t) : m \in Nat \ {0}, f \in BOOLEAN, t \in BOOLEAN}

\* The session is of the game: its price list is one the provider may give.
Started == \E o \in Offers : session.start = Start(o)

LEMMA SoldFacts ==
  ASSUME setup \in Setups, Started
  PROVE  /\ IsFiniteSet(OnSale(session.start)) /\ OnSale(session.start) \subseteq Nat \ {0}
         /\ IsFiniteSet(session.start.boosters) /\ session.start.boosters \subseteq Nat \ {0}
         /\ session.start.factor \in BOOLEAN
  <1> DEFINE start == session.start
  <1>1. PICK o \in Offers : start = Start(o)
    BY DEF Started
  <1>2. /\ start.sold = o.sold /\ start.boosters = o.boosters
        /\ start.factor = setup.factor
    BY <1>1 DEF Start
  <1>3. /\ IsFiniteSet(o.sold) /\ IsFiniteSet(o.boosters)
        /\ o.sold \subseteq Nat \ {0} /\ o.boosters \subseteq Nat \ {0}
    BY CaptureAssumption
  <1>4. setup.factor \in BOOLEAN
    BY CaptureAssumption
  <1> HIDE DEF start
  <1>5. Cardinality(o.sold) \in Nat /\ IsFiniteSet(1..Cardinality(o.sold))
    BY <1>3, FS_CardinalityType, FS_Interval
  <1>6. \/ BuyModes(start) = {}
        \/ BuyModes(start) = 1..Cardinality(o.sold)
        \/ BuyModes(start) \subseteq o.sold
    BY <1>2 DEF BuyModes
  <1>7. OnSale(start) \subseteq BuyModes(start)
    BY DEF OnSale
  <1>8. OnSale(start) \in SUBSET (1..Cardinality(o.sold)) \/ OnSale(start) \in SUBSET o.sold
    BY <1>6, <1>7
  <1>9. IsFiniteSet(OnSale(start))
    BY <1>3, <1>5, <1>8, FS_Subset
  <1>10. OnSale(start) \subseteq Nat \ {0}
    BY <1>3, <1>5, <1>8
  <1> QED BY <1>2, <1>3, <1>4, <1>9, <1>10 DEF start

\* A purchase as the session has it sent (applyGgxSpinParams, buildPlayableActions).
SentFactor(m) == session.start.factor /\ (Ggx \/ (~session.start.kendoo /\ m \notin forms.omitted))
SentText(m) == session.start.fields = {"array"} \/ m \in forms.texted
OnOffer ==
  {Spin} \cup {Boost(b) : b \in session.start.boosters}
  \cup {Buy(m, SentFactor(m), SentText(m)) : m \in OnSale(session.start)}

LEMMA OfferFacts ==
  ASSUME setup \in Setups, Started
  PROVE  OnOffer \subseteq PlayActions
  <1>1. \A m \in OnSale(session.start) : m \in Nat \ {0} /\ SentFactor(m) \in BOOLEAN /\ SentText(m) \in BOOLEAN
    BY SoldFacts DEF SentFactor, SentText
  <1>2. session.start.boosters \subseteq Nat \ {0}
    BY SoldFacts
  <1> QED BY <1>1, <1>2 DEF OnOffer, PlayActions

LEMMA AvailableFacts ==
  ASSUME setup \in Setups, Started
  PROVE  Available \in Seq(OnOffer)
  <1> DEFINE start == session.start
             boosters == Ascending(start.boosters)
             buys == Ascending(OnSale(start))
             boosted == [i \in DOMAIN boosters |-> Boost(boosters[i])]
             bought == [i \in DOMAIN buys |-> Buy(buys[i], SentFactor(buys[i]), SentText(buys[i]))]
  <1>1. boosters \in Seq(start.boosters) /\ buys \in Seq(OnSale(start))
    <2>1. start.boosters \subseteq Nat /\ OnSale(start) \subseteq Nat
      BY SoldFacts
    <2> QED BY <2>1, SoldFacts, AscendingFacts
  <1> HIDE DEF boosters, buys
  <1>2. DOMAIN boosters = 1..Len(boosters) /\ DOMAIN buys = 1..Len(buys)
    BY <1>1
  <1>3. boosted \in Seq(OnOffer)
    <2>1. \A i \in 1..Len(boosters) : boosted[i] \in OnOffer
      BY <1>1, <1>2 DEF OnOffer
    <2>2. boosted = [i \in 1..Len(boosters) |-> boosted[i]]
      BY <1>2
    <2> HIDE DEF boosted
    <2> QED BY <1>1, <2>1, <2>2
  <1>4. bought \in Seq(OnOffer)
    <2>1. \A i \in 1..Len(buys) : bought[i] \in OnOffer
      BY <1>1, <1>2 DEF OnOffer
    <2>2. bought = [i \in 1..Len(buys) |-> bought[i]]
      BY <1>2
    <2> HIDE DEF bought
    <2> QED BY <1>1, <2>1, <2>2
  <1>5. <<Spin>> \in Seq(OnOffer) /\ <<>> \in Seq(OnOffer)
    BY DEF OnOffer
  <1>6. Available =
          (IF "spin" \in start.actions THEN <<Spin>> \o boosted ELSE <<>>)
          \o (IF "buy_spin" \in start.actions THEN bought ELSE <<>>)
    BY DEF Available, PlayableActions, boosters, buys, SentFactor, SentText
  <1> HIDE DEF boosted, bought
  <1>7. <<Spin>> \o boosted \in Seq(OnOffer)
    BY <1>3, <1>5
  <1>8. (IF "spin" \in start.actions THEN <<Spin>> \o boosted ELSE <<>>) \in Seq(OnOffer)
    BY <1>5, <1>7
  <1>9. (IF "buy_spin" \in start.actions THEN bought ELSE <<>>) \in Seq(OnOffer)
    BY <1>4, <1>5
  <1> QED BY <1>6, <1>8, <1>9

\* Whatever the frames, they are evidence of finitely many features.
LEMMA EvidenceIsFinite ==
  ASSUME NEW frames
  PROVE  IsFiniteSet(Evidence(frames))
  <1> DEFINE all == {<<"hold-and-win", 0>>, <<"free-spins", 0>>, <<"respin", 0>>, <<"free-retrigger", 0>>,
                     <<"bonus-buy", 0>>, <<"buy-bonus", frames[1].mode>>, <<"booster", frames[1].mode>>}
  <1>1. Evidence(frames) \in SUBSET all
    BY DEF Evidence
  <1>2. IsFiniteSet(all)
    <2>1. \A S, T : IsFiniteSet(S) /\ IsFiniteSet(T) => IsFiniteSet(S \cup T)
      BY FS_Union
    <2>2. \A x : IsFiniteSet({x})
      BY FS_Singleton
    <2>3. ASSUME NEW a, NEW b PROVE IsFiniteSet({a, b})
      <3>1. {a, b} = {a} \cup {b}
        OBVIOUS
      <3>2. IsFiniteSet({a} \cup {b})
        BY <2>1, <2>2
      <3> QED BY <3>1, <3>2
    <2>4. ASSUME NEW a, NEW b, NEW c, NEW d PROVE IsFiniteSet({a, b, c, d})
      <3>1. {a, b, c, d} = {a, b} \cup {c, d}
        OBVIOUS
      <3>2. IsFiniteSet({a, b} \cup {c, d})
        BY <2>1, <2>3
      <3> QED BY <3>1, <3>2
    <2>5. ASSUME NEW a, NEW b, NEW c, NEW d, NEW e, NEW f, NEW g
          PROVE  IsFiniteSet({a, b, c, d, e, f, g})
      <3>1. {a, b, c, d, e, f, g} = {a, b, c, d} \cup ({e, f} \cup {g})
        OBVIOUS
      <3>2. IsFiniteSet({e, f} \cup {g})
        BY <2>1, <2>2, <2>3
      <3>3. IsFiniteSet({a, b, c, d} \cup ({e, f} \cup {g}))
        BY <2>1, <2>4, <3>2
      <3> QED BY <3>1, <3>3
    <2> QED BY <2>5
  <1> QED BY <1>1, <1>2, FS_Subset

\* Of finitely many things with a score, one has the best.
LEMMA BestScore ==
  ASSUME NEW E, E # {}, NEW bound \in Nat, NEW score \in [E -> 0..bound]
  PROVE  \E a \in E : \A b \in E : score[b] <= score[a]
  <1> DEFINE gaps == {bound - score[a] : a \in E}
  <1>1. gaps \in SUBSET Nat /\ gaps # {}
    OBVIOUS
  <1>2. PICK least \in gaps : \A gap \in gaps : least <= gap
    <2> HIDE DEF gaps
    <2> QED BY <1>1, LeastNat
  <1>3. PICK a \in E : least = bound - score[a]
    OBVIOUS
  <1>4. ASSUME NEW b \in E
        PROVE  score[b] <= score[a]
    <2>1. least <= bound - score[b]
      BY <1>2
    <2>2. score[a] \in 0..bound /\ score[b] \in 0..bound
      OBVIOUS
    <2> QED BY <1>3, <2>1, <2>2
  <1> QED BY <1>4

\* The action to play is one of those on sale.
LEMMA ChosenFacts ==
  ASSUME NEW S, NEW actions \in Seq(S), actions # <<>>,
         NEW documents, NEW restored_, NEW required, IsFiniteSet(required), NEW sequence \in Nat
  PROVE  ChosenAction(actions, documents, restored_, required, sequence) \in Range(actions)
  <1> DEFINE offered == Range(actions)
             spins == {a \in offered : a.name = "spin" /\ ~a.ante}
             base == IF spins # {} THEN First(actions, spins) ELSE actions[1]
             missing == Missing(documents, required)
             special == {a \in offered : FeatureKey(a) # <<"spin", 0>>}
             directed == {a \in special : FeatureKey(a) \in missing}
             Score(a) == Cardinality((missing \ BaseFeatures) \cap Observed(documents, restored_, FeatureKey(a)))
             leading == {a \in special : \A b \in special : Score(b) <= Score(a)}
             best == First(actions, leading)
             places == Ascending({i \in DOMAIN actions : actions[i] \in special})
             turn == sequence % (Len(places) + 1)
  <1>1. actions \in Seq(offered) /\ DOMAIN actions = 1..Len(actions) /\ Len(actions) \in Nat \ {0}
    <2>1. DOMAIN actions = 1..Len(actions) /\ Len(actions) \in Nat
      OBVIOUS
    <2>2. Len(actions) # 0
      BY EmptySeq
    <2>3. \A i \in 1..Len(actions) : actions[i] \in offered
      BY <2>1 DEF Range
    <2>4. actions = [i \in 1..Len(actions) |-> actions[i]]
      BY <2>1
    <2> HIDE DEF offered
    <2> QED BY <2>1, <2>2, <2>3, <2>4
  <1>2. ASSUME NEW chosen \in SUBSET offered, chosen # {}
        PROVE  First(actions, chosen) \in offered /\ First(actions, chosen) \in chosen
    <2>1. \E i \in DOMAIN actions : actions[i] \in chosen
      BY <1>2 DEF Range
    <2> HIDE DEF offered
    <2> QED BY <1>1, <2>1, FirstFacts
  <1>3. base \in offered
    <2>1. actions[1] \in offered
      BY <1>1
    <2>2. spins \in SUBSET offered
      OBVIOUS
    <2> HIDE DEF offered, spins
    <2> QED BY <1>2, <2>1, <2>2
  <1>4. directed # {} => First(actions, directed) \in offered
    <2>1. directed \in SUBSET offered
      OBVIOUS
    <2> HIDE DEF offered, directed
    <2> QED BY <1>2, <2>1
  <1>5. special # {} => best \in offered
    <2> SUFFICES ASSUME special # {}
                 PROVE  best \in offered
      OBVIOUS
    <2>1. IsFiniteSet(missing)
      <3>1. missing \in SUBSET required
        BY DEF Missing
      <3> QED BY <3>1, FS_Subset
    <2>2. \A T : IsFiniteSet((missing \ BaseFeatures) \cap T)
                /\ Cardinality((missing \ BaseFeatures) \cap T) <= Cardinality(missing)
                /\ Cardinality((missing \ BaseFeatures) \cap T) \in Nat
      <3> SUFFICES ASSUME NEW T
                   PROVE  IsFiniteSet((missing \ BaseFeatures) \cap T)
                          /\ Cardinality((missing \ BaseFeatures) \cap T) <= Cardinality(missing)
                          /\ Cardinality((missing \ BaseFeatures) \cap T) \in Nat
        OBVIOUS
      <3> HIDE DEF missing
      <3>1. (missing \ BaseFeatures) \cap T \in SUBSET missing
        OBVIOUS
      <3> QED BY <2>1, <3>1, FS_Subset, FS_CardinalityType
    <2> DEFINE bound == Cardinality(missing)
               score == [a \in special |-> Score(a)]
    <2>3. bound \in Nat
      BY <2>1, FS_CardinalityType
    <2>4. score \in [special -> 0..bound]
      <3>1. \A a \in special : Score(a) \in Nat /\ Score(a) <= bound
        BY <2>2
      <3> HIDE DEF Score, bound, special
      <3> QED BY <2>3, <3>1
    <2>5. \E a \in special : \A b \in special : score[b] <= score[a]
      <3> HIDE DEF score, bound, special
      <3> QED BY <2>3, <2>4, BestScore
    <2>6. leading # {}
      <3> HIDE DEF Score, special
      <3> QED BY <2>5
    <2>7. leading \in SUBSET offered
      <3> HIDE DEF Score
      <3> QED OBVIOUS
    <2> HIDE DEF leading, offered
    <2> QED BY <1>2, <2>6, <2>7
  <1>6. turn # 0 => actions[places[turn]] \in offered
    <2> DEFINE at == {i \in DOMAIN actions : actions[i] \in special}
    <2>1. at \in SUBSET (1..Len(actions)) /\ at \subseteq Nat
      BY <1>1
    <2>2. IsFiniteSet(at)
      <3>1. IsFiniteSet(1..Len(actions))
        BY <1>1, FS_Interval
      <3> HIDE DEF at
      <3> QED BY <2>1, <3>1, FS_Subset
    <2>3. places \in Seq(at)
      <3>1. places = Ascending(at)
        OBVIOUS
      <3> HIDE DEF at, places
      <3> QED BY <2>1, <2>2, <3>1, AscendingFacts
    <2> HIDE DEF at, places
    <2>4. turn \in 0..Len(places)
      BY <2>3
    <2>5. turn # 0 => places[turn] \in at
      <3> HIDE DEF turn
      <3> QED BY <2>3, <2>4
    <2>6. \A i \in at : actions[i] \in offered
      BY <2>1, <1>1
    <2> QED BY <2>5, <2>6
  <1>7. ChosenAction(actions, documents, restored_, required, sequence) =
          CASE missing \cap BaseFeatures # {} -> base
            [] missing \cap BaseFeatures = {} /\ directed # {} -> First(actions, directed)
            [] missing \cap BaseFeatures = {} /\ directed = {} /\ missing # {} /\ special # {}
                 -> IF Score(best) > 0 THEN best ELSE IF turn = 0 THEN base ELSE actions[places[turn]]
            [] OTHER -> base
    BY DEF ChosenAction
  <1> HIDE DEF offered, spins, base, missing, special, directed, Score, leading, best, places, turn
  <1>8. ChosenAction(actions, documents, restored_, required, sequence) \in
          {base} \cup (IF directed # {} THEN {First(actions, directed)} ELSE {})
          \cup (IF special # {} THEN {best} ELSE {})
          \cup (IF turn # 0 THEN {actions[places[turn]]} ELSE {})
    BY <1>7
  <1>9. ChosenAction(actions, documents, restored_, required, sequence) \in offered
    BY <1>3, <1>4, <1>5, <1>6, <1>8
  <1> QED BY <1>9 DEF offered

-----------------------------------------------------------------------------
(* What is played.                                                         *)

Names == {"spin", "buy_spin"} \cup STRING
Frame ==
  [action : Names, mode : Int, ante : BOOLEAN, state : STRING, granted : Int, board : Nat,
   win : Nat, offers : SUBSET Names, finished : BOOLEAN]

LEMMA ActionFacts ==
  ASSUME NEW action \in PlayActions
  PROVE  action.name \in Names /\ action.mode \in Nat /\ action.ante \in BOOLEAN
  <1>1. CASE action = Spin
    BY <1>1 DEF Spin, Names
  <1>2. ASSUME NEW b \in Nat \ {0}, action = Boost(b)
        PROVE  action.name \in Names /\ action.mode \in Nat /\ action.ante \in BOOLEAN
    <2>1. action.name = "spin" /\ action.mode = b /\ action.ante = TRUE
      BY <1>2 DEF Boost, Spin
    <2> QED BY <2>1 DEF Names
  <1>3. ASSUME NEW m \in Nat \ {0}, NEW f, NEW t, action = Buy(m, f, t)
        PROVE  action.name \in Names /\ action.mode \in Nat /\ action.ante \in BOOLEAN
    BY <1>3 DEF Buy, Names
  <1> QED BY <1>1, <1>2, <1>3 DEF PlayActions

\* The frame answers a bet on the action.
Bet(frame, action) ==
  frame.action = action.name /\ frame.mode = Echo(action) /\ frame.ante = action.ante

\* A stored round is found to be of the mode it was played as, whether the
\* provider echoes the mode, the mode counted from 0 or none.
LEMMA TypeFound ==
  ASSUME NEW action \in PlayActions, NEW frames, Bet(frames[1], action)
  PROVE  RoundSpinType(frames, SpinType(action)) = SpinType(action)
  <1> DEFINE first == frames[1]
             heard == [Spin EXCEPT !.name = first.action, !.mode = first.mode, !.ante = first.ante]
  <1>2. RoundSpinType(frames, SpinType(action)) =
          LET detected == SpinType(heard)
              renumbered == first.action = "buy_spin" /\ SpinType(action) > 0
                            /\ first.mode \in {0, SpinType(action) - 1}
          IN  CASE renumbered -> SpinType(action)
                [] ~renumbered /\ detected > 0 -> detected
                [] ~renumbered /\ detected = 0 /\ first.action = "spin"
                     -> IF SpinType(action) > BoosterOffset THEN SpinType(action) ELSE 0
                [] OTHER -> SpinType(action)
    BY DEF RoundSpinType
  <1>3. first.action = action.name /\ first.mode = Echo(action) /\ first.ante = action.ante
    BY DEF Bet
  <1> HIDE DEF first
  <1>4. heard.name = first.action /\ heard.mode = first.mode /\ heard.ante = first.ante /\ heard.type = 0
    <2>1. DOMAIN Spin = {"name", "mode", "ante", "type", "factor", "text"} /\ Spin.type = 0
      BY DEF Spin
    <2> QED BY <2>1
  <1> HIDE DEF heard
  <1>5. CASE action = Spin
    <2>1. action.name = "spin" /\ action.mode = 0 /\ action.ante = FALSE /\ action.type = 0
      BY <1>5 DEF Spin
    <2>2. SpinType(action) = 0
      BY <2>1 DEF SpinType
    <2>3. first.mode \in {0, -1} /\ first.action = "spin" /\ first.ante = FALSE
      BY <1>3, <2>1 DEF Echo, None
    <2>4. SpinType(heard) = 0
      BY <1>4, <2>3 DEF SpinType
    <2> QED BY <1>2, <2>2, <2>3, <2>4 DEF BoosterOffset
  <1>6. ASSUME NEW b \in Nat \ {0}, action = Boost(b)
        PROVE  RoundSpinType(frames, SpinType(action)) = SpinType(action)
    <2>1. action.name = "spin" /\ action.mode = b /\ action.ante = TRUE /\ action.type = 0
      BY <1>6 DEF Boost, Spin
    <2>2. SpinType(action) = BoosterOffset + b
      BY <2>1 DEF SpinType, BoosterOffset
    <2>3. first.mode \in {b, -1} /\ first.action = "spin" /\ first.ante = TRUE
      BY <1>3, <2>1 DEF Echo, None
    <2>4. SpinType(heard) = IF first.mode = b THEN BoosterOffset + b ELSE 0
      BY <1>4, <2>3 DEF SpinType, BoosterOffset
    <2> QED BY <1>2, <2>2, <2>3, <2>4 DEF BoosterOffset
  <1>7. ASSUME NEW m \in Nat \ {0}, NEW f, NEW t, action = Buy(m, f, t)
        PROVE  RoundSpinType(frames, SpinType(action)) = SpinType(action)
    <2>1. action.name = "buy_spin" /\ action.mode = m /\ action.ante = FALSE /\ action.type = m
      BY <1>7 DEF Buy
    <2>2. SpinType(action) = m
      BY <2>1 DEF SpinType
    <2>3. first.mode \in {m, m - 1, -1} /\ first.action = "buy_spin"
      BY <1>3, <2>1 DEF Echo, None
    <2>4. SpinType(heard) = IF first.mode > 0 THEN first.mode ELSE 0
      BY <1>4, <2>3 DEF SpinType
    <2> QED BY <1>2, <2>2, <2>3, <2>4
  <1> QED BY <1>5, <1>6, <1>7 DEF PlayActions

\* From the session on, a lease has a price list of the game; a round it plays
\* is one bet on an action of that list, and what memory holds of it is what
\* the provider has played.
InSession ==
  /\ setup \in Setups
  /\ phase \in {"enter", "loop", "play"} => Started
  /\ phase \in {"enter", "loop"} => round = <<>>
  /\ phase = "play" =>
       /\ pending = [held |-> pending.held, action |-> pending.action, frames |-> round]
       /\ pending.action \in PlayActions
       /\ round \in Seq(Frame)
       /\ round # <<>> => Bet(round[1], pending.action)

\* An inventory is finite and requires what it has seen.
Stock(stock) ==
  /\ stock = [print |-> stock.print, observed |-> stock.observed, required |-> stock.required]
  /\ IsFiniteSet(stock.required)
  /\ stock.observed \ {<<"bonus-buy", 0>>} \subseteq stock.required
Stocked == Stock(saved) /\ Stock(inventory) /\ IsFiniteSet(file)

LEMMA CandidateFacts ==
  ASSUME setup \in Setups, Started, Stocked, Available # <<>>, Candidates # {}
  PROVE  Candidate \in OnOffer /\ Candidate \in PlayActions
  <1>1. Available \in Seq(OnOffer)
    BY AvailableFacts
  <1>2. Candidates \subseteq Range(Available)
    <2>1. CASE setup.byMode
      BY <2>1 DEF Candidates
    <2>2. CASE ~setup.byMode
      <3>1. IsFiniteSet(Required)
        <4>1. IsFiniteSet(BaseFeatures)
          <5>1. BaseFeatures = {Loss} \cup {Win}
            BY DEF BaseFeatures
          <5> QED BY <5>1, FS_Singleton, FS_Union
        <4>2. IsFiniteSet(inventory.required)
          BY DEF Stocked, Stock
        <4> QED BY <4>1, <4>2, FS_Union DEF Required
      <3>2. Cardinality(file) \in Nat
        BY FS_CardinalityType DEF Stocked
      <3> QED BY <1>1, <2>2, <3>1, <3>2, ChosenFacts DEF Candidates
    <2> QED BY <2>1, <2>2
  <1>3. \E i \in DOMAIN Available : Available[i] \in Candidates
    BY <1>2 DEF Range
  <1>4. Candidate \in OnOffer
    BY <1>1, <1>3, FirstFacts DEF Candidate
  <1> QED BY <1>4, OfferFacts

\* What the provider plays is a frame; its first one answers the bet.
LEMMA PlayedFacts ==
  ASSUME phase = "play", InSession, RoundOpen,
         NEW draw \in FirstDraws \cup NextDraws
  PROVE  /\ Played(draw) \in Frame
         /\ pending.frames = <<>> => Bet(Played(draw), pending.action)
  <1> DEFINE frames == pending.frames
             action == pending.action
             first == frames = <<>>
             named == IF first THEN action.name ELSE CHOOSE a \in NextActions(Last(frames)) : TRUE
             moded == IF first THEN Echo(action) ELSE None
             paid == first /\ action.ante
             boarded == IF first THEN draw.board ELSE 0
             won == draw.win + (IF first THEN 0 ELSE Last(frames).win)
             offered == IF draw.next = "none" THEN {"spin", "buy_spin"} ELSE {draw.next}
  <1>1. draw \in Draws
    BY CaptureAssumption
  <1>2. action \in PlayActions /\ frames \in Seq(Frame)
    BY DEF InSession
  <1>3. action.name \in Names /\ action.mode \in Nat /\ action.ante \in BOOLEAN
    BY <1>2, ActionFacts
  <1>4. ~first => Last(frames) \in Frame
    BY <1>2 DEF Last
  <1>5. named \in Names
    <2>1. ~first => NextActions(Last(frames)) # {}
      BY DEF RoundOpen
    <2>2. ~first => NextActions(Last(frames)) \subseteq Names
      BY <1>4 DEF NextActions, Frame
    <2>3. ~first => (CHOOSE a \in NextActions(Last(frames)) : TRUE) \in Names
      BY <2>1, <2>2
    <2> QED BY <1>3, <2>3
  <1>6. moded \in Int
    <2>1. action.mode \in Int /\ action.mode - 1 \in Int /\ None \in Int
      BY <1>3 DEF None
    <2>2. Echo(action) \in {None, action.mode - 1, action.mode}
      BY DEF Echo
    <2> QED BY <2>1, <2>2
  <1>7. won \in Nat /\ boarded \in Nat
    BY <1>1, <1>4 DEF Draws, Frame
  <1>8. offered \in SUBSET Names
    <2>1. draw.next \in Names /\ "spin" \in Names /\ "buy_spin" \in Names
      BY <1>1 DEF Draws, Names
    <2> QED BY <2>1
  <1>9. paid \in BOOLEAN
    OBVIOUS
  <1>10. Played(draw) = [action |-> named, mode |-> moded, ante |-> paid, state |-> draw.state,
                         granted |-> draw.granted, board |-> boarded, win |-> won,
                         offers |-> offered, finished |-> draw.finished]
    BY DEF Played
  <1>11. first => named = action.name /\ moded = Echo(action) /\ paid = action.ante
    BY <1>3
  <1>12. draw.state \in STRING /\ draw.granted \in Int /\ draw.finished \in BOOLEAN
    BY <1>1 DEF Draws
  <1> HIDE DEF named, moded, paid, boarded, won, offered, first
  <1>13. Played(draw) \in Frame
    BY <1>5, <1>6, <1>7, <1>8, <1>9, <1>10, <1>12 DEF Frame
  <1>14. first => Bet(Played(draw), action)
    BY <1>10, <1>11 DEF Bet
  <1> QED BY <1>13, <1>14 DEF first

LEMMA InSessionStep ==
  Fresh /\ Stocked /\ InSession /\ [Next]_vars => InSession'
  <1> SUFFICES ASSUME Fresh, Stocked, InSession, [Next]_vars
               PROVE  InSession'
    OBVIOUS
  <1> DEFINE Quiet == phase' \in Phases \ {"enter", "loop", "play"}
  <1>0. setup' = setup
    BY DEF Next, ThreadStep, Claim, PrepareFails, GiveBack, WxFails, Restore, WxLaunch, Login,
           LoginFails, LoggedIn, Enter, Refused, Choose, Ask, AskFails, Settle, Stop, Finish,
           Quit, Deadline, Crash, Restart, vars
  <1>1. ASSUME Quiet
        PROVE  InSession'
    BY <1>0, <1>1 DEF InSession
  <1>2. ASSUME UNCHANGED <<phase, session, round, pending>>
        PROVE  InSession'
    BY <1>0, <1>2 DEF InSession, Started, Start, Bet, Echo
  <1>3. CASE Claim \/ PrepareFails \/ WxFails \/ Restore \/ WxLaunch \/ Refused \/ Stop
             \/ Finish \/ Quit \/ Crash \/ Restart
    BY <1>1, <1>3 DEF Claim, PrepareFails, GiveBack, WxFails, Restore, LeaveBy, Leave, WxLaunch,
                      Refused, Stop, Finish, Quit, Crash, Restart, Phases
  <1>4. CASE Deadline \/ UNCHANGED vars
    BY <1>2, <1>4 DEF Deadline, vars, wire
  <1>5. CASE Login
    <2>1. LoggingIn /\ ~journal.cached /\ ~pending.held
      BY <1>5 DEF Login, LoggingIn, NoJournal, NoRound, Fresh
    <2>2. \/ \E e \in RequestErrors : LoginFails(e)
          \/ LoginFails("SESSION_UNFINISHED")
          \/ \E offer \in Offers : LoggedIn(offer, TRUE)
      BY <1>5, <2>1 DEF Login
    <2>3. ASSUME NEW e, LoginFails(e)
          PROVE  InSession'
      <3>1. phase' \in {"over", "login", "relogin"}
        BY <2>1, <2>3 DEF LoginFails, Leave, LoggingIn
      <3> QED BY <1>1, <3>1 DEF Phases
    <2>4. ASSUME NEW offer \in Offers, LoggedIn(offer, TRUE)
          PROVE  InSession'
      <3>1. phase' \in {"enter", "loop"} /\ session'.start = Start(offer) /\ round' = <<>>
        BY <2>1, <2>4 DEF LoggedIn
      <3>2. Start(offer)' = Start(offer)
        BY <1>0 DEF Start
      <3>3. Started'
        BY <3>1, <3>2 DEF Started
      <3> QED BY <1>0, <3>1, <3>3 DEF InSession
    <2> QED BY <2>2, <2>3, <2>4
  <1>6. CASE Enter
    <2>1. phase = "enter" /\ UNCHANGED <<session, round>> /\ phase' \in {"over", "loop"}
      BY <1>6 DEF Enter, wire, LeaveBy, Leave
    <2>2. Started'
      BY <1>0, <2>1 DEF InSession, Started, Start
    <2> QED BY <1>0, <2>1, <2>2 DEF InSession
  <1>7. CASE Choose
    <2>1. \/ \E e : Fail(e, Spin, Here)
          \/ /\ phase' = "play"
             /\ pending' = IF pending.held THEN pending
                           ELSE [held |-> TRUE, action |-> Candidate, frames |-> <<>>]
             /\ Available # <<>> /\ (pending.held \/ Candidates # {})
      BY <1>7 DEF Choose
    <2>2. phase = "loop" /\ UNCHANGED <<session, round>>
      BY <1>7 DEF Choose
    <2>3. ASSUME NEW e, Fail(e, Spin, Here)
          PROVE  InSession'
      BY <1>1, <2>3, FailFacts DEF Phases
    <2>4. ASSUME phase' = "play", Available # <<>>, pending.held \/ Candidates # {},
                 pending' = IF pending.held THEN pending
                            ELSE [held |-> TRUE, action |-> Candidate, frames |-> <<>>]
          PROVE  InSession'
      <3>1. ~pending.held /\ Started /\ round = <<>>
        BY <2>2 DEF Fresh, NoRound, InSession
      <3>2. Candidate \in PlayActions
        BY <2>4, <3>1, CandidateFacts DEF InSession
      <3>3. /\ pending' = [held |-> TRUE, action |-> Candidate, frames |-> <<>>]
            /\ pending'.action = Candidate
        BY <2>4, <3>1
      <3>4. Started'
        BY <1>0, <2>2, <3>1 DEF Started, Start
      <3>5. round' = <<>> /\ <<>> \in Seq(Frame)
        BY <2>2, <3>1
      <3>6. pending' = [held |-> pending'.held, action |-> pending'.action, frames |-> round']
        BY <3>3, <3>5
      <3> QED BY <1>0, <2>4, <3>2, <3>3, <3>4, <3>5, <3>6 DEF InSession
    <2> QED BY <2>1, <2>3, <2>4
  <1>8. CASE Ask
    <2>1. PICK draw \in FirstDraws \cup NextDraws :
            /\ round' = IF pending.frames = <<>> THEN <<Played(draw)>> ELSE Append(round, Played(draw))
            /\ pending' = [pending EXCEPT !.frames = Append(@, Played(draw))]
      BY <1>8 DEF Ask
    <2>2. phase = "play" /\ phase' = "play" /\ RoundOpen /\ UNCHANGED session
      BY <1>8 DEF Ask
    <2>3. Played(draw) \in Frame /\ (pending.frames = <<>> => Bet(Played(draw), pending.action))
      BY <2>2, PlayedFacts
    <2>4. /\ pending = [held |-> pending.held, action |-> pending.action, frames |-> round]
          /\ pending.action \in PlayActions /\ round \in Seq(Frame) /\ pending.frames = round
          /\ round # <<>> => Bet(round[1], pending.action)
      BY <2>2 DEF InSession
    <2>5. round' = Append(round, Played(draw))
      BY <2>1, <2>3, <2>4
    <2>6. round' \in Seq(Frame)
      BY <2>3, <2>4, <2>5
    <2>7. /\ pending' = [held |-> pending'.held, action |-> pending'.action, frames |-> round']
          /\ pending'.action = pending.action
      <3> DEFINE asked == Append(pending.frames, Played(draw))
      <3>1. pending' = [pending EXCEPT !.frames = asked] /\ asked = round'
        BY <2>1, <2>4, <2>5
      <3> HIDE DEF asked
      <3>2. \A h, a, f, g : [[held |-> h, action |-> a, frames |-> f] EXCEPT !.frames = g]
                            = [held |-> h, action |-> a, frames |-> g]
        OBVIOUS
      <3>3. pending' = [held |-> pending.held, action |-> pending.action, frames |-> asked]
        BY <2>4, <3>1, <3>2
      <3> QED BY <3>1, <3>3
    <2>8. Bet(round'[1], pending.action)
      <3>1. CASE round = <<>>
        <4>1. round'[1] = Played(draw)
          BY <2>5, <3>1
        <4> QED BY <2>3, <2>4, <3>1, <4>1
      <3>2. CASE round # <<>>
        <4>1. round'[1] = round[1]
          BY <2>3, <2>4, <2>5, <3>2
        <4> QED BY <2>4, <3>2, <4>1
      <3> QED BY <3>1, <3>2
    <2>9. Bet(round[1], pending.action)'
      BY <1>0, <2>7, <2>8 DEF Bet, Echo
    <2>10. Started'
      BY <1>0, <2>2 DEF InSession, Started, Start
    <2> QED BY <1>0, <2>2, <2>4, <2>6, <2>7, <2>9, <2>10 DEF InSession
  <1>9. CASE AskFails
    <2>1. \E e, next : Fail(e, pending.action, next)
      BY <1>9 DEF AskFails
    <2> QED BY <1>1, <2>1, FailFacts DEF Phases
  <1>10. CASE Settle
    <2>1. CASE Fail("INVALID", pending.action, Here)
      BY <1>1, <2>1, FailFacts DEF Phases
    <2>2. CASE phase' = "loop"
      <3>1. phase = "play" /\ round' = <<>> /\ UNCHANGED session
        BY <1>10 DEF Settle
      <3>2. Started'
        BY <1>0, <3>1 DEF InSession, Started, Start
      <3> QED BY <1>0, <2>2, <3>1, <3>2 DEF InSession
    <2> QED BY <1>10, <2>1, <2>2 DEF Settle
  <1> QED BY <1>3, <1>4, <1>5, <1>6, <1>7, <1>8, <1>9, <1>10 DEF Next, ThreadStep

-----------------------------------------------------------------------------
(* The inventory.                                                          *)

LEMMA ImageIsFinite ==
  ASSUME NEW S, IsFiniteSet(S), NEW f
  PROVE  IsFiniteSet({f[x] : x \in S})
  <1> DEFINE T == {f[x] : x \in S}
             g == [x \in S |-> f[x]]
  <1>1. g \in Surjection(S, T)
    BY Fun_IsSurj
  <1> HIDE DEF g, T
  <1>2. IsFiniteSet(T)
    BY <1>1, FS_Surjection
  <1> QED BY <1>2 DEF T

Covers(stock, documents) ==
  \A d \in documents : Evidence(d.data) \ {<<"bonus-buy", 0>>} \subseteq stock.required

LEMMA GrownFacts ==
  ASSUME NEW stock, Stock(stock), NEW seen, IsFiniteSet(seen)
  PROVE  LET grown == [stock EXCEPT !.observed = @ \cup seen, !.required = @ \cup (seen \ {<<"bonus-buy", 0>>})]
         IN  Stock(grown) /\ grown.required = stock.required \cup (seen \ {<<"bonus-buy", 0>>})
  <1> DEFINE more == stock.required \cup (seen \ {<<"bonus-buy", 0>>})
             known == stock.observed \cup seen
             grown == [stock EXCEPT !.observed = @ \cup seen, !.required = @ \cup (seen \ {<<"bonus-buy", 0>>})]
  <1>1. stock = [print |-> stock.print, observed |-> stock.observed, required |-> stock.required]
    BY DEF Stock
  <1>2. grown = [print |-> stock.print, observed |-> known, required |-> more]
    <2>1. grown = [[stock EXCEPT !.observed = known] EXCEPT !.required = more]
      BY <1>1
    <2> HIDE DEF known, more, grown
    <2>2. \A p, o, r, k : [[print |-> p, observed |-> o, required |-> r] EXCEPT !.observed = k]
                          = [print |-> p, observed |-> k, required |-> r]
      OBVIOUS
    <2>3. \A p, o, r, m : [[print |-> p, observed |-> o, required |-> r] EXCEPT !.required = m]
                          = [print |-> p, observed |-> o, required |-> m]
      OBVIOUS
    <2>4. [stock EXCEPT !.observed = known]
            = [print |-> stock.print, observed |-> known, required |-> stock.required]
      BY <1>1, <2>2
    <2> QED BY <2>1, <2>3, <2>4
  <1>3. IsFiniteSet(more)
    <2>1. IsFiniteSet(stock.required)
      BY DEF Stock
    <2>2. seen \ {<<"bonus-buy", 0>>} \in SUBSET seen
      OBVIOUS
    <2>3. IsFiniteSet(seen \ {<<"bonus-buy", 0>>})
      BY <2>2, FS_Subset
    <2> QED BY <2>1, <2>3, FS_Union
  <1>4. known \ {<<"bonus-buy", 0>>} \subseteq more
    BY DEF Stock
  <1> HIDE DEF known, more, grown
  <1>5. Stock(grown) /\ grown.required = more
    BY <1>2, <1>3, <1>4 DEF Stock
  <1> QED BY <1>5 DEF grown, more

LEMMA RecoveredFacts ==
  ASSUME NEW stock, Stock(stock), NEW documents, IsFiniteSet(documents)
  PROVE  Stock(Recovered(stock, documents)) /\ Covers(Recovered(stock, documents), documents)
  <1> DEFINE shown == [d \in documents |-> Evidence(d.data)]
             shows == {shown[d] : d \in documents}
             seen == UNION shows
  <1>1. seen = UNION {Evidence(d.data) : d \in documents}
    OBVIOUS
  <1>2. \A e \in shows : IsFiniteSet(e)
    BY EvidenceIsFinite
  <1>3. IsFiniteSet(shows)
    <2> HIDE DEF shown
    <2> QED BY ImageIsFinite
  <1>4. IsFiniteSet(seen)
    <2> HIDE DEF shows
    <2> QED BY <1>2, <1>3, FS_UNION
  <1>5. \A d \in documents : Evidence(d.data) \subseteq seen
    BY <1>1
  <1> HIDE DEF shown, shows, seen
  <1> DEFINE grown == [stock EXCEPT !.observed = @ \cup seen, !.required = @ \cup (seen \ {<<"bonus-buy", 0>>})]
  <1>6. Recovered(stock, documents) = grown
    BY <1>1 DEF Recovered
  <1>7. Stock(grown) /\ grown.required = stock.required \cup (seen \ {<<"bonus-buy", 0>>})
    BY <1>4, GrownFacts
  <1> HIDE DEF grown
  <1>8. Covers(grown, documents)
    BY <1>5, <1>7 DEF Covers
  <1> QED BY <1>6, <1>7, <1>8

LEMMA WithObservedFacts ==
  ASSUME NEW stock, Stock(stock), NEW frames
  PROVE  /\ Stock(WithObserved(stock, frames))
         /\ stock.required \subseteq WithObserved(stock, frames).required
         /\ Evidence(frames) \ {<<"bonus-buy", 0>>} \subseteq WithObserved(stock, frames).required
  <1> DEFINE seen == Evidence(frames)
             grown == [stock EXCEPT !.observed = @ \cup seen, !.required = @ \cup (seen \ {<<"bonus-buy", 0>>})]
  <1>1. IsFiniteSet(seen)
    BY EvidenceIsFinite
  <1>2. WithObserved(stock, frames) = IF seen \subseteq stock.observed THEN stock ELSE grown
    BY DEF WithObserved
  <1> HIDE DEF seen
  <1>3. Stock(grown) /\ grown.required = stock.required \cup (seen \ {<<"bonus-buy", 0>>})
    BY <1>1, GrownFacts
  <1> HIDE DEF grown
  <1>4. CASE seen \subseteq stock.observed
    BY <1>2, <1>4 DEF Stock, seen
  <1>5. CASE ~(seen \subseteq stock.observed)
    BY <1>2, <1>3, <1>5 DEF seen
  <1> QED BY <1>4, <1>5

LEMMA LoadedFacts ==
  ASSUME setup \in Setups, Started, Stocked
  PROVE  Stock(Loaded)
  <1> DEFINE start == session.start
             bought == [m \in OnSale(start) |-> <<"buy-bonus", m>>]
             boosted == [b \in start.boosters |-> <<"booster", b>>]
             buys == {bought[m] : m \in OnSale(start)}
             boosts == {boosted[b] : b \in start.boosters}
             required == Hints \cup (buys \cup boosts)
  <1>1. IsFiniteSet(buys) /\ IsFiniteSet(boosts)
    <2>1. IsFiniteSet(OnSale(start)) /\ IsFiniteSet(start.boosters)
      BY SoldFacts
    <2> HIDE DEF bought, boosted, start
    <2> QED BY <2>1, ImageIsFinite
  <1>2. required = Hints \cup {<<"buy-bonus", m>> : m \in OnSale(start)}
                   \cup {<<"booster", b>> : b \in start.boosters}
    OBVIOUS
  <1>3. IsFiniteSet(required)
    <2> HIDE DEF buys, boosts
    <2>1. IsFiniteSet(buys \cup boosts)
      BY <1>1, FS_Union
    <2> QED BY <2>1, FS_Union, CaptureAssumption
  <1> HIDE DEF required
  <1>4. DiscoveredInventory(Hints, start) = [print |-> Fingerprint(start), observed |-> {}, required |-> required]
    BY <1>2 DEF DiscoveredInventory
  <1>5. Stock(DiscoveredInventory(Hints, start))
    BY <1>3, <1>4 DEF Stock
  <1> QED BY <1>5 DEF Loaded, Stocked

\* While a lease plays, the inventory requires what the history shows.
Covering == phase \in {"relogin", "loop", "play"} => Covers(inventory, file)

LEMMA StockStep ==
  Stocked /\ Covering /\ InSession /\ [Next]_vars => Stocked' /\ Covering'
  <1> SUFFICES ASSUME Stocked, Covering, InSession, [Next]_vars
               PROVE  Stocked' /\ Covering'
    OBVIOUS
  <1>0. Stock(NoInventory)
    <2>1. IsFiniteSet({})
      BY FS_EmptySet
    <2> QED BY <2>1 DEF Stock, NoInventory
  <1>1. ASSUME UNCHANGED <<file, saved, inventory>>, phase' = phase \/ phase' \notin {"relogin", "loop", "play"}
        PROVE  Stocked' /\ Covering'
    BY <1>1 DEF Stocked, Covering, Stock, Covers
  <1>2. ASSUME UNCHANGED <<file, saved, inventory>>, phase \in {"relogin", "loop", "play"}
        PROVE  Stocked' /\ Covering'
    BY <1>2 DEF Stocked, Covering, Stock, Covers
  <1>3. ASSUME UNCHANGED file, phase' \notin {"relogin", "loop", "play"},
               saved' \in {saved, inventory}, inventory' \in {saved, NoInventory}
        PROVE  Stocked' /\ Covering'
    BY <1>0, <1>3 DEF Stocked, Covering, Stock
  <1>4. CASE Claim \/ PrepareFails \/ WxFails \/ WxLaunch \/ Refused \/ Stop
             \/ Quit \/ Deadline \/ Restart \/ UNCHANGED vars
    BY <1>1, <1>4 DEF Claim, PrepareFails, GiveBack, WxFails, WxLaunch, Refused, LeaveBy, Leave, Stop,
                      Quit, Deadline, Restart, vars, book, plan
  <1>5. CASE Crash \/ Finish
    BY <1>3, <1>5 DEF Crash, Finish, Forgotten, book
  <1>6. CASE Restore
    <2>1. phase' \in {"over", "launch", "login"} /\ inventory' = saved /\ UNCHANGED <<file, saved>>
      BY <1>6 DEF Restore, LeaveBy, Leave, book
    <2> QED BY <1>3, <2>1
  <1>7. CASE Login
    <2>1. LoggingIn /\ UNCHANGED <<file, saved, inventory>> /\ (phase' = phase \/ phase' = "over"
            \/ (phase = "login" /\ phase' = "enter") \/ (phase = "relogin" /\ phase' = "loop"))
      BY <1>7 DEF Login, LoginFails, LoggedIn, LoggingIn, Leave, book, plan
    <2> QED BY <1>1, <1>2, <2>1
  <1>8. CASE Choose
    <2>1. phase = "loop" /\ UNCHANGED <<file, saved, inventory>>
      BY <1>8 DEF Choose, book, plan
    <2> QED BY <1>2, <2>1
  <1>9. CASE Ask \/ AskFails
    <2>1. phase = "play" /\ UNCHANGED <<file, saved, inventory>>
      BY <1>9 DEF Ask, AskFails, book, plan
    <2> QED BY <1>2, <2>1
  <1>10. CASE Enter
    <2>1. phase = "enter" /\ UNCHANGED file
      BY <1>10 DEF Enter, book
    <2>2. CASE phase' = "over" /\ UNCHANGED <<file, saved, inventory>>
      BY <1>1, <2>2
    <2>3. CASE inventory' = Recovered(Loaded, file) /\ saved' = inventory'
      <3>1. Stock(Loaded)
        BY <2>1, LoadedFacts DEF InSession
      <3>2. Stock(Recovered(Loaded, file)) /\ Covers(Recovered(Loaded, file), file)
        BY <3>1, RecoveredFacts DEF Stocked
      <3> QED BY <2>1, <2>3, <3>2 DEF Stocked, Covering, Stock, Covers
    <2> QED BY <1>10, <2>2, <2>3 DEF Enter, LeaveBy, Leave, book, plan
  <1>11. CASE Settle
    <2>1. phase = "play"
      BY <1>11 DEF Settle
    <2>2. CASE UNCHANGED <<book, inventory>>
      BY <1>2, <2>1, <2>2 DEF book
    <2>3. CASE /\ inventory' = WithObserved(inventory, pending.frames)
               /\ saved' = IF inventory' # inventory THEN inventory' ELSE saved
               /\ file' = file \/ file' = file \cup {Document}
      <3>1. /\ Stock(inventory') /\ inventory.required \subseteq inventory'.required
            /\ Evidence(pending.frames) \ {<<"bonus-buy", 0>>} \subseteq inventory'.required
        BY <2>3, WithObservedFacts DEF Stocked
      <3>2. Stock(saved')
        BY <2>3, <3>1 DEF Stocked
      <3>3. IsFiniteSet(file')
        BY <2>3, FS_AddElement DEF Stocked
      <3>4. Document.data = pending.frames
        BY DEF Document
      <3>5. Covers(inventory', file')
        <4>1. Covers(inventory, file)
          BY <2>1 DEF Covering
        <4>2. \A d \in file' : d \in file \/ d = Document
          BY <2>3
        <4> QED BY <3>1, <3>4, <4>1, <4>2 DEF Covers
      <3> QED BY <3>1, <3>2, <3>3, <3>5 DEF Stocked, Covering, Stock, Covers
    <2> QED BY <1>11, <2>2, <2>3 DEF Settle, book
  <1> QED BY <1>4, <1>5, <1>6, <1>7, <1>8, <1>9, <1>10, <1>11 DEF Next, ThreadStep

LEMMA FirstSession ==
  Init => InSession /\ Stocked /\ Covering
  <1> SUFFICES ASSUME Init
               PROVE  InSession /\ Stocked /\ Covering
    OBVIOUS
  <1>1. Stock(NoInventory)
    <2>1. IsFiniteSet({})
      BY FS_EmptySet
    <2> QED BY <2>1 DEF Stock, NoInventory
  <1>2. IsFiniteSet(file)
    BY CaptureAssumption DEF Init
  <1> QED BY <1>1, <1>2 DEF Init, InSession, Stocked, Covering

LEMMA SessionKept ==
  Spec => [](Fresh /\ InSession /\ Stocked /\ Covering)
  <1>1. Init => Fresh /\ InSession /\ Stocked /\ Covering
    BY FirstHeard, FirstSession
  <1>2. Fresh /\ InSession /\ Stocked /\ Covering /\ [Next]_vars
          => (Fresh /\ InSession /\ Stocked /\ Covering)'
    BY FreshStep, InSessionStep, StockStep
  <1> QED BY <1>1, <1>2, PTL DEF Spec

\* A capture by coverage never ends on an inventory that forgets what the
\* history shows, whatever the price list and the features the registry
\* declares (oaks.ts 395-428 and 500-512).
THEOREM HistoryIsRequired == Spec => []InventoryCoversHistory
  <1>1. Covering => InventoryCoversHistory
    BY DEF Covering, Covers, InventoryCoversHistory, Playing, Required
  <1> QED BY <1>1, SessionKept, PTL

\* What is written is the round the provider has played, all of it, under the
\* action that was bet on, out of a session that has answered everything
\* (oaks.ts 223-252 and 457-512).
THEOREM RoundsAreRecordedWhole == Spec => RecordedIsWhole
  <1> DEFINE Whole ==
        \A d \in file' \ file :
          d.data = round /\ ~session.failed /\ d.data[1].action = pending.action.name
  <1>1. Fresh /\ InSession /\ [Next]_vars => Whole
    <2> SUFFICES ASSUME Fresh, InSession, [Next]_vars, NEW d \in file', d \notin file
                 PROVE  d.data = round /\ ~session.failed /\ d.data[1].action = pending.action.name
      OBVIOUS
    <2>1. Settle /\ file' # file
      BY DEF Next, ThreadStep, Claim, PrepareFails, GiveBack, WxFails, Restore, WxLaunch, Login,
             LoginFails, LoggedIn, Enter, Refused, Choose, Ask, AskFails, Stop, Finish,
             Quit, Deadline, Crash, Restart, book, vars
    <2>2. phase = "play" /\ ValidRound(pending.frames) /\ d = Document
      BY <2>1 DEF Settle, book
    <2>3. d.data = pending.frames
      BY <2>2 DEF Document
    <2>4. pending.frames = round /\ ~session.failed
      BY <2>2 DEF InSession, Fresh
    <2>5. round # <<>>
      BY <2>2, <2>4 DEF ValidRound
    <2> QED BY <2>2, <2>3, <2>4, <2>5 DEF InSession, Bet
  <1>2. Spec => [](Fresh /\ InSession)
    BY SessionKept, PTL
  <1> HIDE DEF Whole
  <1>3. Spec => [][Whole]_vars
    BY <1>1, <1>2, PTL DEF Spec
  <1> QED BY <1>3 DEF RecordedIsWhole, Whole

-----------------------------------------------------------------------------
(* The counts, and what a lease is accepted on. A file that holds a round  *)
(* twice is counted once by the restore and twice by the audit, so both    *)
(* theorems are about histories that do not: GameFiles keeps it so.        *)

NoneTwice == \A h \in Histories : \A d, e \in h : Hash(d) = Hash(e) => d = e

Opened == {"launch", "login", "relogin", "enter", "loop", "play"}

Tallied ==
  /\ \A d, e \in file : Hash(d) = Hash(e) => d = e
  /\ lead \in [DeclaredTypes -> Nat]
  /\ phase \in Opened => counts = Synced(RestoredCounts(file), lead)

\* The hashes a restore counts for a mode.
Hashes(documents, t) == {Hash(d) : d \in {e \in documents : ~e.testOnly /\ TypeOf(e) = t}}

LEMMA HashesAreFinite ==
  ASSUME NEW documents, IsFiniteSet(documents), NEW t
  PROVE  IsFiniteSet(Hashes(documents, t))
  <1> DEFINE hash == [d \in documents |-> Hash(d)]
             all == {hash[d] : d \in documents}
  <1>1. Hashes(documents, t) \in SUBSET all
    BY DEF Hashes
  <1>2. IsFiniteSet(all)
    <2> HIDE DEF hash
    <2> QED BY ImageIsFinite
  <1> HIDE DEF all
  <1> QED BY <1>1, <1>2, FS_Subset

\* A new document adds one to the count of its mode, if that is counted.
LEMMA OneMore ==
  ASSUME NEW documents, IsFiniteSet(documents), NEW d, ~d.testOnly,
         \A e \in documents : Hash(e) # Hash(d)
  PROVE  RestoredCounts(documents \cup {d}) = [RestoredCounts(documents) EXCEPT ![TypeOf(d)] = @ + 1]
  <1>1. \A t : Hashes(documents \cup {d}, t) =
                 IF t = TypeOf(d) THEN Hashes(documents, t) \cup {Hash(d)} ELSE Hashes(documents, t)
    BY DEF Hashes
  <1>2. \A t : Hash(d) \notin Hashes(documents, t)
    BY DEF Hashes
  <1>3. ASSUME NEW t
        PROVE  Cardinality(Hashes(documents \cup {d}, t)) =
                 IF t = TypeOf(d) THEN Cardinality(Hashes(documents, t)) + 1 ELSE Cardinality(Hashes(documents, t))
    <2>1. IsFiniteSet(Hashes(documents, t))
      BY HashesAreFinite
    <2>2. Cardinality(Hashes(documents, t) \cup {Hash(d)}) = Cardinality(Hashes(documents, t)) + 1
      BY <1>2, <2>1, FS_AddElement
    <2> QED BY <1>1, <2>2
  <1>4. \A file_ : RestoredCounts(file_) = [t \in DeclaredTypes |-> Cardinality(Hashes(file_, t))]
    BY DEF RestoredCounts, Hashes
  <1>5. RestoredCounts(documents) = [t \in DeclaredTypes |-> Cardinality(Hashes(documents, t))]
    BY <1>4
  <1>6. RestoredCounts(documents \cup {d}) = [t \in DeclaredTypes |-> Cardinality(Hashes(documents \cup {d}, t))]
    BY <1>4
  <1> QED BY <1>3, <1>5, <1>6

LEMMA CountsAreNumbers ==
  ASSUME NEW documents, IsFiniteSet(documents)
  PROVE  RestoredCounts(documents) \in [DeclaredTypes -> Nat]
  <1>1. RestoredCounts(documents) = [t \in DeclaredTypes |-> Cardinality(Hashes(documents, t))]
    BY DEF RestoredCounts, Hashes
  <1>2. \A t \in DeclaredTypes : Cardinality(Hashes(documents, t)) \in Nat
    BY HashesAreFinite, FS_CardinalityType
  <1> QED BY <1>1, <1>2

\* Where no round occurs twice, the audit counts what the restore counts.
LEMMA SameCounts ==
  ASSUME IsFiniteSet(file), \A d, e \in file : Hash(d) = Hash(e) => d = e
  PROVE  AuditedCounts(file) = RestoredCounts(file)
  <1>1. ASSUME NEW t
        PROVE  Cardinality({d \in file : ~d.testOnly /\ TypeOf(d) = t}) = Cardinality(Hashes(file, t))
    <2> DEFINE played == {d \in file : ~d.testOnly /\ TypeOf(d) = t}
               hash == [d \in played |-> Hash(d)]
    <2>1. hash \in Bijection(played, Hashes(file, t))
      <3>1. hash \in [played -> Hashes(file, t)]
        BY DEF Hashes
      <3>2. \A d, e \in played : hash[d] = hash[e] => d = e
        OBVIOUS
      <3>3. \A h \in Hashes(file, t) : \E d \in played : hash[d] = h
        BY DEF Hashes
      <3> HIDE DEF hash, played
      <3> QED BY <3>1, <3>2, <3>3, Fun_IsBij
    <2>2. IsFiniteSet(played)
      <3>1. played \in SUBSET file
        OBVIOUS
      <3> HIDE DEF played
      <3> QED BY <3>1, FS_Subset
    <2> HIDE DEF hash, played
    <2>3. Cardinality(played) = Cardinality(Hashes(file, t))
      <3>1. hash \in Surjection(played, Hashes(file, t)) /\ hash \in Injection(played, Hashes(file, t))
        BY <2>1 DEF Bijection
      <3>2. Cardinality(played) = Cardinality(Hashes(file, t)) <=> hash \in Injection(played, Hashes(file, t))
        BY <2>2, <3>1, FS_Surjection
      <3> QED BY <3>1, <3>2
    <2> QED BY <2>3 DEF played
  <1> QED BY <1>1 DEF AuditedCounts, RestoredCounts, Hashes

LEMMA TallyStep ==
  InSession /\ Stocked /\ Tallied /\ [Next]_vars => Tallied'
  <1> SUFFICES ASSUME InSession, Stocked, Tallied, [Next]_vars
               PROVE  Tallied'
    OBVIOUS
  <1>1. ASSUME UNCHANGED <<file, counts, lead>>, phase' \in Opened => phase \in Opened
        PROVE  Tallied'
    BY <1>1 DEF Tallied
  <1>2. ASSUME UNCHANGED <<file, lead>>, phase' \notin Opened
        PROVE  Tallied'
    BY <1>2 DEF Tallied
  <1>3. CASE Claim \/ PrepareFails \/ WxFails \/ WxLaunch \/ Refused \/ Stop
             \/ Quit \/ Deadline \/ Restart \/ UNCHANGED vars
    BY <1>1, <1>3 DEF Claim, PrepareFails, GiveBack, WxFails, WxLaunch, Refused, LeaveBy, Leave, Stop,
                      Quit, Deadline, Restart, vars, book, plan, found, Opened
  <1>4. CASE Crash \/ Finish
    BY <1>2, <1>4 DEF Crash, Finish, book, Opened
  <1>5. CASE Restore
    <2>1. lead' \in [DeclaredTypes -> Nat]
      <3>1. NoCounts \in [DeclaredTypes -> Nat]
        BY DEF NoCounts
      <3> QED BY <1>5, <3>1, CaptureAssumption DEF Restore
    <2>2. UNCHANGED file /\ counts' = Synced(RestoredCounts(file), lead')
      BY <1>5 DEF Restore, book
    <2> QED BY <2>1, <2>2 DEF Tallied
  <1>6. CASE Login
    <2>1. LoggingIn /\ UNCHANGED <<file, counts, lead>>
      BY <1>6 DEF Login, LoginFails, LoggedIn, book, plan, found
    <2> QED BY <1>1, <2>1 DEF LoggingIn, Opened
  <1>7. CASE Choose \/ Ask \/ AskFails
    <2>1. phase \in Opened /\ UNCHANGED <<file, counts, lead>>
      BY <1>7 DEF Choose, Ask, AskFails, book, plan, found, Opened
    <2> QED BY <1>1, <2>1
  <1>8. CASE Enter
    <2>1. phase \in Opened /\ UNCHANGED <<file, counts, lead>>
      BY <1>8 DEF Enter, book, plan, found, Opened
    <2> QED BY <1>1, <2>1
  <1>9. CASE Settle
    <2>1. /\ phase = "play" /\ UNCHANGED lead /\ lead \in [DeclaredTypes -> Nat]
          /\ counts = Synced(RestoredCounts(file), lead)
      BY <1>9 DEF Settle, Tallied, Opened, found
    <2>2. CASE UNCHANGED <<file, counts>>
      BY <1>1, <2>1, <2>2 DEF Opened
    <2>3. CASE /\ ValidRound(pending.frames) /\ \A d \in file : Hash(d) # Hash(Document)
               /\ file' = file \cup {Document} /\ counts' = [counts EXCEPT ![Document.buy] = @ + 1]
      <3>1. /\ Document.data = pending.frames /\ Document.buy = SpinType(pending.action)
            /\ ~Document.testOnly
        BY DEF Document
      <3>2. pending.action \in PlayActions /\ Bet(pending.frames[1], pending.action)
        <4>1. pending.frames = round /\ round # <<>>
          BY <2>1, <2>3 DEF InSession, ValidRound
        <4> QED BY <2>1, <4>1 DEF InSession
      <3>3. TypeOf(Document) = Document.buy
        BY <3>1, <3>2, TypeFound DEF TypeOf
      <3>4. counts' = Synced(RestoredCounts(file'), lead)
        <4>1. IsFiniteSet(file)
          BY DEF Stocked
        <4> DEFINE new == Document
        <4>2. ~new.testOnly /\ TypeOf(new) = new.buy /\ (\A e \in file : Hash(e) # Hash(new))
          BY <2>3, <3>1, <3>3
        <4>3. file' = file \cup {new} /\ counts' = [counts EXCEPT ![new.buy] = @ + 1]
          BY <2>3
        <4> HIDE DEF new
        <4>4. RestoredCounts(file \cup {new}) = [RestoredCounts(file) EXCEPT ![TypeOf(new)] = @ + 1]
          BY <4>1, <4>2, OneMore
        <4>5. RestoredCounts(file) \in [DeclaredTypes -> Nat]
          BY <4>1, CountsAreNumbers
        <4>6. Synced([RestoredCounts(file) EXCEPT ![new.buy] = @ + 1], lead)
                = [Synced(RestoredCounts(file), lead) EXCEPT ![new.buy] = @ + 1]
          <5> DEFINE known == RestoredCounts(file)
          <5>1. known \in [DeclaredTypes -> Nat]
            BY <4>5
          <5> HIDE DEF known
          <5>2. Synced([known EXCEPT ![new.buy] = @ + 1], lead)
                  = [Synced(known, lead) EXCEPT ![new.buy] = @ + 1]
            BY <2>1, <5>1 DEF Synced
          <5> QED BY <5>2 DEF known
        <4> QED BY <2>1, <4>2, <4>3, <4>4, <4>6
      <3>5. \A d, e \in file' : Hash(d) = Hash(e) => d = e
        BY <2>3 DEF Tallied
      <3> QED BY <2>1, <3>4, <3>5 DEF Tallied
    <2> QED BY <1>9, <2>2, <2>3 DEF Settle, book
  <1> QED BY <1>3, <1>4, <1>5, <1>6, <1>7, <1>8, <1>9 DEF Next, ThreadStep

LEMMA TallyKept ==
  NoneTwice /\ Spec => [](Fresh /\ InSession /\ Stocked /\ Tallied)
  <1>1. NoneTwice /\ Init => Tallied
    BY DEF Init, Tallied, Opened, NoneTwice, NoCounts
  <1>2. InSession /\ Stocked /\ Tallied /\ [Next]_vars => Tallied'
    BY TallyStep
  <1> QED BY <1>1, <1>2, SessionKept, PTL DEF Spec

\* The counts a lease goes by are those a new process restores and those the
\* acceptance finds, and on top what Mongo had more when the lease began, for
\* every such lead, every price list and every way to echo a mode
\* (oaks.ts 288-298, 328-393 and 500-512; mode-target.ts 40-57; protocol.ts).
THEOREM CountsAreTheFiles == NoneTwice /\ Spec => []CountsAgree
  <1>1. Stocked /\ Tallied => CountsAgree
    BY SameCounts DEF Stocked, Tallied, CountsAgree, Playing, Opened
  <1> QED BY <1>1, TallyKept, PTL

\* What can be wrong with the file of a lease that has reached its quota: only
\* the base game, or a mode of which Mongo had the rest.
Lacking == LineErrors(file) = {} /\ MissingModes(Synced(AuditedCounts(file), lead)) = {}

\* What an acceptance asks of a file, but for the win and the loss, is what a
\* lease has seen to when it is complete.
Clean ==
  /\ setup.byMode /\ phase \in Opened => \A d \in file : ValidRound(d.data)
  /\ ~setup.special /\ phase \in {"relogin", "loop", "play"} => targets = Targets
  /\ phase \in Opened \cup {"prepare"} => outcome = "none"
  /\ outcome = "rejected" => Lacking

LEMMA StatusFacts == \A e : Status(e) \notin {"rejected", "none"}
  BY DEF Status

LEMMA CompleteIsLacking ==
  ASSUME InSession, Stocked, Tallied, Clean, phase = "loop", setup.byMode, ~setup.special,
         Complete
  PROVE  Lacking
  <1>1. LineErrors(file) = {}
    BY DEF LineErrors, Clean, Opened, Tallied
  <1>2. MissingModes(Synced(AuditedCounts(file), lead)) = {}
    <2>1. counts = Synced(AuditedCounts(file), lead) /\ targets = Targets
      BY SameCounts DEF Stocked, Tallied, Opened, Clean
    <2> QED BY <2>1 DEF Complete, RemainingModes, MissingModes
  <1> QED BY <1>1, <1>2 DEF Lacking

LEMMA CleanStep ==
  Fresh /\ InSession /\ Stocked /\ Tallied /\ Clean /\ [Next]_vars => Clean'
  <1> SUFFICES ASSUME Fresh, InSession, Stocked, Tallied, Clean, [Next]_vars
               PROVE  Clean'
    OBVIOUS
  <1>1. ASSUME UNCHANGED <<setup, file, targets, lead, outcome>>, phase' = phase
        PROVE  Clean'
    BY <1>1 DEF Clean, Lacking
  <1>2. ASSUME UNCHANGED <<setup, file>>, phase' \notin Opened \cup {"prepare"},
               outcome' # "rejected" \/ UNCHANGED <<lead, outcome>>
        PROVE  Clean'
    BY <1>2 DEF Clean, Lacking, Opened
  <1>3. ASSUME UNCHANGED <<setup, file, targets>>, outcome' = "none", phase \in {"loop", "play"},
               phase' \in {"relogin", "loop", "play"}
        PROVE  Clean'
    BY <1>3 DEF Clean, Opened
  <1>4. CASE Claim
    BY <1>4 DEF Claim, Clean, Opened, book, plan
  <1>5. CASE PrepareFails \/ WxFails
    BY <1>2, <1>5 DEF PrepareFails, WxFails, GiveBack, book, found, Opened
  <1>6. CASE Refused
    BY <1>2, <1>6, StatusFacts DEF Refused, LeaveBy, Leave, book, Opened
  <1>7. CASE Finish \/ Quit \/ Crash \/ Restart
    BY <1>2, <1>7 DEF Finish, Quit, Crash, Restart, book, found, Opened
  <1>8. CASE Deadline \/ UNCHANGED vars
    BY <1>1, <1>8 DEF Deadline, vars, book, found, plan
  <1>9. CASE Restore
    <2>1. phase = "prepare" /\ UNCHANGED <<setup, file>>
      BY <1>9 DEF Restore, book
    <2>2. CASE LeaveBy("INVALID") \/ LeaveBy("MONGO")
      BY <1>2, <2>1, <2>2, StatusFacts DEF LeaveBy, Leave, Opened
    <2>3. CASE /\ ~(setup.byMode /\ \E d \in file : ~ValidRound(d.data))
               /\ phase' \in {"launch", "login"} /\ UNCHANGED outcome
      BY <2>1, <2>3 DEF Clean, Opened
    <2> QED BY <1>9, <2>2, <2>3 DEF Restore
  <1>10. CASE WxLaunch
    BY <1>10 DEF WxLaunch, Clean, Opened, book, plan
  <1>11. CASE Login
    <2>1. LoggingIn /\ UNCHANGED <<setup, file, targets, lead>>
      BY <1>11 DEF Login, LoginFails, LoggedIn, book, found, plan
    <2>2. \/ phase' = "over" /\ outcome' # "rejected"
          \/ phase' = phase /\ UNCHANGED outcome
          \/ phase = "login" /\ phase' = "enter" /\ UNCHANGED outcome
          \/ phase = "relogin" /\ phase' = "loop" /\ UNCHANGED outcome
      BY <1>11, StatusFacts DEF Login, LoginFails, LoggedIn, Leave, LoggingIn
    <2> QED BY <1>1, <1>2, <2>1, <2>2 DEF Clean, Opened
  <1>12. CASE Enter
    <2>1. phase = "enter" /\ UNCHANGED <<setup, file>>
      BY <1>12 DEF Enter, book
    <2>2. \/ phase' = "over" /\ outcome' # "rejected"
          \/ /\ targets' \in IF setup.special THEN {Reserved(n) : n \in 0..Share} ELSE {Targets}
             /\ phase' = "loop" /\ UNCHANGED outcome
      BY <1>12, StatusFacts DEF Enter, LeaveBy, Leave
    <2> QED BY <1>2, <2>1, <2>2 DEF Clean, Opened
  <1>13. ASSUME NEW e, NEW action, NEW next, Fail(e, action, next), phase \in {"loop", "play"},
                UNCHANGED <<setup, file, targets>>
         PROVE  Clean'
    <2>1. outcome = "none"
      BY <1>13 DEF Clean, Opened
    <2>2. \/ phase' = "over" /\ outcome' # "rejected"
          \/ phase' = "relogin" /\ UNCHANGED outcome
      BY <1>13, StatusFacts DEF Fail, Leave
    <2> QED BY <1>2, <1>3, <1>13, <2>1, <2>2 DEF Opened
  <1>14. CASE Choose
    <2>1. phase = "loop" /\ UNCHANGED <<setup, file, targets>>
      BY <1>14 DEF Choose, book, plan
    <2>2. \/ \E e : Fail(e, Spin, Here)
          \/ phase' = "play" /\ UNCHANGED outcome
      BY <1>14 DEF Choose
    <2>3. outcome = "none"
      BY <2>1 DEF Clean, Opened
    <2> QED BY <1>3, <1>13, <2>1, <2>2, <2>3
  <1>15. CASE Ask
    BY <1>1, <1>15 DEF Ask, book, found, plan
  <1>16. CASE AskFails
    <2>1. \E e, next : Fail(e, pending.action, next)
      BY <1>16 DEF AskFails
    <2>2. phase = "play" /\ UNCHANGED <<setup, file, targets>>
      BY <1>16 DEF AskFails, book, plan
    <2> QED BY <1>13, <2>1, <2>2
  <1>17. CASE Settle
    <2>1. phase = "play" /\ UNCHANGED <<setup, targets>> /\ outcome = "none"
      BY <1>17 DEF Settle, Clean, Opened
    <2>2. CASE Fail("INVALID", pending.action, Here) /\ UNCHANGED <<book, counts, inventory>>
      BY <1>13, <2>1, <2>2 DEF book
    <2>3. CASE /\ ValidRound(pending.frames) /\ (UNCHANGED file \/ file' = file \cup {Document})
               /\ phase' = "loop" /\ UNCHANGED outcome
      <3>1. Document.data = pending.frames
        BY DEF Document
      <3> QED BY <2>1, <2>3, <3>1 DEF Clean, Opened
    <2> QED BY <1>17, <2>2, <2>3 DEF Settle
  <1>18. CASE Stop
    <2>1. phase = "loop" /\ phase' = "over" /\ UNCHANGED <<setup, file, lead>>
      BY <1>18 DEF Stop, LeaveBy, Leave, book, found
    <2>2. CASE outcome' # "rejected"
      BY <1>2, <2>1, <2>2 DEF Opened
    <2>3. CASE outcome' = "rejected"
      <3>1. Complete /\ ~setup.special /\ setup.byMode
        BY <1>18, <2>3, StatusFacts DEF Stop, LeaveBy, Leave
      <3>2. Lacking
        BY <2>1, <3>1, CompleteIsLacking
      <3> QED BY <2>1, <2>3, <3>2 DEF Clean, Lacking, Opened
    <2> QED BY <2>2, <2>3
  <1> QED BY <1>4, <1>5, <1>6, <1>7, <1>8, <1>9, <1>10, <1>11, <1>12, <1>14, <1>15, <1>16, <1>17, <1>18
          DEF Next, ThreadStep

\* What the acceptance refuses of a lease that has reached the whole quota is
\* the base game, or a mode of which only Mongo has the rest: never a line, and
\* never a mode short by the lease's own counts (oaks.ts 271-298 and 429-430;
\* validate-data.ts; worker.ts 444-470).
THEOREM QuotaIsAccepted == NoneTwice /\ Spec => []CompleteIsAccepted
  <1>1. Init => Clean
    BY DEF Init, Clean, Opened
  <1>2. Clean => CompleteIsAccepted
    BY DEF Clean, CompleteIsAccepted, Lacking
  <1> QED BY <1>1, <1>2, CleanStep, TallyKept, PTL DEF Spec

-----------------------------------------------------------------------------
(* The forms of a purchase. They are remembered for the purchases that the *)
(* registry declares, so the theorem is about price lists that sell those. *)

SoldIsDeclared ==
  \A s \in Setups, o \in Offers :
    OnSale([fields |-> s.fields, sold |-> o.sold, available |-> o.available]) \subseteq BuyTypes

Ways == [factor : BOOLEAN, text : BOOLEAN]
Factored == setup.factor /\ ~setup.kendoo
Texted == setup.fields = {"array"}
Omits(m) == m \in forms.omitted
Texts(m) == m \in forms.texted
TriedBoth(m) == \E w \in tried[m] : w.factor /\ w.text
TriedFactor(m) == \E w \in tried[m] : w.factor /\ ~w.text
TriedText(m) == \E w \in tried[m] : ~w.factor /\ w.text
TriedBare(m) == \E w \in tried[m] : ~w.factor /\ ~w.text

\* A purchase goes through its forms in order, one for each refusal.
Ladder(m) ==
  LET r == refusals[m] IN
  /\ Factored /\ ~Texted =>
       /\ (r = 0 => ~Omits(m) /\ ~Texts(m)) /\ (r = 1 => Omits(m) /\ ~Texts(m))
       /\ (r = 2 => Omits(m) /\ Texts(m)) /\ (r = 3 => ~Omits(m) /\ Texts(m))
       /\ (r >= 1 => TriedFactor(m)) /\ (r >= 2 => TriedBare(m))
       /\ (r >= 3 => TriedText(m)) /\ (r >= 4 => TriedBoth(m))
  /\ Factored /\ Texted =>
       /\ (r = 0 => ~Omits(m)) /\ (r = 1 => Omits(m))
       /\ (r >= 1 => TriedBoth(m)) /\ (r >= 2 => TriedText(m))
  /\ ~Factored /\ ~Texted =>
       /\ (r = 0 => ~Texts(m)) /\ (r = 1 => Texts(m))
       /\ (r >= 1 => TriedBare(m)) /\ (r >= 2 => TriedText(m))
  /\ ~Factored /\ Texted => (r >= 1 => TriedText(m))

\* The purchase that is played is in the form of the moment, and noted.
Noted ==
  LET action == pending.action IN
  /\ action.type \in BuyTypes
  /\ action.factor <=> Factored /\ ~Omits(action.type)
  /\ action.text <=> Texted \/ Texts(action.type)
  /\ \E w \in tried[action.type] : (w.factor <=> action.factor) /\ (w.text <=> action.text)

Exploring ==
  /\ forms = [omitted |-> forms.omitted, texted |-> forms.texted]
  /\ refusals \in [BuyTypes -> 0..4] /\ tried \in [BuyTypes -> SUBSET Ways]
  /\ ~Ggx => \A m \in BuyTypes : Ladder(m)
  /\ phase = "play" /\ pending.action.name = "buy_spin" /\ ~Ggx => Noted

LEMMA MinFacts ==
  ASSUME NEW x \in Nat, NEW y \in Nat
  PROVE  Min({x, y}) = IF x <= y THEN x ELSE y
  <1> DEFINE P(z) == \A u \in {x, y} : z <= u
  <1>1. Min({x, y}) = CHOOSE z \in {x, y} : P(z)
    BY DEF Min
  <1>2. \E z \in {x, y} : P(z)
    OBVIOUS
  <1>3. Min({x, y}) \in {x, y} /\ P(Min({x, y}))
    <2> HIDE DEF P
    <2> QED BY <1>1, <1>2
  <1> QED BY <1>3

\* A form is written down as the purchase is bet on.
LEMMA NotingFacts ==
  ASSUME SoldIsDeclared, InSession, Stocked, Exploring, phase = "loop",
         Available # <<>>, Candidates # {}, Candidate.name = "buy_spin", ~Ggx
  PROVE  LET m == Candidate.type IN
         /\ m \in BuyTypes
         /\ Candidate.factor <=> Factored /\ ~Omits(m)
         /\ Candidate.text <=> Texted \/ Texts(m)
         /\ [factor |-> Candidate.factor, text |-> Candidate.text] \in Ways
  <1>1. Candidate \in OnOffer /\ Started /\ setup \in Setups
    BY CandidateFacts DEF InSession
  <1>2. PICK o \in Offers : session.start = Start(o)
    BY <1>1 DEF Started
  <1>3. /\ session.start.factor = setup.factor /\ session.start.kendoo = setup.kendoo
        /\ session.start.fields = setup.fields /\ session.start.sold = o.sold
        /\ session.start.available = o.available
    BY <1>2 DEF Start
  <1>4. OnSale(session.start) \subseteq BuyTypes
    <2>1. OnSale(session.start) = OnSale([fields |-> setup.fields, sold |-> o.sold, available |-> o.available])
      BY <1>3 DEF OnSale, BuyModes
    <2> QED BY <1>1, <2>1 DEF SoldIsDeclared
  <1>5. Spin.name = "spin" /\ \A b : Boost(b).name = "spin"
    BY DEF Spin, Boost
  <1>6. PICK m \in OnSale(session.start) : Candidate = Buy(m, SentFactor(m), SentText(m))
    BY <1>1, <1>5 DEF OnOffer
  <1>7. Candidate.type = m /\ Candidate.factor = SentFactor(m) /\ Candidate.text = SentText(m)
    BY <1>6 DEF Buy
  <1>8. SentFactor(m) \in BOOLEAN /\ SentText(m) \in BOOLEAN
    BY <1>1, SoldFacts DEF SentFactor, SentText
  <1>9. SentFactor(m) <=> Factored /\ ~Omits(m)
    BY <1>3 DEF SentFactor, Factored, Omits
  <1>10. SentText(m) <=> Texted \/ Texts(m)
    BY <1>3 DEF SentText, Texted, Texts
  <1>11. [factor |-> Candidate.factor, text |-> Candidate.text] \in Ways
    BY <1>7, <1>8 DEF Ways
  <1> QED BY <1>4, <1>7, <1>9, <1>10, <1>11

\* Where nothing is known of the purchases, nothing is wrong.
LEMMA ForgottenFacts ==
  ASSUME Forgotten
  PROVE  /\ forms' = [omitted |-> forms'.omitted, texted |-> forms'.texted]
         /\ refusals' \in [BuyTypes -> 0..4] /\ tried' \in [BuyTypes -> SUBSET Ways]
         /\ \A m \in BuyTypes : Ladder(m)'
  <1>1. forms' = NoForms /\ tried' = [m \in BuyTypes |-> {}] /\ refusals' = [m \in BuyTypes |-> 0]
    BY DEF Forgotten
  <1>2. forms'.omitted = {} /\ forms'.texted = {}
    BY <1>1 DEF NoForms
  <1>3. forms' = [omitted |-> forms'.omitted, texted |-> forms'.texted]
    BY <1>1, <1>2 DEF NoForms
  <1>4. \A m \in BuyTypes : Ladder(m)'
    BY <1>1, <1>2 DEF Ladder, Omits, Texts
  <1> QED BY <1>1, <1>3, <1>4

\* After a refusal comes the next form.
LEMMA ReshapedFacts ==
  ASSUME Exploring, InSession, phase = "play", NEW e, NEW next,
         Fail(e, pending.action, next), UNCHANGED <<setup, tried>>
  PROVE  Exploring'
  <1> DEFINE action == pending.action
             bought == e = "SERVER_ERROR" /\ action.name = "buy_spin"
  <1>1. /\ forms' = IF bought THEN Reshaped(action) ELSE forms
        /\ refusals' = IF bought THEN [refusals EXCEPT ![action.type] = Min({4, @ + 1})] ELSE refusals
        /\ phase' # "play"
    BY FailFacts DEF Fail
  <1>2. CASE ~bought
    <2>1. UNCHANGED <<setup, tried, forms, refusals>> /\ phase' # "play"
      BY <1>1, <1>2
    <2>2. Ggx' = Ggx /\ \A m : Ladder(m)' = Ladder(m)
      BY <2>1 DEF Ggx, Ladder, Factored, Texted, Omits, Texts, TriedBoth, TriedFactor, TriedText, TriedBare
    <2> QED BY <2>1, <2>2 DEF Exploring
  <1>3. CASE bought
    <2> DEFINE m == action.type
    <2>1. /\ forms' = Reshaped(action) /\ refusals' = [refusals EXCEPT ![m] = Min({4, @ + 1})]
          /\ action.name = "buy_spin"
      BY <1>1, <1>3
    <2>2. /\ forms = [omitted |-> forms.omitted, texted |-> forms.texted]
          /\ refusals \in [BuyTypes -> 0..4] /\ tried \in [BuyTypes -> SUBSET Ways]
      BY DEF Exploring
    <2>3. session.start.kendoo = setup.kendoo
      <3>1. PICK o \in Offers : session.start = Start(o)
        BY DEF InSession, Started
      <3> QED BY <3>1 DEF Start
    <2>4. /\ forms'.omitted = CASE action.factor -> forms.omitted \cup {m}
                                [] ~action.factor /\ ~action.text -> forms.omitted
                                [] OTHER -> IF setup.kendoo THEN forms.omitted ELSE forms.omitted \ {m}
          /\ forms'.texted = IF ~action.factor /\ ~action.text THEN forms.texted \cup {m} ELSE forms.texted
          /\ forms' = [omitted |-> forms'.omitted, texted |-> forms'.texted]
      <3>1. \A o, t, u : /\ [[omitted |-> o, texted |-> t] EXCEPT !.omitted = u] = [omitted |-> u, texted |-> t]
                         /\ [[omitted |-> o, texted |-> t] EXCEPT !.texted = u] = [omitted |-> o, texted |-> u]
        OBVIOUS
      <3>2. \A u : /\ [forms EXCEPT !.omitted = u] = [omitted |-> u, texted |-> forms.texted]
                   /\ [forms EXCEPT !.texted = u] = [omitted |-> forms.omitted, texted |-> u]
        BY <2>2, <3>1
      <3>3. CASE action.factor
        <4>1. forms' = [forms EXCEPT !.omitted = forms.omitted \cup {m}]
          BY <2>1, <3>3 DEF Reshaped
        <4>2. forms' = [omitted |-> forms.omitted \cup {m}, texted |-> forms.texted]
          BY <3>2, <4>1
        <4> QED BY <3>3, <4>2
      <3>4. CASE ~action.factor /\ ~action.text
        <4>1. forms' = [forms EXCEPT !.texted = forms.texted \cup {m}]
          BY <2>1, <3>4 DEF Reshaped
        <4>2. forms' = [omitted |-> forms.omitted, texted |-> forms.texted \cup {m}]
          BY <3>2, <4>1
        <4> QED BY <3>4, <4>2
      <3>5. CASE ~action.factor /\ ~(~action.factor /\ ~action.text) /\ setup.kendoo
        <4>1. forms' = forms
          BY <2>1, <2>3, <3>5 DEF Reshaped
        <4> QED BY <2>2, <3>5, <4>1
      <3>6. CASE ~action.factor /\ ~(~action.factor /\ ~action.text) /\ ~setup.kendoo
        <4>1. forms' = [forms EXCEPT !.omitted = forms.omitted \ {m}]
          BY <2>1, <2>3, <3>6 DEF Reshaped
        <4>2. forms' = [omitted |-> forms.omitted \ {m}, texted |-> forms.texted]
          BY <3>2, <4>1
        <4> QED BY <3>6, <4>2
      <3> QED BY <3>3, <3>4, <3>5, <3>6
    <2>5. /\ refusals' \in [BuyTypes -> 0..4]
          /\ \A n \in BuyTypes : refusals'[n] = IF n # m THEN refusals[n]
                                               ELSE IF refusals[n] = 4 THEN 4 ELSE refusals[n] + 1
      <3>1. \A r \in 0..4 : Min({4, r + 1}) = IF r = 4 THEN 4 ELSE r + 1
        <4> SUFFICES ASSUME NEW r \in 0..4
                     PROVE  Min({4, r + 1}) = IF r = 4 THEN 4 ELSE r + 1
          OBVIOUS
        <4>1. r + 1 \in Nat /\ 4 \in Nat
          OBVIOUS
        <4>2. Min({4, r + 1}) = IF 4 <= r + 1 THEN 4 ELSE r + 1
          BY <4>1, MinFacts
        <4> QED BY <4>2
      <3>2. \A n \in BuyTypes : refusals[n] \in 0..4
        BY <2>2
      <3>3. DOMAIN refusals' = BuyTypes /\ refusals' = [n \in BuyTypes |-> refusals'[n]]
        BY <2>1, <2>2
      <3>4. \A n \in BuyTypes : refusals'[n] = IF n = m THEN Min({4, refusals[n] + 1}) ELSE refusals[n]
        BY <2>1, <2>2
      <3>5. \A n \in BuyTypes : refusals'[n] = IF n # m THEN refusals[n]
                                               ELSE IF refusals[n] = 4 THEN 4 ELSE refusals[n] + 1
        BY <3>1, <3>2, <3>4
      <3>6. \A n \in BuyTypes : refusals'[n] \in 0..4
        BY <3>2, <3>5
      <3> QED BY <3>3, <3>5, <3>6
    <2>6. Ggx' = Ggx /\ Factored' = Factored /\ Texted' = Texted
      BY DEF Ggx, Factored, Texted
    <2>7. ASSUME ~Ggx, NEW n \in BuyTypes
          PROVE  Ladder(n)'
      <3>1. Ladder(n) /\ Noted /\ refusals[n] \in 0..4
        BY <2>1, <2>2, <2>7 DEF Exploring
      <3>2. /\ TriedBoth(n)' <=> TriedBoth(n)
            /\ TriedFactor(n)' <=> TriedFactor(n)
            /\ TriedText(n)' <=> TriedText(n)
            /\ TriedBare(n)' <=> TriedBare(n)
        BY DEF TriedBoth, TriedFactor, TriedText, TriedBare
      <3>3. CASE n # m
        <4>1. Omits(n)' = Omits(n) /\ Texts(n)' = Texts(n) /\ refusals'[n] = refusals[n]
          BY <2>4, <2>5, <3>3 DEF Omits, Texts
        <4> QED BY <2>6, <3>1, <3>2, <4>1 DEF Ladder
      <3>4. CASE n = m
        <4>1. /\ action.factor <=> Factored /\ ~Omits(n)
              /\ action.text <=> Texted \/ Texts(n)
              /\ \E w \in tried[n] : (w.factor <=> action.factor) /\ (w.text <=> action.text)
          BY <3>1, <3>4 DEF Noted
        <4>2. /\ Factored /\ ~Omits(n) => Omits(n)' /\ (Texts(n)' <=> Texts(n))
              /\ ~(Factored /\ ~Omits(n)) /\ ~(Texted \/ Texts(n))
                   => Texts(n)' /\ (Omits(n)' <=> Omits(n))
              /\ ~(Factored /\ ~Omits(n)) /\ (Texted \/ Texts(n)) /\ ~setup.kendoo
                   => ~Omits(n)' /\ (Texts(n)' <=> Texts(n))
          BY <2>4, <3>4, <4>1 DEF Omits, Texts
        <4>3. /\ action.factor /\ action.text => TriedBoth(n)
              /\ action.factor /\ ~action.text => TriedFactor(n)
              /\ ~action.factor /\ action.text => TriedText(n)
              /\ ~action.factor /\ ~action.text => TriedBare(n)
          BY <4>1 DEF TriedBoth, TriedFactor, TriedText, TriedBare
        <4>4. refusals'[n] = IF refusals[n] = 4 THEN 4 ELSE refusals[n] + 1
          BY <2>5, <3>4
        <4>5. Factored => ~setup.kendoo
          BY DEF Factored
        <4>6. CASE Factored /\ ~Texted
          BY <2>6, <3>1, <3>2, <4>1, <4>2, <4>3, <4>4, <4>5, <4>6 DEF Ladder
        <4>7. CASE Factored /\ Texted
          BY <2>6, <3>1, <3>2, <4>1, <4>2, <4>3, <4>4, <4>5, <4>7 DEF Ladder
        <4>8. CASE ~Factored /\ ~Texted
          BY <2>6, <3>1, <3>2, <4>1, <4>2, <4>3, <4>4, <4>8 DEF Ladder
        <4>9. CASE ~Factored /\ Texted
          BY <2>6, <3>1, <3>2, <4>1, <4>2, <4>3, <4>4, <4>9 DEF Ladder
        <4> QED BY <4>6, <4>7, <4>8, <4>9
      <3> QED BY <3>3, <3>4
    <2>8. tried' \in [BuyTypes -> SUBSET Ways]
      BY <2>2
    <2> QED BY <1>1, <2>4, <2>5, <2>6, <2>7, <2>8 DEF Exploring
  <1> QED BY <1>2, <1>3

LEMMA ExploringStep ==
  SoldIsDeclared /\ Fresh /\ InSession /\ Stocked /\ Exploring /\ [Next]_vars => Exploring'
  <1> SUFFICES ASSUME SoldIsDeclared, Fresh, InSession, Stocked, Exploring, [Next]_vars
               PROVE  Exploring'
    OBVIOUS
  <1>1. ASSUME UNCHANGED <<setup, forms, tried, refusals>>,
               phase' # "play" \/ (phase = "play" /\ pending'.action = pending.action)
        PROVE  Exploring'
    <2>1. Ggx' = Ggx /\ \A m : Ladder(m)' = Ladder(m)
      BY <1>1 DEF Ggx, Ladder, Factored, Texted, Omits, Texts, TriedBoth, TriedFactor, TriedText, TriedBare
    <2>2. phase' = "play" => phase = "play" /\ pending'.action = pending.action /\ Noted' = Noted
      BY <1>1 DEF Noted, Factored, Texted, Omits, Texts
    <2> QED BY <1>1, <2>1, <2>2 DEF Exploring
  <1>2. CASE Claim \/ PrepareFails \/ WxFails \/ WxLaunch \/ Refused \/ Stop \/ Quit \/ Restart
    BY <1>1, <1>2 DEF Claim, PrepareFails, GiveBack, WxFails, WxLaunch, Refused, LeaveBy, Leave, Stop,
                      Quit, Restart, shapes
  <1>3. CASE Restore \/ Enter
    BY <1>1, <1>3 DEF Restore, Enter, LeaveBy, Leave, shapes
  <1>4. CASE Login
    BY <1>1, <1>4 DEF Login, LoggingIn, LoginFails, LoggedIn, Leave, shapes
  <1>5. CASE Deadline \/ UNCHANGED vars
    BY <1>1, <1>5 DEF Deadline, vars, shapes, wire
  <1>6. CASE Ask
    <2>1. phase = "play" /\ \E frames : pending' = [pending EXCEPT !.frames = frames]
      BY <1>6 DEF Ask
    <2>2. pending = [held |-> pending.held, action |-> pending.action, frames |-> round]
      BY <2>1 DEF InSession
    <2>3. \A h, a, f, g : [[held |-> h, action |-> a, frames |-> f] EXCEPT !.frames = g].action = a
      OBVIOUS
    <2>4. pending'.action = pending.action
      BY <2>1, <2>2, <2>3
    <2> QED BY <1>1, <1>6, <2>1, <2>4 DEF Ask, shapes
  <1>7. CASE Crash \/ Finish
    <2>1. Forgotten /\ phase' # "play"
      BY <1>7 DEF Crash, Finish
    <2> QED BY <2>1, ForgottenFacts DEF Exploring
  <1>8. CASE Choose
    <2>1. \/ \E e : Fail(e, Spin, Here) /\ UNCHANGED tried
          \/ /\ phase' = "play" /\ UNCHANGED <<forms, refusals>>
             /\ pending' = IF pending.held THEN pending
                           ELSE [held |-> TRUE, action |-> Candidate, frames |-> <<>>]
             /\ Available # <<>> /\ (pending.held \/ Candidates # {})
             /\ tried' = IF pending'.action.name = "buy_spin"
                         THEN [tried EXCEPT ![pending'.action.type] =
                                 @ \cup {[factor |-> pending'.action.factor, text |-> pending'.action.text]}]
                         ELSE tried
      BY <1>8 DEF Choose
    <2>2. phase = "loop" /\ UNCHANGED setup
      BY <1>8 DEF Choose
    <2>3. ASSUME NEW e, Fail(e, Spin, Here), UNCHANGED tried
          PROVE  Exploring'
      <3>1. UNCHANGED <<forms, refusals>>
        BY <2>3 DEF Fail, Spin
      <3> QED BY <1>1, <2>2, <2>3, <3>1, FailFacts
    <2>4. ASSUME phase' = "play", UNCHANGED <<forms, refusals>>, Available # <<>>,
                 pending.held \/ Candidates # {},
                 pending' = IF pending.held THEN pending
                            ELSE [held |-> TRUE, action |-> Candidate, frames |-> <<>>],
                 tried' = IF pending'.action.name = "buy_spin"
                          THEN [tried EXCEPT ![pending'.action.type] =
                                  @ \cup {[factor |-> pending'.action.factor, text |-> pending'.action.text]}]
                          ELSE tried
          PROVE  Exploring'
      <3>1. ~pending.held
        BY <2>2 DEF Fresh, NoRound
      <3>2. pending'.action = Candidate /\ Candidates # {}
        BY <2>4, <3>1
      <3> DEFINE m == Candidate.type
                 way == [factor |-> Candidate.factor, text |-> Candidate.text]
      <3>3. tried' = IF Candidate.name = "buy_spin" THEN [tried EXCEPT ![m] = tried[m] \cup {way}] ELSE tried
        BY <2>4, <3>2
      <3>4. /\ forms = [omitted |-> forms.omitted, texted |-> forms.texted]
            /\ refusals \in [BuyTypes -> 0..4] /\ tried \in [BuyTypes -> SUBSET Ways]
        BY DEF Exploring
      <3>5. way \in Ways
        <4>1. Candidate \in PlayActions
          BY <2>2, <2>4, <3>2, CandidateFacts DEF InSession
        <4>2. Candidate.factor \in BOOLEAN /\ Candidate.text \in BOOLEAN
          <5>1. Spin.factor \in BOOLEAN /\ Spin.text \in BOOLEAN
            BY DEF Spin
          <5>2. \A b : Boost(b).factor = Spin.factor /\ Boost(b).text = Spin.text
            BY DEF Boost, Spin
          <5>3. \A n \in Nat \ {0}, f \in BOOLEAN, t \in BOOLEAN : Buy(n, f, t).factor = f /\ Buy(n, f, t).text = t
            BY DEF Buy
          <5> QED BY <4>1, <5>1, <5>2, <5>3 DEF PlayActions
        <4> QED BY <4>2 DEF Ways
      <3>6. way.factor = Candidate.factor /\ way.text = Candidate.text
        OBVIOUS
      <3> HIDE DEF way
      <3>7. tried' \in [BuyTypes -> SUBSET Ways]
        BY <3>3, <3>4, <3>5
      <3>8. \A n \in BuyTypes : tried[n] \subseteq tried'[n]
        BY <3>3, <3>4
      <3>9. Candidate.name = "buy_spin" /\ m \in BuyTypes => way \in tried'[m]
        BY <3>3, <3>4
      <3>10. Ggx' = Ggx /\ Factored' = Factored /\ Texted' = Texted
        BY <2>2 DEF Ggx, Factored, Texted
      <3>11. \A n \in BuyTypes : Ladder(n) => Ladder(n)'
        <4> SUFFICES ASSUME NEW n \in BuyTypes, Ladder(n)
                     PROVE  Ladder(n)'
          OBVIOUS
        <4>1. Omits(n)' = Omits(n) /\ Texts(n)' = Texts(n) /\ refusals'[n] = refusals[n]
          BY <2>4 DEF Omits, Texts
        <4>2. /\ TriedBoth(n) => TriedBoth(n)'
              /\ TriedFactor(n) => TriedFactor(n)'
              /\ TriedText(n) => TriedText(n)'
              /\ TriedBare(n) => TriedBare(n)'
          BY <3>8 DEF TriedBoth, TriedFactor, TriedText, TriedBare
        <4> QED BY <3>10, <4>1, <4>2 DEF Ladder
      <3>12. Candidate.name = "buy_spin" /\ ~Ggx => Noted'
        <4> SUFFICES ASSUME Candidate.name = "buy_spin", ~Ggx
                     PROVE  Noted'
          OBVIOUS
        <4>1. /\ m \in BuyTypes
              /\ Candidate.factor <=> Factored /\ ~Omits(m)
              /\ Candidate.text <=> Texted \/ Texts(m)
          BY <2>2, <2>4, <3>2, NotingFacts
        <4>2. forms' = forms
          BY <2>4
        <4>3. \E w \in tried'[m] : (w.factor <=> Candidate.factor) /\ (w.text <=> Candidate.text)
          BY <3>6, <3>9, <4>1
        <4> HIDE DEF m
        <4>4. Noted' <=>
                /\ m \in BuyTypes
                /\ Candidate.factor <=> Factored' /\ ~(m \in forms'.omitted)
                /\ Candidate.text <=> Texted' \/ m \in forms'.texted
                /\ \E w \in tried'[m] : (w.factor <=> Candidate.factor) /\ (w.text <=> Candidate.text)
          BY <3>2 DEF Noted, Omits, Texts, m
        <4> QED BY <3>10, <4>1, <4>2, <4>3, <4>4 DEF Omits, Texts
      <3>13. pending'.action.name = Candidate.name
        BY <3>2
      <3> QED BY <2>4, <3>4, <3>7, <3>10, <3>11, <3>12, <3>13 DEF Exploring
    <2> QED BY <2>1, <2>3, <2>4
  <1>9. CASE AskFails
    <2>1. \E e, next : Fail(e, pending.action, next)
      BY <1>9 DEF AskFails
    <2>2. phase = "play" /\ UNCHANGED <<setup, tried>>
      BY <1>9 DEF AskFails
    <2> QED BY <2>1, <2>2, ReshapedFacts
  <1>10. CASE Settle
    <2>1. phase = "play" /\ UNCHANGED <<setup, tried>>
      BY <1>10 DEF Settle
    <2>2. CASE Fail("INVALID", pending.action, Here)
      BY <2>1, <2>2, ReshapedFacts
    <2>3. CASE phase' = "loop" /\ UNCHANGED <<forms, refusals>>
      BY <1>1, <2>1, <2>3
    <2> QED BY <1>10, <2>2, <2>3 DEF Settle
  <1> QED BY <1>2, <1>3, <1>4, <1>5, <1>6, <1>7, <1>8, <1>9, <1>10 DEF Next, ThreadStep

LEMMA WaysFacts ==
  /\ IsFiniteSet(Ways)
  /\ \A w, v \in Ways : (w.factor <=> v.factor) /\ (w.text <=> v.text) => w = v
  <1>1. \A w, v \in Ways : (w.factor <=> v.factor) /\ (w.text <=> v.text) => w = v
    <2> SUFFICES ASSUME NEW w \in Ways, NEW v \in Ways, w.factor <=> v.factor, w.text <=> v.text
                 PROVE  w = v
      OBVIOUS
    <2>1. w.factor = v.factor /\ w.text = v.text
      BY DEF Ways
    <2> QED BY <2>1 DEF Ways
  <1> DEFINE g == [w \in Ways |-> (IF w.factor THEN 2 ELSE 0) + (IF w.text THEN 1 ELSE 0)]
  <1>2. g \in [Ways -> 0..3]
    OBVIOUS
  <1>3. \A w, v \in Ways : g[w] = g[v] => w = v
    BY <1>1
  <1> HIDE DEF g
  <1>4. g \in Injection(Ways, 0..3)
    BY <1>2, <1>3, Fun_IsInj
  <1>5. IsFiniteSet(0..3)
    <2>1. \A a, b \in Int : IsFiniteSet(a..b)
      BY FS_Interval
    <2>2. PICK n \in Int : n = 3
      OBVIOUS
    <2>3. IsFiniteSet(0..n)
      BY <2>1
    <2> QED BY <2>2, <2>3
  <1> QED BY <1>1, <1>4, <1>5, FS_Injection

\* As many different members, as large the set.
LEMMA AtLeast ==
  ASSUME NEW T, IsFiniteSet(T)
  PROVE  /\ Cardinality(T) \in Nat
         /\ \A a \in T : Cardinality(T) >= 1
         /\ \A a, b \in T : a # b => Cardinality(T) >= 2
         /\ \A a, b, c \in T : a # b /\ a # c /\ b # c => Cardinality(T) >= 3
  <1>1. ASSUME NEW S, IsFiniteSet(S), NEW a \in S
        PROVE  IsFiniteSet(S \ {a}) /\ Cardinality(S \ {a}) = Cardinality(S) - 1
               /\ Cardinality(S) \in Nat /\ Cardinality(S \ {a}) \in Nat
    <2>1. IsFiniteSet(S \ {a}) /\ Cardinality(S \ {a}) = Cardinality(S) - 1
      BY <1>1, FS_RemoveElement
    <2> QED BY <1>1, <2>1, FS_CardinalityType
  <1>2. ASSUME NEW S, IsFiniteSet(S), NEW a \in S
        PROVE  Cardinality(S) >= 1
    <2>1. Cardinality(S \ {a}) = Cardinality(S) - 1 /\ Cardinality(S) \in Nat /\ Cardinality(S \ {a}) \in Nat
      BY <1>1, <1>2
    <2> QED BY <2>1
  <1>3. ASSUME NEW S, IsFiniteSet(S), NEW a \in S, NEW b \in S, a # b
        PROVE  Cardinality(S) >= 2
    <2>1. b \in S \ {a}
      BY <1>3
    <2>2. Cardinality(S \ {a}) >= 1
      BY <1>1, <1>2, <1>3, <2>1
    <2> QED BY <1>1, <1>3, <2>2
  <1>4. ASSUME NEW S, IsFiniteSet(S), NEW a \in S, NEW b \in S, NEW c \in S, a # b, a # c, b # c
        PROVE  Cardinality(S) >= 3
    <2>1. b \in S \ {a} /\ c \in S \ {a}
      BY <1>4
    <2>2. Cardinality(S \ {a}) >= 2
      BY <1>1, <1>3, <1>4, <2>1
    <2> QED BY <1>1, <1>4, <2>2
  <1> QED BY <1>2, <1>3, <1>4, FS_CardinalityType

\* What is noted is as much as was refused, and one more, until all is.
LEMMA NotedIsEnough ==
  ASSUME Exploring, phase = "play", pending.action.name = "buy_spin", ~Ggx
  PROVE  LET m == pending.action.type IN
         Cardinality(tried[m]) >= Min({refusals[m] + 1, Cardinality(PurchaseForms)})
  <1> DEFINE m == pending.action.type
             r == refusals[m]
             T == tried[m]
  <1>1. /\ m \in BuyTypes /\ T \subseteq Ways /\ r \in 0..4 /\ Ladder(m) /\ Noted
    BY DEF Exploring, Noted
  <1>2. IsFiniteSet(T) /\ IsFiniteSet(PurchaseForms) /\ PurchaseForms \subseteq Ways
    <2>1. PurchaseForms \subseteq Ways
      BY DEF PurchaseForms, Ways
    <2> HIDE DEF T
    <2> QED BY <1>1, <2>1, WaysFacts, FS_Subset
  <1>3. Cardinality(T) \in Nat /\ Cardinality(PurchaseForms) \in Nat
    BY <1>2, FS_CardinalityType
  <1>4. ASSUME PurchaseForms \subseteq T
        PROVE  Cardinality(T) >= Min({r + 1, Cardinality(PurchaseForms)})
    <2>1. Cardinality(PurchaseForms) <= Cardinality(T)
      BY <1>2, <1>4, FS_Subset
    <2>2. r + 1 \in Nat
      BY <1>1
    <2> HIDE DEF T, r
    <2> QED BY <1>3, <2>1, <2>2, MinFacts
  <1>5. ASSUME Cardinality(T) >= r + 1
        PROVE  Cardinality(T) >= Min({r + 1, Cardinality(PurchaseForms)})
    <2>1. r + 1 \in Nat
      BY <1>1
    <2> HIDE DEF T, r
    <2> QED BY <1>3, <1>5, <2>1, MinFacts
  <1>6. PICK now \in T : (now.factor <=> Factored /\ ~Omits(m)) /\ (now.text <=> Texted \/ Texts(m))
    BY <1>1 DEF Noted
  <1>7. \A p \in PurchaseForms, w \in T : (w.factor <=> p.factor) /\ (w.text <=> p.text) => p \in T
    BY <1>1, <1>2, WaysFacts
  <1>8. \A p \in PurchaseForms : (p.factor => Factored) /\ (Texted => p.text)
    BY DEF PurchaseForms, Factored, Texted
  <1>9. /\ Factored /\ ~Texted /\ TriedBoth(m) /\ TriedFactor(m) /\ TriedText(m) /\ TriedBare(m)
              => PurchaseForms \subseteq T
        /\ Factored /\ Texted /\ TriedBoth(m) /\ TriedText(m) => PurchaseForms \subseteq T
        /\ ~Factored /\ ~Texted /\ TriedText(m) /\ TriedBare(m) => PurchaseForms \subseteq T
        /\ ~Factored /\ Texted /\ TriedText(m) => PurchaseForms \subseteq T
    BY <1>7, <1>8 DEF TriedBoth, TriedFactor, TriedText, TriedBare
  <1>10. /\ now.factor /\ now.text => TriedBoth(m)
         /\ now.factor /\ ~now.text => TriedFactor(m)
         /\ ~now.factor /\ now.text => TriedText(m)
         /\ ~now.factor /\ ~now.text => TriedBare(m)
    BY DEF TriedBoth, TriedFactor, TriedText, TriedBare
  <1>11. Cardinality(T) >= 1
    BY <1>2, <1>6, AtLeast
  <1>12. TriedFactor(m) /\ TriedBare(m) => Cardinality(T) >= 2
    <2> SUFFICES ASSUME TriedFactor(m), TriedBare(m)
                 PROVE  Cardinality(T) >= 2
      OBVIOUS
    <2>1. PICK a \in T, b \in T : a.factor /\ ~b.factor
      BY DEF TriedFactor, TriedBare
    <2>2. a # b
      BY <2>1
    <2> HIDE DEF T
    <2> QED BY <1>2, <2>2, AtLeast
  <1>13. TriedFactor(m) /\ TriedBare(m) /\ TriedText(m) => Cardinality(T) >= 3
    <2> SUFFICES ASSUME TriedFactor(m), TriedBare(m), TriedText(m)
                 PROVE  Cardinality(T) >= 3
      OBVIOUS
    <2>1. PICK a \in T, b \in T, c \in T : a.factor /\ ~b.factor /\ ~b.text /\ ~c.factor /\ c.text
      BY DEF TriedFactor, TriedBare, TriedText
    <2>2. a # b /\ a # c /\ b # c
      BY <2>1
    <2> HIDE DEF T
    <2> QED BY <1>2, <2>2, AtLeast
  <1> HIDE DEF T
  <1>14. PurchaseForms \subseteq T \/ Cardinality(T) >= r + 1
    <2>1. CASE Factored /\ ~Texted
      <3>1. CASE r = 0
        BY <1>3, <1>11, <3>1
      <3>2. CASE r = 1
        BY <1>1, <1>3, <1>6, <1>10, <1>12, <2>1, <3>2 DEF Ladder
      <3>3. CASE r = 2
        BY <1>1, <1>3, <1>6, <1>10, <1>13, <2>1, <3>3 DEF Ladder
      <3>4. CASE r = 3
        BY <1>1, <1>6, <1>9, <1>10, <2>1, <3>4 DEF Ladder
      <3>5. CASE r = 4
        BY <1>1, <1>9, <2>1, <3>5 DEF Ladder
      <3> QED BY <1>1, <3>1, <3>2, <3>3, <3>4, <3>5
    <2>2. CASE Factored /\ Texted
      <3>1. CASE r = 0
        BY <1>3, <1>11, <3>1
      <3>2. CASE r = 1
        BY <1>1, <1>6, <1>9, <1>10, <2>2, <3>2 DEF Ladder
      <3>3. CASE r >= 2
        BY <1>1, <1>9, <2>2, <3>3 DEF Ladder
      <3> QED BY <1>1, <3>1, <3>2, <3>3
    <2>3. CASE ~Factored /\ ~Texted
      <3>1. CASE r = 0
        BY <1>3, <1>11, <3>1
      <3>2. CASE r = 1
        BY <1>1, <1>6, <1>9, <1>10, <2>3, <3>2 DEF Ladder
      <3>3. CASE r >= 2
        BY <1>1, <1>9, <2>3, <3>3 DEF Ladder
      <3> QED BY <1>1, <3>1, <3>2, <3>3
    <2>4. CASE ~Factored /\ Texted
      BY <1>6, <1>9, <1>10, <2>4
    <2> QED BY <2>1, <2>2, <2>3, <2>4
  <1>15. Cardinality(T) >= Min({r + 1, Cardinality(PurchaseForms)})
    BY <1>4, <1>5, <1>14
  <1> QED BY <1>15 DEF T

\* A purchase that is refused is sent in another form every time, until all
\* its price list allows were tried, whichever fields and prices the list has
\* and whatever happens between two refusals of the lease (oaks.ts 534-546).
THEOREM EveryFormIsTried == SoldIsDeclared /\ Spec => []FormsExplored
  <1> SUFFICES ASSUME SoldIsDeclared
               PROVE  Spec => []FormsExplored
    OBVIOUS
  <1>1. Init => Exploring
    BY DEF Init, Exploring, NoForms, Ladder, Omits, Texts
  <1>2. Exploring => FormsExplored
    BY NotedIsEnough DEF FormsExplored
  <1>3. Fresh /\ InSession /\ Stocked /\ Exploring /\ [Next]_vars => Exploring'
    BY ExploringStep
  <1> QED BY <1>1, <1>2, <1>3, SessionKept, PTL DEF Spec
=============================================================================

------------------------------- MODULE Rounds -------------------------------
(***************************************************************************)
(* The rounds of a game and the pure rules of src/src/protocol.ts,         *)
(* features.ts, shop.ts, game-definition.ts, capture-checkpoint.ts and     *)
(* mode-target.ts about them: which modes a session sells, which action    *)
(* buys which, when a sequence of frames is a complete round, of which     *)
(* mode it is and which features it shows, what is still missing.          *)
(*                                                                         *)
(* A frame is one answer of the provider: the action it answers with the   *)
(* mode it echoes, the state of the game, the free spins granted, the win  *)
(* so far, the actions it offers next and whether the round is over.       *)
(* Amounts other than the win, boards and jackpots are left out.           *)
(***************************************************************************)
EXTENDS Integers, Sequences, FiniteSets, SequencesExt

CONSTANTS
  BuyTypes,      \* spin types of the purchase modes the registry declares
  BoosterModes,  \* booster modes the registry declares
  NormalTarget,  \* --normal-rounds
  ModeTarget,    \* --target-per-mode
  FeatureGoal    \* --target-per-feature

BoosterOffset == 1000
None == -1       \* a number the provider did not send

ASSUME RoundsAssumption ==
  /\ BuyTypes \subseteq 1..BoosterOffset /\ BoosterModes \subseteq Nat \ {0} /\ IsFiniteSet(BoosterModes)
  /\ {NormalTarget, ModeTarget, FeatureGoal} \subseteq Nat

DeclaredTypes == {0} \cup BuyTypes \cup {BoosterOffset + b : b \in BoosterModes}
Targets == [t \in DeclaredTypes |-> IF t = 0 THEN NormalTarget ELSE ModeTarget]

-----------------------------------------------------------------------------
(* What a session sells. start.fields names the price fields of the start  *)
(* answer; a session that has two of them cannot be read.                  *)

PriceFields == {"map", "array", "suffix", "freespin"}
Conflicting(start) == Cardinality(start.fields) > 1

\* Modes are numbered from 1 in every form of the price list.
BuyModes(start) ==
  CASE start.fields = {} -> {}
    [] start.fields = {"array"} -> 1..Cardinality(start.sold)
    [] start.fields = {"freespin"} -> start.sold \cap {1}
    [] OTHER -> start.sold

OnSale(start) ==
  {m \in BuyModes(start) : start.available = {} \/ m \in start.available}

Spin == [name |-> "spin", mode |-> 0, ante |-> FALSE, type |-> 0, factor |-> FALSE, text |-> FALSE]
Boost(b) == [Spin EXCEPT !.mode = b, !.ante = TRUE]
Buy(m, factor, text) ==
  [name |-> "buy_spin", mode |-> m, ante |-> FALSE, type |-> m, factor |-> factor, text |-> text]

Ascending(numbers) ==
  [i \in 1..Cardinality(numbers) |-> CHOOSE n \in numbers : Cardinality({m \in numbers : m < n}) = i - 1]

\* The first of a sequence that is in a set.
First(s, chosen) ==
  s[CHOOSE i \in DOMAIN s : s[i] \in chosen /\ \A j \in 1..i - 1 : s[j] \notin chosen]

\* buildPlayableActions: omitted and texted are the types whose bet_factor is left out and
\* whose mode is sent as a string. applyGgxSpinParams puts the bet_factor of the session back.
PlayableActions(start, ggx, omitted, texted) ==
  LET Form(m) == Buy(m, start.factor /\ (ggx \/ (~start.kendoo /\ m \notin omitted)),
                     start.fields = {"array"} \/ m \in texted)
      boosters == Ascending(start.boosters)
      buys == Ascending(OnSale(start))
  IN  (IF "spin" \in start.actions
       THEN <<Spin>> \o [i \in DOMAIN boosters |-> Boost(boosters[i])] ELSE <<>>)
      \o (IF "buy_spin" \in start.actions THEN [i \in DOMAIN buys |-> Form(buys[i])] ELSE <<>>)

SpinType(action) ==
  CASE action.type > 0 -> action.type
    [] action.type <= 0 /\ action.mode > 0 /\ action.name = "buy_spin" -> action.mode
    [] action.type <= 0 /\ action.mode > 0 /\ action.name = "spin" /\ action.ante
         -> BoosterOffset + action.mode
    [] OTHER -> 0

\* A feature is a name and a number, 0 where the name says it all.
FeatureKey(action) ==
  CASE action.name = "buy_spin" -> <<"buy-bonus", action.mode>>
    [] action.name = "spin" /\ action.ante /\ action.mode > 0 -> <<"booster", action.mode>>
    [] OTHER -> <<"spin", 0>>

-----------------------------------------------------------------------------
(* Rounds.                                                                 *)

NextActions(frame) == IF frame.finished THEN {} ELSE frame.offers \ {"spin"}

RoundWin(frames) == Last(frames).win

\* What openness of a round the validator of every game checks (validateCommonRound).
ValidRound(frames) ==
  /\ frames # <<>>
  /\ frames[1].action \in {"spin", "buy_spin"}
  /\ \A i \in 2..Len(frames) :
       frames[i].win >= frames[i - 1].win /\ frames[i].action \in frames[i - 1].offers
  /\ Last(frames).finished /\ "spin" \in Last(frames).offers

TypeEchoed(frames, fallback) ==
  LET echoed == SpinType([Spin EXCEPT !.name = frames[1].action, !.mode = frames[1].mode, !.ante = frames[1].ante])
  IN  IF echoed > 0 THEN echoed ELSE fallback

\* The spin type of a stored round: old purchases were numbered from 0, so the number the
\* document carries wins where it is the echoed mode plus one or the echo is 0.
RoundSpinType(frames, fallback) ==
  LET first == frames[1]
      detected == SpinType([Spin EXCEPT !.name = first.action, !.mode = first.mode, !.ante = first.ante])
      renumbered == first.action = "buy_spin" /\ fallback > 0 /\ first.mode \in {0, fallback - 1}
  IN  CASE renumbered -> fallback
        [] ~renumbered /\ detected > 0 -> detected
        [] ~renumbered /\ detected = 0 /\ first.action = "spin"
             -> IF fallback > BoosterOffset THEN fallback ELSE 0
        [] OTHER -> fallback

Loss == <<"base-loss", 0>>
Win == <<"base-or-feature-win", 0>>
BaseFeatures == {Loss, Win}

Retriggered(frames) ==
  LET granting == SelectSeq(frames, LAMBDA f : f.granted # None)
  IN  \E i \in 2..Len(granting) : granting[i].granted > granting[i - 1].granted

\* classify and classifyRound
Classified(frames) ==
  {IF RoundWin(frames) > 0 THEN Win ELSE Loss}
  \cup {<<frames[i].action, 0>> : i \in DOMAIN frames}
Evidence(frames) ==
  {<<IF frames[i].state = "bonus" THEN "hold-and-win" ELSE "free-spins", 0>> :
     i \in {j \in DOMAIN frames : frames[j].state \in {"bonus", "freespins"}}}
  \cup (IF \E i \in DOMAIN frames : frames[i].action = "respin" THEN {<<"respin", 0>>} ELSE {})
  \cup (IF Retriggered(frames) THEN {<<"free-retrigger", 0>>} ELSE {})
  \cup (IF frames[1].action = "buy_spin" THEN {<<"bonus-buy", 0>>} ELSE {})
  \cup (IF frames[1].action = "buy_spin" /\ frames[1].mode >= 0
        THEN {<<"buy-bonus", frames[1].mode>>} ELSE {})
  \cup (IF frames[1].action = "spin" /\ frames[1].ante /\ frames[1].mode > 0
        THEN {<<"booster", frames[1].mode>>} ELSE {})

\* The features a document is stored with.
RoundFeatures(frames, action) ==
  Classified(frames) \cup Evidence(frames) \cup ({FeatureKey(action)} \ {<<"spin", 0>>})

-----------------------------------------------------------------------------
(* What a file of documents holds. A document is a round, the type it was  *)
(* played as and whether it is a test sample.                              *)

Hash(document) == document.data
TypeOf(document) == RoundSpinType(document.data, document.buy)
Counted(document) ==
  IF TypeOf(document) = 0 THEN document.features ELSE document.features \ BaseFeatures

Coverage(file, feature) == Cardinality({Hash(d) : d \in {e \in file : feature \in Counted(e)}})

RestoredWithSamples(file) ==
  [t \in DeclaredTypes |-> Cardinality({Hash(d) : d \in {e \in file : TypeOf(e) = t}})]

\* The counts a capture restores, and the counts the validation and the audit find.
RestoredCounts(file) ==
  [t \in DeclaredTypes |-> Cardinality({Hash(d) : d \in {e \in file : ~e.testOnly /\ TypeOf(e) = t}})]
AuditedCounts(file) ==
  [t \in DeclaredTypes |-> Cardinality({d \in file : ~d.testOnly /\ TypeOf(d) = t})]
MissingModes(counts) == {t \in DeclaredTypes : counts[t] < Targets[t]}

\* validate-data.ts with mode targets: every line is a complete round, none occurs twice, no
\* mode is missing, and the base game, whose features it counts again, has lost and won once.
LineErrors(file) ==
  {d \in file : ~ValidRound(d.data) \/ \E e \in file \ {d} : Hash(e) = Hash(d)}
MissingBase(file) ==
  {f \in BaseFeatures : \A d \in file \ LineErrors(file) : TypeOf(d) # 0 \/ f \notin Classified(d.data)}
Valid(file) ==
  LineErrors(file) = {} /\ MissingModes(AuditedCounts(file)) = {} /\ MissingBase(file) = {}

ActionKey(document) ==
  LET first == document.data[1] IN
  CASE first.action = "buy_spin" /\ first.mode >= 0 -> <<"buy-bonus", first.mode>>
    [] first.action = "spin" /\ first.ante /\ first.mode > 0 -> <<"booster", first.mode>>
    [] OTHER -> <<"spin", 0>>

\* A document of an earlier lease shows what its echo says it was bought with, one of this lease
\* what was asked for.
AskedKey(document) ==
  CASE document.buy > BoosterOffset -> <<"booster", document.buy - BoosterOffset>>
    [] document.buy \in 1..BoosterOffset -> <<"buy-bonus", document.buy>>
    [] OTHER -> <<"spin", 0>>
Observed(file, restored, key) ==
  UNION {d.features : d \in {e \in file : key = IF e \in restored THEN ActionKey(e) ELSE AskedKey(e)}}

FeatureTarget(feature) == IF feature \in BaseFeatures THEN 1 ELSE FeatureGoal
Missing(file, required) == {f \in required : Coverage(file, f) < FeatureTarget(f)}

-----------------------------------------------------------------------------
(* The inventory of features of a game.                                    *)

Fingerprint(start) == OnSale(start)

DiscoveredInventory(hints, start) ==
  [print |-> Fingerprint(start), observed |-> {},
   required |-> hints \cup {<<"buy-bonus", m>> : m \in OnSale(start)}
                \cup {<<"booster", b>> : b \in start.boosters}]

WithObserved(inventory, frames) ==
  IF Evidence(frames) \subseteq inventory.observed THEN inventory
  ELSE [inventory EXCEPT !.observed = @ \cup Evidence(frames),
                         !.required = @ \cup (Evidence(frames) \ {<<"bonus-buy", 0>>})]

-----------------------------------------------------------------------------
(* What to play next.                                                      *)

\* The modes below their target, and their order: special ones first.
RemainingModes(counts, targets) == {t \in DeclaredTypes : counts[t] < targets[t]}
ModeOrder ==
  Ascending({BoosterOffset + b : b \in BoosterModes}) \o Ascending(BuyTypes) \o <<0>>

\* chooseAction: the base game first, then a mode that is itself missing, then the mode that
\* has shown most of what is missing, then every mode in turn.
ChosenAction(actions, file, restored, required, sequence) ==
  LET offered == Range(actions)
      spins == {a \in offered : a.name = "spin" /\ ~a.ante}
      base == IF spins # {} THEN First(actions, spins) ELSE actions[1]
      missing == Missing(file, required)
      special == {a \in offered : FeatureKey(a) # <<"spin", 0>>}
      directed == {a \in special : FeatureKey(a) \in missing}
      Score(a) == Cardinality((missing \ BaseFeatures) \cap Observed(file, restored, FeatureKey(a)))
      best == First(actions, {a \in special : \A b \in special : Score(b) <= Score(a)})
      places == Ascending({i \in DOMAIN actions : actions[i] \in special})
      turn == sequence % (Len(places) + 1)
  IN  CASE missing \cap BaseFeatures # {} -> base
        [] missing \cap BaseFeatures = {} /\ directed # {} -> First(actions, directed)
        [] missing \cap BaseFeatures = {} /\ directed = {} /\ missing # {} /\ special # {}
             -> IF Score(best) > 0 THEN best ELSE IF turn = 0 THEN base ELSE actions[places[turn]]
        [] OTHER -> base
=============================================================================

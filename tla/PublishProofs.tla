---------------------------- MODULE PublishProofs ----------------------------
(* Theorems about the registry, the reports of the games and the release,  *)
(* for every catalogue, number of tools, size of page and of batch.        *)
EXTENDS Publish, FiniteSetTheorems, FunctionTheorems, SequenceTheorems, WellFoundedInduction, TLAPS

-----------------------------------------------------------------------------
(* Ranks.                                                                  *)

\* A set of natural numbers has a least one.
LEMMA LeastNat ==
  ASSUME NEW T \in SUBSET Nat, T # {}
  PROVE  \E n \in T : \A m \in T : n <= m
  <1> DEFINE R == OpToRel(<, Nat)
  <1>1. IsWellFoundedOn(R, Nat)
    BY NatLessThanWellFounded
  <1>2. \A x, y \in Nat : x < y => <<x, y>> \in R
    BY DEF OpToRel
  <1> HIDE DEF R
  <1>3. PICK n \in T : \A m \in T : ~(<<m, n>> \in R)
    BY <1>1, WFMin
  <1>4. ASSUME NEW m \in T
        PROVE  n <= m
    <2>1. m \in Nat /\ n \in Nat
      OBVIOUS
    <2>2. ~(m < n)
      BY <1>2, <1>3, <2>1
    <2> QED BY <2>1, <2>2
  <1> QED BY <1>4

\* The elements of E that a numbering f puts before e.
Before(E, f, e) == {x \in E : f[x] < f[e]}

\* In a finite set numbered without repetition, every rank from 0 up is that of
\* one element.
LEMMA Ranks ==
  ASSUME NEW E, IsFiniteSet(E), NEW f \in [E -> Nat],
         \A a, b \in E : f[a] = f[b] => a = b
  PROVE  /\ Cardinality(E) \in Nat
         /\ \A e \in E : Cardinality(Before(E, f, e)) \in 0..(Cardinality(E) - 1)
         /\ \A a, b \in E :
              Cardinality(Before(E, f, a)) = Cardinality(Before(E, f, b)) => a = b
         /\ \A k \in 0..(Cardinality(E) - 1) :
              \E e \in E : Cardinality(Before(E, f, e)) = k
  <1> DEFINE rank == [e \in E |-> Cardinality(Before(E, f, e))]
             n == Cardinality(E)
  <1>0. n \in Nat
    BY FS_CardinalityType
  <1>1. ASSUME NEW e \in E
        PROVE  /\ IsFiniteSet(Before(E, f, e))
               /\ Cardinality(Before(E, f, e)) \in Nat
               /\ Cardinality(Before(E, f, e)) <= n - 1
    <2>1. IsFiniteSet(E \ {e}) /\ Cardinality(E \ {e}) = n - 1
      BY FS_RemoveElement
    <2>2. Before(E, f, e) \in SUBSET (E \ {e})
      BY DEF Before
    <2> QED BY <2>1, <2>2, FS_Subset, FS_CardinalityType
  <1>2. ASSUME NEW a \in E, NEW b \in E, f[a] < f[b]
        PROVE  Cardinality(Before(E, f, a)) < Cardinality(Before(E, f, b))
    <2>1. IsFiniteSet(Before(E, f, a) \cup {a})
          /\ Cardinality(Before(E, f, a) \cup {a}) = Cardinality(Before(E, f, a)) + 1
      <3>1. a \notin Before(E, f, a)
        BY DEF Before
      <3> QED BY <1>1, <3>1, FS_AddElement
    <2>2. Before(E, f, a) \cup {a} \in SUBSET Before(E, f, b)
      BY <1>2 DEF Before
    <2>3. Cardinality(Before(E, f, a) \cup {a}) <= Cardinality(Before(E, f, b))
      BY <1>1, <2>2, FS_Subset
    <2> QED BY <1>1, <2>1, <2>3
  <1>3. ASSUME NEW a \in E, NEW b \in E,
               Cardinality(Before(E, f, a)) = Cardinality(Before(E, f, b))
        PROVE  a = b
    <2>1. ~(f[a] < f[b]) /\ ~(f[b] < f[a])
      BY <1>1, <1>2, <1>3
    <2>2. f[a] = f[b]
      BY <2>1
    <2> QED BY <2>2
  <1>4. rank \in [E -> 0..(n - 1)]
    BY <1>0, <1>1
  <1>5. \A a, b \in E : rank[a] = rank[b] => a = b
    BY <1>3
  <1>6. rank \in Injection(E, 0..(n - 1))
    <2> HIDE DEF rank
    <2> QED BY <1>4, <1>5, Fun_IsInj
  <1>7. IsFiniteSet(0..(n - 1)) /\ Cardinality(0..(n - 1)) = n
    BY <1>0, FS_Interval
  <1>8. rank \in Surjection(E, 0..(n - 1))
    <2> HIDE DEF rank, n
    <2>1. Cardinality(E) = Cardinality(0..(n - 1))
      BY <1>7 DEF n
    <2> QED BY <1>6, <1>7, <2>1, FS_Injection
  <1>9. \A k \in 0..(n - 1) : \E e \in E : rank[e] = k
    <2> HIDE DEF rank, n
    <2> QED BY <1>8, Fun_SurjectionProperties
  <1> QED BY <1>0, <1>1, <1>3, <1>9

-----------------------------------------------------------------------------
(* What a tool makes of a registry.                                        *)

Game == [id : Nat \ {0}, active : BOOLEAN, found : BOOLEAN]

\* A registry as every tool leaves it: no two games share an id.
GoodRegistry(games) ==
  /\ DOMAIN games \subseteq Slugs
  /\ games \in [DOMAIN games -> Game]
  /\ \A g, h \in DOMAIN games : games[g].id = games[h].id => g = h

\* Nothing is taken from a registry: its games keep their ids and definitions.
Extends(after, before) ==
  \A g \in DOMAIN before :
    /\ g \in DOMAIN after /\ after[g].id = before[g].id
    /\ before[g].found => after[g].found

\* Where the games of a catalogue were shown first.
LEMMA Places ==
  ASSUME NEW seen \in Seq(Slugs)
  PROVE  /\ IsFiniteSet(ToSet(seen)) /\ ToSet(seen) \subseteq Slugs
         /\ \A g \in ToSet(seen) : Place(seen, g) \in Nat
         /\ \A g, h \in ToSet(seen) : Place(seen, g) = Place(seen, h) => g = h
  <1>1. IsFiniteSet(Slugs)
    BY PublishAssumption
  <1>2. ToSet(seen) \in SUBSET Slugs
    BY ElementOfSeq DEF ToSet
  <1>3. ASSUME NEW g \in ToSet(seen)
        PROVE  Place(seen, g) \in DOMAIN seen /\ seen[Place(seen, g)] = g
    <2> DEFINE P == {i \in DOMAIN seen : seen[i] = g}
    <2>1. P \in SUBSET Nat /\ P # {}
      BY DEF ToSet
    <2>2. PICK i \in P : \A j \in P : i <= j
      BY <2>1, LeastNat
    <2>3. i \in DOMAIN seen /\ seen[i] = g /\ \A j \in 1..(i - 1) : seen[j] # g
      <3>1. i \in 1..Len(seen)
        BY <2>2
      <3>2. ASSUME NEW j \in 1..(i - 1), seen[j] = g
            PROVE  FALSE
        <4>1. j \in P /\ ~(i <= j)
          BY <3>1, <3>2
        <4> QED BY <2>2, <4>1
      <3> QED BY <2>2, <3>2
    <2> QED BY <2>3 DEF Place
  <1>4. \A g \in ToSet(seen) : Place(seen, g) \in Nat
    BY <1>3
  <1> QED BY <1>1, <1>2, <1>3, <1>4, FS_Subset

\* syncCatalog adds games under ids nobody has.
LEMMA SyncedFacts ==
  ASSUME NEW known, GoodRegistry(known), NEW seen \in Seq(Slugs),
         Cardinality(NewOf(known, seen)) <= Cardinality(Free(known))
  PROVE  GoodRegistry(Synced(known, seen)) /\ Extends(Synced(known, seen), known)
  <1> DEFINE new == NewOf(known, seen)
             free == Free(known)
             ahead(g) == {h \in new : Place(seen, h) < Place(seen, g)}
             idOf(g) == CHOOSE id \in free :
                          Cardinality({i \in free : i < id}) = Cardinality(ahead(g))
             place == [g \in new |-> Place(seen, g)]
             self == [i \in free |-> i]
  <1>1. FirstId \in Nat \ {0} /\ LastId \in Nat
    BY PublishAssumption
  <1>2. new \subseteq ToSet(seen) /\ new \in SUBSET ToSet(seen)
    BY DEF NewOf
  <1>3. free \in SUBSET (FirstId..LastId) /\ free \subseteq Nat \ {0}
    BY <1>1 DEF Free
  <1>4. IsFiniteSet(new) /\ IsFiniteSet(free)
    <2>1. IsFiniteSet(new)
      BY <1>2, Places, FS_Subset
    <2>2. IsFiniteSet(FirstId..LastId)
      BY <1>1, FS_Interval
    <2> QED BY <1>3, <2>1, <2>2, FS_Subset
  <1>5. /\ place \in [new -> Nat]
        /\ \A g, h \in new : place[g] = place[h] => g = h
        /\ self \in [free -> Nat]
        /\ \A i, j \in free : self[i] = self[j] => i = j
    BY <1>2, <1>3, Places
  <1>6. /\ \A g \in new : ahead(g) = Before(new, place, g)
        /\ \A id \in free : {i \in free : i < id} = Before(free, self, id)
    BY DEF Before
  <1> HIDE DEF new, free, place, self
  <1>7. /\ Cardinality(new) \in Nat /\ Cardinality(free) \in Nat
        /\ \A g \in new : Cardinality(ahead(g)) \in 0..(Cardinality(new) - 1)
        /\ \A g, h \in new : Cardinality(ahead(g)) = Cardinality(ahead(h)) => g = h
        /\ \A k \in 0..(Cardinality(free) - 1) :
             \E id \in free : Cardinality({i \in free : i < id}) = k
    <2>1. /\ Cardinality(new) \in Nat
          /\ \A g \in new : Cardinality(Before(new, place, g)) \in 0..(Cardinality(new) - 1)
          /\ \A g, h \in new : Cardinality(Before(new, place, g))
                                = Cardinality(Before(new, place, h)) => g = h
      BY <1>4, <1>5, Ranks
    <2>2. /\ Cardinality(free) \in Nat
          /\ \A k \in 0..(Cardinality(free) - 1) :
               \E id \in free : Cardinality(Before(free, self, id)) = k
      BY <1>4, <1>5, Ranks
    <2>3. \A k \in 0..(Cardinality(free) - 1) :
            \E id \in free : Cardinality({i \in free : i < id}) = k
      <3> SUFFICES ASSUME NEW k \in 0..(Cardinality(free) - 1)
                   PROVE  \E id \in free : Cardinality({i \in free : i < id}) = k
        OBVIOUS
      <3>1. PICK id \in free : Cardinality(Before(free, self, id)) = k
        BY <2>2
      <3>2. Cardinality({i \in free : i < id}) = k
        BY <1>6, <3>1
      <3> QED BY <3>2
    <2>4. \A g \in new : Cardinality(ahead(g)) = Cardinality(Before(new, place, g))
      BY <1>6
    <2> HIDE DEF ahead
    <2>5. /\ \A g \in new : Cardinality(ahead(g)) \in 0..(Cardinality(new) - 1)
          /\ \A g, h \in new : Cardinality(ahead(g)) = Cardinality(ahead(h)) => g = h
      BY <2>1, <2>4
    <2> QED BY <2>1, <2>2, <2>3, <2>5
  <1>8. ASSUME NEW g \in new
        PROVE  /\ idOf(g) \in free
               /\ Cardinality({i \in free : i < idOf(g)}) = Cardinality(ahead(g))
    <2>1. Cardinality(ahead(g)) \in 0..(Cardinality(free) - 1)
      BY <1>7 DEF new, free
    <2> QED BY <1>7, <2>1
  <1>9. \A g, h \in new : idOf(g) = idOf(h) => g = h
    <2> SUFFICES ASSUME NEW g \in new, NEW h \in new, idOf(g) = idOf(h)
                 PROVE  g = h
      OBVIOUS
    <2>1. Cardinality(ahead(g)) = Cardinality({i \in free : i < idOf(g)})
      BY <1>8
    <2>2. Cardinality(ahead(h)) = Cardinality({i \in free : i < idOf(h)})
      BY <1>8
    <2> HIDE DEF ahead, idOf
    <2>3. Cardinality(ahead(g)) = Cardinality(ahead(h))
      BY <2>1, <2>2
    <2> QED BY <1>7, <2>3
  <1>10. \A g \in new : \A h \in DOMAIN known : idOf(g) # known[h].id
    BY <1>8 DEF free, Free, KnownIds
  <1> DEFINE after == Synced(known, seen)
  <1>11. /\ DOMAIN after = DOMAIN known \cup ToSet(seen)
         /\ \A g \in DOMAIN known : after[g] = [known[g] EXCEPT !.active = g \in ToSet(seen)]
         /\ \A g \in ToSet(seen) \ DOMAIN known :
              after[g] = [id |-> idOf(g), active |-> TRUE, found |-> FALSE]
         /\ after = [g \in DOMAIN after |-> after[g]]
    BY DEF Synced, new, free
  <1> HIDE DEF after, idOf
  <1>12. ToSet(seen) \ DOMAIN known = new
    BY DEF NewOf, new
  <1>13. ASSUME NEW g \in DOMAIN known
         PROVE  /\ after[g] \in Game
                /\ after[g].id = known[g].id /\ after[g].found = known[g].found
    <2>1. known[g] \in Game
      BY DEF GoodRegistry
    <2>2. after[g] = [known[g] EXCEPT !.active = g \in ToSet(seen)]
      BY <1>11
    <2>3. (g \in ToSet(seen)) \in BOOLEAN
      OBVIOUS
    <2> HIDE DEF after
    <2> QED BY <2>1, <2>2, <2>3 DEF Game
  <1>14. ASSUME NEW g \in new
         PROVE  after[g] \in Game /\ after[g].id = idOf(g)
    <2>1. idOf(g) \in Nat \ {0}
      BY <1>3, <1>8, <1>14
    <2>2. after[g] = [id |-> idOf(g), active |-> TRUE, found |-> FALSE]
      BY <1>11, <1>12, <1>14
    <2> QED BY <2>1, <2>2 DEF Game
  <1>15. DOMAIN after = DOMAIN known \cup new
    BY <1>11, <1>12
  <1>16. after \in [DOMAIN after -> Game]
    BY <1>11, <1>13, <1>14, <1>15
  <1>17. \A g, h \in DOMAIN after : after[g].id = after[h].id => g = h
    BY <1>9, <1>10, <1>13, <1>14, <1>15 DEF GoodRegistry
  <1>18. DOMAIN after \subseteq Slugs
    BY <1>11, Places DEF GoodRegistry
  <1> QED BY <1>13, <1>15, <1>16, <1>17, <1>18 DEF GoodRegistry, Extends, after

-----------------------------------------------------------------------------
(* Plans.                                                                  *)

\* Batches of equal size that cover n ranks: none begins behind the last rank.
LEMMA Division ==
  ASSUME NEW n \in Nat, NEW b \in Nat \ {0}
  PROVE  /\ (n + b - 1) \div b \in Nat
         /\ \A k \in 1..((n + b - 1) \div b) :
              (k - 1) * b \in 0..(n - 1) /\ ((k - 1) * b) \div b = k - 1
  OBVIOUS

Item == [id : Nat \ {0}, slug : Slugs]
Batch == [games : SUBSET Item, status : {"pending", "running", "completed", "failed"}, op : Nat]

\* The batches of a plan are not empty, have different games, and what was
\* posted is under way or has ended.
GoodPlan(plan) ==
  /\ plan \in [made : BOOLEAN, batches : Seq(Batch)]
  /\ \A n \in DOMAIN plan.batches : plan.batches[n].games # {}
  /\ \A n, m \in DOMAIN plan.batches :
       Ids(plan.batches[n].games) = Ids(plan.batches[m].games) => n = m
  /\ \A n \in DOMAIN plan.batches :
       plan.batches[n].op # None => plan.batches[n].status # "pending"

\* What a plan tells of a completed batch is so.
Served(plan, running) ==
  \A n \in DOMAIN plan.batches :
    plan.batches[n].status = "completed" => Ids(plan.batches[n].games) \subseteq running

\* A plan has the operations of an earlier one, where its batches have the same services.
Keeps(plan, prior) ==
  \A n \in DOMAIN prior.batches :
    n \in DOMAIN plan.batches /\ Ids(plan.batches[n].games) = Ids(prior.batches[n].games)
      => plan.batches[n].op = prior.batches[n].op

\* What buildDeployPlan makes of a registry.
LEMMA PlanFacts ==
  ASSUME NEW games, GoodRegistry(games), NEW judged, NEW deployed
  PROVE  LET plan == Plan(games, judged, deployed)
         IN  /\ GoodPlan(plan)
             /\ \A n \in DOMAIN plan.batches :
                  plan.batches[n].status = "pending" /\ plan.batches[n].op = None
             /\ \A n \in DOMAIN plan.batches : \A x \in plan.batches[n].games :
                  /\ x.slug \in DOMAIN games /\ x.id = games[x.slug].id
                  /\ judged[x.slug] > 0
  <1> DEFINE eligible == {g \in DOMAIN games : judged[g] > 0 /\ games[g].id \notin deployed}
             rank(g) == Cardinality({h \in eligible : games[h].id < games[g].id})
             batch(n) == {[id |-> games[g].id, slug |-> g] :
                            g \in {h \in eligible : rank(h) \div BatchSize = n - 1}}
             ids == [g \in eligible |-> games[g].id]
             count == (Cardinality(eligible) + BatchSize - 1) \div BatchSize
             batches == [n \in 1..count |-> [games |-> batch(n), status |-> "pending", op |-> None]]
             plan == Plan(games, judged, deployed)
  <1>1. BatchSize \in Nat \ {0} /\ IsFiniteSet(Slugs)
    BY PublishAssumption
  <1>2. eligible \in SUBSET Slugs /\ \A g \in eligible : games[g] \in Game
    BY DEF GoodRegistry
  <1>3. IsFiniteSet(eligible)
    BY <1>1, <1>2, FS_Subset
  <1>4. ids \in [eligible -> Nat] /\ \A a, b \in eligible : ids[a] = ids[b] => a = b
    BY <1>2 DEF GoodRegistry, Game
  <1>5. \A g \in eligible : rank(g) = Cardinality(Before(eligible, ids, g))
    BY DEF Before
  <1>6. plan = [made |-> TRUE, batches |-> batches]
    BY DEF Plan
  <1> HIDE DEF rank, plan
  <1>7. /\ Cardinality(eligible) \in Nat
        /\ \A k \in 0..(Cardinality(eligible) - 1) : \E g \in eligible : rank(g) = k
    <2> HIDE DEF eligible, ids
    <2>1. /\ Cardinality(eligible) \in Nat
          /\ \A k \in 0..(Cardinality(eligible) - 1) :
               \E g \in eligible : Cardinality(Before(eligible, ids, g)) = k
      BY <1>3, <1>4, Ranks
    <2> QED BY <1>5, <2>1
  <1>8. /\ count \in Nat
        /\ \A n \in 1..count : /\ (n - 1) * BatchSize \in 0..(Cardinality(eligible) - 1)
                               /\ ((n - 1) * BatchSize) \div BatchSize = n - 1
    BY <1>1, <1>7, Division
  <1>9. /\ \A g \in eligible : [id |-> games[g].id, slug |-> g] \in Item /\ judged[g] > 0
        /\ \A g, h \in eligible : games[g].id = games[h].id => g = h
    BY <1>2 DEF Game, Item, GoodRegistry
  <1> HIDE DEF eligible, count
  <1>10. ASSUME NEW n \in 1..count
         PROVE  /\ batch(n) \subseteq Item /\ batch(n) # {}
                /\ \A x \in batch(n) : /\ x.slug \in eligible /\ x.id = games[x.slug].id
                                       /\ rank(x.slug) \div BatchSize = n - 1
    <2>1. PICK g \in eligible : rank(g) = (n - 1) * BatchSize
      BY <1>7, <1>8
    <2>2. g \in {h \in eligible : rank(h) \div BatchSize = n - 1}
      BY <1>8, <2>1
    <2>3. [id |-> games[g].id, slug |-> g] \in batch(n)
      BY <2>2
    <2>4. ASSUME NEW x \in batch(n)
          PROVE  /\ x \in Item /\ x.slug \in eligible /\ x.id = games[x.slug].id
                 /\ rank(x.slug) \div BatchSize = n - 1
      <3>1. PICK h \in eligible : /\ rank(h) \div BatchSize = n - 1
                                  /\ x = [id |-> games[h].id, slug |-> h]
        OBVIOUS
      <3>2. x.slug = h /\ x.id = games[h].id
        BY <3>1
      <3> HIDE DEF batch
      <3> QED BY <1>9, <3>1, <3>2
    <2> HIDE DEF batch
    <2> QED BY <2>3, <2>4
  <1> HIDE DEF batch
  <1>11. ASSUME NEW n \in 1..count, NEW m \in 1..count, Ids(batch(n)) = Ids(batch(m))
         PROVE  n = m
    <2>1. PICK x \in batch(n) : TRUE
      BY <1>10
    <2>2. PICK y \in batch(m) : y.id = x.id
      BY <1>11, <2>1 DEF Ids
    <2>3. x.slug = y.slug
      BY <1>9, <1>10, <2>2
    <2> QED BY <1>10, <2>3
  <1>12. batches \in Seq(Batch) /\ DOMAIN batches = 1..count
    <2>1. \A n \in 1..count : [games |-> batch(n), status |-> "pending", op |-> None] \in Batch
      BY <1>10 DEF Batch, None
    <2> QED BY <1>8, <2>1
  <1>13. \A n \in 1..count :
           batches[n].games = batch(n) /\ batches[n].status = "pending" /\ batches[n].op = None
    OBVIOUS
  <1> HIDE DEF batches
  <1>14. plan.batches = batches /\ plan \in [made : BOOLEAN, batches : Seq(Batch)]
    BY <1>6, <1>12
  <1>15. GoodPlan(plan)
    BY <1>10, <1>11, <1>12, <1>13, <1>14 DEF GoodPlan
  <1>16. ASSUME NEW n \in DOMAIN plan.batches, NEW x \in plan.batches[n].games
         PROVE  /\ x.slug \in DOMAIN games /\ x.id = games[x.slug].id
                /\ judged[x.slug] > 0
    <2>1. n \in 1..count /\ x \in batch(n)
      BY <1>12, <1>13, <1>14
    <2>2. x.slug \in eligible /\ x.id = games[x.slug].id
      BY <1>10, <2>1
    <2> QED BY <1>9, <2>2 DEF eligible
  <1> QED BY <1>12, <1>13, <1>14, <1>15, <1>16 DEF plan

\* mergeDeploymentProgress keeps the operations of the batches whose services stay the same.
LEMMA MergedFacts ==
  ASSUME NEW plan, GoodPlan(plan), \A n \in DOMAIN plan.batches : plan.batches[n].status = "pending",
         NEW prior, GoodPlan(prior), NEW running, Served(prior, running)
  PROVE  /\ GoodPlan(Merged(plan, prior)) /\ Served(Merged(plan, prior), running)
         /\ Keeps(Merged(plan, prior), prior)
         /\ DOMAIN Merged(plan, prior).batches = DOMAIN plan.batches
         /\ \A n \in DOMAIN plan.batches : Merged(plan, prior).batches[n].games = plan.batches[n].games
  <1> DEFINE same(n) == n \in DOMAIN prior.batches
                        /\ Ids(prior.batches[n].games) = Ids(plan.batches[n].games)
             merged == [n \in DOMAIN plan.batches |->
                 IF same(n)
                 THEN [plan.batches[n] EXCEPT !.status = prior.batches[n].status, !.op = prior.batches[n].op]
                 ELSE plan.batches[n]]
  <1>1. /\ plan \in [made : BOOLEAN, batches : Seq(Batch)] /\ plan.batches \in Seq(Batch)
        /\ prior.batches \in Seq(Batch)
    BY DEF GoodPlan
  <1>2. \A n \in DOMAIN plan.batches : plan.batches[n] \in Batch
    BY <1>1
  <1>3. \A n \in DOMAIN prior.batches : prior.batches[n] \in Batch
    BY <1>1
  <1>4. Merged(plan, prior) = [plan EXCEPT !.batches = merged]
    BY DEF Merged
  <1>5. DOMAIN merged = DOMAIN plan.batches
    OBVIOUS
  <1>6. ASSUME NEW n \in DOMAIN plan.batches
        PROVE  /\ merged[n] \in Batch /\ merged[n].games = plan.batches[n].games
               /\ same(n) => merged[n].status = prior.batches[n].status /\ merged[n].op = prior.batches[n].op
               /\ ~same(n) => merged[n] = plan.batches[n]
    <2> DEFINE b == plan.batches[n]
               p == prior.batches[n]
    <2>1. b \in Batch
      BY <1>2
    <2>2. CASE same(n)
      <3>1. merged[n] = [b EXCEPT !.status = p.status, !.op = p.op] /\ p \in Batch
        BY <1>3, <2>2
      <3> HIDE DEF merged, b, p
      <3>2. /\ merged[n] \in Batch /\ merged[n].games = b.games
            /\ merged[n].status = p.status /\ merged[n].op = p.op
        BY <2>1, <3>1 DEF Batch
      <3> QED BY <2>2, <3>2 DEF b, p
    <2>3. CASE ~same(n)
      BY <2>1, <2>3
    <2> QED BY <2>2, <2>3
  <1> HIDE DEF merged
  <1>7. merged \in Seq(Batch)
    <2>1. DOMAIN plan.batches = 1..Len(plan.batches) /\ Len(plan.batches) \in Nat
      BY <1>1
    <2>2. merged = [n \in 1..Len(plan.batches) |-> merged[n]]
      BY <2>1 DEF merged
    <2>3. \A n \in 1..Len(plan.batches) : merged[n] \in Batch
      BY <1>6, <2>1
    <2> QED BY <2>1, <2>2, <2>3
  <1>8. /\ Merged(plan, prior) \in [made : BOOLEAN, batches : Seq(Batch)]
        /\ Merged(plan, prior).batches = merged
    BY <1>1, <1>4, <1>7
  <1>9. \A n \in DOMAIN plan.batches :
          merged[n].op # None => merged[n].status # "pending"
    BY <1>6 DEF GoodPlan
  <1>10. GoodPlan(Merged(plan, prior))
    BY <1>5, <1>6, <1>8, <1>9 DEF GoodPlan
  <1>11. Served(Merged(plan, prior), running)
    BY <1>5, <1>6, <1>8 DEF Served
  <1>12. Keeps(Merged(plan, prior), prior)
    BY <1>5, <1>6, <1>8 DEF Keeps
  <1> QED BY <1>5, <1>6, <1>8, <1>10, <1>11, <1>12

-----------------------------------------------------------------------------
(* The parts of the state.                                                 *)

File ==
  [docs : Nat, edition : {1, 2}, validated : Nat, stored : [id : Nat, docs : Nat],
   manifest : [id : Nat, digest : Nat \X Nat, docs : Nat], resource : Nat, service : Nat]

\* A manifest counts at least the documents its digest was made of, and no
\* report counts more than the file has.
GoodFiles ==
  /\ files \in [Slugs -> File]
  /\ \A g \in Slugs :
       /\ files[g].manifest.digest[1] <= files[g].manifest.docs
       /\ files[g].manifest.docs <= files[g].docs
       /\ files[g].validated <= files[g].docs /\ files[g].stored.docs <= files[g].docs

\* The files of the games only grow, and so does what their reports count.
Grown(now, later) ==
  \A g \in Slugs :
    /\ now[g].docs <= later[g].docs /\ now[g].validated <= later[g].validated
    /\ now[g].stored.docs <= later[g].stored.docs /\ now[g].manifest.docs <= later[g].manifest.docs

\* What a tool has in memory while the games have the files "now".
GoodTool(p, now) ==
  /\ p.at \in {"idle", "fetch", "synced", "discover", "finalize"}
  /\ p.at = "idle" => p = Idle
  /\ p.at \in {"fetch", "synced"} =>
       GoodRegistry(p.copy) /\ p.page \in Nat \ {0} /\ p.seen \in Seq(Slugs)
  /\ p.at = "discover" =>
       p = [at |-> "discover", copy |-> p.copy, left |-> p.left] /\ GoodRegistry(p.copy)
  /\ p.at = "finalize" =>
       /\ p.game \in Slugs /\ p.id \in Nat /\ p.digest \in Nat \X Nat
       /\ p.digest[1] <= now[p.game].docs

GoodTools == tool = [t \in Tools |-> tool[t]] /\ \A t \in Tools : GoodTool(tool[t], files)

\* The reports of a game, read when its file and reports were no further than they are now.
Read(reports, file) ==
  /\ reports \in File /\ reports.manifest.digest[1] <= reports.manifest.docs
  /\ reports.manifest.docs <= file.manifest.docs
  /\ reports.validated <= file.validated /\ reports.stored.docs <= file.stored.docs

\* A game that was found ready has reports of every document its file had then.
Judged(judged, now) ==
  \A g \in DOMAIN judged :
    /\ g \in Slugs /\ judged[g] \in Nat
    /\ judged[g] > 0 => /\ judged[g] <= now[g].validated /\ judged[g] <= now[g].stored.docs
                        /\ judged[g] <= now[g].manifest.docs

Foremost(p) == CHOOSE g \in p.left : \A h \in p.left : p.games[g].id <= p.games[h].id

\* What a process has in memory while the games have the files "now", the agent
\* the operations "doing" and the services "running".
GoodProcess(p, now, doing, running) ==
  /\ p.at \in {"idle", "services", "read", "hash", "write", "execute", "posted", "wait"}
  /\ p.at \in {"services", "read", "hash"} => GoodRegistry(p.games)
  /\ p.at \in {"read", "hash"} =>
       /\ p.left \subseteq DOMAIN p.games
       /\ DOMAIN p.judged = DOMAIN p.games /\ Judged(p.judged, now)
  /\ p.at = "hash" => p.left # {} /\ Read(p.reports, now[Foremost(p)])
  /\ p.at \in Planned =>
       /\ GoodPlan(p.plan) /\ Served(p.plan, running) /\ Judged(p.judged, now)
       /\ \A n \in DOMAIN p.plan.batches : \A x \in p.plan.batches[n].games :
            x.slug \in DOMAIN p.judged /\ p.judged[x.slug] > 0
  /\ p.at = "write" => Keeps(p.plan, p.prior)
  /\ p.at \in {"posted", "wait"} =>
       /\ p = [at |-> p.at, judged |-> p.judged, plan |-> p.plan, batch |-> p.batch, op |-> p.op]
       /\ p.batch \in DOMAIN p.plan.batches /\ p.op \in DOMAIN doing
       /\ Ids(doing[p.op].items) = Ids(p.plan.batches[p.batch].games)
       /\ p.plan.batches[p.batch].op = IF p.at = "wait" THEN p.op ELSE None

GoodRelease ==
  /\ release = [d \in Deployers |-> release[d]]
  /\ \A d \in Deployers : GoodProcess(release[d], files, ops, up)

Operation == [items : SUBSET Item, status : {"running", "completed", "failed"}]

GoodReport ==
  /\ GoodPlan(report) /\ Served(report, up)
  /\ ops \in Seq(Operation)
  /\ \A o \in DOMAIN ops : ops[o].status = "completed" => Ids(ops[o].items) \subseteq up

Good ==
  /\ listed \in Seq(Slugs) /\ GoodRegistry(registry) /\ blind \in BOOLEAN
  /\ GoodFiles /\ GoodTools /\ GoodReport /\ GoodRelease

\* The steps that write in the directory of a game.
Notes(g) ==
  \/ Capture(g) \/ Sanitize(g) \/ Validate(g)
  \/ AuditMongo(g) \/ AuditResources(g) \/ GenerateService(g)

\* The ids that stand in the directory of a game.
Carried(file) == {file.service, file.resource, file.stored.id, file.manifest.id}

LEMMA NotesFacts ==
  ASSUME GoodFiles, GoodRegistry(registry), NEW g \in Slugs, Notes(g)
  PROVE  /\ GoodFiles'
         /\ Grown(files, files')
         /\ \A h \in Slugs \ {g} : files'[h] = files[h]
         /\ g \in DOMAIN registry
         /\ Carried(files'[g]) \subseteq Carried(files[g]) \cup {registry[g].id}
         /\ UNCHANGED <<listed, registry, tool, rollout, blind>>
  <1>1. g \in DOMAIN registry /\ UNCHANGED <<listed, registry, tool, rollout, blind>>
    BY DEF Notes, Capture, Sanitize, Validate, AuditMongo, AuditResources, GenerateService,
           Noted, Active
  <1>2. registry[g].id \in Nat
    BY <1>1 DEF GoodRegistry, Game
  <1>3. /\ files[g] \in File /\ files[g].manifest.docs \in Nat /\ files[g].docs \in Nat
        /\ files[g].validated \in Nat /\ files[g].stored.docs \in Nat
        /\ files[g].validated <= files[g].docs /\ files[g].stored.docs <= files[g].docs
    BY DEF GoodFiles, File
  <1>4. PICK f : /\ files' = [files EXCEPT ![g] = f]
                 /\ \/ f = [files[g] EXCEPT !.docs = files[g].docs + 1]
                    \/ f = [files[g] EXCEPT !.edition = 2]
                    \/ f = [files[g] EXCEPT !.validated = files[g].docs]
                    \/ f = [files[g] EXCEPT !.stored = [id |-> registry[g].id, docs |-> files[g].docs]]
                    \/ f = [files[g] EXCEPT !.resource = registry[g].id]
                    \/ f = [files[g] EXCEPT !.service = registry[g].id]
    BY DEF Notes, Capture, Sanitize, Validate, AuditMongo, AuditResources, GenerateService, Noted
  <1>5. /\ f \in File /\ f.manifest = files[g].manifest /\ f.docs >= files[g].docs
        /\ f.validated >= files[g].validated /\ f.stored.docs >= files[g].stored.docs
        /\ f.validated <= f.docs /\ f.stored.docs <= f.docs
        /\ Carried(f) \subseteq Carried(files[g]) \cup {registry[g].id}
    <2>1. CASE f = [files[g] EXCEPT !.docs = files[g].docs + 1]
      BY <1>2, <1>3, <2>1 DEF File, Carried
    <2>2. CASE f = [files[g] EXCEPT !.edition = 2]
      BY <1>2, <1>3, <2>2 DEF File, Carried
    <2>3. CASE f = [files[g] EXCEPT !.validated = files[g].docs]
      BY <1>2, <1>3, <2>3 DEF File, Carried
    <2>4. CASE f = [files[g] EXCEPT !.stored = [id |-> registry[g].id, docs |-> files[g].docs]]
      BY <1>2, <1>3, <2>4 DEF File, Carried
    <2>5. CASE f = [files[g] EXCEPT !.resource = registry[g].id]
      BY <1>2, <1>3, <2>5 DEF File, Carried
    <2>6. CASE f = [files[g] EXCEPT !.service = registry[g].id]
      BY <1>2, <1>3, <2>6 DEF File, Carried
    <2> QED BY <1>4, <2>1, <2>2, <2>3, <2>4, <2>5, <2>6
  <1>6. files'[g] = f /\ \A h \in Slugs \ {g} : files'[h] = files[h]
    BY <1>4 DEF GoodFiles
  <1>7. files' \in [Slugs -> File]
    BY <1>4, <1>5 DEF GoodFiles
  <1>8. \A h \in Slugs : /\ files'[h].manifest = files[h].manifest
                         /\ files[h].docs <= files'[h].docs
                         /\ files[h].validated <= files'[h].validated
                         /\ files[h].stored.docs <= files'[h].stored.docs
                         /\ files'[h].validated <= files'[h].docs
                         /\ files'[h].stored.docs <= files'[h].docs
    <2> SUFFICES ASSUME NEW h \in Slugs
                 PROVE  /\ files'[h].manifest = files[h].manifest
                        /\ files[h].docs <= files'[h].docs
                        /\ files[h].validated <= files'[h].validated
                        /\ files[h].stored.docs <= files'[h].stored.docs
                        /\ files'[h].validated <= files'[h].docs
                        /\ files'[h].stored.docs <= files'[h].docs
      OBVIOUS
    <2>1. CASE h = g
      BY <1>3, <1>5, <1>6, <2>1
    <2>2. CASE h # g
      <3>1. /\ files[h].docs \in Nat /\ files[h].validated \in Nat /\ files[h].stored.docs \in Nat
            /\ files[h].validated <= files[h].docs /\ files[h].stored.docs <= files[h].docs
        BY DEF GoodFiles, File
      <3> QED BY <1>6, <2>2, <3>1
    <2> QED BY <2>1, <2>2
  <1>9. \A h \in Slugs : /\ files[h].manifest.docs \in Nat /\ files[h].docs \in Nat
                         /\ files'[h].docs \in Nat
                         /\ files[h].manifest.docs <= files[h].docs
                         /\ files[h].manifest.digest[1] <= files[h].manifest.docs
    BY <1>7 DEF GoodFiles, File
  <1>10. GoodFiles'
    BY <1>7, <1>8, <1>9 DEF GoodFiles
  <1>11. Grown(files, files')
    BY <1>8, <1>9 DEF Grown
  <1> QED BY <1>1, <1>5, <1>6, <1>10, <1>11

\* A manifest is made of what finalize-data.ts read first and what it reads now.
LEMMA FinalizeFacts ==
  ASSUME GoodFiles, GoodTools, NEW t \in Tools, FinalizeEnds(t)
  PROVE  /\ GoodFiles'
         /\ Grown(files, files')
         /\ tool[t].at = "finalize" /\ tool[t].game \in Slugs
         /\ \A h \in Slugs \ {tool[t].game} : files'[h] = files[h]
         /\ Carried(files'[tool[t].game]) \subseteq Carried(files[tool[t].game]) \cup {tool[t].id}
         /\ UNCHANGED <<listed, registry, rollout, blind>>
         /\ tool' = [tool EXCEPT ![t] = Idle]
  <1> DEFINE g == tool[t].game
             p == tool[t]
             f == files[g]
             m == [id |-> p.id, digest |-> p.digest, docs |-> f.docs]
  <1>1. /\ tool[t].at = "finalize" /\ UNCHANGED <<listed, registry, rollout, blind>>
        /\ tool' = [tool EXCEPT ![t] = Idle]
    BY DEF FinalizeEnds
  <1>2. /\ g \in Slugs /\ p.id \in Nat /\ p.digest \in Nat \X Nat
        /\ p.digest[1] <= f.docs
    BY <1>1 DEF GoodTools, GoodTool
  <1>3. f \in File
    BY <1>2 DEF GoodFiles
  <1>4. files' = files \/ files' = [files EXCEPT ![g].manifest = m]
    BY DEF FinalizeEnds
  <1> HIDE DEF m
  <1>5. /\ [f EXCEPT !.manifest = m] \in File
        /\ [f EXCEPT !.manifest = m].docs = f.docs
        /\ [f EXCEPT !.manifest = m].validated = f.validated
        /\ [f EXCEPT !.manifest = m].stored = f.stored
        /\ [f EXCEPT !.manifest = m].manifest = m
        /\ Carried([f EXCEPT !.manifest = m]) \subseteq Carried(f) \cup {p.id}
    <2>1. m \in [id : Nat, digest : Nat \X Nat, docs : Nat] /\ m.id = p.id
      BY <1>2, <1>3 DEF File, m
    <2> HIDE DEF f, p
    <2> QED BY <1>3, <2>1 DEF File, Carried
  <1>6. m.digest[1] <= m.docs /\ m.docs = f.docs
    BY <1>2, <1>3 DEF m, File
  <1>7. files' = files \/ files' = [files EXCEPT ![g] = [f EXCEPT !.manifest = m]]
    BY <1>4
  <1>8. \A h \in Slugs : /\ files[h].docs \in Nat /\ files[h].validated \in Nat
                         /\ files[h].stored.docs \in Nat /\ files[h].manifest.docs \in Nat
                         /\ files[h].manifest.docs <= files[h].docs
                         /\ files[h].manifest.digest[1] <= files[h].manifest.docs
                         /\ files[h].validated <= files[h].docs
                         /\ files[h].stored.docs <= files[h].docs
    BY DEF GoodFiles, File
  <1> HIDE DEF f, g, p
  <1>9. CASE files' = files
    <2>1. GoodFiles' /\ Grown(files, files')
      BY <1>8, <1>9 DEF GoodFiles, Grown
    <2> QED BY <1>1, <1>2, <1>9, <2>1 DEF g
  <1>10. CASE files' = [files EXCEPT ![g] = [f EXCEPT !.manifest = m]]
    <2>1. files' \in [Slugs -> File] /\ files'[g] = [f EXCEPT !.manifest = m]
          /\ \A h \in Slugs \ {g} : files'[h] = files[h]
      BY <1>2, <1>5, <1>10 DEF GoodFiles
    <2>2. files[g] = f
      BY DEF f
    <2>3. \A h \in Slugs : /\ files'[h].docs = files[h].docs
                           /\ files'[h].validated = files[h].validated
                           /\ files'[h].stored = files[h].stored
      BY <1>5, <2>1, <2>2
    <2>4. \A h \in Slugs :
            /\ files'[h].manifest.digest[1] <= files'[h].manifest.docs
            /\ files[h].manifest.docs <= files'[h].manifest.docs
            /\ files'[h].manifest.docs <= files'[h].docs
      <3> SUFFICES ASSUME NEW h \in Slugs
                   PROVE  /\ files'[h].manifest.digest[1] <= files'[h].manifest.docs
                          /\ files[h].manifest.docs <= files'[h].manifest.docs
                          /\ files'[h].manifest.docs <= files'[h].docs
        OBVIOUS
      <3>1. CASE h = g
        <4>1. files'[h].manifest = m /\ files'[h].docs = f.docs /\ f = files[h]
          BY <1>5, <2>1, <2>2, <3>1
        <4> QED BY <1>6, <1>8, <4>1
      <3>2. CASE h # g
        BY <1>8, <2>1, <3>2
      <3> QED BY <3>1, <3>2
    <2>5. GoodFiles'
      BY <1>8, <2>1, <2>3, <2>4 DEF GoodFiles
    <2>6. Grown(files, files')
      BY <1>8, <2>3, <2>4 DEF Grown
    <2> QED BY <1>1, <1>2, <1>5, <2>1, <2>2, <2>5, <2>6 DEF g, p
  <1> QED BY <1>7, <1>9, <1>10

\* A registry extends itself.
LEMMA ExtendsItself ==
  ASSUME NEW games
  PROVE  Extends(games, games)
  BY DEF Extends

\* discover-games.ts changes one entry of its copy.
LEMMA FoundFacts ==
  ASSUME NEW known, GoodRegistry(known), NEW g
  PROVE  /\ GoodRegistry([known EXCEPT ![g].found = TRUE])
         /\ Extends([known EXCEPT ![g].found = TRUE], known)
  <1> DEFINE after == [known EXCEPT ![g].found = TRUE]
  <1>1. DOMAIN after = DOMAIN known
    OBVIOUS
  <1>2. ASSUME NEW h \in DOMAIN known
        PROVE  /\ after[h] \in Game /\ after[h].id = known[h].id
               /\ known[h].found => after[h].found
    <2>1. known[h] \in Game
      BY DEF GoodRegistry
    <2>2. CASE h = g
      <3>1. after[h] = [known[h] EXCEPT !.found = TRUE]
        BY <2>2
      <3> HIDE DEF after
      <3> QED BY <2>1, <3>1 DEF Game
    <2>3. CASE h # g
      BY <2>1, <2>3
    <2> QED BY <2>2, <2>3
  <1>3. after = [h \in DOMAIN after |-> after[h]]
    OBVIOUS
  <1> HIDE DEF after
  <1>4. GoodRegistry(after) /\ Extends(after, known)
    BY <1>1, <1>2, <1>3 DEF GoodRegistry, Extends
  <1> QED BY <1>4 DEF after

\* What a tool may do to the registry.
LEMMA WrittenFacts ==
  ASSUME NEW t \in Tools, NEW games, Written(t, games), blind \in BOOLEAN,
         GoodRegistry(games), Extends(games, tool[t].copy)
  PROVE  /\ GoodRegistry(registry') /\ blind' \in BOOLEAN
         /\ ~blind' => ~blind /\ Extends(registry', registry)
  BY DEF Written

LEMMA RegistryFacts ==
  ASSUME Good, NEW t \in Tools, WriteSynced(t) \/ DiscoverGame(t)
  PROVE  /\ GoodRegistry(registry') /\ blind' \in BOOLEAN
         /\ ~blind' => ~blind /\ Extends(registry', registry)
         /\ GoodTools'
         /\ UNCHANGED <<listed, files, rollout>>
         /\ \A u \in Tools : tool'[u].at # "finalize" \/ tool'[u] = tool[u]
  <1>1. UNCHANGED <<listed, files, rollout>>
    BY DEF WriteSynced, DiscoverGame
  <1>2. GoodTool(tool[t], files) /\ blind \in BOOLEAN /\ GoodRegistry(registry)
    BY DEF Good, GoodTools
  <1>4. GoodTool(Idle, files)
    BY DEF GoodTool, Idle
  <1>5. CASE WriteSynced(t)
    <2>1. tool' = [tool EXCEPT ![t] = Idle] /\ tool[t].at = "synced"
      BY <1>5 DEF WriteSynced
    <2>2. GoodTools' /\ \A u \in Tools : tool'[u].at # "finalize" \/ tool'[u] = tool[u]
      <3>1. \A u \in Tools : tool'[u] = IF u = t THEN Idle ELSE tool[u]
        BY <2>1 DEF Good, GoodTools
      <3>2. \A u \in Tools : GoodTool(tool'[u], files')
        BY <1>1, <1>4, <3>1 DEF Good, GoodTools
      <3>3. Idle.at = "idle"
        BY DEF Idle
      <3>4. tool' = [u \in Tools |-> tool'[u]]
        BY <2>1 DEF Good, GoodTools
      <3> QED BY <3>1, <3>2, <3>3, <3>4 DEF GoodTools
    <2>3. GoodRegistry(tool[t].copy) /\ tool[t].seen \in Seq(Slugs)
      BY <1>2, <2>1 DEF GoodTool
    <2> DEFINE games == Synced(tool[t].copy, tool[t].seen)
    <2>4. CASE /\ Cardinality(NewOf(tool[t].copy, tool[t].seen)) <= Cardinality(Free(tool[t].copy))
               /\ Written(t, games)
      <3>1. GoodRegistry(games) /\ Extends(games, tool[t].copy)
        BY <2>3, <2>4, SyncedFacts
      <3> HIDE DEF games
      <3> QED BY <1>1, <1>2, <2>2, <2>4, <3>1, WrittenFacts
    <2>5. CASE UNCHANGED <<registry, blind>>
      BY <1>1, <1>2, <2>2, <2>5, ExtendsItself
    <2> QED BY <1>5, <2>4, <2>5 DEF WriteSynced
  <1>6. CASE DiscoverGame(t)
    <2>1. tool[t].at = "discover"
      BY <1>6 DEF DiscoverGame
    <2>2. /\ tool[t] = [at |-> "discover", copy |-> tool[t].copy, left |-> tool[t].left]
          /\ GoodRegistry(tool[t].copy)
      BY <1>2, <2>1 DEF GoodTool
    <2>3. PICK g \in tool[t].left :
            LET left == tool[t].left \ {g}
                GoesOn(games) == tool' = [tool EXCEPT ![t] = IF left = {} THEN Idle
                                                       ELSE [@ EXCEPT !.copy = games, !.left = left]]
                games == [tool[t].copy EXCEPT ![g].found = TRUE]
            IN  \/ Written(t, games) /\ GoesOn(games)
                \/ GoesOn(tool[t].copy) /\ UNCHANGED <<registry, blind>>
      BY <1>6 DEF DiscoverGame
    <2> DEFINE found == [tool[t].copy EXCEPT ![g].found = TRUE]
               left == tool[t].left \ {g}
    <2>4. GoodRegistry(found) /\ Extends(found, tool[t].copy)
      BY <2>2, FoundFacts
    <2>5. PICK games :
            /\ GoodRegistry(games)
            /\ tool' = [tool EXCEPT ![t] = IF left = {} THEN Idle
                                           ELSE [@ EXCEPT !.copy = games, !.left = left]]
            /\ \/ Written(t, games) /\ Extends(games, tool[t].copy)
               \/ UNCHANGED <<registry, blind>>
      <3>1. CASE /\ Written(t, found)
                 /\ tool' = [tool EXCEPT ![t] = IF left = {} THEN Idle
                                                ELSE [@ EXCEPT !.copy = found, !.left = left]]
        <4> HIDE DEF found
        <4> QED BY <2>4, <3>1
      <3>2. CASE /\ UNCHANGED <<registry, blind>>
                 /\ tool' = [tool EXCEPT ![t] = IF left = {} THEN Idle
                                                ELSE [@ EXCEPT !.copy = tool[t].copy, !.left = left]]
        BY <2>2, <3>2
      <3> QED BY <2>3, <3>1, <3>2
    <2> HIDE DEF found, left
    <2>6. PICK p \in {Idle, [tool[t] EXCEPT !.copy = games, !.left = left]} :
            tool' = [tool EXCEPT ![t] = p]
      BY <2>5
    <2>7. GoodTool(p, files') /\ p.at # "finalize"
      <3>1. CASE p = Idle
        BY <1>1, <1>4, <3>1 DEF Idle
      <3>2. CASE p = [tool[t] EXCEPT !.copy = games, !.left = left]
        <4>1. p = [at |-> "discover", copy |-> games, left |-> left]
          <5> DEFINE c == tool[t].copy
                     l == tool[t].left
          <5>1. tool[t] = [at |-> "discover", copy |-> c, left |-> l]
            BY <2>2
          <5> HIDE DEF c, l
          <5>2. p = [[at |-> "discover", copy |-> c, left |-> l] EXCEPT !.copy = games, !.left = left]
            BY <3>2, <5>1
          <5> QED BY <5>2
        <4> QED BY <2>5, <4>1 DEF GoodTool
      <3> QED BY <2>6, <3>1, <3>2
    <2>8. \A u \in Tools : tool'[u] = IF u = t THEN p ELSE tool[u]
      BY <2>6 DEF Good, GoodTools
    <2>9. \A u \in Tools : GoodTool(tool'[u], files')
      BY <1>1, <2>7, <2>8 DEF Good, GoodTools
    <2>10. tool' = [u \in Tools |-> tool'[u]]
      BY <2>6 DEF Good, GoodTools
    <2>11. GoodTools'
      BY <2>9, <2>10 DEF GoodTools
    <2>12. /\ GoodRegistry(registry') /\ blind' \in BOOLEAN
           /\ ~blind' => ~blind /\ Extends(registry', registry)
      BY <1>2, <2>5, WrittenFacts, ExtendsItself
    <2> QED BY <1>1, <2>7, <2>8, <2>11, <2>12
  <1> QED BY <1>5, <1>6

\* What a tool has in memory stays good while the files grow.
LEMMA ToolStays ==
  ASSUME NEW now \in [Slugs -> File], NEW later \in [Slugs -> File],
         \A h \in Slugs : now[h].docs <= later[h].docs,
         NEW p, GoodTool(p, now)
  PROVE  GoodTool(p, later)
  <1>1. ASSUME p.at = "finalize"
        PROVE  p.digest[1] <= later[p.game].docs
    <2>1. p.game \in Slugs /\ p.digest \in Nat \X Nat /\ p.digest[1] <= now[p.game].docs
      BY <1>1 DEF GoodTool
    <2>2. now[p.game].docs \in Nat /\ later[p.game].docs \in Nat
      BY <2>1 DEF File
    <2> QED BY <2>1, <2>2
  <1> QED BY <1>1 DEF GoodTool

\* What a page shows is a part of the catalogue.
LEMMA PageFacts ==
  ASSUME NEW page \in Nat \ {0}, listed \in Seq(Slugs)
  PROVE  LET last == page * PageSize >= Len(listed)
         IN  SubSeq(listed, (page - 1) * PageSize + 1,
                    IF last THEN Len(listed) ELSE page * PageSize) \in Seq(Slugs)
  <1> DEFINE from == (page - 1) * PageSize + 1
             to == IF page * PageSize >= Len(listed) THEN Len(listed) ELSE page * PageSize
  <1>1. PageSize \in Nat \ {0}
    BY PublishAssumption
  <1>2. (page - 1) * PageSize \in Nat /\ page * PageSize \in Nat
    BY <1>1
  <1>3. from \in Nat \ {0} /\ to \in Nat /\ to <= Len(listed)
    BY <1>2
  <1> HIDE DEF from, to
  <1>4. SubSeq(listed, from, to) \in Seq(Slugs)
    BY <1>3, SubSeqProperties
  <1> QED BY <1>4 DEF from, to

\* The steps of a tool that change nothing but what it has in memory.
Works(t) ==
  Sync(t) \/ FetchPage(t) \/ Discover(t) \/ Die(t) \/ \E g \in Slugs : Finalize(t, g)

LEMMA WorksFacts ==
  ASSUME Good, NEW t \in Tools, Works(t)
  PROVE  /\ GoodTools'
         /\ UNCHANGED <<listed, registry, files, rollout, blind>>
         /\ \A u \in Tools : \/ tool'[u].at # "finalize"
                             \/ tool'[u] = tool[u]
                             \/ /\ tool'[u].game \in DOMAIN registry
                                /\ tool'[u].id = registry[tool'[u].game].id
  <1>1. /\ GoodTool(tool[t], files) /\ GoodRegistry(registry) /\ GoodFiles
        /\ listed \in Seq(Slugs)
    BY DEF Good, GoodTools
  <1>2. UNCHANGED <<listed, registry, files, rollout, blind>>
    BY DEF Works, Sync, FetchPage, Discover, Die, Finalize, Started
  <1>3. ASSUME NEW p, tool' = [tool EXCEPT ![t] = p], GoodTool(p, files),
               \/ p.at # "finalize"
               \/ p.game \in DOMAIN registry /\ p.id = registry[p.game].id
        PROVE  /\ GoodTools'
               /\ \A u \in Tools : \/ tool'[u].at # "finalize"
                                   \/ tool'[u] = tool[u]
                                   \/ /\ tool'[u].game \in DOMAIN registry
                                      /\ tool'[u].id = registry[tool'[u].game].id
    <2>1. \A u \in Tools : tool'[u] = IF u = t THEN p ELSE tool[u]
      BY <1>3 DEF Good, GoodTools
    <2>2. tool' = [u \in Tools |-> tool'[u]]
      BY <1>3 DEF Good, GoodTools
    <2>3. \A u \in Tools : GoodTool(tool'[u], files')
      BY <1>2, <1>3, <2>1 DEF Good, GoodTools
    <2> QED BY <1>3, <2>1, <2>2, <2>3 DEF GoodTools
  <1>4. CASE Sync(t)
    <2> DEFINE p == [at |-> "fetch", copy |-> registry, page |-> 1, seen |-> <<>>]
    <2>1. tool' = [tool EXCEPT ![t] = p]
      BY <1>4 DEF Sync, Started
    <2>2. GoodTool(p, files) /\ p.at # "finalize"
      BY <1>1 DEF GoodTool
    <2> HIDE DEF p
    <2> QED BY <1>2, <1>3, <2>1, <2>2
  <1>5. CASE Discover(t)
    <2> DEFINE p == [at |-> "discover", copy |-> registry, left |-> Active]
    <2>1. tool' = [tool EXCEPT ![t] = p]
      BY <1>5 DEF Discover, Started
    <2>2. GoodTool(p, files) /\ p.at # "finalize"
      BY <1>1 DEF GoodTool
    <2> HIDE DEF p
    <2> QED BY <1>2, <1>3, <2>1, <2>2
  <1>6. CASE Die(t)
    <2>1. tool' = [tool EXCEPT ![t] = Idle]
      BY <1>6 DEF Die
    <2>2. GoodTool(Idle, files) /\ Idle.at # "finalize"
      BY DEF GoodTool, Idle
    <2> QED BY <1>2, <1>3, <2>1, <2>2
  <1>7. CASE FetchPage(t)
    <2> DEFINE last == tool[t].page * PageSize >= Len(listed)
               shown == SubSeq(listed, (tool[t].page - 1) * PageSize + 1,
                               IF last THEN Len(listed) ELSE tool[t].page * PageSize)
               p == [at |-> IF last THEN "synced" ELSE "fetch", copy |-> tool[t].copy,
                     page |-> tool[t].page + 1, seen |-> tool[t].seen \o shown]
    <2>1. tool[t].at = "fetch" /\ tool' = [tool EXCEPT ![t] = p]
      BY <1>7 DEF FetchPage
    <2>2. /\ GoodRegistry(tool[t].copy) /\ tool[t].page \in Nat \ {0}
          /\ tool[t].seen \in Seq(Slugs)
      BY <1>1, <2>1 DEF GoodTool
    <2>3. shown \in Seq(Slugs)
      BY <1>1, <2>2, PageFacts
    <2> HIDE DEF shown
    <2>4. tool[t].seen \o shown \in Seq(Slugs)
      BY <2>2, <2>3
    <2>5. GoodTool(p, files) /\ p.at # "finalize"
      BY <2>2, <2>4 DEF GoodTool
    <2> HIDE DEF p
    <2> QED BY <1>2, <1>3, <2>1, <2>5
  <1>8. ASSUME NEW g \in Slugs, Finalize(t, g)
        PROVE  /\ GoodTools'
               /\ \A u \in Tools : \/ tool'[u].at # "finalize"
                                   \/ tool'[u] = tool[u]
                                   \/ /\ tool'[u].game \in DOMAIN registry
                                      /\ tool'[u].id = registry[tool'[u].game].id
    <2> DEFINE p == [at |-> "finalize", game |-> g, id |-> registry[g].id, digest |-> Content(g)]
    <2>1. tool' = [tool EXCEPT ![t] = p] /\ g \in DOMAIN registry
      BY <1>8 DEF Finalize, Started, Active
    <2>2. registry[g].id \in Nat
      BY <1>1, <2>1 DEF GoodRegistry, Game
    <2>3. Content(g) \in Nat \X Nat /\ Content(g)[1] <= files[g].docs
      <3>1. files[g] \in File
        BY <1>1 DEF GoodFiles
      <3>2. files[g].docs \in Nat /\ files[g].edition \in Nat
        BY <3>1 DEF File
      <3> QED BY <3>2 DEF Content
    <2>4. GoodTool(p, files) /\ p.game = g /\ p.id = registry[g].id
      BY <2>2, <2>3 DEF GoodTool
    <2> HIDE DEF p
    <2> QED BY <1>3, <2>1, <2>4
  <1> QED BY <1>2, <1>4, <1>5, <1>6, <1>7, <1>8 DEF Works

-----------------------------------------------------------------------------
(* The release.                                                            *)

\* The items of a batch carry the ids the registry has for their games.
Owned(items, games) ==
  \A x \in items : x.slug \in DOMAIN games /\ x.id = games[x.slug].id

\* So does everything a process has in memory.
OwnedProcess(p, games) ==
  /\ p.at \in {"services", "read", "hash"} => Extends(games, p.games)
  /\ p.at \in Planned => \A n \in DOMAIN p.plan.batches : Owned(p.plan.batches[n].games, games)

\* The next game a process looks at is one it has not looked at.
LEMMA ForemostFacts ==
  ASSUME NEW p, GoodRegistry(p.games), p.left \subseteq DOMAIN p.games, p.left # {}
  PROVE  Foremost(p) \in p.left
  <1> DEFINE T == {p.games[g].id : g \in p.left}
  <1>1. T \in SUBSET Nat /\ T # {}
    BY DEF GoodRegistry, Game
  <1>2. PICK n \in T : \A m \in T : n <= m
    BY <1>1, LeastNat
  <1>3. \E g \in p.left : \A h \in p.left : p.games[g].id <= p.games[h].id
    BY <1>2
  <1> QED BY <1>3 DEF Foremost

\* What was judged stays judged while the files and their reports grow.
LEMMA JudgedStays ==
  ASSUME NEW now \in [Slugs -> File], NEW later \in [Slugs -> File], Grown(now, later),
         NEW judged, Judged(judged, now)
  PROVE  Judged(judged, later)
  <1> SUFFICES ASSUME NEW g \in DOMAIN judged, judged[g] > 0
               PROVE  /\ judged[g] <= later[g].validated /\ judged[g] <= later[g].stored.docs
                      /\ judged[g] <= later[g].manifest.docs
    BY DEF Judged
  <1>1. /\ g \in Slugs /\ judged[g] \in Nat
        /\ judged[g] <= now[g].validated /\ judged[g] <= now[g].stored.docs
        /\ judged[g] <= now[g].manifest.docs
    BY DEF Judged
  <1>2. /\ now[g].validated \in Nat /\ now[g].stored.docs \in Nat /\ now[g].manifest.docs \in Nat
        /\ later[g].validated \in Nat /\ later[g].stored.docs \in Nat /\ later[g].manifest.docs \in Nat
    BY <1>1 DEF File
  <1>3. /\ now[g].validated <= later[g].validated /\ now[g].stored.docs <= later[g].stored.docs
        /\ now[g].manifest.docs <= later[g].manifest.docs
    BY <1>1 DEF Grown
  <1> QED BY <1>1, <1>2, <1>3

\* A process that does nothing keeps what it has, whatever the others do.
LEMMA ProcessStays ==
  ASSUME NEW now \in [Slugs -> File], NEW later \in [Slugs -> File], Grown(now, later),
         NEW doing, NEW done,
         \A o \in DOMAIN doing : o \in DOMAIN done /\ Ids(done[o].items) = Ids(doing[o].items),
         NEW running, NEW also, running \subseteq also,
         NEW p, GoodProcess(p, now, doing, running)
  PROVE  GoodProcess(p, later, done, also)
  <1>1. p.at \in {"read", "hash"} \/ p.at \in Planned => Judged(p.judged, later)
    BY JudgedStays DEF GoodProcess
  <1>2. ASSUME p.at = "hash"
        PROVE  Read(p.reports, later[Foremost(p)])
    <2> DEFINE g == Foremost(p)
               a == now[g]
               b == later[g]
    <2>1. g \in Slugs
      <3>1. GoodRegistry(p.games) /\ p.left \subseteq DOMAIN p.games /\ p.left # {}
        BY <1>2 DEF GoodProcess
      <3> QED BY <3>1, ForemostFacts DEF GoodRegistry
    <2>2. Read(p.reports, a)
      BY <1>2 DEF GoodProcess
    <2>3. /\ a.manifest.docs \in Nat /\ a.validated \in Nat /\ a.stored.docs \in Nat
          /\ b.manifest.docs \in Nat /\ b.validated \in Nat /\ b.stored.docs \in Nat
      BY <2>1 DEF File
    <2>4. /\ a.manifest.docs <= b.manifest.docs /\ a.validated <= b.validated
          /\ a.stored.docs <= b.stored.docs
      BY <2>1 DEF Grown
    <2> HIDE DEF a, b
    <2>5. /\ p.reports.manifest.docs \in Nat /\ p.reports.validated \in Nat
          /\ p.reports.stored.docs \in Nat
      BY <2>2 DEF Read, File
    <2>6. Read(p.reports, b)
      BY <2>2, <2>3, <2>4, <2>5 DEF Read
    <2> QED BY <2>6 DEF b
  <1>3. p.at \in Planned => Served(p.plan, also)
    BY DEF GoodProcess, Served
  <1>4. p.at \in {"posted", "wait"} =>
          p.op \in DOMAIN done /\ Ids(done[p.op].items) = Ids(p.plan.batches[p.batch].games)
    BY DEF GoodProcess
  <1> QED BY <1>1, <1>2, <1>3, <1>4 DEF GoodProcess

\* The steps of a process that change nothing but what it has in memory.
Looks(d) ==
  \/ StartRelease(d) \/ AskServices(d) \/ ReadReports(d) \/ HashFile(d) \/ ReadPrior(d)
  \/ Refuse(d) \/ Leave(d)

\* A process goes on to p.
Proceeds(d, p) ==
  /\ release' = [release EXCEPT ![d] = p] /\ GoodProcess(p, files, ops', up)
  /\ OwnedProcess(release[d], registry) => OwnedProcess(p, registry)

LEMMA IdleIsGood ==
  ASSUME NEW now, NEW doing, NEW running, NEW games
  PROVE  GoodProcess(Idle, now, doing, running) /\ OwnedProcess(Idle, games)
  BY DEF GoodProcess, OwnedProcess, Idle, Planned

\* A game is found ready only when the file is the one of the manifest, which
\* tells how far its reports were when they were read.
LEMMA ReadyFacts ==
  ASSUME GoodFiles, NEW g \in Slugs, NEW reports, Read(reports, files[g]), NEW id, Ready(reports, g, id)
  PROVE  /\ files[g].docs \in Nat /\ files[g].docs <= files[g].validated
         /\ files[g].docs <= files[g].stored.docs /\ files[g].docs <= files[g].manifest.docs
  <1> DEFINE f == files[g]
  <1>1. /\ f.docs \in Nat /\ f.validated \in Nat /\ f.stored.docs \in Nat /\ f.manifest.docs \in Nat
    BY DEF GoodFiles, File
  <1>2. /\ reports.validated \in Nat /\ reports.stored.docs \in Nat /\ reports.manifest.docs \in Nat
        /\ reports.manifest.digest[1] <= reports.manifest.docs
        /\ reports.manifest.docs <= f.manifest.docs
        /\ reports.validated <= f.validated /\ reports.stored.docs <= f.stored.docs
    BY DEF Read, File
  <1>3. /\ reports.validated = reports.manifest.docs /\ reports.stored.docs = reports.manifest.docs
        /\ reports.manifest.digest = <<f.docs, f.edition>>
    BY DEF Ready, SameFile, Content
  <1>4. f.docs <= reports.manifest.docs
    BY <1>2, <1>3
  <1> HIDE DEF f
  <1>5. /\ f.docs <= f.validated /\ f.docs <= f.stored.docs /\ f.docs <= f.manifest.docs
    BY <1>1, <1>2, <1>3, <1>4
  <1> QED BY <1>1, <1>5 DEF f

LEMMA LooksFacts ==
  ASSUME Good, NEW d \in Deployers, Looks(d)
  PROVE  /\ UNCHANGED <<sources, report, ops, up, blind>>
         /\ \E p : Proceeds(d, p)
  <1> DEFINE q == release[d]
  <1>1. UNCHANGED <<sources, report, ops, up, blind>>
    BY DEF Looks, StartRelease, AskServices, ReadReports, HashFile, ReadPrior, Refuse, Leave
  <1>2. GoodProcess(q, files, ops, up) /\ GoodRegistry(registry) /\ GoodFiles
    BY DEF Good, GoodRelease
  <1>3. CASE StartRelease(d)
    <2> DEFINE games == [g \in Active |-> registry[g]]
               p == [at |-> "services", games |-> games]
    <2>1. release' = [release EXCEPT ![d] = p]
      BY <1>3 DEF StartRelease, Goes
    <2>2. GoodRegistry(games) /\ Extends(registry, games)
      <3>1. GoodRegistry(registry) /\ Active \subseteq DOMAIN registry
        BY <1>2 DEF Active
      <3> QED BY <3>1 DEF GoodRegistry, Extends
    <2> HIDE DEF games
    <2>3. GoodProcess(p, files, ops', up) /\ OwnedProcess(p, registry)
      BY <2>2 DEF GoodProcess, OwnedProcess, Planned
    <2> QED BY <1>1, <2>1, <2>3 DEF Proceeds
  <1>4. CASE AskServices(d)
    <2> DEFINE p == [at |-> "read", games |-> q.games, deployed |-> up, left |-> DOMAIN q.games,
                     judged |-> [g \in DOMAIN q.games |-> 0]]
    <2>1. release' = [release EXCEPT ![d] = p] /\ q.at = "services"
      BY <1>4 DEF AskServices, Goes
    <2>2. GoodRegistry(q.games)
      BY <1>2, <2>1 DEF GoodProcess
    <2>3. Judged(p.judged, files)
      BY <2>2 DEF Judged, GoodRegistry
    <2>4. GoodProcess(p, files, ops', up)
      BY <2>2, <2>3 DEF GoodProcess, Planned
    <2>5. OwnedProcess(q, registry) => OwnedProcess(p, registry)
      BY <2>1 DEF OwnedProcess, Planned
    <2> QED BY <1>1, <2>1, <2>4, <2>5 DEF Proceeds
  <1>5. CASE ReadReports(d)
    <2> DEFINE p == [at |-> "hash", games |-> q.games, deployed |-> q.deployed, left |-> q.left,
                     judged |-> q.judged, reports |-> files[NextGame(d)]]
    <2>1. release' = [release EXCEPT ![d] = p] /\ q.at = "read" /\ q.left # {}
      BY <1>5 DEF ReadReports, Goes
    <2>2. /\ GoodRegistry(q.games) /\ q.left \subseteq DOMAIN q.games
          /\ DOMAIN q.judged = DOMAIN q.games /\ Judged(q.judged, files)
      BY <1>2, <2>1 DEF GoodProcess
    <2>3. NextGame(d) = Foremost(p) /\ NextGame(d) = Foremost(q)
      BY DEF NextGame, Foremost
    <2>4. Foremost(p) \in Slugs
      BY <2>1, <2>2, <2>3, ForemostFacts DEF GoodRegistry
    <2>5. Read(p.reports, files[Foremost(p)])
      <3> DEFINE f == files[Foremost(p)]
      <3>1. f \in File /\ f.manifest.digest[1] <= f.manifest.docs
        BY <1>2, <2>4 DEF GoodFiles
      <3>2. f.manifest.docs \in Nat /\ f.validated \in Nat /\ f.stored.docs \in Nat
        BY <3>1 DEF File
      <3>3. p.reports = f
        BY <2>3
      <3> HIDE DEF f, p
      <3>4. Read(f, f)
        BY <3>1, <3>2 DEF Read
      <3> QED BY <3>3, <3>4 DEF f
    <2>6. GoodProcess(p, files, ops', up)
      BY <2>1, <2>2, <2>5 DEF GoodProcess, Planned
    <2>7. OwnedProcess(q, registry) => OwnedProcess(p, registry)
      BY <2>1 DEF OwnedProcess, Planned
    <2> QED BY <1>1, <2>1, <2>6, <2>7 DEF Proceeds
  <1>6. CASE HashFile(d)
    <2> DEFINE g == NextGame(d)
               ready == Ready(q.reports, g, q.games[g].id)
               judged == [q.judged EXCEPT ![g] = IF ready THEN files[g].docs ELSE 0]
               p == [at |-> "read", games |-> q.games, deployed |-> q.deployed,
                     left |-> q.left \ {g}, judged |-> judged]
    <2>1. release' = [release EXCEPT ![d] = p] /\ q.at = "hash"
      BY <1>6 DEF HashFile, Goes
    <2>2. /\ GoodRegistry(q.games) /\ q.left \subseteq DOMAIN q.games /\ q.left # {}
          /\ DOMAIN q.judged = DOMAIN q.games /\ Judged(q.judged, files)
          /\ Read(q.reports, files[Foremost(q)])
      BY <1>2, <2>1 DEF GoodProcess
    <2>3. g = Foremost(q)
      BY DEF NextGame, Foremost
    <2>4. g \in Slugs /\ g \in DOMAIN q.judged
      BY <2>2, <2>3, ForemostFacts DEF GoodRegistry
    <2>5. Judged(judged, files)
      <3>1. ready => /\ files[g].docs \in Nat /\ files[g].docs <= files[g].validated
                     /\ files[g].docs <= files[g].stored.docs /\ files[g].docs <= files[g].manifest.docs
        BY <1>2, <2>2, <2>3, <2>4, ReadyFacts
      <3> HIDE DEF g, ready
      <3>2. DOMAIN judged = DOMAIN q.judged
        OBVIOUS
      <3> SUFFICES ASSUME NEW h \in DOMAIN q.judged
                   PROVE  /\ h \in Slugs /\ judged[h] \in Nat
                          /\ judged[h] > 0 => /\ judged[h] <= files[h].validated
                                              /\ judged[h] <= files[h].stored.docs
                                              /\ judged[h] <= files[h].manifest.docs
        BY <3>2 DEF Judged
      <3>3. CASE h # g
        BY <2>2, <3>3 DEF Judged
      <3>4. CASE h = g
        BY <2>4, <3>1, <3>4
      <3> QED BY <3>3, <3>4
    <2>6. DOMAIN judged = DOMAIN q.games /\ q.left \ {g} \subseteq DOMAIN q.games
      BY <2>2
    <2> HIDE DEF g, judged
    <2>7. GoodProcess(p, files, ops', up)
      BY <2>2, <2>5, <2>6 DEF GoodProcess, Planned
    <2>8. OwnedProcess(q, registry) => OwnedProcess(p, registry)
      BY <2>1 DEF OwnedProcess, Planned
    <2> QED BY <1>1, <2>1, <2>7, <2>8 DEF Proceeds, g, judged
  <1>7. CASE ReadPrior(d)
    <2> DEFINE fresh == Plan(q.games, q.judged, q.deployed)
               plan == Merged(fresh, report)
               p == [at |-> "write", judged |-> q.judged, prior |-> report, plan |-> plan]
    <2>1. release' = [release EXCEPT ![d] = p] /\ q.at = "read"
      BY <1>7 DEF ReadPrior, Goes
    <2>2. /\ GoodRegistry(q.games) /\ Judged(q.judged, files) /\ DOMAIN q.judged = DOMAIN q.games
          /\ GoodPlan(report) /\ Served(report, up)
      BY <1>2, <2>1 DEF GoodProcess, Good, GoodReport
    <2>3. /\ GoodPlan(fresh)
          /\ \A n \in DOMAIN fresh.batches : fresh.batches[n].status = "pending"
          /\ \A n \in DOMAIN fresh.batches : \A x \in fresh.batches[n].games :
               x.slug \in DOMAIN q.games /\ x.id = q.games[x.slug].id /\ q.judged[x.slug] > 0
      BY <2>2, PlanFacts
    <2> HIDE DEF fresh
    <2>4. /\ GoodPlan(plan) /\ Served(plan, up) /\ Keeps(plan, report)
          /\ DOMAIN plan.batches = DOMAIN fresh.batches
          /\ \A n \in DOMAIN fresh.batches : plan.batches[n].games = fresh.batches[n].games
      BY <2>2, <2>3, MergedFacts
    <2> HIDE DEF plan
    <2>5. \A n \in DOMAIN plan.batches : \A x \in plan.batches[n].games :
            /\ x.slug \in DOMAIN q.games /\ x.id = q.games[x.slug].id
            /\ x.slug \in DOMAIN q.judged /\ q.judged[x.slug] > 0
      BY <2>2, <2>3, <2>4
    <2>6. GoodProcess(p, files, ops', up)
      BY <2>2, <2>4, <2>5 DEF GoodProcess, Planned
    <2>7. OwnedProcess(q, registry) => OwnedProcess(p, registry)
      BY <2>1, <2>5 DEF OwnedProcess, Planned, Owned, Extends
    <2> QED BY <1>1, <2>1, <2>6, <2>7 DEF Proceeds, plan, fresh
  <1>8. CASE Refuse(d) \/ Leave(d)
    <2>1. release' = [release EXCEPT ![d] = Idle]
      BY <1>8 DEF Refuse, Leave, Goes
    <2>2. GoodProcess(Idle, files, ops', up) /\ OwnedProcess(Idle, registry)
      BY IdleIsGood
    <2> QED BY <1>1, <2>1, <2>2 DEF Proceeds
  <1> QED BY <1>1, <1>3, <1>4, <1>5, <1>6, <1>7, <1>8 DEF Looks

\* The plan is written before anything is done.
LEMMA WritePlanFacts ==
  ASSUME Good, NEW d \in Deployers, WritePlan(d)
  PROVE  /\ UNCHANGED <<sources, ops, up, blind>> /\ GoodReport'
         /\ release[d].at = "write" /\ report' = release[d].plan
         /\ \E p : Proceeds(d, p)
  <1> DEFINE q == release[d]
  <1>1. q.at = "write" /\ report' = q.plan /\ UNCHANGED <<sources, ops, up, blind>>
    BY DEF WritePlan
  <1>2. GoodProcess(q, files, ops, up) /\ GoodReport
    BY DEF Good, GoodRelease
  <1>3. /\ GoodPlan(q.plan) /\ Served(q.plan, up) /\ Judged(q.judged, files)
        /\ \A n \in DOMAIN q.plan.batches : \A x \in q.plan.batches[n].games :
             x.slug \in DOMAIN q.judged /\ q.judged[x.slug] > 0
    BY <1>1, <1>2 DEF GoodProcess, Planned
  <1>4. GoodReport'
    BY <1>1, <1>2, <1>3 DEF GoodReport
  <1>5. PICK n \in 0..Cardinality(Slugs) :
          release' = [release EXCEPT ![d] = IF n = 0 THEN Idle
                        ELSE [at |-> "execute", judged |-> q.judged, plan |-> q.plan, batch |-> n]]
    BY DEF WritePlan, Goes
  <1>6. \E p : Proceeds(d, p)
    <2>1. CASE n = 0
      <3>1. GoodProcess(Idle, files, ops', up) /\ OwnedProcess(Idle, registry)
        BY IdleIsGood
      <3> QED BY <1>5, <2>1, <3>1 DEF Proceeds
    <2>2. CASE n # 0
      <3> DEFINE p == [at |-> "execute", judged |-> q.judged, plan |-> q.plan, batch |-> n]
      <3>1. GoodProcess(p, files, ops', up)
        BY <1>3 DEF GoodProcess, Planned
      <3>2. OwnedProcess(q, registry) => OwnedProcess(p, registry)
        BY <1>1 DEF OwnedProcess, Planned
      <3> QED BY <1>5, <2>2, <3>1, <3>2 DEF Proceeds
    <2> QED BY <2>1, <2>2
  <1> QED BY <1>1, <1>4, <1>6

\* A batch is posted if nothing was posted for it, and all before it are completed.
LEMMA PostFacts ==
  ASSUME Good, NEW d \in Deployers, Post(d)
  PROVE  /\ UNCHANGED <<sources, report, up, blind>> /\ GoodReport' /\ release[d].at = "execute"
         /\ \E p : Proceeds(d, p)
         /\ release[d].batch \in DOMAIN release[d].plan.batches
         /\ release[d].plan.batches[release[d].batch].op = None
         /\ ops' = Append(ops, [items |-> release[d].plan.batches[release[d].batch].games,
                                status |-> "running"])
         /\ \A k \in DOMAIN release[d].plan.batches :
              k < release[d].batch => Ids(release[d].plan.batches[k].games) \subseteq up
  <1> DEFINE q == release[d]
             plan == q.plan
             n == q.batch
             o == [items |-> plan.batches[n].games, status |-> "running"]
             p == [at |-> "posted", judged |-> q.judged, plan |-> plan, batch |-> n, op |-> Len(ops) + 1]
  <1>1. /\ q.at = "execute" /\ ~Refused(plan, n) /\ ops' = Append(ops, o)
        /\ release' = [release EXCEPT ![d] = p]
        /\ UNCHANGED <<sources, report, up, blind>>
    BY DEF Post, Goes
  <1>2. GoodProcess(q, files, ops, up) /\ GoodReport
    BY DEF Good, GoodRelease
  <1>3. /\ GoodPlan(plan) /\ Served(plan, up) /\ Judged(q.judged, files)
        /\ \A m \in DOMAIN plan.batches : \A x \in plan.batches[m].games :
             x.slug \in DOMAIN q.judged /\ q.judged[x.slug] > 0
    BY <1>1, <1>2 DEF GoodProcess, Planned
  <1>4. /\ n \in DOMAIN plan.batches /\ ~EarlierOpen(plan, n)
        /\ plan.batches[n].status \notin {"running", "failed", "completed"}
    BY <1>1 DEF Refused
  <1>5. plan.batches[n] \in Batch
    BY <1>3, <1>4 DEF GoodPlan
  <1>6. plan.batches[n].op = None
    BY <1>3, <1>4, <1>5 DEF GoodPlan, Batch
  <1>7. o \in Operation /\ o.items = plan.batches[n].games /\ o.status = "running"
    BY <1>5 DEF Operation, Batch
  <1>8. ops \in Seq(Operation)
    BY <1>2 DEF GoodReport
  <1>9. \A k \in DOMAIN plan.batches : k < n => Ids(plan.batches[k].games) \subseteq up
    BY <1>3, <1>4 DEF EarlierOpen, Served
  <1>10. ops' = Append(ops, [items |-> plan.batches[n].games, status |-> "running"])
    BY <1>1
  <1> HIDE DEF o
  <1>11. /\ ops' \in Seq(Operation) /\ Len(ops) + 1 \in DOMAIN ops' /\ ops'[Len(ops) + 1] = o
         /\ \A k \in DOMAIN ops' : ops'[k] = o \/ (k \in DOMAIN ops /\ ops'[k] = ops[k])
    BY <1>1, <1>7, <1>8
  <1>12. GoodReport'
    BY <1>1, <1>2, <1>7, <1>11 DEF GoodReport
  <1>13. GoodProcess(p, files, ops', up)
    BY <1>3, <1>4, <1>6, <1>7, <1>11 DEF GoodProcess, Planned
  <1>14. OwnedProcess(q, registry) => OwnedProcess(p, registry)
    BY <1>1 DEF OwnedProcess, Planned
  <1>15. \E r : Proceeds(d, r)
    BY <1>1, <1>13, <1>14 DEF Proceeds
  <1> QED BY <1>1, <1>4, <1>6, <1>9, <1>10, <1>12, <1>15

\* A plan gets the operation of a batch, and nothing else changes.
LEMMA RecordedFacts ==
  ASSUME NEW plan, GoodPlan(plan), Served(plan, up), GoodReport,
         NEW n \in DOMAIN plan.batches, NEW op \in DOMAIN ops,
         Ids(ops[op].items) = Ids(plan.batches[n].games)
  PROVE  LET r == Recorded(plan, n, op)
         IN  /\ GoodPlan(r) /\ Served(r, up) /\ DOMAIN r.batches = DOMAIN plan.batches
             /\ \A m \in DOMAIN plan.batches :
                  /\ r.batches[m].games = plan.batches[m].games
                  /\ r.batches[m].op = IF m = n THEN op ELSE plan.batches[m].op
  <1> DEFINE r == Recorded(plan, n, op)
             old == plan.batches
             s == ops[op].status
             b == [old[n] EXCEPT !.status = s, !.op = op]
             batches == [old EXCEPT ![n] = b]
  <1>1. /\ plan \in [made : BOOLEAN, batches : Seq(Batch)] /\ old \in Seq(Batch)
        /\ old[n] \in Batch
    BY DEF GoodPlan
  <1>2. ops[op] \in Operation /\ op \in Nat \ {0}
    BY DEF GoodReport
  <1>3. s \in {"running", "completed", "failed"}
    BY <1>2 DEF Operation
  <1>4. s = "completed" => Ids(old[n].games) \subseteq up
    BY DEF GoodReport
  <1> HIDE DEF s
  <1>5. b \in Batch /\ b.games = old[n].games /\ b.status = s /\ b.op = op
    <2> DEFINE c == old[n]
    <2>1. c \in Batch
      BY <1>1
    <2> HIDE DEF c
    <2>2. [c EXCEPT !.status = s, !.op = op] \in Batch
      BY <1>2, <1>3, <2>1 DEF Batch
    <2>3. /\ [c EXCEPT !.status = s, !.op = op].games = c.games
          /\ [c EXCEPT !.status = s, !.op = op].status = s
          /\ [c EXCEPT !.status = s, !.op = op].op = op
      BY <2>1 DEF Batch
    <2> QED BY <2>2, <2>3 DEF c
  <1>6. r = [plan EXCEPT !.batches = batches]
    <2>1. r = [plan EXCEPT !.batches = [old EXCEPT ![n] = [[old[n] EXCEPT !.status = s] EXCEPT !.op = op]]]
      BY <1>1 DEF Recorded, s
    <2>2. b = [[old[n] EXCEPT !.status = s] EXCEPT !.op = op]
      BY <1>1 DEF Batch
    <2> QED BY <2>1, <2>2
  <1> HIDE DEF b, r
  <1>7. /\ batches \in Seq(Batch) /\ DOMAIN batches = DOMAIN old
        /\ \A m \in DOMAIN old : batches[m] = IF m = n THEN b ELSE old[m]
    <2> HIDE DEF old
    <2>1. DOMAIN batches = DOMAIN old
      OBVIOUS
    <2>2. \A m \in DOMAIN old : batches[m] = IF m = n THEN b ELSE old[m]
      OBVIOUS
    <2>3. DOMAIN old = 1..Len(old) /\ Len(old) \in Nat /\ \A m \in DOMAIN old : old[m] \in Batch
      BY <1>1
    <2>4. batches = [m \in 1..Len(old) |-> batches[m]]
      BY <2>1, <2>3
    <2> HIDE DEF batches
    <2>5. \A m \in 1..Len(old) : batches[m] \in Batch
      BY <1>5, <2>2, <2>3
    <2>6. batches \in Seq(Batch)
      BY <2>3, <2>4, <2>5
    <2> QED BY <2>1, <2>2, <2>6
  <1> HIDE DEF batches
  <1>8. r \in [made : BOOLEAN, batches : Seq(Batch)] /\ r.batches = batches
    BY <1>1, <1>6, <1>7
  <1>9. \A m \in DOMAIN old : /\ r.batches[m].games = old[m].games
                              /\ r.batches[m].op = IF m = n THEN op ELSE old[m].op
                              /\ m # n => r.batches[m] = old[m]
                              /\ m = n => r.batches[m].status = s
    BY <1>5, <1>7, <1>8
  <1>10. \A m \in DOMAIN old : r.batches[m].op # None => r.batches[m].status # "pending"
    BY <1>3, <1>9 DEF GoodPlan
  <1>11. GoodPlan(r)
    BY <1>7, <1>8, <1>9, <1>10 DEF GoodPlan
  <1>12. Served(r, up)
    BY <1>4, <1>7, <1>8, <1>9 DEF Served
  <1> QED BY <1>7, <1>8, <1>9, <1>11, <1>12 DEF r

\* The report gets the operation of the batch that was posted. Where the batch
\* had one already, it is this.
LEMMA RecordFacts ==
  ASSUME Good, NEW d \in Deployers, Record(d)
  PROVE  /\ UNCHANGED <<sources, ops, up, blind>> /\ GoodReport' /\ release[d].at \in {"posted", "wait"}
         /\ \E p : Proceeds(d, p)
         /\ DOMAIN report'.batches = DOMAIN release[d].plan.batches
         /\ \A m \in DOMAIN report'.batches :
              /\ report'.batches[m].games = release[d].plan.batches[m].games
              /\ release[d].plan.batches[m].op # None
                   => report'.batches[m].op = release[d].plan.batches[m].op
  <1> DEFINE q == release[d]
             n == q.batch
             op == q.op
             r == Recorded(q.plan, n, op)
  <1>1. /\ q.at \in {"posted", "wait"} /\ report' = r /\ UNCHANGED <<sources, ops, up, blind>>
        /\ \/ release' = [release EXCEPT ![d] = Idle]
           \/ release' = [release EXCEPT ![d] = [q EXCEPT !.at = "wait", !.plan = r]]
    BY DEF Record, Goes
  <1>2. GoodProcess(q, files, ops, up) /\ GoodReport
    BY DEF Good, GoodRelease
  <1>3. /\ GoodPlan(q.plan) /\ Served(q.plan, up) /\ Judged(q.judged, files)
        /\ \A m \in DOMAIN q.plan.batches : \A x \in q.plan.batches[m].games :
             x.slug \in DOMAIN q.judged /\ q.judged[x.slug] > 0
    BY <1>1, <1>2 DEF GoodProcess, Planned
  <1>4. /\ q = [at |-> q.at, judged |-> q.judged, plan |-> q.plan, batch |-> n, op |-> op]
        /\ n \in DOMAIN q.plan.batches /\ op \in DOMAIN ops
        /\ Ids(ops[op].items) = Ids(q.plan.batches[n].games)
        /\ q.plan.batches[n].op = IF q.at = "wait" THEN op ELSE None
    BY <1>1, <1>2 DEF GoodProcess
  <1>5. /\ GoodPlan(r) /\ Served(r, up) /\ DOMAIN r.batches = DOMAIN q.plan.batches
        /\ \A m \in DOMAIN q.plan.batches :
             /\ r.batches[m].games = q.plan.batches[m].games
             /\ r.batches[m].op = IF m = n THEN op ELSE q.plan.batches[m].op
    BY <1>2, <1>3, <1>4, RecordedFacts
  <1> HIDE DEF r
  <1>6. GoodReport'
    BY <1>1, <1>2, <1>5 DEF GoodReport
  <1>7. \A m \in DOMAIN q.plan.batches : q.plan.batches[m].op # None => r.batches[m].op = q.plan.batches[m].op
    BY <1>1, <1>4, <1>5
  <1>8. CASE release' = [release EXCEPT ![d] = Idle]
    <2>1. GoodProcess(Idle, files, ops', up) /\ OwnedProcess(Idle, registry)
      BY IdleIsGood
    <2>2. \E p : Proceeds(d, p)
      BY <1>8, <2>1 DEF Proceeds
    <2> QED BY <1>1, <1>5, <1>6, <1>7, <2>2
  <1>9. CASE release' = [release EXCEPT ![d] = [q EXCEPT !.at = "wait", !.plan = r]]
    <2> DEFINE p == [at |-> "wait", judged |-> q.judged, plan |-> r, batch |-> n, op |-> op]
    <2>1. [q EXCEPT !.at = "wait", !.plan = r] = p
      <3> DEFINE a == q.at
                 j == q.judged
                 l == q.plan
      <3>1. q = [at |-> a, judged |-> j, plan |-> l, batch |-> n, op |-> op]
        BY <1>4
      <3> HIDE DEF a, j, l, n, op, q
      <3>2. [q EXCEPT !.at = "wait", !.plan = r] = [[q EXCEPT !.at = "wait"] EXCEPT !.plan = r]
        OBVIOUS
      <3>3. [q EXCEPT !.at = "wait"]
              = [at |-> "wait", judged |-> j, plan |-> l, batch |-> n, op |-> op]
        BY <3>1
      <3>4. [[q EXCEPT !.at = "wait"] EXCEPT !.plan = r]
              = [[at |-> "wait", judged |-> j, plan |-> l, batch |-> n, op |-> op] EXCEPT !.plan = r]
        BY <3>3
      <3>5. [[at |-> "wait", judged |-> j, plan |-> l, batch |-> n, op |-> op] EXCEPT !.plan = r]
              = [at |-> "wait", judged |-> j, plan |-> r, batch |-> n, op |-> op]
        OBVIOUS
      <3> QED BY <3>2, <3>4, <3>5 DEF j
    <2>2. GoodProcess(p, files, ops', up)
      <3>1. Ids(ops[op].items) = Ids(r.batches[n].games) /\ r.batches[n].op = op
            /\ n \in DOMAIN r.batches
        BY <1>4, <1>5
      <3>2. \A m \in DOMAIN r.batches : \A x \in r.batches[m].games :
              x.slug \in DOMAIN q.judged /\ q.judged[x.slug] > 0
        BY <1>3, <1>5
      <3> HIDE DEF n, op
      <3> QED BY <1>1, <1>3, <1>4, <1>5, <3>1, <3>2 DEF GoodProcess, Planned
    <2>3. OwnedProcess(q, registry) => OwnedProcess(p, registry)
      BY <1>1, <1>5 DEF OwnedProcess, Planned
    <2>4. \E t : Proceeds(d, t)
      BY <1>9, <2>1, <2>2, <2>3 DEF Proceeds
    <2> QED BY <1>1, <1>5, <1>6, <1>7, <2>4
  <1> QED BY <1>1, <1>8, <1>9

\* The agent changes the state of its operations, never what they are made of.
Serves(o) == ComeUp(o) \/ Complete(o) \/ Fail(o)

LEMMA ServesFacts ==
  ASSUME Good, NEW o \in DOMAIN ops, Serves(o)
  PROVE  /\ GoodReport' /\ UNCHANGED <<sources, report, release, blind>> /\ up \subseteq up'
         /\ DOMAIN ops' = DOMAIN ops /\ Len(ops') = Len(ops)
         /\ \A m \in DOMAIN ops : ops'[m].items = ops[m].items
  <1>1. UNCHANGED <<sources, report, release, blind>> /\ up \subseteq up'
    BY DEF Serves, ComeUp, Complete, Fail
  <1>2. /\ ops \in Seq(Operation) /\ ops[o] \in Operation /\ GoodReport
    BY DEF Good, GoodReport
  <1>3. \/ ops' = ops
        \/ \E s \in {"completed", "failed"} :
             /\ ops' = [ops EXCEPT ![o].status = s]
             /\ s = "completed" => Ids(ops[o].items) \subseteq up
    BY DEF Serves, ComeUp, Complete, Fail, Ids
  <1>4. /\ ops' \in Seq(Operation) /\ DOMAIN ops' = DOMAIN ops /\ Len(ops') = Len(ops)
        /\ \A m \in DOMAIN ops : /\ ops'[m].items = ops[m].items
                                 /\ ops'[m].status = "completed" => Ids(ops[m].items) \subseteq up
    <2>1. CASE ops' = ops
      BY <1>2, <2>1 DEF GoodReport
    <2>2. ASSUME NEW s \in {"completed", "failed"}, ops' = [ops EXCEPT ![o].status = s],
                 s = "completed" => Ids(ops[o].items) \subseteq up
          PROVE  <1>4
      <3> DEFINE q == [ops[o] EXCEPT !.status = s]
      <3>1. ops' = [ops EXCEPT ![o] = q]
        BY <2>2
      <3>2. q \in Operation /\ q.items = ops[o].items /\ q.status = s
        BY <1>2 DEF Operation
      <3> HIDE DEF q
      <3>3. \A m \in DOMAIN ops : ops[m].status = "completed" => Ids(ops[m].items) \subseteq up
        BY <1>2 DEF GoodReport
      <3> QED BY <1>2, <2>2, <3>1, <3>2, <3>3
    <2> QED BY <1>3, <2>1, <2>2
  <1>5. Served(report, up')
    BY <1>1, <1>2 DEF GoodReport, Served
  <1>6. GoodReport'
    BY <1>1, <1>2, <1>4, <1>5 DEF GoodReport
  <1> QED BY <1>1, <1>4, <1>6

-----------------------------------------------------------------------------
(* What holds in every state.                                              *)

\* The first directory: the games listed have the first ids.
LEMMA FirstRegistry ==
  ASSUME Init
  PROVE  GoodRegistry(registry)
  <1> DEFINE first(g) == CHOOSE i \in DOMAIN FirstListed : FirstListed[i] = g
  <1>1. FirstId \in Nat \ {0} /\ FirstListed \in Seq(Slugs)
    BY PublishAssumption
  <1>2. \A g \in ToSet(FirstListed) :
          first(g) \in DOMAIN FirstListed /\ FirstListed[first(g)] = g
    BY DEF ToSet
  <1>3. DOMAIN FirstListed = 1..Len(FirstListed) /\ Len(FirstListed) \in Nat
    BY <1>1
  <1>4. ToSet(FirstListed) \subseteq Slugs
    BY <1>1, ElementOfSeq DEF ToSet
  <1>5. registry = [g \in ToSet(FirstListed) |->
          [id |-> FirstId - 1 + first(g), active |-> TRUE, found |-> TRUE]]
    BY DEF Init
  <1> HIDE DEF first
  <1>6. \A g \in ToSet(FirstListed) : FirstId - 1 + first(g) \in Nat \ {0}
    BY <1>1, <1>2, <1>3
  <1>7. \A g, h \in ToSet(FirstListed) : FirstId - 1 + first(g) = FirstId - 1 + first(h) => g = h
    <2> SUFFICES ASSUME NEW g \in ToSet(FirstListed), NEW h \in ToSet(FirstListed),
                        FirstId - 1 + first(g) = FirstId - 1 + first(h)
                 PROVE  g = h
      OBVIOUS
    <2>1. first(g) = first(h)
      BY <1>1, <1>2, <1>3
    <2> QED BY <1>2, <2>1
  <1> QED BY <1>4, <1>5, <1>6, <1>7 DEF GoodRegistry, Game

\* An id that stands in the directory of a game is the game's own, and so is
\* one a tool, a plan or an operation has taken from the registry.
IdsOwned ==
  ~blind =>
    /\ \A h \in Slugs : \A id \in Carried(files[h]) :
         id = None \/ (h \in DOMAIN registry /\ id = registry[h].id)
    /\ \A t \in Tools : tool[t].at = "finalize" =>
         tool[t].game \in DOMAIN registry /\ tool[t].id = registry[tool[t].game].id
    /\ \A d \in Deployers : OwnedProcess(release[d], registry)
    /\ \A n \in DOMAIN report.batches : Owned(report.batches[n].games, registry)
    /\ \A o \in DOMAIN ops : Owned(ops[o].items, registry)

LEMMA First ==
  Init => Good /\ IdsOwned
  <1> SUFFICES ASSUME Init
               PROVE  Good /\ IdsOwned
    OBVIOUS
  <1>1. GoodRegistry(registry)
    BY FirstRegistry
  <1>2. listed \in Seq(Slugs) /\ blind \in BOOLEAN
    BY PublishAssumption DEF Init
  <1>3. \A g \in DOMAIN registry : registry[g].id \in Nat
    BY <1>1 DEF GoodRegistry, Game
  <1>4. \A g \in Slugs :
          files[g] = IF g \in DOMAIN registry THEN Accepted(registry[g].id, 1) ELSE Untouched
    BY DEF Init
  <1>5. ASSUME NEW id \in Nat, NEW docs \in Nat
        PROVE  /\ Accepted(id, docs) \in File /\ Carried(Accepted(id, docs)) = {id}
               /\ Accepted(id, docs).manifest.digest[1] <= Accepted(id, docs).manifest.docs
               /\ Accepted(id, docs).manifest.docs <= Accepted(id, docs).docs
               /\ Accepted(id, docs).validated <= Accepted(id, docs).docs
               /\ Accepted(id, docs).stored.docs <= Accepted(id, docs).docs
    <2>1. <<docs, 1>> \in Nat \X Nat
      OBVIOUS
    <2>2. [id |-> id, digest |-> <<docs, 1>>, docs |-> docs] \in [id : Nat, digest : Nat \X Nat, docs : Nat]
      BY <2>1
    <2>3. [id |-> id, docs |-> docs] \in [id : Nat, docs : Nat]
      OBVIOUS
    <2>4. Accepted(id, docs) \in File
      BY <2>2, <2>3 DEF Accepted, File
    <2> QED BY <2>4 DEF Accepted, Carried
  <1>6. files = [g \in Slugs |-> files[g]]
    BY DEF Init
  <1>7. \A g \in Slugs :
          /\ files[g] \in File
          /\ files[g].manifest.digest[1] <= files[g].manifest.docs
          /\ files[g].manifest.docs <= files[g].docs
          /\ files[g].validated <= files[g].docs /\ files[g].stored.docs <= files[g].docs
          /\ Carried(files[g]) = IF g \in DOMAIN registry THEN {registry[g].id} ELSE {None}
    <2> SUFFICES ASSUME NEW g \in Slugs
                 PROVE  /\ files[g] \in File
                        /\ files[g].manifest.digest[1] <= files[g].manifest.docs
                        /\ files[g].manifest.docs <= files[g].docs
                        /\ files[g].validated <= files[g].docs /\ files[g].stored.docs <= files[g].docs
                        /\ Carried(files[g]) = IF g \in DOMAIN registry THEN {registry[g].id} ELSE {None}
      OBVIOUS
    <2>1. CASE g \in DOMAIN registry
      <3>1. files[g] = Accepted(registry[g].id, 1) /\ registry[g].id \in Nat
        BY <1>3, <1>4, <2>1
      <3> QED BY <1>5, <2>1, <3>1
    <2>2. CASE g \notin DOMAIN registry
      <3>1. files[g] = Accepted(0, 0)
        BY <1>4, <2>2 DEF Untouched, None
      <3> QED BY <1>5, <2>2, <3>1 DEF None
    <2> QED BY <2>1, <2>2
  <1>8. GoodFiles
    BY <1>6, <1>7 DEF GoodFiles
  <1>9. /\ tool = [t \in Tools |-> Idle] /\ release = [d \in Deployers |-> Idle]
        /\ report = NoPlan /\ ops = <<>>
    BY DEF Init
  <1>10. GoodTools
    BY <1>9 DEF GoodTools, GoodTool, Idle
  <1>11. GoodReport
    <2>1. report \in [made : BOOLEAN, batches : Seq(Batch)] /\ DOMAIN report.batches = {}
      BY <1>9 DEF NoPlan
    <2> QED BY <1>9, <2>1 DEF GoodReport, GoodPlan, Served
  <1>12. GoodRelease
    BY <1>9, IdleIsGood DEF GoodRelease
  <1>13. IdsOwned
    <2>1. DOMAIN report.batches = {} /\ DOMAIN ops = {}
      BY <1>9 DEF NoPlan
    <2>2. \A h \in Slugs : \A id \in Carried(files[h]) :
            id = None \/ (h \in DOMAIN registry /\ id = registry[h].id)
      <3> SUFFICES ASSUME NEW h \in Slugs, NEW id \in Carried(files[h])
                   PROVE  id = None \/ (h \in DOMAIN registry /\ id = registry[h].id)
        OBVIOUS
      <3>1. CASE h \in DOMAIN registry
        <4>1. Carried(files[h]) = {registry[h].id}
          BY <1>7, <3>1
        <4> QED BY <3>1, <4>1
      <3>2. CASE h \notin DOMAIN registry
        <4>1. Carried(files[h]) = {None}
          BY <1>7, <3>2
        <4> QED BY <4>1
      <3> QED BY <3>1, <3>2
    <2>3. \A t \in Tools : tool[t].at # "finalize"
      BY <1>9 DEF Idle
    <2>4. \A d \in Deployers : OwnedProcess(release[d], registry)
      BY <1>9, IdleIsGood
    <2> QED BY <2>1, <2>2, <2>3, <2>4 DEF IdsOwned
  <1> QED BY <1>1, <1>2, <1>8, <1>10, <1>11, <1>12, <1>13 DEF Good

LEMMA Cases ==
  ASSUME Next
  PROVE  \/ Relist
         \/ \E d \in Deployers : Looks(d) \/ WritePlan(d) \/ Post(d) \/ Record(d)
         \/ \E t \in Tools : WriteSynced(t) \/ DiscoverGame(t)
         \/ \E t \in Tools : Works(t)
         \/ \E t \in Tools : FinalizeEnds(t)
         \/ \E g \in Slugs : Notes(g)
         \/ \E o \in DOMAIN ops : Serves(o)
  <1>1. CASE \E t \in Tools : Sync(t) \/ FetchPage(t) \/ WriteSynced(t) \/ Discover(t)
                              \/ DiscoverGame(t) \/ FinalizeEnds(t) \/ Die(t)
    BY <1>1 DEF Works
  <1>2. CASE \E t \in Tools, g \in Slugs : Finalize(t, g)
    BY <1>2 DEF Works
  <1>3. CASE \E g \in Slugs : Capture(g) \/ Sanitize(g) \/ Validate(g) \/ AuditMongo(g)
                              \/ AuditResources(g) \/ GenerateService(g)
    BY <1>3 DEF Notes
  <1>4. CASE \E o \in DOMAIN ops : ComeUp(o) \/ Complete(o) \/ Fail(o)
    BY <1>4 DEF Serves
  <1>5. CASE \E d \in Deployers :
               \/ StartRelease(d) \/ AskServices(d) \/ ReadReports(d) \/ HashFile(d) \/ ReadPrior(d)
               \/ WritePlan(d) \/ Refuse(d) \/ Post(d) \/ Record(d) \/ Leave(d)
    BY <1>5 DEF Looks
  <1> QED BY <1>1, <1>2, <1>3, <1>4, <1>5 DEF Next

\* What a step may change in the directory: the registry, the files, or the
\* memory of the tools.
LEMMA SourcesStep ==
  ASSUME Good, [Next]_vars
  PROVE  /\ listed' \in Seq(Slugs) /\ GoodRegistry(registry') /\ blind' \in BOOLEAN
         /\ GoodFiles' /\ GoodTools' /\ Grown(files, files')
         /\ ~blind' => ~blind /\ Extends(registry', registry)
  <1> DEFINE Same == /\ GoodRegistry(registry) /\ blind \in BOOLEAN /\ GoodFiles
                     /\ GoodTools /\ listed \in Seq(Slugs) /\ Extends(registry, registry)
                     /\ Grown(files, files)
  <1>1. Same
    <2>1. Grown(files, files)
      <3>1. \A g \in Slugs : /\ files[g].docs \in Nat /\ files[g].validated \in Nat
                             /\ files[g].stored.docs \in Nat /\ files[g].manifest.docs \in Nat
        BY DEF Good, GoodFiles, File
      <3> QED BY <3>1 DEF Grown
    <2> QED BY <2>1, ExtendsItself DEF Good
  <1> HIDE DEF Same
  <1>2. CASE UNCHANGED <<sources, blind>>
    BY <1>1, <1>2 DEF Same, GoodFiles, GoodTools, sources
  <1>3. CASE Relist
    <2>1. UNCHANGED <<registry, tool, files, rollout, blind>>
      BY <1>3 DEF Relist
    <2>2. listed \in Seq(Slugs)
      BY <1>1 DEF Same
    <2>3. listed' \in Seq(Slugs)
      <3>1. CASE \E i \in DOMAIN listed : listed' = RemoveAt(listed, i)
        <4>1. PICK i \in DOMAIN listed : listed' = SubSeq(listed, 1, i - 1) \o SubSeq(listed, i + 1, Len(listed))
          BY <3>1 DEF RemoveAt
        <4>2. i \in 1..Len(listed) /\ Len(listed) \in Nat
          BY <2>2
        <4>3. SubSeq(listed, 1, i - 1) \in Seq(Slugs)
          BY <2>2, <4>2, SubSeqProperties
        <4>4. SubSeq(listed, i + 1, Len(listed)) \in Seq(Slugs)
          BY <2>2, <4>2, SubSeqProperties
        <4> QED BY <4>1, <4>3, <4>4
      <3>2. CASE \E g \in Slugs \ ToSet(listed) : listed' = Append(listed, g)
        BY <2>2, <3>2
      <3> QED BY <1>3, <3>1, <3>2 DEF Relist
    <2> QED BY <1>1, <2>1, <2>3 DEF Same, GoodFiles, GoodTools
  <1>4. ASSUME NEW t \in Tools, WriteSynced(t) \/ DiscoverGame(t)
        PROVE  /\ GoodRegistry(registry') /\ blind' \in BOOLEAN /\ GoodTools'
               /\ ~blind' => ~blind /\ Extends(registry', registry)
               /\ UNCHANGED <<listed, files>>
    BY <1>4, RegistryFacts
  <1>5. ASSUME NEW t \in Tools, Works(t)
        PROVE  GoodTools' /\ UNCHANGED <<listed, registry, files, blind>>
    BY <1>5, WorksFacts
  <1>6. ASSUME files \in [Slugs -> File], files' \in [Slugs -> File],
               Grown(files, files')
        PROVE  \A t \in Tools : GoodTool(tool[t], files')
    BY <1>1, <1>6, ToolStays DEF Same, GoodTools, Grown
  <1>7. ASSUME NEW t \in Tools, FinalizeEnds(t)
        PROVE  GoodFiles' /\ GoodTools' /\ Grown(files, files') /\ UNCHANGED <<listed, registry, blind>>
    <2>1. /\ GoodFiles' /\ Grown(files, files')
          /\ UNCHANGED <<listed, registry, blind>> /\ tool' = [tool EXCEPT ![t] = Idle]
      BY <1>1, <1>7, FinalizeFacts DEF Same
    <2>3. \A u \in Tools : GoodTool(tool[u], files')
      BY <1>1, <1>6, <2>1 DEF Same, GoodFiles
    <2>4. GoodTool(Idle, files')
      BY DEF GoodTool, Idle
    <2>5. tool' = [u \in Tools |-> tool'[u]] /\ \A u \in Tools : tool'[u] = IF u = t THEN Idle ELSE tool[u]
      BY <1>1, <2>1 DEF Same, GoodTools
    <2>6. GoodTools'
      BY <2>3, <2>4, <2>5 DEF GoodTools
    <2> QED BY <2>1, <2>6
  <1>8. ASSUME NEW g \in Slugs, Notes(g)
        PROVE  GoodFiles' /\ GoodTools' /\ Grown(files, files') /\ UNCHANGED <<listed, registry, blind>>
    <2>1. GoodFiles' /\ Grown(files, files') /\ UNCHANGED <<listed, registry, tool, blind>>
      BY <1>1, <1>8, NotesFacts DEF Same
    <2>2. \A u \in Tools : GoodTool(tool[u], files')
      BY <1>1, <1>6, <2>1 DEF Same, GoodFiles
    <2> QED BY <1>1, <2>1, <2>2 DEF Same, GoodTools
  <1>9. ASSUME NEW d \in Deployers, Looks(d) \/ WritePlan(d) \/ Post(d) \/ Record(d)
        PROVE  UNCHANGED <<sources, blind>>
    BY <1>9 DEF Looks, StartRelease, AskServices, ReadReports, HashFile, ReadPrior, WritePlan, Refuse, Post,
                Record, Leave
  <1>10. ASSUME NEW o \in DOMAIN ops, Serves(o)
         PROVE  UNCHANGED <<sources, blind>>
    BY <1>10 DEF Serves, ComeUp, Complete, Fail
  <1>11. CASE UNCHANGED vars
    BY <1>2, <1>11 DEF vars, sources
  <1>12. CASE Next
    BY <1>1, <1>2, <1>3, <1>4, <1>5, <1>7, <1>8, <1>9, <1>10, <1>12, Cases DEF Same, GoodFiles
  <1> QED BY <1>11, <1>12

\* What the release and the agent keep to themselves.
LEMMA RolloutStays ==
  ASSUME NEW t \in Tools, WriteSynced(t) \/ DiscoverGame(t) \/ Works(t) \/ FinalizeEnds(t)
  PROVE  UNCHANGED rollout
  BY DEF WriteSynced, DiscoverGame, FinalizeEnds, Works, Sync, FetchPage, Discover, Die, Finalize,
         Started

\* What a step may change in the release.
LEMMA RolloutStep ==
  ASSUME Good, [Next]_vars
  PROVE  /\ GoodReport' /\ release' = [d \in Deployers |-> release'[d]]
         /\ up \subseteq up'
         /\ \A o \in DOMAIN ops : o \in DOMAIN ops' /\ ops'[o].items = ops[o].items
         /\ \A d \in Deployers :
              \/ release'[d] = release[d]
              \/ files' = files /\ up' = up /\ Proceeds(d, release'[d])
  <1> DEFINE Facts == /\ GoodReport' /\ release' = [d \in Deployers |-> release'[d]]
                      /\ up \subseteq up'
                      /\ \A o \in DOMAIN ops : o \in DOMAIN ops' /\ ops'[o].items = ops[o].items
                      /\ \A d \in Deployers :
                           \/ release'[d] = release[d]
                           \/ files' = files /\ up' = up /\ Proceeds(d, release'[d])
  <1>1. GoodReport /\ ops \in Seq(Operation) /\ release = [d \in Deployers |-> release[d]]
    BY DEF Good, GoodReport, GoodRelease
  <1>2. CASE UNCHANGED rollout
    BY <1>1, <1>2 DEF rollout, GoodReport
  <1>3. ASSUME NEW d \in Deployers, UNCHANGED <<files, up>>, GoodReport', \E p : Proceeds(d, p),
               \A o \in DOMAIN ops : o \in DOMAIN ops' /\ ops'[o].items = ops[o].items
        PROVE  Facts
    <2>1. PICK p : Proceeds(d, p)
      BY <1>3
    <2>2. release' = [release EXCEPT ![d] = p]
      BY <2>1 DEF Proceeds
    <2>3. release'[d] = p /\ \A e \in Deployers : e # d => release'[e] = release[e]
      BY <1>1, <2>2
    <2>4. release' = [e \in Deployers |-> release'[e]]
      BY <1>1, <2>2
    <2>5. Proceeds(d, release'[d])
      BY <2>1, <2>3
    <2> QED BY <1>3, <2>3, <2>4, <2>5
  <1>4. ASSUME NEW t \in Tools,
               WriteSynced(t) \/ DiscoverGame(t) \/ Works(t) \/ FinalizeEnds(t)
        PROVE  UNCHANGED rollout
    BY <1>4, RolloutStays
  <1>5. ASSUME NEW g \in Slugs, Notes(g)
        PROVE  UNCHANGED rollout
    BY <1>5, NotesFacts DEF Good
  <1>6. CASE Relist \/ UNCHANGED vars
    BY <1>2, <1>6 DEF Relist, vars, rollout
  <1>7. ASSUME NEW o \in DOMAIN ops, Serves(o)
        PROVE  Facts
    BY <1>1, <1>7, ServesFacts
  <1>8. ASSUME NEW d \in Deployers, Looks(d) \/ WritePlan(d) \/ Record(d)
        PROVE  Facts
    <2>1. /\ UNCHANGED <<sources, ops, up>> /\ \E p : Proceeds(d, p)
          /\ GoodReport' \/ UNCHANGED <<report, ops, up>>
      BY <1>8, LooksFacts, WritePlanFacts, RecordFacts
    <2>2. GoodReport'
      BY <1>1, <2>1 DEF GoodReport
    <2> HIDE DEF Facts
    <2> QED BY <1>3, <2>1, <2>2 DEF sources
  <1>9. ASSUME NEW d \in Deployers, Post(d)
        PROVE  Facts
    <2>1. /\ UNCHANGED <<sources, up>> /\ \E p : Proceeds(d, p) /\ GoodReport'
          /\ \E x : ops' = Append(ops, x)
      BY <1>9, PostFacts
    <2>2. \A o \in DOMAIN ops : o \in DOMAIN ops' /\ ops'[o].items = ops[o].items
      BY <1>1, <2>1
    <2> HIDE DEF Facts
    <2> QED BY <1>3, <2>1, <2>2 DEF sources
  <1> HIDE DEF Facts
  <1>10. Facts
    BY <1>2, <1>4, <1>5, <1>6, <1>7, <1>8, <1>9, Cases DEF Facts
  <1> QED BY <1>10 DEF Facts

LEMMA GoodStep ==
  Good /\ [Next]_vars => Good'
  <1> SUFFICES ASSUME Good, [Next]_vars
               PROVE  Good'
    OBVIOUS
  <1>1. files \in [Slugs -> File] /\ files' \in [Slugs -> File] /\ Grown(files, files')
    BY SourcesStep DEF Good, GoodFiles
  <1>2. /\ GoodReport' /\ release' = [d \in Deployers |-> release'[d]]
        /\ up \subseteq up'
        /\ \A o \in DOMAIN ops : o \in DOMAIN ops' /\ ops'[o].items = ops[o].items
        /\ \A d \in Deployers :
             \/ release'[d] = release[d]
             \/ files' = files /\ up' = up /\ Proceeds(d, release'[d])
    BY RolloutStep
  <1>3. ASSUME NEW d \in Deployers
        PROVE  GoodProcess(release'[d], files', ops', up')
    <2>1. CASE release'[d] = release[d]
      <3>1. GoodProcess(release[d], files, ops, up)
        BY DEF Good, GoodRelease
      <3>2. \A o \in DOMAIN ops : o \in DOMAIN ops' /\ Ids(ops'[o].items) = Ids(ops[o].items)
        BY <1>2
      <3>3. GoodProcess(release[d], files', ops', up')
        BY <1>1, <1>2, <3>1, <3>2, ProcessStays
      <3> QED BY <2>1, <3>3
    <2>2. CASE files' = files /\ up' = up /\ Proceeds(d, release'[d])
      BY <2>2 DEF Proceeds
    <2> QED BY <1>2, <2>1, <2>2
  <1>4. GoodRelease'
    BY <1>2, <1>3 DEF GoodRelease
  <1> QED BY <1>2, <1>4, SourcesStep DEF Good

\* Growth of the registry leaves what is owned owned.
LEMMA OwnedStays ==
  ASSUME NEW before, NEW after, Extends(after, before), NEW items, Owned(items, before)
  PROVE  Owned(items, after)
  BY DEF Extends, Owned

LEMMA ProcessOwnedStays ==
  ASSUME NEW before, NEW after, Extends(after, before), NEW p, OwnedProcess(p, before)
  PROVE  OwnedProcess(p, after)
  BY DEF Extends, Owned, OwnedProcess

LEMMA IdsStep ==
  Good /\ IdsOwned /\ [Next]_vars => IdsOwned'
  <1> SUFFICES ASSUME Good, IdsOwned, [Next]_vars, ~blind'
               PROVE  /\ \A h \in Slugs : \A id \in Carried(files'[h]) :
                           id = None \/ (h \in DOMAIN registry' /\ id = registry'[h].id)
                      /\ \A t \in Tools : tool'[t].at = "finalize" =>
                           /\ tool'[t].game \in DOMAIN registry'
                           /\ tool'[t].id = registry'[tool'[t].game].id
                      /\ \A d \in Deployers : OwnedProcess(release'[d], registry')
                      /\ \A n \in DOMAIN report'.batches : Owned(report'.batches[n].games, registry')
                      /\ \A o \in DOMAIN ops' : Owned(ops'[o].items, registry')
    BY DEF IdsOwned, Carried
  <1> DEFINE FilesOwned == \A h \in Slugs : \A id \in Carried(files'[h]) :
                             id = None \/ (h \in DOMAIN registry' /\ id = registry'[h].id)
             ToolsOwned == \A t \in Tools : tool'[t].at = "finalize" =>
                             /\ tool'[t].game \in DOMAIN registry'
                             /\ tool'[t].id = registry'[tool'[t].game].id
             PlanOwned == \A d \in Deployers : OwnedProcess(release'[d], registry')
             ReportOwned == \A n \in DOMAIN report'.batches : Owned(report'.batches[n].games, registry')
             OpsOwned == \A o \in DOMAIN ops' : Owned(ops'[o].items, registry')
  <1>1. ~blind /\ Extends(registry', registry)
    BY SourcesStep
  <1>2. /\ \A h \in Slugs : \A id \in Carried(files[h]) :
             id = None \/ (h \in DOMAIN registry' /\ id = registry'[h].id)
        /\ \A t \in Tools : tool[t].at = "finalize" =>
             tool[t].game \in DOMAIN registry' /\ tool[t].id = registry'[tool[t].game].id
        /\ \A d \in Deployers : OwnedProcess(release[d], registry')
        /\ \A n \in DOMAIN report.batches : Owned(report.batches[n].games, registry')
        /\ \A o \in DOMAIN ops : Owned(ops[o].items, registry')
    BY <1>1, OwnedStays, ProcessOwnedStays DEF IdsOwned, Extends
  <1> HIDE DEF FilesOwned, ToolsOwned, PlanOwned, ReportOwned, OpsOwned
  <1>3. files' = files => FilesOwned
    BY <1>2 DEF FilesOwned
  <1>4. tool' = tool => ToolsOwned
    BY <1>2 DEF ToolsOwned
  <1>5. UNCHANGED rollout => ReportOwned /\ OpsOwned
    BY <1>2 DEF rollout, ReportOwned, OpsOwned
  <1>6. report' = report => ReportOwned
    BY <1>2 DEF ReportOwned
  <1>7. ops' = ops => OpsOwned
    BY <1>2 DEF OpsOwned
  <1>8. PlanOwned
    <2> SUFFICES ASSUME NEW d \in Deployers
                 PROVE  OwnedProcess(release'[d], registry')
      BY DEF PlanOwned
    <2>1. CASE release'[d] = release[d]
      BY <1>2, <2>1
    <2>2. CASE Proceeds(d, release'[d])
      <3>1. OwnedProcess(release'[d], registry)
        BY <1>1, <2>2 DEF Proceeds, IdsOwned
      <3> QED BY <1>1, <3>1, ProcessOwnedStays
    <2> QED BY <2>1, <2>2, RolloutStep
  <1>9. ASSUME UNCHANGED vars \/ Relist
        PROVE  FilesOwned /\ ToolsOwned /\ ReportOwned /\ OpsOwned
    BY <1>3, <1>4, <1>5, <1>9 DEF vars, rollout, Relist
  <1>10. ASSUME NEW t \in Tools, WriteSynced(t) \/ DiscoverGame(t)
         PROVE  FilesOwned /\ ToolsOwned /\ ReportOwned /\ OpsOwned
    <2>1. files' = files /\ \A u \in Tools : tool'[u].at # "finalize" \/ tool'[u] = tool[u]
      BY <1>10, RegistryFacts
    <2>2. ToolsOwned
      BY <1>2, <2>1 DEF ToolsOwned
    <2> QED BY <1>3, <1>5, <1>10, <2>1, <2>2, RolloutStays
  <1>11. ASSUME NEW t \in Tools, Works(t)
         PROVE  FilesOwned /\ ToolsOwned /\ ReportOwned /\ OpsOwned
    <2>1. /\ registry' = registry /\ files' = files
          /\ \A u \in Tools : \/ tool'[u].at # "finalize"
                              \/ tool'[u] = tool[u]
                              \/ /\ tool'[u].game \in DOMAIN registry
                                 /\ tool'[u].id = registry[tool'[u].game].id
      BY <1>11, WorksFacts
    <2>2. ToolsOwned
      BY <1>2, <2>1 DEF ToolsOwned
    <2> QED BY <1>3, <1>5, <1>11, <2>1, <2>2, RolloutStays
  <1>12. ASSUME NEW t \in Tools, FinalizeEnds(t)
         PROVE  FilesOwned /\ ToolsOwned /\ ReportOwned /\ OpsOwned
    <2>1. /\ tool[t].at = "finalize" /\ tool[t].game \in Slugs
          /\ \A h \in Slugs \ {tool[t].game} : files'[h] = files[h]
          /\ Carried(files'[tool[t].game]) \subseteq Carried(files[tool[t].game]) \cup {tool[t].id}
          /\ tool' = [tool EXCEPT ![t] = Idle]
      BY <1>12, FinalizeFacts DEF Good
    <2>2. FilesOwned
      BY <1>2, <2>1 DEF FilesOwned
    <2>3. \A u \in Tools : tool'[u].at # "finalize" \/ tool'[u] = tool[u]
      BY <2>1 DEF Idle, Good, GoodTools
    <2>4. ToolsOwned
      BY <1>2, <2>3 DEF ToolsOwned
    <2> QED BY <1>5, <1>12, <2>2, <2>4, RolloutStays
  <1>13. ASSUME NEW g \in Slugs, Notes(g)
         PROVE  FilesOwned /\ ToolsOwned /\ ReportOwned /\ OpsOwned
    <2>1. /\ \A h \in Slugs \ {g} : files'[h] = files[h]
          /\ g \in DOMAIN registry
          /\ Carried(files'[g]) \subseteq Carried(files[g]) \cup {registry[g].id}
          /\ UNCHANGED <<registry, tool, rollout>>
      BY <1>13, NotesFacts DEF Good
    <2>2. FilesOwned
      BY <1>2, <2>1 DEF FilesOwned
    <2> QED BY <1>4, <1>5, <2>1, <2>2
  <1>14. ASSUME NEW d \in Deployers, Looks(d)
         PROVE  FilesOwned /\ ToolsOwned /\ ReportOwned /\ OpsOwned
    <2>1. UNCHANGED <<sources, report, ops>>
      BY <1>14, LooksFacts
    <2> QED BY <1>3, <1>4, <1>6, <1>7, <2>1 DEF sources
  <1>15. ASSUME NEW d \in Deployers, WritePlan(d)
         PROVE  FilesOwned /\ ToolsOwned /\ ReportOwned /\ OpsOwned
    <2>1. UNCHANGED <<sources, ops>> /\ release[d].at = "write" /\ report' = release[d].plan
      BY <1>15, WritePlanFacts
    <2>2. ReportOwned
      BY <1>2, <2>1 DEF ReportOwned, OwnedProcess, Planned
    <2> QED BY <1>3, <1>4, <1>7, <2>1, <2>2 DEF sources
  <1>16. ASSUME NEW d \in Deployers, Post(d)
         PROVE  FilesOwned /\ ToolsOwned /\ ReportOwned /\ OpsOwned
    <2> DEFINE n == release[d].batch
               items == release[d].plan.batches[n].games
    <2>1. /\ UNCHANGED <<sources, report>> /\ release[d].at = "execute"
          /\ n \in DOMAIN release[d].plan.batches
          /\ ops' = Append(ops, [items |-> items, status |-> "running"])
      BY <1>16, PostFacts
    <2>2. Owned(items, registry')
      BY <1>2, <2>1 DEF OwnedProcess, Planned
    <2>3. ops \in Seq(Operation)
      BY DEF Good, GoodReport
    <2> HIDE DEF items, n
    <2>4. \A o \in DOMAIN ops' : \/ o \in DOMAIN ops /\ ops'[o] = ops[o]
                                 \/ ops'[o].items = items
      <3> DEFINE q == [items |-> items, status |-> "running"]
      <3>1. q.items = items /\ ops' = Append(ops, q)
        BY <2>1
      <3> HIDE DEF q
      <3> QED BY <2>3, <3>1
    <2>5. OpsOwned
      BY <1>2, <2>2, <2>4 DEF OpsOwned
    <2> QED BY <1>3, <1>4, <1>6, <2>1, <2>5 DEF sources
  <1>17. ASSUME NEW d \in Deployers, Record(d)
         PROVE  FilesOwned /\ ToolsOwned /\ ReportOwned /\ OpsOwned
    <2>1. /\ UNCHANGED <<sources, ops>> /\ release[d].at \in {"posted", "wait"}
          /\ DOMAIN report'.batches = DOMAIN release[d].plan.batches
          /\ \A n \in DOMAIN report'.batches :
               report'.batches[n].games = release[d].plan.batches[n].games
      BY <1>17, RecordFacts
    <2>2. ReportOwned
      BY <1>2, <2>1 DEF ReportOwned, OwnedProcess, Planned
    <2> QED BY <1>3, <1>4, <1>7, <2>1, <2>2 DEF sources
  <1>18. ASSUME NEW o \in DOMAIN ops, Serves(o)
         PROVE  FilesOwned /\ ToolsOwned /\ ReportOwned /\ OpsOwned
    <2>1. /\ UNCHANGED <<sources, report>> /\ DOMAIN ops' = DOMAIN ops
          /\ \A m \in DOMAIN ops : ops'[m].items = ops[m].items
      BY <1>18, ServesFacts
    <2>2. OpsOwned
      BY <1>2, <2>1 DEF OpsOwned
    <2> QED BY <1>3, <1>4, <1>6, <2>1, <2>2 DEF sources
  <1>19. FilesOwned /\ ToolsOwned /\ ReportOwned /\ OpsOwned
    BY <1>9, <1>10, <1>11, <1>12, <1>13, <1>14, <1>15, <1>16, <1>17, <1>18, Cases
  <1> QED BY <1>8, <1>19 DEF FilesOwned, ToolsOwned, PlanOwned, ReportOwned, OpsOwned

-----------------------------------------------------------------------------
(* Theorems.                                                               *)

LEMMA GoodAlways ==
  Spec => [](Good /\ IdsOwned)
  <1>1. Good /\ IdsOwned /\ [Next]_vars => (Good /\ IdsOwned)'
    BY GoodStep, IdsStep
  <1> QED BY First, <1>1, PTL DEF Spec

\* Nothing a game was built, accepted or released under carries the id of
\* another game, as long as no tool has written over a registry it had not read:
\* syncCatalog gives a new game the lowest id that no known game has, and what
\* the other tools write they take from the entry of the game itself.
THEOREM IdsAreNeverShared ==
  Spec => []IdsStayOwn
  <1>1. Good /\ IdsOwned => IdsStayOwn
    <2> SUFFICES ASSUME Good, IdsOwned, ~blind,
                        NEW g \in DOMAIN registry, NEW h \in Slugs \ {g}
                 PROVE  /\ h \in DOMAIN registry => registry[h].id # registry[g].id
                        /\ registry[g].id \notin {files[h].service, files[h].resource,
                                                  files[h].stored.id, files[h].manifest.id}
                        /\ \A o \in DOMAIN ops : [id |-> registry[g].id, slug |-> h] \notin ops[o].items
      BY DEF IdsStayOwn
    <2>1. h \in DOMAIN registry => registry[h].id # registry[g].id
      BY DEF Good, GoodRegistry
    <2>2. registry[g].id # None
      BY DEF Good, GoodRegistry, Game, None
    <2>3. registry[g].id \notin Carried(files[h])
      BY <2>1, <2>2 DEF IdsOwned
    <2>4. \A o \in DOMAIN ops : [id |-> registry[g].id, slug |-> h] \notin ops[o].items
      BY <2>1 DEF IdsOwned, Owned
    <2> QED BY <2>1, <2>3, <2>4 DEF Carried
  <1> QED BY GoodAlways, <1>1, PTL

\* No tool takes from the registry what another tool has put there, unless it
\* writes a copy that is older than the file.
THEOREM KnownGamesAreKept ==
  Spec => KnownIsKept
  <1>1. Good /\ [Next]_vars =>
          (~blind' => \A g \in DOMAIN registry :
             /\ g \in DOMAIN registry' /\ registry'[g].id = registry[g].id
             /\ registry[g].found => registry'[g].found)
    BY SourcesStep DEF Extends
  <1> QED BY GoodAlways, <1>1, PTL DEF Spec, KnownIsKept

\* buildDeployPlan needs no look at the order in which the reports were written,
\* nor at what other tools write while it goes from game to game: a game whose
\* reports agree with a manifest of the file as it is hashed was validated, and
\* found in Mongo, with every document the file has then.
THEOREM OnlyAcceptedIsPlanned ==
  Spec => []PlannedIsAccepted
  <1>1. Good => PlannedIsAccepted
    <2> SUFFICES ASSUME Good, NEW d \in Deployers, release[d].at \in Planned,
                        NEW n \in DOMAIN release[d].plan.batches,
                        NEW x \in release[d].plan.batches[n].games
                 PROVE  LET docs == release[d].judged[x.slug]
                        IN  /\ docs > 0
                            /\ {files[x.slug].validated, files[x.slug].stored.docs,
                                files[x.slug].manifest.docs} \subseteq docs..files[x.slug].docs
      BY DEF PlannedIsAccepted
    <2> DEFINE f == files[x.slug]
               docs == release[d].judged[x.slug]
    <2>1. /\ Judged(release[d].judged, files)
          /\ x.slug \in DOMAIN release[d].judged /\ docs > 0
      BY DEF Good, GoodRelease, GoodProcess
    <2>2. /\ x.slug \in Slugs /\ docs \in Nat
          /\ docs <= f.validated /\ docs <= f.stored.docs /\ docs <= f.manifest.docs
      BY <2>1 DEF Judged
    <2>3. /\ f.docs \in Nat /\ f.validated \in Nat /\ f.stored.docs \in Nat /\ f.manifest.docs \in Nat
          /\ f.manifest.docs <= f.docs /\ f.validated <= f.docs /\ f.stored.docs <= f.docs
      BY <2>2 DEF Good, GoodFiles, File
    <2> QED BY <2>1, <2>2, <2>3
  <1> QED BY GoodAlways, <1>1, PTL

\* A step in which a process that has planned moves is one of that process.
LEMMA PlannedStep ==
  ASSUME Good, [Next]_vars, NEW d \in Deployers, release'[d] # release[d], release[d].at \in Planned
  PROVE  Looks(d) \/ WritePlan(d) \/ Post(d) \/ Record(d)
  <1>1. ASSUME UNCHANGED release
        PROVE  FALSE
    BY <1>1
  <1>2. ASSUME NEW e \in Deployers, Looks(e) \/ WritePlan(e) \/ Post(e) \/ Record(e)
        PROVE  e = d
    <2>1. \E p : Proceeds(e, p)
      BY <1>2, LooksFacts, WritePlanFacts, PostFacts, RecordFacts
    <2>2. PICK p : release' = [release EXCEPT ![e] = p]
      BY <2>1 DEF Proceeds
    <2> QED BY <2>2 DEF Good, GoodRelease
  <1>3. CASE UNCHANGED vars \/ Relist
    BY <1>1, <1>3 DEF vars, Relist, rollout
  <1>4. ASSUME NEW t \in Tools, WriteSynced(t) \/ DiscoverGame(t) \/ Works(t) \/ FinalizeEnds(t)
        PROVE  UNCHANGED release
    BY <1>4, RolloutStays DEF rollout
  <1>5. ASSUME NEW g \in Slugs, Notes(g)
        PROVE  UNCHANGED release
    BY <1>5, NotesFacts DEF Good, rollout
  <1>6. ASSUME NEW o \in DOMAIN ops, Serves(o)
        PROVE  UNCHANGED release
    BY <1>6, ServesFacts
  <1> QED BY <1>1, <1>2, <1>3, <1>4, <1>5, <1>6, Cases

\* As long as nobody else has written the report since a process read or wrote
\* it, mergeDeploymentProgress keeps the operation of a batch, executeBatch
\* refuses what is not pending, and what the process notes is what it posted.
THEOREM OperationsAreNotRepeated ==
  Spec => RecordedIsNotRepeated
  <1> DEFINE Kept ==
        \A d \in Deployers :
          release'[d] # release[d] /\ release[d].at \in Planned /\ report = LastSeen(release[d])
            => \A n \in DOMAIN report.batches : report.batches[n].op # None =>
                 /\ n \in DOMAIN report'.batches /\ Ids(report'.batches[n].games) = Ids(report.batches[n].games)
                    => report'.batches[n].op = report.batches[n].op
                 /\ Len(ops') > Len(ops) => Ids(report.batches[n].games) # Ids(ops'[Len(ops')].items)
  <1>1. Good /\ [Next]_vars => Kept
    <2> SUFFICES ASSUME Good, [Next]_vars, NEW d \in Deployers, release'[d] # release[d],
                        release[d].at \in Planned, report = LastSeen(release[d]),
                        NEW n \in DOMAIN report.batches, report.batches[n].op # None
                 PROVE  /\ n \in DOMAIN report'.batches
                             /\ Ids(report'.batches[n].games) = Ids(report.batches[n].games)
                           => report'.batches[n].op = report.batches[n].op
                        /\ Len(ops') > Len(ops)
                           => Ids(report.batches[n].games) # Ids(ops'[Len(ops')].items)
      OBVIOUS
    <2>1. ops \in Seq(Operation) /\ Len(ops) \in Nat /\ GoodPlan(report)
      BY DEF Good, GoodReport
    <2>2. GoodProcess(release[d], files, ops, up)
      BY DEF Good, GoodRelease
    <2>3. CASE Looks(d)
      <3>1. report' = report /\ ops' = ops
        BY <2>3, LooksFacts
      <3> QED BY <2>1, <3>1
    <2>4. CASE WritePlan(d)
      <3>1. ops' = ops /\ release[d].at = "write" /\ report' = release[d].plan
        BY <2>4, WritePlanFacts
      <3>2. Keeps(report', report)
        BY <2>2, <3>1 DEF GoodProcess, LastSeen
      <3> QED BY <2>1, <3>1, <3>2 DEF Keeps
    <2>5. CASE Post(d)
      <3> DEFINE m == release[d].batch
                 q == [items |-> release[d].plan.batches[m].games, status |-> "running"]
      <3>1. /\ report' = report /\ release[d].at = "execute"
            /\ m \in DOMAIN release[d].plan.batches /\ release[d].plan.batches[m].op = None
            /\ ops' = Append(ops, q)
        BY <2>5, PostFacts
      <3>2. report = release[d].plan
        BY <3>1 DEF LastSeen
      <3>3. q.items = report.batches[m].games
        BY <3>2
      <3> HIDE DEF q, m
      <3>4. ops'[Len(ops')] = q
        BY <2>1, <3>1
      <3>5. Ids(report.batches[n].games) # Ids(report.batches[m].games)
        BY <2>1, <3>1, <3>2 DEF GoodPlan
      <3> QED BY <3>1, <3>3, <3>4, <3>5
    <2>6. CASE Record(d)
      <3>1. /\ ops' = ops /\ release[d].at \in {"posted", "wait"}
            /\ \A m \in DOMAIN report'.batches :
                 release[d].plan.batches[m].op # None
                   => report'.batches[m].op = release[d].plan.batches[m].op
        BY <2>6, RecordFacts
      <3>2. report = release[d].plan
        BY <3>1 DEF LastSeen
      <3> QED BY <2>1, <3>1, <3>2
    <2> QED BY <2>3, <2>4, <2>5, <2>6, PlannedStep
  <1> HIDE DEF Kept
  <1>2. Spec => [][Kept]_vars
    BY GoodAlways, <1>1, PTL DEF Spec
  <1> QED BY <1>2 DEF RecordedIsNotRepeated, Kept

\* What a report or a plan tells of a completed batch stays true, whoever wrote
\* it: a batch is posted only when the services of the earlier ones have come up.
THEOREM BatchesGoInOrder ==
  Spec => PostedInOrder
  <1> DEFINE Ordered ==
        \A d \in Deployers :
          release[d].at = "execute" /\ release'[d].at = "posted"
            => \A k \in DOMAIN release[d].plan.batches :
                 k < release[d].batch => Ids(release[d].plan.batches[k].games) \subseteq up
  <1>1. Good /\ [Next]_vars => Ordered
    <2> SUFFICES ASSUME Good, [Next]_vars, NEW d \in Deployers, release[d].at = "execute",
                        release'[d].at = "posted"
                 PROVE  \A k \in DOMAIN release[d].plan.batches :
                          k < release[d].batch => Ids(release[d].plan.batches[k].games) \subseteq up
      OBVIOUS
    <2>1. Looks(d) \/ WritePlan(d) \/ Post(d) \/ Record(d)
      BY PlannedStep DEF Planned
    <2>2. ~WritePlan(d) /\ ~Record(d)
      BY DEF WritePlan, Record
    <2>3. CASE Looks(d)
      <3>1. Refuse(d) \/ Leave(d)
        BY <2>3 DEF Looks, StartRelease, AskServices, ReadReports, HashFile, ReadPrior, Idle
      <3>2. release'[d] = Idle
        BY <3>1 DEF Refuse, Leave, Goes, Good, GoodRelease
      <3> QED BY <3>2 DEF Idle
    <2>4. CASE Post(d)
      BY <2>4, PostFacts
    <2> QED BY <2>1, <2>2, <2>3, <2>4
  <1> HIDE DEF Ordered
  <1>2. Spec => [][Ordered]_vars
    BY GoodAlways, <1>1, PTL DEF Spec
  <1> QED BY <1>2 DEF PostedInOrder, Ordered

=============================================================================
